----------------------------- MODULE DataLemmas ------------------------------
(***************************************************************************)
(* Facts about data that the other proofs share.  First what Front and     *)
(* Last of the community modules return (the VM's stack and the parser's   *)
(* call stack are sequences whose last element is the top), induction over *)
(* numbers, and what flattening and adding up do to a concatenation: the   *)
(* induction theorems of the library take an operator, which no prover     *)
(* here can instantiate; these take a set or a function instead.  Then the *)
(* texts of Grammar, without a parser: expressions and what they are made  *)
(* of, the trees of a heap that stand for a stretch of tokens, and the     *)
(* statements of a text of expressions and prints.                         *)
(***************************************************************************)
EXTENDS Grammar, SequencesExt, SequenceTheorems, WellFoundedInduction, TLAPS

\* Short tuples.
LEMMA Tuples ==
  ASSUME NEW S
  PROVE  /\ << >> \in Seq(S) /\ Len(<< >>) = 0
         /\ \A a \in S : <<a>> \in Seq(S) /\ Len(<<a>>) = 1 /\ <<a>>[1] = a
         /\ \A a, b \in S : <<a, b>> \in Seq(S) /\ Len(<<a, b>>) = 2
  OBVIOUS

LEMMA FrontLast ==
  ASSUME NEW S, NEW s \in Seq(S), s # << >>
  PROVE  /\ Front(s) \in Seq(S)
         /\ Len(Front(s)) = Len(s) - 1
         /\ Last(s) \in S
         /\ Last(s) = s[Len(s)]
         /\ \A i \in 1 .. Len(s) - 1 : Front(s)[i] = s[i]
<1> DEFINE n     == Len(s)
           front == SubSeq(s, 1, n - 1)
<1>1. n \in Nat \ {0}
  BY EmptySeq
<1>2. \A i \in 1 .. n : s[i] \in S
  BY ElementOfSeq
<1>3. s[n] \in S
  BY <1>1, <1>2
<1>4. /\ front \in Seq(S)
      /\ Len(front) = IF 1 <= n - 1 THEN n - 1 - 1 + 1 ELSE 0
      /\ \A i \in 1 .. n - 1 - 1 + 1 : front[i] = s[1 + i - 1]
  <2>1. \A i \in 1 .. n - 1 : s[i] \in S
    BY <1>1, <1>2
  <2>2. 1 \in Int /\ n - 1 \in Int
    BY <1>1
  <2> HIDE DEF n
  <2> QED BY <2>1, <2>2, SubSeqProperties
<1>5. Front(s) = front /\ Last(s) = s[n]
  BY DEF Front, Last
<1> HIDE DEF n, front
<1>6. Len(front) = n - 1 /\ \A i \in 1 .. n - 1 : front[i] = s[i]
  BY <1>1, <1>4
<1>7. /\ front \in Seq(S) /\ Len(front) = n - 1 /\ s[n] \in S
      /\ \A i \in 1 .. n - 1 : front[i] = s[i]
  BY <1>3, <1>4, <1>6
<1> QED BY <1>5, <1>7 DEF n

\* A stack after a push.
LEMMA FrontLastAppend ==
  ASSUME NEW S, NEW s \in Seq(S), NEW e \in S
  PROVE  /\ Append(s, e) \in Seq(S) /\ Append(s, e) # << >>
         /\ Len(Append(s, e)) = Len(s) + 1
         /\ Front(Append(s, e)) = s /\ Last(Append(s, e)) = e
<1> DEFINE a == Append(s, e)
<1>1. /\ a \in Seq(S) /\ a # << >> /\ Len(a) = Len(s) + 1 /\ Len(s) \in Nat
      /\ \A i \in 1 .. Len(s) : a[i] = s[i]
      /\ a[Len(s) + 1] = e
  BY AppendProperties, LenProperties
<1> HIDE DEF a
<1>2. /\ Front(a) \in Seq(S) /\ Len(Front(a)) = Len(a) - 1 /\ Last(a) = a[Len(a)]
      /\ \A i \in 1 .. Len(a) - 1 : Front(a)[i] = a[i]
  BY <1>1, FrontLast
<1>3. Front(a) = s
  BY <1>1, <1>2, SeqEqual
<1> QED BY <1>1, <1>2, <1>3 DEF a

-----------------------------------------------------------------------------
\* A set of numbers has a least element.
LEMMA LeastNumber ==
  ASSUME NEW S, S \subseteq Nat, S # {}
  PROVE  \E m \in S : \A n \in S : m <= n
<1> DEFINE R == OpToRel(<, Nat)
<1>1. IsWellFoundedOn(R, Nat)
  BY NatLessThanWellFounded
<1>2. \A x, y \in Nat : x < y => <<x, y>> \in R
  BY DEF OpToRel
<1> HIDE DEF R
<1>3. PICK m \in S : \A n \in S : ~ (<<n, m>> \in R)
  BY <1>1, WFMin
<1>4. ASSUME NEW n \in S
      PROVE  m <= n
  <2>1. m \in Nat /\ n \in Nat
    OBVIOUS
  <2>2. ~ (n < m)
    BY <1>2, <1>3, <2>1
  <2> QED BY <2>1, <2>2
<1> QED BY <1>4

\* ... and, below a bound, a largest one.
LEMMA LargestIs ==
  ASSUME NEW n \in Nat, NEW S, S \subseteq 1 .. n, S # {}
  PROVE  \E m \in S : \A k \in S : k <= m
<1> DEFINE T == {n - k : k \in S}
<1>1. T \subseteq Nat /\ T # {}
  <2>1. \A k \in 1 .. n : n - k \in Nat
    OBVIOUS
  <2>2. \A k \in S : n - k \in Nat
    BY <2>1
  <2> QED BY <2>2
<1>2. PICK t \in T : \A u \in T : t <= u
  <2> HIDE DEF T
  <2> QED BY <1>1, LeastNumber
<1>3. PICK m \in S : t = n - m
  OBVIOUS
<1>4. \A k \in S : n - m <= n - k /\ k \in Int
  BY <1>2, <1>3
<1>5. m \in Int
  BY <1>4
<1> QED BY <1>4, <1>5

\* Induction over an interval: a set that contains a number whenever it
\* contains the smaller ones contains all.
LEMMA IntervalInduction ==
  ASSUME NEW n \in Nat, NEW S,
         \A k \in 1 .. n : (\A i \in 1 .. k - 1 : i \in S) => k \in S
  PROVE  \A k \in 1 .. n : k \in S
<1> DEFINE Bad == {k \in 1 .. n : k \notin S}
<1>1. CASE Bad = {}
  BY <1>1
<1>2. CASE Bad # {}
  <2>1. Bad \subseteq Nat
    OBVIOUS
  <2>2. PICK m \in Bad : \A i \in Bad : m <= i
    <3> HIDE DEF Bad
    <3> QED BY <1>2, <2>1, LeastNumber
  <2>3. m \in 1 .. n /\ m \notin S
    OBVIOUS
  <2>4. ASSUME NEW i \in 1 .. m - 1
        PROVE  i \in S
    <3>1. i \in 1 .. n /\ ~ (m <= i)
      BY <2>3
    <3> QED BY <2>2, <3>1
  <2> QED BY <2>3, <2>4
<1> QED BY <1>1, <1>2

-----------------------------------------------------------------------------
\* Induction from each number to the next.
LEMMA StepInduction ==
  ASSUME NEW n \in Nat, NEW S, 0 \in S,
         \A k \in 1 .. n : k - 1 \in S => k \in S
  PROVE  \A k \in 0 .. n : k \in S
<1> DEFINE T == {k \in 1 .. n + 1 : k - 1 \in S}
<1>1. ASSUME NEW k \in 1 .. n + 1, \A i \in 1 .. k - 1 : i \in T
      PROVE  k \in T
  <2>1. CASE k = 1
    BY <2>1
  <2>2. CASE k # 1
    <3>1. k - 1 \in 1 .. n /\ k - 1 \in 1 .. k - 1
      BY <2>2
    <3>2. (k - 1) - 1 \in S
      BY <1>1, <3>1
    <3> QED BY <3>1, <3>2
  <2> QED BY <2>1, <2>2
<1>2. \A k \in 1 .. n + 1 : k \in T
  <2>1. n + 1 \in Nat
    OBVIOUS
  <2> HIDE DEF T
  <2> QED BY <1>1, <2>1, IntervalInduction
<1>3. ASSUME NEW k \in 0 .. n
      PROVE  k \in S
  <2>1. k + 1 \in 1 .. n + 1 /\ (k + 1) - 1 = k
    OBVIOUS
  <2>2. k + 1 \in T
    BY <1>2, <2>1
  <2> QED BY <2>1, <2>2
<1> QED BY <1>3

-----------------------------------------------------------------------------
\* A recursive definition of a function from D to V gives its value at k as
\* F[k][f], which depends on the values of f at Below[k] only.
Recurses(F, Below, D, V) ==
  /\ \A k \in D : \A g \in [D -> V] : F[k][g] \in V
  /\ \A k \in D : \A g, h \in [D -> V] :
       (\A i \in Below[k] : g[i] = h[i]) => F[k][g] = F[k][h]

Solvable(F, D, V) == \E f \in [D -> V] : \A k \in D : f[k] = F[k][f]

\* It has a solution, if the members of Below[k] have a smaller rank than k.
Ranked(rank, n, D, Below) ==
  /\ rank \in [D -> 1 .. n]
  /\ \A k \in D : \A i \in Below[k] : i \in D /\ rank[i] < rank[k]

LEMMA RankedRecursion ==
  ASSUME NEW n \in Nat, NEW D, NEW rank, NEW Below, Ranked(rank, n, D, Below),
         NEW V, NEW v, v \in V, NEW F, Recurses(F, Below, D, V)
  PROVE  Solvable(F, D, V)
<1> DEFINE Good(m) == {g \in [D -> V] : \A k \in D : rank[k] <= m => g[k] = F[k][g]}
           S == {m \in 0 .. n : Good(m) # {}}
<1>0. /\ \A k \in D : rank[k] \in 1 .. n
      /\ \A k \in D : \A i \in Below[k] : i \in D /\ rank[i] < rank[k]
  BY DEF Ranked
<1>1. /\ \A k \in D : \A g \in [D -> V] : F[k][g] \in V
      /\ \A k \in D : \A g, h \in [D -> V] :
           (\A i \in Below[k] : g[i] = h[i]) => F[k][g] = F[k][h]
  BY DEF Recurses
<1>2. 0 \in S
  <2>1. \A k \in D : ~ (rank[k] <= 0)
    BY <1>0
  <2>2. [i \in D |-> v] \in Good(0)
    BY <2>1
  <2> QED BY <2>2
<1>3. ASSUME NEW m \in 1 .. n, m - 1 \in S
      PROVE  m \in S
  <2>1. PICK g \in Good(m - 1) : TRUE
    BY <1>3
  <2>2. g \in [D -> V] /\ \A k \in D : rank[k] <= m - 1 => g[k] = F[k][g]
    BY <2>1
  <2> DEFINE h == [k \in D |-> IF rank[k] = m THEN F[k][g] ELSE g[k]]
  <2>3. h \in [D -> V]
    BY <1>1, <2>2
  <2>4. \A k \in D : h[k] = IF rank[k] = m THEN F[k][g] ELSE g[k]
    OBVIOUS
  <2> HIDE DEF h
  <2>5. ASSUME NEW k \in D, rank[k] <= m
        PROVE  h[k] = F[k][h]
    <3>1. \A i \in Below[k] : g[i] = h[i]
      <4> SUFFICES ASSUME NEW i \in Below[k]
                   PROVE  g[i] = h[i]
        OBVIOUS
      <4>1. i \in D /\ rank[i] # m
        BY <1>0, <2>5
      <4> QED BY <2>4, <4>1
    <3>2. F[k][g] = F[k][h]
      BY <1>1, <2>2, <2>3, <3>1
    <3>3. rank[k] # m => rank[k] <= m - 1
      BY <1>0, <2>5
    <3> QED BY <2>2, <2>4, <3>2, <3>3
  <2>6. h \in Good(m)
    BY <2>3, <2>5
  <2> QED BY <2>6
<1> HIDE DEF S
<1>4. n \in S
  <2>1. n \in 0 .. n
    OBVIOUS
  <2> QED BY <1>2, <1>3, <2>1, StepInduction
<1>5. PICK f \in [D -> V] : \A k \in D : rank[k] <= n => f[k] = F[k][f]
  BY <1>4 DEF S
<1>6. \A k \in D : f[k] = F[k][f]
  BY <1>0, <1>5
<1> QED BY <1>6 DEF Solvable

\* Over numbers, if they are smaller than k.
LEMMA Recursion ==
  ASSUME NEW n \in Nat, NEW D, D = 1 .. n, NEW V, NEW v, v \in V, NEW F,
         NEW Below, \A k \in D : Below[k] \subseteq 1 .. k - 1,
         Recurses(F, Below, D, V)
  PROVE  Solvable(F, D, V)
<1> DEFINE rank == [k \in D |-> k]
<1>1. \A k \in D : \A i \in Below[k] : i \in D /\ rank[i] < rank[k]
  <2> SUFFICES ASSUME NEW k \in D, NEW i \in Below[k]
               PROVE  i \in D /\ i < k
    OBVIOUS
  <2>1. i \in 1 .. k - 1
    OBVIOUS
  <2> QED BY <2>1
<1>2. rank \in [D -> 1 .. n]
  OBVIOUS
<1> HIDE DEF rank
<1>3. Ranked(rank, n, D, Below)
  BY <1>1, <1>2 DEF Ranked
<1> QED BY <1>3, RankedRecursion

\* A function given by its first value and by how the next value, G[k][v],
\* follows from the one before.
Chains(G, n, V) == \A k \in 1 .. n : \A v \in V : G[k][v] \in V

HasChain(G, n, V, v0) ==
  \E f \in [0 .. n -> V] :
    f[0] = v0 /\ \A k \in 1 .. n : f[k] = G[k][f[k - 1]]

LEMMA Chain ==
  ASSUME NEW n \in Nat, NEW V, NEW v0 \in V, NEW G, Chains(G, n, V)
  PROVE  HasChain(G, n, V, v0)
<1> DEFINE Good(m) == {g \in [0 .. n -> V] :
                         g[0] = v0 /\ \A k \in 1 .. m : g[k] = G[k][g[k - 1]]}
           S == {m \in 0 .. n : Good(m) # {}}
<1>1. 0 \in S
  <2>1. [k \in 0 .. n |-> v0] \in Good(0)
    OBVIOUS
  <2> QED BY <2>1
<1>2. ASSUME NEW m \in 1 .. n, m - 1 \in S
      PROVE  m \in S
  <2>1. PICK g \in [0 .. n -> V] :
          g[0] = v0 /\ \A k \in 1 .. m - 1 : g[k] = G[k][g[k - 1]]
    BY <1>2
  <2> DEFINE h == [g EXCEPT ![m] = G[m][g[m - 1]]]
  <2>2. G[m][g[m - 1]] \in V
    BY DEF Chains
  <2>3. h \in [0 .. n -> V] /\ h[m] = G[m][g[m - 1]]
        /\ \A k \in 0 .. m - 1 : h[k] = g[k]
    BY <2>2
  <2> HIDE DEF h
  <2>4. ASSUME NEW k \in 1 .. m
        PROVE  h[k] = G[k][h[k - 1]]
    <3>1. k - 1 \in 0 .. m - 1 /\ (k = m \/ k \in 1 .. m - 1)
      OBVIOUS
    <3> QED BY <2>1, <2>3, <3>1
  <2>5. h[0] = v0
    BY <2>1, <2>3
  <2>6. h \in Good(m)
    BY <2>3, <2>4, <2>5
  <2> QED BY <2>6
<1>3. \A m \in 0 .. n : m \in S
  <2> HIDE DEF S
  <2> QED BY <1>1, <1>2, StepInduction
<1>4. n \in S
  <2> HIDE DEF S
  <2> QED BY <1>3
<1>5. PICK f \in Good(n) : TRUE
  BY <1>4
<1> QED BY <1>5 DEF HasChain

\* Two sequences without repetitions, one after the other.
LEMMA ConcatOnce ==
  ASSUME NEW S, NEW s \in Seq(S), NEW t \in Seq(S),
         IsInjective(s), IsInjective(t), Range(s) \cap Range(t) = {}
  PROVE  IsInjective(s \o t) /\ Range(s \o t) = Range(s) \cup Range(t)
<1> DEFINE m == Len(s)
           n == Len(t)
           u == s \o t
<1>1. /\ m \in Nat /\ n \in Nat /\ u \in Seq(S) /\ Len(u) = m + n
      /\ DOMAIN s = 1 .. m /\ DOMAIN t = 1 .. n /\ DOMAIN u = 1 .. m + n
      /\ \A i \in 1 .. m + n : u[i] = IF i <= m THEN s[i] ELSE t[i - m]
  BY ConcatProperties, LenProperties
<1> HIDE DEF m, n, u
<1>2. \A i \in 1 .. m : u[i] = s[i] /\ s[i] \in Range(s)
  <2>1. \A i \in 1 .. m : u[i] = s[i]
    BY <1>1
  <2>2. \A i \in 1 .. m : s[i] \in Range(s)
    BY <1>1, Zenon DEF Range
  <2> QED BY <2>1, <2>2
<1>3. \A i \in m + 1 .. m + n :
        u[i] = t[i - m] /\ i - m \in 1 .. n /\ t[i - m] \in Range(t)
  <2>1. \A i \in m + 1 .. m + n : u[i] = t[i - m] /\ i - m \in 1 .. n
    BY <1>1
  <2>2. \A j \in 1 .. n : t[j] \in Range(t)
    BY <1>1, Zenon DEF Range
  <2> QED BY <2>1, <2>2
<1>4. \A i \in 1 .. m + n : i \in 1 .. m \/ i \in m + 1 .. m + n
  BY <1>1
<1>5. IsInjective(u)
  <2> SUFFICES ASSUME NEW i \in 1 .. m + n, NEW j \in 1 .. m + n, u[i] = u[j]
               PROVE  i = j
    BY <1>1 DEF IsInjective
  <2>1. CASE i \in 1 .. m /\ j \in 1 .. m
    BY <1>1, <1>2, <2>1 DEF IsInjective
  <2>2. CASE i \in m + 1 .. m + n /\ j \in m + 1 .. m + n
    <3>1. t[i - m] = t[j - m] /\ i - m \in 1 .. n /\ j - m \in 1 .. n
      BY <1>3, <2>2
    <3>2. i - m = j - m
      BY <1>1, <3>1 DEF IsInjective
    <3> QED BY <1>1, <3>2
  <2>3. CASE i \in 1 .. m /\ j \in m + 1 .. m + n
    BY <1>2, <1>3, <2>3
  <2>4. CASE i \in m + 1 .. m + n /\ j \in 1 .. m
    BY <1>2, <1>3, <2>4
  <2> QED BY <1>4, <2>1, <2>2, <2>3, <2>4
<1> QED BY <1>5, RangeConcatenation DEF u

LEMMA EmptyOnce == IsInjective(<< >>) /\ Range(<< >>) = {}
BY DEF IsInjective, Range

LEMMA OneOnce ==
  ASSUME NEW S, NEW e \in S
  PROVE  <<e>> \in Seq(S) /\ IsInjective(<<e>>) /\ Range(<<e>>) = {e}
BY DEF IsInjective, Range

\* What is left of one without repetitions.
LEMMA HeadTailOnce ==
  ASSUME NEW S, NEW s \in Seq(S), s # << >>, IsInjective(s)
  PROVE  /\ Head(s) \in S /\ Tail(s) \in Seq(S)
         /\ Head(s) \notin Range(Tail(s)) /\ IsInjective(Tail(s))
         /\ Range(s) = {Head(s)} \cup Range(Tail(s))
<1> DEFINE n == Len(s)
           t == Tail(s)
<1>1. /\ n \in Nat \ {0} /\ DOMAIN s = 1 .. n /\ Head(s) = s[1]
      /\ \A i \in 1 .. n : s[i] \in S
  BY EmptySeq, LenProperties, ElementOfSeq
<1>2. /\ t \in Seq(S) /\ DOMAIN t = 1 .. n - 1
      /\ \A i \in 1 .. n - 1 : t[i] = s[i + 1]
  BY <1>1, HeadTailProperties, LenProperties
<1> HIDE DEF n, t
<1>3. Head(s) \notin Range(t)
  <2> SUFFICES ASSUME NEW i \in 1 .. n - 1, t[i] = s[1]
               PROVE  FALSE
    BY <1>1, <1>2 DEF Range
  <2>1. s[i + 1] = s[1] /\ i + 1 \in 1 .. n /\ 1 \in 1 .. n /\ i + 1 # 1
    BY <1>1, <1>2
  <2> QED BY <1>1, <2>1 DEF IsInjective
<1>4. IsInjective(t)
  <2> SUFFICES ASSUME NEW i \in 1 .. n - 1, NEW j \in 1 .. n - 1, t[i] = t[j]
               PROVE  i = j
    BY <1>2 DEF IsInjective
  <2>1. s[i + 1] = s[j + 1] /\ i + 1 \in 1 .. n /\ j + 1 \in 1 .. n
    BY <1>1, <1>2
  <2>2. i + 1 = j + 1
    BY <1>1, <2>1 DEF IsInjective
  <2> QED BY <2>2
<1>5. Range(s) = {Head(s)} \cup Range(t)
  <2>1. ASSUME NEW i \in 1 .. n
        PROVE  s[i] \in {Head(s)} \cup Range(t)
    <3>1. CASE i = 1
      BY <1>1, <3>1
    <3>2. CASE i # 1
      <4>1. i - 1 \in 1 .. n - 1 /\ t[i - 1] = s[i]
        BY <1>1, <1>2, <3>2
      <4> QED BY <1>2, <4>1 DEF Range
    <3> QED BY <3>1, <3>2
  <2>2. ASSUME NEW i \in 1 .. n - 1
        PROVE  t[i] \in Range(s)
    <3>1. i + 1 \in 1 .. n /\ t[i] = s[i + 1]
      BY <1>1, <1>2
    <3> QED BY <1>1, <3>1 DEF Range
  <2>3. Head(s) \in Range(s)
    BY <1>1 DEF Range
  <2>4. Range(s) \subseteq {Head(s)} \cup Range(t)
    BY <1>1, <2>1 DEF Range
  <2>5. Range(t) \subseteq Range(s)
    BY <1>2, <2>2 DEF Range
  <2> QED BY <2>3, <2>4, <2>5
<1> QED BY <1>1, <1>2, <1>3, <1>4, <1>5 DEF t

-----------------------------------------------------------------------------
\* A sequence and its last element.
LEMMA FrontAndLast ==
  ASSUME NEW S, NEW s \in Seq(S), s # << >>
  PROVE  s = Front(s) \o <<Last(s)>> /\ <<Last(s)>> \in Seq(S)
<1>1. /\ Front(s) \in Seq(S) /\ Len(Front(s)) = Len(s) - 1 /\ Last(s) \in S
      /\ Last(s) = s[Len(s)] /\ \A i \in 1 .. Len(s) - 1 : Front(s)[i] = s[i]
  BY FrontLast
<1>2. Len(s) \in Nat \ {0}
  BY EmptySeq, LenProperties
<1> DEFINE a == Front(s)
           b == <<Last(s)>>
<1>3. b \in Seq(S) /\ Len(b) = 1 /\ b[1] = s[Len(s)]
  BY <1>1
<1> HIDE DEF a, b
<1>4. /\ a \o b \in Seq(S) /\ Len(a \o b) = Len(s) - 1 + 1
      /\ \A i \in 1 .. Len(s) - 1 + 1 :
           (a \o b)[i] = IF i <= Len(s) - 1 THEN a[i] ELSE b[i - (Len(s) - 1)]
  <2>1. a \in Seq(S) /\ Len(a) = Len(s) - 1
    BY <1>1 DEF a
  <2>2. /\ a \o b \in Seq(S) /\ Len(a \o b) = Len(a) + Len(b)
        /\ \A i \in 1 .. Len(a) + Len(b) :
             (a \o b)[i] = IF i <= Len(a) THEN a[i] ELSE b[i - Len(a)]
    BY <1>3, <2>1, ConcatProperties
  <2> QED BY <1>3, <2>1, <2>2
<1>5. Len(a \o b) = Len(s)
  BY <1>2, <1>4
<1>6. ASSUME NEW i \in 1 .. Len(s)
      PROVE  (a \o b)[i] = s[i]
  <2>1. CASE i <= Len(s) - 1
    <3>1. i \in 1 .. Len(s) - 1 /\ i \in 1 .. Len(s) - 1 + 1
      BY <1>2, <2>1
    <3> QED BY <1>1, <1>4, <2>1, <3>1 DEF a
  <2>2. CASE ~ i <= Len(s) - 1
    <3>1. i = Len(s) /\ i - (Len(s) - 1) = 1 /\ i \in 1 .. Len(s) - 1 + 1
      BY <1>2, <2>2
    <3> QED BY <1>3, <1>4, <2>2, <3>1
  <2> QED BY <2>1, <2>2
<1>7. a \o b = s
  BY <1>4, <1>5, <1>6, SeqEqual
<1> QED BY <1>3, <1>7 DEF a, b

LEMMA FrontLastConcat ==
  ASSUME NEW S, NEW s \in Seq(S), NEW t \in Seq(S), t # << >>
  PROVE  /\ Front(s \o t) = s \o Front(t) /\ Last(s \o t) = Last(t)
         /\ s \o Front(t) \in Seq(S) /\ s \o t \in Seq(S) /\ s \o t # << >>
<1> DEFINE a == Front(t)
           e == Last(t)
<1>1. a \in Seq(S) /\ e \in S /\ t = a \o <<e>> /\ <<e>> \in Seq(S)
  BY FrontLast, FrontAndLast
<1> HIDE DEF a, e
<1>2. s \o t = (s \o a) \o <<e>>
  BY <1>1, ConcatAssociative
<1>3. s \o a \in Seq(S)
  BY <1>1, ConcatProperties
<1>4. Append(s \o a, e) = (s \o a) \o <<e>>
  BY <1>1, <1>3, AppendIsConcat
<1>5. /\ Append(s \o a, e) \in Seq(S) /\ Append(s \o a, e) # << >>
      /\ Front(Append(s \o a, e)) = s \o a /\ Last(Append(s \o a, e)) = e
  BY <1>1, <1>3, FrontLastAppend
<1> QED BY <1>2, <1>3, <1>4, <1>5 DEF a, e

\* The first tokens of a sequence.
Split(s, S) ==
  /\ Len(s) \in Nat
  /\ \A n \in 0 .. Len(s) : SubSeq(s, 1, n) \in Seq(S)
  /\ SubSeq(s, 1, 0) = << >> /\ SubSeq(s, 1, Len(s)) = s
  /\ \A n \in 1 .. Len(s) :
       /\ SubSeq(s, 1, n) = SubSeq(s, 1, n - 1) \o <<s[n]>>
       /\ s[n] \in S /\ <<s[n]>> \in Seq(S)

LEMMA FirstParts ==
  ASSUME NEW S, NEW s \in Seq(S)
  PROVE  Split(s, S)
<1>1. Len(s) \in Nat /\ \A i \in 1 .. Len(s) : s[i] \in S
  BY LenProperties, ElementOfSeq
<1>2. ASSUME NEW n \in 0 .. Len(s)
      PROVE  /\ SubSeq(s, 1, n) \in Seq(S) /\ Len(SubSeq(s, 1, n)) = n
             /\ \A i \in 1 .. n : SubSeq(s, 1, n)[i] = s[i]
  <2>1. 1 \in 1 .. Len(s) + 1 /\ n \in 1 - 1 .. Len(s)
    BY <1>1
  <2>2. /\ SubSeq(s, 1, n) \in Seq(S)
        /\ Len(SubSeq(s, 1, n)) = n - 1 + 1
        /\ \A i \in 1 .. n - 1 + 1 : SubSeq(s, 1, n)[i] = s[1 + i - 1]
    BY <1>1, <2>1, SubSeqProperties
  <2>3. n - 1 + 1 = n /\ \A i \in 1 .. n : 1 + i - 1 = i
    BY <1>1
  <2> QED BY <2>2, <2>3
<1>3. SubSeq(s, 1, 0) = << >>
  <2>1. SubSeq(s, 1, 0) \in Seq(S) /\ Len(SubSeq(s, 1, 0)) = 0
    BY <1>1, <1>2
  <2> QED BY <2>1, EmptySeq
<1>4. SubSeq(s, 1, Len(s)) = s
  <2> DEFINE u == SubSeq(s, 1, Len(s))
  <2>1. u \in Seq(S) /\ Len(u) = Len(s) /\ \A i \in 1 .. Len(s) : u[i] = s[i]
    BY <1>1, <1>2
  <2> HIDE DEF u
  <2>2. u = s
    BY <2>1, SeqEqual
  <2> QED BY <2>2 DEF u
<1>5. ASSUME NEW n \in 1 .. Len(s)
      PROVE  SubSeq(s, 1, n) = SubSeq(s, 1, n - 1) \o <<s[n]>>
  <2> DEFINE u == SubSeq(s, 1, n)
             v == SubSeq(s, 1, n - 1)
  <2>1. n - 1 \in 0 .. Len(s) /\ n \in 0 .. Len(s) /\ n \in 1 .. n /\ n \in Nat \ {0}
    BY <1>1
  <2>2. /\ u \in Seq(S) /\ Len(u) = n /\ \A i \in 1 .. n : u[i] = s[i]
        /\ v \in Seq(S) /\ Len(v) = n - 1 /\ \A i \in 1 .. n - 1 : v[i] = s[i]
    BY <1>2, <2>1
  <2> HIDE DEF u, v
  <2>3. u # << >>
    BY <2>1, <2>2
  <2>4. /\ Front(u) \in Seq(S) /\ Len(Front(u)) = n - 1
        /\ \A i \in 1 .. n - 1 : Front(u)[i] = u[i]
        /\ Last(u) = u[n]
    BY <2>2, <2>3, FrontLast
  <2>5. Front(u) = v
    <3>1. \A i \in 1 .. n - 1 : Front(u)[i] = v[i]
      BY <2>1, <2>2, <2>4
    <3> QED BY <2>2, <2>4, <3>1, SeqEqual
  <2>6. u = Front(u) \o <<Last(u)>>
    BY <2>2, <2>3, FrontAndLast
  <2> QED BY <2>1, <2>2, <2>4, <2>5, <2>6 DEF u, v
<1>6. \A n \in 1 .. Len(s) : s[n] \in S /\ <<s[n]>> \in Seq(S)
  BY <1>1
<1> QED BY <1>1, <1>2, <1>3, <1>4, <1>5, <1>6 DEF Split

-----------------------------------------------------------------------------
\* Sequences of sequences, one after the other.

\* P[k] are the first k of them.
Joins(P, s, S) ==
  /\ P \in [0 .. Len(s) -> Seq(S)] /\ P[0] = << >>
  /\ \A k \in 1 .. Len(s) : P[k] = P[k - 1] \o s[k]

Joined(s, S, r) == \E P : Joins(P, s, S) /\ r = P[Len(s)]

LEMMA FlattenIs ==
  ASSUME NEW S, NEW s \in Seq(Seq(S))
  PROVE  Joined(s, S, FlattenSeq(s)) /\ FlattenSeq(s) \in Seq(S)
<1> DEFINE n == Len(s)
           V == Seq(S)
           Step(k, f) == IF k = 1 THEN s[k] ELSE f[k - 1] \o s[k]
           D == 1 .. n
           F == [k \in D |-> [g \in [D -> V] |-> Step(k, g)]]
           Below == [k \in D |-> {k - 1} \cap D]
           Q(f) == f = [k \in D |-> Step(k, f)]
<1>1. n \in Nat /\ DOMAIN s = D /\ \A k \in D : s[k] \in V
  BY LenProperties, ElementOfSeq
<1>2. CASE n = 0
  <2>1. FlattenSeq(s) = << >>
    BY <1>2, EmptySeq DEF FlattenSeq
  <2>2. Joins([k \in 0 .. 0 |-> << >>], s, S)
    BY <1>2 DEF Joins
  <2> QED BY <1>2, <2>1, <2>2 DEF Joined
<1>3. CASE n # 0
  <2>1. \A k \in D : \A g \in [D -> V] : F[k][g] = Step(k, g)
    OBVIOUS
  <2>2. ASSUME NEW k \in D, NEW g, k # 1 => g[k - 1] \in V
        PROVE  Step(k, g) \in V
    BY <1>1, <2>2, ConcatProperties
  <2>3. \A k \in D : k # 1 => k - 1 \in D /\ k - 1 \in Below[k]
    BY <1>1
  <2>4. \A k \in D : \A g \in [D -> V] : Step(k, g) \in V
    <3> HIDE DEF Step, V, D
    <3> QED BY <2>2, <2>3
  <2>5. \A k \in D : \A g, h \in [D -> V] :
          (\A i \in Below[k] : g[i] = h[i]) => Step(k, g) = Step(k, h)
    BY <2>3
  <2>6. \A k \in D : Below[k] \subseteq 1 .. k - 1
    OBVIOUS
  <2> HIDE DEF F, Below
  <2>7. Recurses(F, Below, D, V)
    <3> HIDE DEF Step, V, D
    <3> QED BY <2>1, <2>4, <2>5 DEF Recurses
  <2>8. Solvable(F, D, V)
    <3>1. << >> \in V
      OBVIOUS
    <3> HIDE DEF V, n
    <3>2. D = 1 .. n
      OBVIOUS
    <3> QED BY <1>1, <2>6, <2>7, <3>1, <3>2, Recursion
  <2>9. PICK f \in [D -> V] : \A k \in D : f[k] = F[k][f]
    BY <2>8 DEF Solvable
  <2>10. Q(f)
    <3> HIDE DEF Step, V, D
    <3> QED BY <2>1, <2>9
  <2> DEFINE h == CHOOSE g : Q(g)
  <2>11. FlattenSeq(s) = h[n]
    BY <1>3 DEF FlattenSeq
  <2>12. Q(h)
    <3> HIDE DEF Q
    <3> QED BY <2>10
  <2> HIDE DEF h
  <2>13. \A k \in D : h[k] = Step(k, h)
    <3>1. h = [k \in D |-> Step(k, h)]
      BY <2>12
    <3> HIDE DEF Step, D
    <3> QED BY <3>1, Zenon
  <2> DEFINE T == {k \in 0 .. n : k # 0 => h[k] \in V}
  <2>14. 0 \in T
    BY <1>1
  <2>15. ASSUME NEW k \in 1 .. n, k - 1 \in T
         PROVE  k \in T
    <3>1. k # 1 => h[k - 1] \in V
      BY <2>15
    <3>2. Step(k, h) \in V
      BY <2>2, <3>1
    <3> HIDE DEF Step, V
    <3> QED BY <1>1, <2>13, <3>2
  <2>16. \A k \in 0 .. n : k \in T
    <3> HIDE DEF T, n
    <3> QED BY <1>1, <2>14, <2>15, StepInduction
  <2>17. \A k \in 1 .. n : h[k] \in V
    BY <2>16
  <2> DEFINE P == [k \in 0 .. n |-> IF k = 0 THEN << >> ELSE h[k]]
  <2>18. P \in [0 .. n -> V]
    BY <2>17
  <2>19. \A k \in 1 .. n : P[k] = P[k - 1] \o s[k]
    <3> SUFFICES ASSUME NEW k \in 1 .. n
                 PROVE  P[k] = P[k - 1] \o s[k]
      OBVIOUS
    <3>1. P[k] = Step(k, h)
      <4> HIDE DEF Step
      <4> QED BY <1>1, <2>13
    <3>2. CASE k = 1
      <4>1. P[k - 1] = << >> /\ P[k] = s[k] /\ s[k] \in Seq(S)
        BY <1>1, <3>1, <3>2
      <4>2. << >> \o s[k] = s[k]
        BY <4>1, ConcatEmptySeq
      <4> QED BY <4>1, <4>2
    <3>3. CASE k # 1
      <4>1. k - 1 \in 0 .. n /\ k - 1 # 0
        BY <1>1, <3>3
      <4>2. P[k - 1] = h[k - 1]
        BY <4>1
      <4> QED BY <3>1, <3>3, <4>2
    <3> QED BY <3>2, <3>3
  <2>20. P[0] = << >> /\ P[n] = h[n]
    BY <1>1, <1>3
  <2>21. Joins(P, s, S)
    BY <2>18, <2>19, <2>20 DEF Joins
  <2>22. h[n] \in V
    BY <1>1, <1>3, <2>17
  <2> HIDE DEF P
  <2> QED BY <2>11, <2>20, <2>21, <2>22 DEF Joined
<1> QED BY <1>2, <1>3

LEMMA FlattenConcat ==
  ASSUME NEW S, NEW s \in Seq(Seq(S)), NEW t \in Seq(Seq(S))
  PROVE  /\ s \o t \in Seq(Seq(S))
         /\ FlattenSeq(s \o t) = FlattenSeq(s) \o FlattenSeq(t)
         /\ FlattenSeq(s \o t) \in Seq(S)
<1> DEFINE m == Len(s)
           n == Len(t)
           u == s \o t
<1>1. /\ u \in Seq(Seq(S)) /\ Len(u) = m + n /\ m \in Nat /\ n \in Nat
      /\ \A i \in 1 .. m + n : u[i] = IF i <= m THEN s[i] ELSE t[i - m]
  BY ConcatProperties, LenProperties
<1>2. PICK P : Joins(P, s, S) /\ FlattenSeq(s) = P[m]
  BY FlattenIs DEF Joined
<1>3. PICK Q : Joins(Q, t, S) /\ FlattenSeq(t) = Q[n]
  BY FlattenIs DEF Joined
<1>4. PICK R : Joins(R, u, S) /\ FlattenSeq(u) = R[m + n]
  BY <1>1, FlattenIs DEF Joined
<1> HIDE DEF m, n, u
<1>5. /\ P \in [0 .. m -> Seq(S)] /\ P[0] = << >>
      /\ \A k \in 1 .. m : P[k] = P[k - 1] \o s[k]
      /\ Q \in [0 .. n -> Seq(S)] /\ Q[0] = << >>
      /\ \A k \in 1 .. n : Q[k] = Q[k - 1] \o t[k]
      /\ R \in [0 .. m + n -> Seq(S)] /\ R[0] = << >>
      /\ \A k \in 1 .. m + n : R[k] = R[k - 1] \o u[k]
  BY <1>1, <1>2, <1>3, <1>4 DEF Joins, m, n
<1> DEFINE A == {k \in 0 .. m : R[k] = P[k]}
           B == {k \in 0 .. n : R[m + k] = P[m] \o Q[k]}
<1>6. m \in A
  <2>1. 0 \in A
    BY <1>1, <1>5
  <2>2. ASSUME NEW k \in 1 .. m, k - 1 \in A
        PROVE  k \in A
    <3>1. k \in 1 .. m + n /\ u[k] = s[k]
      BY <1>1
    <3>2. R[k - 1] = P[k - 1]
      BY <2>2
    <3>3. R[k] = P[k - 1] \o s[k]
      BY <1>5, <3>1, <3>2
    <3>4. R[k] = P[k] /\ k \in 0 .. m
      <4>1. P[k] = P[k - 1] \o s[k]
        BY <1>5
      <4> QED BY <1>1, <3>3, <4>1
    <3> QED BY <3>4
  <2>3. m \in 0 .. m
    BY <1>1
  <2> HIDE DEF A
  <2> QED BY <1>1, <2>1, <2>2, <2>3, StepInduction
<1>7. n \in B
  <2>1. P[m] \in Seq(S) /\ R[m + 0] = P[m]
    BY <1>1, <1>5, <1>6
  <2>2. 0 \in B
    <3>1. P[m] \o << >> = P[m]
      BY <2>1, ConcatEmptySeq
    <3>2. 0 \in 0 .. n /\ Q[0] = << >> /\ R[m + 0] = P[m]
      BY <1>1, <1>5, <2>1
    <3> QED BY <3>1, <3>2
  <2>3. ASSUME NEW k \in 1 .. n, k - 1 \in B
        PROVE  k \in B
    <3>1. /\ m + k \in 1 .. m + n /\ u[m + k] = t[k]
          /\ (m + k) - 1 = m + (k - 1) /\ k - 1 \in 0 .. n
      BY <1>1
    <3>2. R[m + k] = R[m + (k - 1)] \o t[k]
      BY <1>5, <3>1
    <3>3. R[m + (k - 1)] = P[m] \o Q[k - 1]
      BY <2>3
    <3>4. t[k] \in Seq(S) /\ Q[k - 1] \in Seq(S)
      <4>1. t[k] \in Seq(S)
        BY ElementOfSeq DEF n
      <4> QED BY <1>5, <3>1, <4>1
    <3>5. (P[m] \o Q[k - 1]) \o t[k] = P[m] \o (Q[k - 1] \o t[k])
      <4>1. PICK x \in Seq(S), y \in Seq(S), z \in Seq(S) :
               x = P[m] /\ y = Q[k - 1] /\ z = t[k]
        BY <2>1, <3>4
      <4>2. (x \o y) \o z = x \o (y \o z)
        BY ConcatAssociative
      <4> QED BY <4>1, <4>2
    <3>6. R[m + k] = P[m] \o Q[k]
      BY <1>5, <3>2, <3>3, <3>5
    <3>7. k \in 0 .. n
      BY <1>1
    <3> QED BY <3>6, <3>7
  <2>4. n \in 0 .. n
    BY <1>1
  <2> HIDE DEF B
  <2> QED BY <1>1, <2>2, <2>3, <2>4, StepInduction
<1>8. FlattenSeq(u) = FlattenSeq(s) \o FlattenSeq(t)
  BY <1>2, <1>3, <1>4, <1>6, <1>7
<1>9. FlattenSeq(u) \in Seq(S)
  BY <1>1, FlattenIs
<1> QED BY <1>1, <1>8, <1>9 DEF u

LEMMA FlattenOne ==
  ASSUME NEW S, NEW s \in Seq(S)
  PROVE  /\ FlattenSeq(<<s>>) = s /\ FlattenSeq(<< >>) = << >>
         /\ <<s>> \in Seq(Seq(S))
<1>1. <<s>> \in Seq(Seq(S)) /\ Len(<<s>>) = 1 /\ <<s>>[1] = s
  OBVIOUS
<1>2. PICK P : Joins(P, <<s>>, S) /\ FlattenSeq(<<s>>) = P[1]
  BY <1>1, FlattenIs DEF Joined
<1>3. P[0] = << >> /\ P[1] = P[0] \o s
  <2>1. P[0] = << >> /\ \A k \in 1 .. 1 : P[k] = P[k - 1] \o <<s>>[k]
    BY <1>1, <1>2 DEF Joins
  <2>2. P[1] = P[1 - 1] \o <<s>>[1]
    BY <2>1
  <2> QED BY <2>1, <2>2
<1>4. << >> \o s = s
  BY ConcatEmptySeq
<1>5. FlattenSeq(<< >>) = << >>
  BY DEF FlattenSeq
<1> QED BY <1>1, <1>2, <1>3, <1>4, <1>5

-----------------------------------------------------------------------------
\* The sum of a sequence of integers.
Total(s) ==
  LET total[k \in 0 .. Len(s)] == IF k = 0 THEN 0 ELSE total[k - 1] + s[k]
  IN total[Len(s)]

\* P[k] is the sum of the first k.
Adds(P, s) == /\ P \in [0 .. Len(s) -> Int] /\ P[0] = 0
              /\ \A k \in 1 .. Len(s) : P[k] = P[k - 1] + s[k]

Added(s, r) == \E P : Adds(P, s) /\ r = P[Len(s)]

LEMMA TotalIs ==
  ASSUME NEW s \in Seq(Int)
  PROVE  Added(s, Total(s)) /\ Total(s) \in Int
<1> DEFINE n == Len(s)
           Step(k, v) == v + s[k]
           G == [k \in 1 .. n |-> [v \in Int |-> Step(k, v)]]
           Q(f) == f = [k \in 0 .. n |-> IF k = 0 THEN 0 ELSE Step(k, f[k - 1])]
           h == CHOOSE f : Q(f)
<1>1. n \in Nat /\ \A k \in 1 .. n : s[k] \in Int
  BY LenProperties, ElementOfSeq
<1>2. Total(s) = h[n]
  BY DEF Total
<1>3. \A k \in 1 .. n : \A v \in Int : G[k][v] = Step(k, v) /\ Step(k, v) \in Int
  BY <1>1
<1> HIDE DEF G, n, h
<1>4. Chains(G, n, Int)
  <2> HIDE DEF Step
  <2> QED BY <1>3 DEF Chains
<1>5. HasChain(G, n, Int, 0)
  BY <1>1, <1>4, Chain, 0 \in Int
<1>6. PICK f \in [0 .. n -> Int] : f[0] = 0 /\ \A k \in 1 .. n : f[k] = G[k][f[k - 1]]
  BY <1>5 DEF HasChain
<1>7. \A k \in 1 .. n : f[k - 1] \in Int
  BY <1>1
<1>8. Q(f)
  <2> HIDE DEF Step
  <2>1. \A k \in 1 .. n : f[k] = Step(k, f[k - 1])
    BY <1>3, <1>6, <1>7
  <2>2. \A k \in 0 .. n : f[k] = IF k = 0 THEN 0 ELSE Step(k, f[k - 1])
    <3>1. \A k \in 0 .. n : k = 0 \/ k \in 1 .. n
      BY <1>1
    <3>2. \A k \in 1 .. n : k # 0
      OBVIOUS
    <3> QED BY <1>6, <2>1, <3>1, <3>2, Zenon
  <2> QED BY <2>2
<1>9. Q(h)
  <2> HIDE DEF Q
  <2> QED BY <1>8 DEF h
<1>10. h[0] = 0 /\ \A k \in 1 .. n : h[k] = Step(k, h[k - 1])
  <2> HIDE DEF Step
  <2> QED BY <1>1, <1>9
<1> DEFINE S == {k \in 0 .. n : h[k] \in Int}
<1>11. \A k \in 0 .. n : k \in S
  <2>1. 0 \in S
    BY <1>1, <1>10
  <2>2. ASSUME NEW k \in 1 .. n, k - 1 \in S
        PROVE  k \in S
    <3>1. h[k - 1] \in Int /\ s[k] \in Int /\ h[k] = h[k - 1] + s[k]
      BY <1>1, <1>10, <2>2
    <3>2. h[k] \in Int /\ k \in 0 .. n
      BY <1>1, <3>1
    <3> QED BY <3>2
  <2> HIDE DEF S
  <2> QED BY <1>1, <2>1, <2>2, StepInduction
<1>12. h = [k \in 0 .. n |-> h[k]]
  <2> HIDE DEF Step
  <2> QED BY <1>9, Zenon
<1>13. h \in [0 .. n -> Int]
  BY <1>11, <1>12
<1>14. Adds(h, s)
  BY <1>10, <1>13 DEF Adds, n
<1>15. h[n] \in Int
  BY <1>1, <1>13
<1> QED BY <1>2, <1>14, <1>15 DEF Added, n

LEMMA TotalConcat ==
  ASSUME NEW s \in Seq(Int), NEW t \in Seq(Int)
  PROVE  /\ s \o t \in Seq(Int)
         /\ Total(s \o t) = Total(s) + Total(t)
         /\ Total(s) \in Int /\ Total(t) \in Int
<1> DEFINE m == Len(s)
           n == Len(t)
           u == s \o t
<1>1. /\ u \in Seq(Int) /\ Len(u) = m + n /\ m \in Nat /\ n \in Nat
      /\ \A i \in 1 .. m + n : u[i] = IF i <= m THEN s[i] ELSE t[i - m]
      /\ \A i \in 1 .. n : t[i] \in Int
  BY ConcatProperties, LenProperties, ElementOfSeq
<1>2. PICK P : Adds(P, s) /\ Total(s) = P[m]
  BY TotalIs DEF Added
<1>3. PICK Q : Adds(Q, t) /\ Total(t) = Q[n]
  BY TotalIs DEF Added
<1>4. PICK R : Adds(R, u) /\ Total(u) = R[m + n]
  BY <1>1, TotalIs DEF Added
<1> HIDE DEF m, n, u
<1>5. /\ P \in [0 .. m -> Int] /\ P[0] = 0
      /\ \A k \in 1 .. m : P[k] = P[k - 1] + s[k]
      /\ Q \in [0 .. n -> Int] /\ Q[0] = 0
      /\ \A k \in 1 .. n : Q[k] = Q[k - 1] + t[k]
      /\ R \in [0 .. m + n -> Int] /\ R[0] = 0
      /\ \A k \in 1 .. m + n : R[k] = R[k - 1] + u[k]
  BY <1>1, <1>2, <1>3, <1>4 DEF Adds, m, n
<1> DEFINE A == {k \in 0 .. m : R[k] = P[k]}
           B == {k \in 0 .. n : R[m + k] = P[m] + Q[k]}
<1>6. m \in A
  <2>1. 0 \in A
    BY <1>1, <1>5
  <2>2. ASSUME NEW k \in 1 .. m, k - 1 \in A
        PROVE  k \in A
    <3>1. k \in 1 .. m + n /\ u[k] = s[k] /\ k \in 0 .. m
      BY <1>1
    <3>2. R[k - 1] = P[k - 1]
      BY <2>2
    <3>3. R[k] = P[k]
      BY <1>5, <3>1, <3>2
    <3> QED BY <3>1, <3>3
  <2>3. m \in 0 .. m
    BY <1>1
  <2> HIDE DEF A
  <2> QED BY <1>1, <2>1, <2>2, <2>3, StepInduction
<1>7. n \in B
  <2>1. P[m] \in Int /\ R[m + 0] = P[m]
    BY <1>1, <1>5, <1>6
  <2>2. 0 \in B
    BY <1>1, <1>5, <2>1
  <2>3. ASSUME NEW k \in 1 .. n, k - 1 \in B
        PROVE  k \in B
    <3>1. /\ m + k \in 1 .. m + n /\ u[m + k] = t[k] /\ t[k] \in Int
          /\ (m + k) - 1 = m + (k - 1) /\ k - 1 \in 0 .. n /\ k \in 0 .. n
      BY <1>1
    <3>2. R[m + k] = R[m + (k - 1)] + t[k]
      BY <1>5, <3>1
    <3>3. R[m + (k - 1)] = P[m] + Q[k - 1]
      BY <2>3
    <3>4. Q[k - 1] \in Int /\ Q[k] = Q[k - 1] + t[k]
      BY <1>5, <3>1
    <3>5. R[m + k] = P[m] + Q[k]
      BY <2>1, <3>1, <3>2, <3>3, <3>4
    <3> QED BY <3>1, <3>5
  <2>4. n \in 0 .. n
    BY <1>1
  <2> HIDE DEF B
  <2> QED BY <1>1, <2>2, <2>3, <2>4, StepInduction
<1>8. Total(u) = Total(s) + Total(t)
  BY <1>2, <1>3, <1>4, <1>6, <1>7
<1> QED BY <1>1, <1>8, TotalIs DEF u

LEMMA TotalOne ==
  /\ Total(<< >>) = 0
  /\ \A x \in Int : <<x>> \in Seq(Int) /\ Total(<<x>>) = x
<1>1. Total(<< >>) = 0
  <2>1. << >> \in Seq(Int) /\ Len(<< >>) = 0
    OBVIOUS
  <2>2. PICK P : Adds(P, << >>) /\ Total(<< >>) = P[0]
    BY <2>1, TotalIs DEF Added
  <2> QED BY <2>2 DEF Adds
<1>2. ASSUME NEW x \in Int
      PROVE  <<x>> \in Seq(Int) /\ Total(<<x>>) = x
  <2>1. <<x>> \in Seq(Int) /\ Len(<<x>>) = 1 /\ <<x>>[1] = x
    OBVIOUS
  <2>2. PICK P : Adds(P, <<x>>) /\ Total(<<x>>) = P[1]
    BY <2>1, TotalIs DEF Added
  <2>3. P[0] = 0 /\ \A k \in 1 .. 1 : P[k] = P[k - 1] + <<x>>[k]
    BY <2>1, <2>2 DEF Adds
  <2>4. P[1] = P[1 - 1] + <<x>>[1]
    BY <2>3
  <2> QED BY <2>1, <2>2, <2>3, <2>4
<1> QED BY <1>1, <1>2

-----------------------------------------------------------------------------
\* A function applied to each element.
Map(g, s) == [i \in DOMAIN s |-> g[s[i]]]

MapsTo(g, s, t, S, T) ==
  /\ Map(g, s) \in Seq(T) /\ Map(g, t) \in Seq(T) /\ s \o t \in Seq(S)
  /\ Map(g, s \o t) = Map(g, s) \o Map(g, t)
  /\ Map(g, << >>) = << >>
  /\ \A x \in S : <<x>> \in Seq(S) /\ Map(g, <<x>>) = <<g[x]>>

LEMMA MapSeq ==
  ASSUME NEW S, NEW T, NEW g \in [S -> T], NEW s \in Seq(S), NEW t \in Seq(S)
  PROVE  MapsTo(g, s, t, S, T)
<1>0. ASSUME NEW u \in Seq(S)
      PROVE  /\ Map(g, u) \in Seq(T) /\ Len(Map(g, u)) = Len(u)
             /\ \A i \in 1 .. Len(u) : Map(g, u)[i] = g[u[i]]
  <2>1. Len(u) \in Nat /\ DOMAIN u = 1 .. Len(u) /\ \A i \in 1 .. Len(u) : u[i] \in S
    BY LenProperties, ElementOfSeq
  <2>2. Map(g, u) = [i \in 1 .. Len(u) |-> g[u[i]]]
    BY <2>1 DEF Map
  <2>3. Map(g, u) \in [1 .. Len(u) -> T]
    BY <2>1, <2>2
  <2>4. Map(g, u) \in Seq(T) /\ Len(Map(g, u)) = Len(u)
    BY <2>1, <2>3, SeqDef, LenProperties
  <2> QED BY <2>2, <2>4
<1>1. /\ s \o t \in Seq(S) /\ Len(s) \in Nat /\ Len(t) \in Nat
      /\ Len(s \o t) = Len(s) + Len(t)
      /\ \A i \in 1 .. Len(s) + Len(t) :
           (s \o t)[i] = IF i <= Len(s) THEN s[i] ELSE t[i - Len(s)]
  BY ConcatProperties, LenProperties
<1> DEFINE a == Map(g, s)
           b == Map(g, t)
           c == Map(g, s \o t)
<1>2. /\ a \in Seq(T) /\ Len(a) = Len(s) /\ \A i \in 1 .. Len(s) : a[i] = g[s[i]]
      /\ b \in Seq(T) /\ Len(b) = Len(t) /\ \A i \in 1 .. Len(t) : b[i] = g[t[i]]
      /\ c \in Seq(T) /\ Len(c) = Len(s) + Len(t)
      /\ \A i \in 1 .. Len(s) + Len(t) : c[i] = g[(s \o t)[i]]
  BY <1>0, <1>1
<1>3. /\ a \o b \in Seq(T) /\ Len(a \o b) = Len(s) + Len(t)
      /\ \A i \in 1 .. Len(s) + Len(t) :
           (a \o b)[i] = IF i <= Len(s) THEN a[i] ELSE b[i - Len(s)]
  BY <1>2, ConcatProperties
<1> HIDE DEF a, b, c
<1>4. \A i \in 1 .. Len(s) + Len(t) : c[i] = (a \o b)[i]
  <2> SUFFICES ASSUME NEW i \in 1 .. Len(s) + Len(t)
               PROVE  c[i] = (a \o b)[i]
    OBVIOUS
  <2>1. CASE i <= Len(s)
    <3>1. i \in 1 .. Len(s)
      BY <1>1, <2>1
    <3> QED BY <1>1, <1>2, <1>3, <2>1, <3>1
  <2>2. CASE ~ i <= Len(s)
    <3>1. i - Len(s) \in 1 .. Len(t)
      BY <1>1, <2>2
    <3>2. (s \o t)[i] = t[i - Len(s)]
      BY <1>1, <2>2
    <3>3. (a \o b)[i] = b[i - Len(s)]
      BY <1>3, <2>2
    <3>4. c[i] = g[(s \o t)[i]]
      BY <1>2
    <3>5. b[i - Len(s)] = g[t[i - Len(s)]]
      BY <1>2, <3>1
    <3> QED BY <3>2, <3>3, <3>4, <3>5
  <2> QED BY <2>1, <2>2
<1>5. c = a \o b
  BY <1>2, <1>3, <1>4, SeqEqual
<1>6. Map(g, << >>) = << >>
  <2>1. << >> \in Seq(S) /\ Len(<< >>) = 0
    OBVIOUS
  <2>2. Map(g, << >>) \in Seq(T) /\ Len(Map(g, << >>)) = 0
    BY <1>0, <2>1
  <2> QED BY <2>2, EmptySeq
<1>7. ASSUME NEW x \in S
      PROVE  <<x>> \in Seq(S) /\ Map(g, <<x>>) = <<g[x]>>
  <2>1. <<x>> \in Seq(S) /\ Len(<<x>>) = 1 /\ <<x>>[1] = x
    OBVIOUS
  <2>2. g[x] \in T
    OBVIOUS
  <2>0. PICK u : u = <<x>>
    OBVIOUS
  <2>a. u \in Seq(S) /\ Len(u) = 1 /\ u[1] = x
    BY <2>0, <2>1
  <2>b. /\ Map(g, u) \in Seq(T) /\ Len(Map(g, u)) = Len(u)
        /\ \A i \in 1 .. Len(u) : Map(g, u)[i] = g[u[i]]
    BY <1>0, <2>a
  <2>c. 1 \in 1 .. Len(u)
    BY <2>a
  <2>d. Map(g, u)[1] = g[x]
    BY <2>a, <2>b, <2>c
  <2> HIDE DEF Map
  <2>3. /\ Map(g, <<x>>) \in Seq(T) /\ Len(Map(g, <<x>>)) = 1
        /\ Map(g, <<x>>)[1] = g[x]
    BY <2>0, <2>a, <2>b, <2>d
  <2>4. <<g[x]>> \in Seq(T) /\ Len(<<g[x]>>) = 1 /\ <<g[x]>>[1] = g[x]
    BY <2>2
  <2>5. Map(g, <<x>>) = <<g[x]>>
    BY <2>3, <2>4, SeqEqual
  <2> QED BY <2>1, <2>5
<1> QED BY <1>1, <1>2, <1>5, <1>6, <1>7 DEF a, b, c, MapsTo

\* What the elements contribute, one after the other, and in sum.
FlatMap(g, s) == FlattenSeq(Map(g, s))

TotalMap(g, s) == Total(Map(g, s))

FlattensTo(g, s, t, S, T) ==
  /\ FlatMap(g, s) \in Seq(T) /\ FlatMap(g, t) \in Seq(T)
  /\ FlatMap(g, s \o t) = FlatMap(g, s) \o FlatMap(g, t)
  /\ FlatMap(g, << >>) = << >>
  /\ \A x \in S : FlatMap(g, <<x>>) = g[x]

LEMMA FlatMapIs ==
  ASSUME NEW S, NEW T, NEW g \in [S -> Seq(T)], NEW s \in Seq(S), NEW t \in Seq(S)
  PROVE  FlattensTo(g, s, t, S, T)
<1>1. /\ Map(g, s) \in Seq(Seq(T)) /\ Map(g, t) \in Seq(Seq(T))
      /\ Map(g, s \o t) = Map(g, s) \o Map(g, t) /\ Map(g, << >>) = << >>
      /\ \A x \in S : Map(g, <<x>>) = <<g[x]>>
  <2>1. PICK U : U = Seq(T)
    OBVIOUS
  <2>2. g \in [S -> U]
    BY <2>1
  <2>3. MapsTo(g, s, t, S, U)
    BY <2>2, MapSeq
  <2> QED BY <2>1, <2>3 DEF MapsTo
<1>2. FlatMap(g, s \o t) = FlatMap(g, s) \o FlatMap(g, t)
  BY <1>1, FlattenConcat DEF FlatMap
<1>3. FlatMap(g, s) \in Seq(T) /\ FlatMap(g, t) \in Seq(T)
  BY <1>1, FlattenIs DEF FlatMap
<1>4. FlatMap(g, << >>) = << >>
  BY <1>1 DEF FlatMap, FlattenSeq
<1>5. ASSUME NEW x \in S
      PROVE  FlatMap(g, <<x>>) = g[x]
  <2>1. g[x] \in Seq(T)
    OBVIOUS
  <2> QED BY <1>1, <2>1, FlattenOne DEF FlatMap
<1> QED BY <1>2, <1>3, <1>4, <1>5 DEF FlattensTo

AddsUp(g, s, t, S) ==
  /\ TotalMap(g, s) \in Int /\ TotalMap(g, t) \in Int
  /\ TotalMap(g, s \o t) = TotalMap(g, s) + TotalMap(g, t)
  /\ TotalMap(g, << >>) = 0
  /\ \A x \in S : TotalMap(g, <<x>>) = g[x]

LEMMA TotalMapIs ==
  ASSUME NEW S, NEW g \in [S -> Int], NEW s \in Seq(S), NEW t \in Seq(S)
  PROVE  AddsUp(g, s, t, S)
<1>1. /\ Map(g, s) \in Seq(Int) /\ Map(g, t) \in Seq(Int)
      /\ Map(g, s \o t) = Map(g, s) \o Map(g, t) /\ Map(g, << >>) = << >>
      /\ \A x \in S : Map(g, <<x>>) = <<g[x]>>
  <2>1. PICK U : U = Int
    OBVIOUS
  <2>2. g \in [S -> U]
    BY <2>1
  <2>3. MapsTo(g, s, t, S, U)
    BY <2>2, MapSeq
  <2> QED BY <2>1, <2>3 DEF MapsTo
<1>2. /\ TotalMap(g, s \o t) = TotalMap(g, s) + TotalMap(g, t)
      /\ TotalMap(g, s) \in Int /\ TotalMap(g, t) \in Int
  BY <1>1, TotalConcat DEF TotalMap
<1>3. TotalMap(g, << >>) = 0
  BY <1>1, TotalOne DEF TotalMap
<1>4. ASSUME NEW x \in S
      PROVE  TotalMap(g, <<x>>) = g[x]
  <2>1. g[x] \in Int
    OBVIOUS
  <2> QED BY <1>1, <2>1, TotalOne DEF TotalMap
<1> QED BY <1>2, <1>3, <1>4 DEF AddsUp
-----------------------------------------------------------------------------
\* Sequences and tuples.

LEMMA Elements ==
  ASSUME NEW S, NEW s \in Seq(S)
  PROVE  /\ \A i \in DOMAIN s : s[i] \in S
         /\ Len(s) >= 1 => 1 \in DOMAIN s /\ s[1] \in S
<1>1. Len(s) \in Nat /\ DOMAIN s = 1 .. Len(s)
  BY LenProperties
<1>2. \A i \in DOMAIN s : s[i] \in S
  BY <1>1, ElementOfSeq
<1> QED BY <1>1, <1>2

LEMMA SeqGrows ==
  ASSUME NEW S, NEW T, S \subseteq T, NEW s \in Seq(S)
  PROVE  s \in Seq(T)
BY SeqMonotonic

\* The innermost frame is replaced by a sequence of frames.
LEMMA BecomeSeq ==
  ASSUME NEW S, NEW c \in Seq(S), c # << >>, NEW fs \in Seq(S)
  PROVE  /\ Front(c) \o fs \in Seq(S)
         /\ Len(c) \in Nat \ {0} /\ Len(fs) \in Nat
         /\ Len(Front(c) \o fs) = Len(c) - 1 + Len(fs)
         /\ \A i \in 1 .. Len(c) - 1 : (Front(c) \o fs)[i] = c[i]
         /\ \A j \in 1 .. Len(fs) : (Front(c) \o fs)[Len(c) - 1 + j] = fs[j]
<1>1. /\ Front(c) \in Seq(S) /\ Len(Front(c)) = Len(c) - 1
      /\ \A i \in 1 .. Len(c) - 1 : Front(c)[i] = c[i]
  BY FrontLast
<1>2. Len(c) \in Nat \ {0} /\ Len(fs) \in Nat
  BY EmptySeq, LenProperties
<1>3. /\ Front(c) \o fs \in Seq(S)
      /\ Len(Front(c) \o fs) = Len(Front(c)) + Len(fs)
      /\ \A i \in 1 .. Len(Front(c)) + Len(fs) :
           (Front(c) \o fs)[i] = IF i <= Len(Front(c)) THEN Front(c)[i]
                                 ELSE fs[i - Len(Front(c))]
  BY <1>1, ConcatProperties
<1> HIDE DEF Front
<1>4. \A i \in 1 .. Len(c) - 1 : (Front(c) \o fs)[i] = c[i]
  BY <1>1, <1>2, <1>3
<1>5. ASSUME NEW j \in 1 .. Len(fs)
      PROVE  (Front(c) \o fs)[Len(c) - 1 + j] = fs[j]
  BY <1>1, <1>2, <1>3
<1> QED BY <1>1, <1>2, <1>3, <1>4, <1>5

LEMMA TupleConcat ==
  ASSUME NEW a, NEW b, NEW c
  PROVE  <<a>> \o <<b>> = <<a, b>> /\ <<a>> \o <<b, c>> = <<a, b, c>>
<1> DEFINE S == {a, b, c}
<1>1. /\ <<a>> \in Seq(S) /\ <<b>> \in Seq(S) /\ <<b, c>> \in Seq(S)
      /\ <<a, b>> \in Seq(S) /\ <<a, b, c>> \in Seq(S)
      /\ Len(<<a>>) = 1 /\ Len(<<b>>) = 1 /\ Len(<<b, c>>) = 2
      /\ Len(<<a, b>>) = 2 /\ Len(<<a, b, c>>) = 3
  OBVIOUS
<1>2. <<a>> \o <<b>> = <<a, b>>
  <2>1. /\ <<a>> \o <<b>> \in Seq(S) /\ Len(<<a>> \o <<b>>) = 2
        /\ \A i \in 1 .. 2 : (<<a>> \o <<b>>)[i] =
                             IF i <= 1 THEN <<a>>[i] ELSE <<b>>[i - 1]
    BY <1>1, ConcatProperties
  <2>2. \A i \in 1 .. 2 : (<<a>> \o <<b>>)[i] = <<a, b>>[i]
    BY <2>1
  <2> QED BY <1>1, <2>1, <2>2, SeqEqual
<1>3. <<a>> \o <<b, c>> = <<a, b, c>>
  <2>1. /\ <<a>> \o <<b, c>> \in Seq(S) /\ Len(<<a>> \o <<b, c>>) = 3
        /\ \A i \in 1 .. 3 : (<<a>> \o <<b, c>>)[i] =
                             IF i <= 1 THEN <<a>>[i] ELSE <<b, c>>[i - 1]
    BY <1>1, ConcatProperties
  <2>2. \A i \in 1 .. 3 : (<<a>> \o <<b, c>>)[i] = <<a, b, c>>[i]
    BY <2>1
  <2> QED BY <1>1, <2>1, <2>2, SeqEqual
<1> QED BY <1>2, <1>3

-----------------------------------------------------------------------------
(***************************************************************************)
(* Texts: the closers due after part of one, what makes an expression of   *)
(* parts of it, and the nodes that stand for them.                         *)
(***************************************************************************)

Marks == {"RIGHT_PAREN", "RIGHT_BRACE", "RIGHT_BRACKET", "mismatch"}

Spoiled(due) == due # << >> /\ due[1] = "mismatch"

LEMMA Closers ==
  /\ DOMAIN Closer = {"LEFT_PAREN", "LEFT_BRACE", "LEFT_BRACKET"}
  /\ Closer["LEFT_PAREN"] = "RIGHT_PAREN" /\ Closer["LEFT_BRACE"] = "RIGHT_BRACE"
  /\ Closer["LEFT_BRACKET"] = "RIGHT_BRACKET"
  /\ Range(Closer) = {"RIGHT_PAREN", "RIGHT_BRACE", "RIGHT_BRACKET"}
BY DEF Closer, Range

\* What one token does to the closers due: it keeps a mismatch, and what lies
\* below the closers it meets does not matter.
LEMMA MeetsOne ==
  ASSUME NEW due \in Seq(Marks), NEW t
  PROVE  /\ Meets(due, t) \in Seq(Marks)
         /\ Spoiled(due) => Spoiled(Meets(due, t))
         /\ \A a \in Seq(Marks) :
              ~ Spoiled(Meets(due, t)) => Meets(a \o due, t) = a \o Meets(due, t)
<1>1. \A c \in Marks : <<c>> \in Seq(Marks)
  OBVIOUS
<1>2. CASE t.type \in DOMAIN Closer
  <2> DEFINE c == Closer[t.type]
  <2>1. c \in Marks
    BY <1>2, Closers DEF Marks
  <2>2. \A d : Meets(d, t) = Append(d, c)
    <3>1. t.type \notin Range(Closer)
      BY <1>2, Closers
    <3> QED BY <1>2, <3>1 DEF Meets
  <2> HIDE DEF c
  <2>3. \A d \in Seq(Marks) :
          /\ Append(d, c) \in Seq(Marks) /\ Append(d, c) = d \o <<c>>
          /\ Append(d, c) # << >>
    BY <2>1, AppendIsConcat, FrontLastAppend
  <2>4. Spoiled(due) => Append(due, c)[1] = due[1]
    <3> SUFFICES ASSUME due # << >>
                 PROVE  Append(due, c)[1] = due[1]
      BY DEF Spoiled
    <3>1. Len(due) \in Nat \ {0}
      BY EmptySeq, LenProperties
    <3> QED BY <2>1, <3>1, AppendProperties
  <2>5. ASSUME NEW a \in Seq(Marks)
        PROVE  Append(a \o due, c) = a \o Append(due, c)
    <3>1. a \o due \in Seq(Marks)
      BY ConcatProperties
    <3>2. (a \o due) \o <<c>> = a \o (due \o <<c>>)
      BY <1>1, <2>1, ConcatAssociative
    <3> QED BY <2>3, <3>1, <3>2
  <2> QED BY <2>2, <2>3, <2>4, <2>5 DEF Spoiled
<1>3. CASE t.type \in Range(Closer)
  <2>1. t.type \notin DOMAIN Closer /\ t.type \in Marks /\ t.type # "mismatch"
    BY <1>3, Closers DEF Marks
  <2>2. CASE due # << >> /\ Last(due) = t.type
    <3>1. Meets(due, t) = Front(due)
      BY <1>3, <2>1, <2>2 DEF Meets
    <3>2. /\ Front(due) \in Seq(Marks) /\ Len(Front(due)) = Len(due) - 1
          /\ Last(due) = due[Len(due)]
          /\ \A i \in 1 .. Len(due) - 1 : Front(due)[i] = due[i]
      BY <2>2, FrontLast
    <3>3. Spoiled(due) => Spoiled(Front(due))
      <4> SUFFICES ASSUME due[1] = "mismatch"
                   PROVE  Spoiled(Front(due))
        BY DEF Spoiled
      <4>1. Len(due) \in Nat \ {0} /\ Len(due) # 1
        BY <2>1, <2>2, <3>2, EmptySeq, LenProperties
      <4>2. 1 \in 1 .. Len(due) - 1
        <5>1. \A n \in Nat \ {0} : n # 1 => 1 \in 1 .. n - 1
          OBVIOUS
        <5> QED BY <4>1, <5>1
      <4>3. Front(due)[1] = "mismatch" /\ Len(Front(due)) # 0
        BY <3>2, <4>1, <4>2
      <4> QED BY <4>3 DEF Spoiled
    <3>4. ASSUME NEW a \in Seq(Marks)
          PROVE  Meets(a \o due, t) = a \o Front(due)
      <4>1. /\ Front(a \o due) = a \o Front(due) /\ Last(a \o due) = Last(due)
            /\ a \o due # << >>
        BY <2>2, FrontLastConcat
      <4> QED BY <1>3, <2>1, <2>2, <4>1 DEF Meets
    <3> QED BY <3>1, <3>2, <3>3, <3>4
  <2>3. CASE ~ (due # << >> /\ Last(due) = t.type)
    <3>1. Meets(due, t) = <<"mismatch">>
      BY <1>3, <2>1, <2>3 DEF Meets
    <3>2. /\ <<"mismatch">> \in Seq(Marks) /\ <<"mismatch">> # << >>
          /\ <<"mismatch">>[1] = "mismatch"
      BY DEF Marks
    <3> QED BY <3>1, <3>2 DEF Spoiled
  <2> QED BY <2>2, <2>3
<1>4. CASE t.type \notin DOMAIN Closer \cup Range(Closer)
  BY <1>4 DEF Meets
<1> QED BY <1>2, <1>3, <1>4

\* The closers due, token by token.
DueChain(d, s) ==
  /\ d \in [0 .. Len(s) -> Seq(Marks)] /\ d[0] = << >>
  /\ \A k \in 1 .. Len(s) : d[k] = Meets(d[k - 1], s[k])

LEMMA DueIs ==
  ASSUME NEW T, NEW s \in Seq(T)
  PROVE  \E d : DueChain(d, s) /\ Due(s) = d[Len(s)]
<1> DEFINE n == Len(s)
           V == Seq(Marks)
           Step(p, v) == Meets(v, s[p])
           G == [p \in 1 .. n |-> [v \in V |-> Step(p, v)]]
           Q(f) == f = [p \in 0 .. n |-> IF p = 0 THEN << >>
                                         ELSE Step(p, f[p - 1])]
<1>1. n \in Nat /\ \A p \in 1 .. n : s[p] \in T
  BY LenProperties, ElementOfSeq
<1>2. \A p \in 1 .. n : \A v \in V : G[p][v] = Step(p, v)
  OBVIOUS
<1>3. \A p \in 1 .. n : \A v \in V : Step(p, v) \in V
  BY MeetsOne
<1> HIDE DEF G, n
<1>4. Chains(G, n, V)
  <2> HIDE DEF V, Step
  <2> QED BY <1>2, <1>3 DEF Chains
<1>5. << >> \in V
  OBVIOUS
<1>6. HasChain(G, n, V, << >>)
  <2> HIDE DEF V
  <2> QED BY <1>1, <1>4, <1>5, Chain
<1>7. PICK f \in [0 .. n -> V] :
        f[0] = << >> /\ \A k \in 1 .. n : f[k] = G[k][f[k - 1]]
  BY <1>6 DEF HasChain
<1>8. \A k \in 1 .. n : f[k - 1] \in V
  BY <1>1
<1>9. Q(f)
  <2> HIDE DEF V, Step
  <2> QED BY <1>1, <1>2, <1>7, <1>8, SMTT(60)
<1> DEFINE d == CHOOSE g : Q(g)
<1>10. Due(s) = d[n]
  BY DEF Due, n
<1>11. Q(d)
  <2> HIDE DEF Q
  <2> QED BY <1>9
<1> HIDE DEF d
<1>12. /\ DOMAIN d = 0 .. n /\ d[0] = << >>
       /\ \A p \in 1 .. n : d[p] = Step(p, d[p - 1])
       /\ d = [p \in 0 .. n |-> d[p]]
  <2> HIDE DEF Step
  <2>1. DOMAIN d = 0 .. n /\ d = [p \in 0 .. n |-> d[p]]
    BY <1>11, Zenon
  <2>2. \A p \in 0 .. n : d[p] = IF p = 0 THEN << >> ELSE Step(p, d[p - 1])
    BY <1>11, Zenon
  <2>3. 0 \in 0 .. n /\ \A p \in 1 .. n : p \in 0 .. n /\ p # 0
    BY <1>1
  <2> QED BY <2>1, <2>2, <2>3
<1> HIDE DEF Q
<1> DEFINE S == {p \in 0 .. n : d[p] \in V}
<1>13. 0 \in S
  <2> HIDE DEF V, Step
  <2>1. 0 \in 0 .. n
    BY <1>1
  <2> QED BY <1>5, <1>12, <2>1
<1>14. ASSUME NEW p \in 1 .. n, p - 1 \in S
       PROVE  p \in S
  <2> HIDE DEF V, Step
  <2>1. p \in 0 .. n
    BY <1>1
  <2> QED BY <1>3, <1>12, <1>14, <2>1
<1>15. \A p \in 0 .. n : p \in S
  <2> HIDE DEF S
  <2> QED BY <1>1, <1>13, <1>14, StepInduction
<1>16. d \in [0 .. n -> V]
  <2> HIDE DEF V
  <2> QED BY <1>12, <1>15
<1>17. DueChain(d, s)
  BY <1>12, <1>16 DEF DueChain, n
<1> QED BY <1>10, <1>17 DEF n

\* One more token.
LEMMA DueAppend ==
  ASSUME NEW T, NEW s \in Seq(T), NEW t \in T
  PROVE  Due(Append(s, t)) = Meets(Due(s), t) /\ Due(s) \in Seq(Marks)
<1> DEFINE a == Append(s, t)
           n == Len(s)
<1>1. /\ a \in Seq(T) /\ Len(a) = n + 1 /\ n \in Nat
      /\ \A i \in 1 .. n : a[i] = s[i]
      /\ a[n + 1] = t
  BY AppendProperties, LenProperties
<1> HIDE DEF a, n
<1>2. PICK c : DueChain(c, s) /\ Due(s) = c[n]
  BY DueIs DEF n
<1>3. PICK d : DueChain(d, a) /\ Due(a) = d[n + 1]
  BY <1>1, DueIs
<1>4. /\ c \in [0 .. n -> Seq(Marks)] /\ c[0] = << >>
      /\ \A k \in 1 .. n : c[k] = Meets(c[k - 1], s[k])
  BY <1>2 DEF DueChain, n
<1>5. d[0] = << >> /\ \A k \in 1 .. n + 1 : d[k] = Meets(d[k - 1], a[k])
  BY <1>1, <1>3 DEF DueChain
<1> DEFINE S == {k \in 0 .. n : d[k] = c[k]}
<1>6. 0 \in S
  BY <1>1, <1>4, <1>5
<1>7. ASSUME NEW k \in 1 .. n, k - 1 \in S
      PROVE  k \in S
  <2>1. k \in 1 .. n + 1 /\ k \in 0 .. n /\ d[k - 1] = c[k - 1] /\ a[k] = s[k]
    BY <1>1, <1>7
  <2> QED BY <1>4, <1>5, <2>1
<1> HIDE DEF S
<1>8. n \in S
  <2>1. n \in 0 .. n
    BY <1>1
  <2> QED BY <1>1, <1>6, <1>7, <2>1, StepInduction
<1>9. d[n] = c[n] /\ n + 1 \in 1 .. n + 1 /\ n + 1 - 1 = n /\ n \in 0 .. n
  BY <1>1, <1>8 DEF S
<1> QED BY <1>1, <1>2, <1>3, <1>4, <1>5, <1>9 DEF a

LEMMA Stretch ==
  ASSUME NEW T, NEW s \in Seq(T), NEW lo \in 1 .. Len(s) + 1
  PROVE  /\ DueIn(s, lo, lo - 1) = << >>
         /\ \A p \in lo - 1 .. Len(s) : DueIn(s, lo, p) \in Seq(Marks)
         /\ \A p \in lo .. Len(s) : DueIn(s, lo, p) = Meets(DueIn(s, lo, p - 1), s[p])
<1>1. Len(s) \in Nat /\ \A i \in 1 .. Len(s) : s[i] \in T
  BY LenProperties, ElementOfSeq
<1>2. ASSUME NEW p \in lo - 1 .. Len(s)
      PROVE  /\ SubSeq(s, lo, p) \in Seq(T)
             /\ Len(SubSeq(s, lo, p)) = p - lo + 1
             /\ \A i \in 1 .. p - lo + 1 : SubSeq(s, lo, p)[i] = s[lo + i - 1]
  BY <1>1, SubSeqProperties
<1>3. DueIn(s, lo, lo - 1) = << >>
  <2>1. lo - 1 \in lo - 1 .. Len(s) /\ lo - 1 - lo + 1 = 0
    BY <1>1
  <2>2. SubSeq(s, lo, lo - 1) = << >>
    BY <1>2, <2>1, EmptySeq
  <2>3. PICK d : DueChain(d, << >>) /\ Due(<< >>) = d[Len(<< >>)]
    BY DueIs, EmptySeq
  <2>4. Due(<< >>) = << >>
    BY <2>3, EmptySeq DEF DueChain
  <2> QED BY <2>2, <2>4 DEF DueIn
<1>4. \A p \in lo - 1 .. Len(s) : DueIn(s, lo, p) \in Seq(Marks)
  <2>1. PICK t : t \in T \/ Len(s) = 0
    BY <1>1
  <2> SUFFICES ASSUME NEW p \in lo - 1 .. Len(s)
               PROVE  DueIn(s, lo, p) \in Seq(Marks)
    OBVIOUS
  <2>2. CASE Len(s) = 0
    <3>1. p = lo - 1
      BY <2>2
    <3>2. << >> \in Seq(Marks)
      OBVIOUS
    <3>3. DueIn(s, lo, p) = << >>
      BY <1>3, <3>1
    <3> QED BY <3>2, <3>3
  <2>3. CASE t \in T
    BY <1>2, <2>3, DueAppend DEF DueIn
  <2> QED BY <2>1, <2>2, <2>3
<1>5. ASSUME NEW p \in lo .. Len(s)
      PROVE  DueIn(s, lo, p) = Meets(DueIn(s, lo, p - 1), s[p])
  <2> DEFINE u == SubSeq(s, lo, p)
             v == SubSeq(s, lo, p - 1)
  <2>1. p \in lo - 1 .. Len(s) /\ p - 1 \in lo - 1 .. Len(s) /\ p \in 1 .. Len(s)
    BY <1>1
  <2>2. /\ u \in Seq(T) /\ Len(u) = p - lo + 1
        /\ \A i \in 1 .. p - lo + 1 : u[i] = s[lo + i - 1]
    BY <1>2, <2>1
  <2>3. /\ v \in Seq(T) /\ Len(v) = p - 1 - lo + 1
        /\ \A i \in 1 .. p - 1 - lo + 1 : v[i] = s[lo + i - 1]
    BY <1>2, <2>1
  <2>4. s[p] \in T
    BY <1>1, <2>1
  <2> HIDE DEF u, v
  <2>5. /\ Append(v, s[p]) \in Seq(T) /\ Len(Append(v, s[p])) = Len(v) + 1
        /\ \A i \in 1 .. Len(v) : Append(v, s[p])[i] = v[i]
        /\ Append(v, s[p])[Len(v) + 1] = s[p]
    BY <2>3, <2>4, AppendProperties
  <2>6. Len(v) = p - lo /\ p - lo \in Nat
    BY <1>1, <2>1, <2>3
  <2>7. ASSUME NEW i \in 1 .. Len(u)
        PROVE  u[i] = Append(v, s[p])[i]
    <3>1. i \in 1 .. p - lo \/ i = p - lo + 1
      BY <1>1, <2>2, <2>6
    <3>2. CASE i \in 1 .. p - lo
      <4>1. i \in 1 .. p - 1 - lo + 1 /\ i \in 1 .. p - lo + 1 /\ i \in 1 .. Len(v)
        BY <2>6, <3>2
      <4> QED BY <2>2, <2>3, <2>5, <4>1
    <3>3. CASE i = p - lo + 1
      <4>1. i \in 1 .. p - lo + 1 /\ lo + i - 1 = p /\ i = Len(v) + 1
        BY <1>1, <2>6, <3>3
      <4> QED BY <2>2, <2>5, <4>1
    <3> QED BY <3>1, <3>2, <3>3
  <2>8. Len(u) = Len(Append(v, s[p]))
    BY <1>1, <2>2, <2>5, <2>6
  <2>9. u = Append(v, s[p])
    BY <2>2, <2>5, <2>7, <2>8, SeqEqual
  <2>10. Due(Append(v, s[p])) = Meets(Due(v), s[p])
    BY <2>3, <2>4, DueAppend
  <2> QED BY <2>9, <2>10 DEF DueIn, u, v
<1> QED BY <1>3, <1>4, <1>5

\* A mismatch stays, and closers that are matched leave those due before.
LEMMA DueParts ==
  ASSUME NEW T, NEW s \in Seq(T), NEW lo \in 1 .. Len(s) + 1,
         NEW m \in lo .. Len(s) + 1, NEW p \in m - 1 .. Len(s)
  PROVE  /\ Spoiled(DueIn(s, lo, m - 1)) => Spoiled(DueIn(s, lo, p))
         /\ ~ Spoiled(DueIn(s, m, p)) =>
              DueIn(s, lo, p) = DueIn(s, lo, m - 1) \o DueIn(s, m, p)
         /\ DueIn(s, lo, m - 1) = << >> => DueIn(s, lo, p) = DueIn(s, m, p)
<1> DEFINE n == p - m + 1
           A(k) == DueIn(s, lo, m - 1 + k)
           B(k) == DueIn(s, m, m - 1 + k)
           S == {k \in 0 .. n :
                   /\ Spoiled(A(0)) => Spoiled(A(k))
                   /\ ~ Spoiled(B(k)) => A(k) = A(0) \o B(k)
                   /\ A(0) = << >> => A(k) = B(k)}
<1>1. Len(s) \in Nat /\ n \in Nat /\ lo \in Int /\ m \in Int /\ m \in 1 .. Len(s) + 1
  BY LenProperties
<1>2. /\ A(0) \in Seq(Marks) /\ B(0) = << >>
      /\ \A k \in 0 .. n : A(k) \in Seq(Marks) /\ B(k) \in Seq(Marks)
  <2>1. m - 1 + 0 = m - 1 /\ 0 \in 0 .. n
    BY <1>1
  <2>2. \A k \in 0 .. n : m - 1 + k \in lo - 1 .. Len(s) /\ m - 1 + k \in m - 1 .. Len(s)
    BY <1>1
  <2>3. \A k \in 0 .. n : A(k) \in Seq(Marks) /\ B(k) \in Seq(Marks)
    BY <1>1, <2>2, Stretch
  <2>4. DueIn(s, m, m - 1) = << >>
    BY <1>1, Stretch
  <2> QED BY <2>1, <2>3, <2>4
<1>3. ASSUME NEW k \in 1 .. n
      PROVE  /\ k - 1 \in 0 .. n /\ k \in 0 .. n
             /\ s[m - 1 + k] \in T
             /\ A(k) = Meets(A(k - 1), s[m - 1 + k])
             /\ B(k) = Meets(B(k - 1), s[m - 1 + k])
  <2>1. /\ k - 1 \in 0 .. n /\ k \in 0 .. n
        /\ m - 1 + k \in lo .. Len(s) /\ m - 1 + k \in m .. Len(s)
        /\ m - 1 + k \in 1 .. Len(s)
        /\ m - 1 + k - 1 = m - 1 + (k - 1)
    BY <1>1
  <2> QED BY <1>1, <2>1, Stretch, ElementOfSeq
<1>4. 0 \in S
  <2>1. A(0) = A(0) \o << >>
    BY <1>2, ConcatEmptySeq
  <2> HIDE DEF A, B
  <2> QED BY <1>1, <1>2, <2>1
<1>5. ASSUME NEW k \in 1 .. n, k - 1 \in S
      PROVE  k \in S
  <2> DEFINE t == s[m - 1 + k]
  <2>1. /\ t \in T /\ A(k) = Meets(A(k - 1), t) /\ B(k) = Meets(B(k - 1), t)
        /\ A(k - 1) \in Seq(Marks) /\ B(k - 1) \in Seq(Marks) /\ k \in 0 .. n
        /\ A(0) \in Seq(Marks)
    BY <1>2, <1>3
  <2>2. /\ Spoiled(A(0)) => Spoiled(A(k - 1))
        /\ ~ Spoiled(B(k - 1)) => A(k - 1) = A(0) \o B(k - 1)
        /\ A(0) = << >> => A(k - 1) = B(k - 1)
    BY <1>5
  <2> HIDE DEF A, B, t, n
  <2>3. Spoiled(A(k - 1)) => Spoiled(A(k))
    BY <2>1, MeetsOne
  <2>4. ~ Spoiled(B(k)) => ~ Spoiled(B(k - 1)) /\ Meets(A(0) \o B(k - 1), t) = A(0) \o B(k)
    BY <2>1, MeetsOne
  <2> QED BY <2>1, <2>2, <2>3, <2>4
<1> HIDE DEF S, A, B, n
<1>6. n \in S
  <2>1. n \in 0 .. n
    BY <1>1
  <2> QED BY <1>1, <1>4, <1>5, <2>1, StepInduction
<1>7. m - 1 + 0 = m - 1 /\ m - 1 + n = p
  BY <1>1 DEF n
<1> QED BY <1>6, <1>7 DEF S, A, B

-----------------------------------------------------------------------------
\* Expressions, as stretches of the tokens w.

Operators(w, lo, hi) == {p \in lo .. hi : Operator(w, lo, p)}

LEMMA TypeSets ==
  /\ \A type \in BinaryTypes :
       /\ type \notin LeafTypes /\ type \notin DOMAIN Closer \cup Range(Closer)
       /\ type \notin {"SEMICOLON", "NONE", "PRINT", "LEFT_PAREN", "RIGHT_PAREN"}
       /\ InfixPrec(type) \in 10 .. 80
  /\ \A type \in LeafTypes \cup {"BANG", "MINUS", "SEMICOLON", "NONE", "PRINT"} :
       type \notin DOMAIN Closer \cup Range(Closer)
  /\ \A type \in LeafTypes : type \notin {"BANG", "MINUS", "LEFT_PAREN", "RIGHT_PAREN",
                                        "SEMICOLON", "NONE", "PRINT"}
  /\ LeafTypes = {"ID", "NUM", "STRING", "TRUE", "FALSE"}
  /\ \A type \in {"SEMICOLON", "NONE", "RIGHT_PAREN"} : InfixPrec(type) = -99999
BY Closers DEF BinaryTypes, LeafTypes, LeafKind, InfixPrec, PREC_NONE

\* How a token changes the closers due, in an expression.
LEMMA DueNext ==
  ASSUME NEW T, NEW w \in Seq(T), NEW lo \in 1 .. Len(w), NEW p \in lo .. Len(w)
  PROVE  /\ Len(w) \in Nat /\ w[p] \in T
         /\ DueIn(w, lo, lo - 1) = << >>
         /\ DueIn(w, lo, p - 1) \in Seq(Marks) /\ DueIn(w, lo, p) \in Seq(Marks)
         /\ w[p].type \in LeafTypes \cup BinaryTypes \cup {"BANG", "MINUS"} =>
              DueIn(w, lo, p) = DueIn(w, lo, p - 1)
         /\ w[p].type = "LEFT_PAREN" =>
              DueIn(w, lo, p) = DueIn(w, lo, p - 1) \o <<"RIGHT_PAREN">>
         /\ w[p].type = "RIGHT_PAREN" /\ DueIn(w, lo, p - 1) = <<"RIGHT_PAREN">> =>
              DueIn(w, lo, p) = << >>
         /\ w[p].type = "RIGHT_PAREN" /\ DueIn(w, lo, p - 1) = << >> =>
              Spoiled(DueIn(w, lo, p))
<1>1. Len(w) \in Nat /\ p \in 1 .. Len(w) /\ lo \in 1 .. Len(w) + 1
  BY LenProperties
<1>2. w[p] \in T
  BY <1>1, ElementOfSeq
<1>3. p - 1 \in lo - 1 .. Len(w) /\ p \in lo - 1 .. Len(w)
  BY <1>1
<1>4. /\ DueIn(w, lo, lo - 1) = << >>
      /\ DueIn(w, lo, p - 1) \in Seq(Marks) /\ DueIn(w, lo, p) \in Seq(Marks)
      /\ DueIn(w, lo, p) = Meets(DueIn(w, lo, p - 1), w[p])
  BY <1>1, <1>3, Stretch
<1> DEFINE due == DueIn(w, lo, p - 1)
           t == w[p]
<1>5. due \in Seq(Marks) /\ DueIn(w, lo, p) = Meets(due, t)
  BY <1>4
<1> HIDE DEF due, t
<1>6. t.type \in LeafTypes \cup BinaryTypes \cup {"BANG", "MINUS"} => Meets(due, t) = due
  BY TypeSets DEF Meets
<1>7. t.type = "LEFT_PAREN" => Meets(due, t) = due \o <<"RIGHT_PAREN">>
  <2>1. t.type = "LEFT_PAREN" => Meets(due, t) = Append(due, "RIGHT_PAREN")
    BY Closers DEF Meets
  <2>2. "RIGHT_PAREN" \in Marks
    BY DEF Marks
  <2> QED BY <1>5, <2>1, <2>2, AppendIsConcat
<1>8. t.type = "RIGHT_PAREN" /\ due = <<"RIGHT_PAREN">> => Meets(due, t) = << >>
  <2> SUFFICES ASSUME t.type = "RIGHT_PAREN", due = <<"RIGHT_PAREN">>
               PROVE  Meets(due, t) = << >>
    OBVIOUS
  <2>1. << >> \in Seq(Marks) /\ "RIGHT_PAREN" \in Marks
    BY DEF Marks
  <2>2. due = Append(<< >>, "RIGHT_PAREN")
    OBVIOUS
  <2>3. Front(due) = << >> /\ Last(due) = "RIGHT_PAREN" /\ due # << >>
    BY <2>1, <2>2, FrontLastAppend
  <2> QED BY <2>3, Closers DEF Meets
<1>9. t.type = "RIGHT_PAREN" /\ due = << >> => Spoiled(Meets(due, t))
  <2> SUFFICES ASSUME t.type = "RIGHT_PAREN", due = << >>
               PROVE  Spoiled(Meets(due, t))
    OBVIOUS
  <2>1. Meets(due, t) = <<"mismatch">>
    BY Closers DEF Meets
  <2> QED BY <2>1 DEF Spoiled
<1> QED BY <1>1, <1>2, <1>4, <1>6, <1>7, <1>8, <1>9 DEF due, t

\* In an expression no parenthesis closes that was not opened.
LEMMA Unspoiled ==
  ASSUME NEW T, NEW w \in Seq(T), NEW lo, NEW hi, Expression(w, lo, hi),
         NEW p \in lo .. hi
  PROVE  /\ ~ Spoiled(DueIn(w, lo, p)) /\ p \in 1 .. Len(w)
         /\ lo \in 1 .. Len(w) /\ hi \in lo .. Len(w) /\ Len(w) \in Nat
<1>1. lo \in 1 .. Len(w) /\ hi \in lo .. Len(w) /\ Len(w) \in Nat
  BY LenProperties DEF Expression
<1>2. PICK m : m = p + 1
  OBVIOUS
<1>3. /\ lo \in 1 .. Len(w) + 1 /\ m \in lo .. Len(w) + 1
      /\ hi \in m - 1 .. Len(w) /\ m - 1 = p
  BY <1>1, <1>2
<1>4. Spoiled(DueIn(w, lo, m - 1)) => Spoiled(DueIn(w, lo, hi))
  BY <1>3, DueParts
<1>5. DueIn(w, lo, hi) = << >>
  BY DEF Expression
<1> QED BY <1>1, <1>3, <1>4, <1>5 DEF Spoiled

\* A literal or a name.
LEMMA LeafExpression ==
  ASSUME NEW T, NEW w \in Seq(T), NEW lo \in 1 .. Len(w),
         w[lo].type \in LeafTypes, ~ AfterOperand(w, lo)
  PROVE  Expression(w, lo, lo) /\ Operators(w, lo, lo) = {}
<1>1. Len(w) \in Nat /\ lo \in lo .. Len(w)
  BY LenProperties
<1>2. DueIn(w, lo, lo) = << >>
  <2>1. DueIn(w, lo, lo - 1) = << >>
    BY <1>1, DueNext
  <2>2. w[lo].type \in LeafTypes \cup BinaryTypes \cup {"BANG", "MINUS"}
    OBVIOUS
  <2>3. DueIn(w, lo, lo) = DueIn(w, lo, lo - 1)
    BY <1>1, <2>2, DueNext
  <2> QED BY <2>1, <2>3
<1>3. \A p \in lo .. lo : p = lo
  BY <1>1
<1>4. Expression(w, lo, lo)
  BY <1>1, <1>2, <1>3 DEF Expression, Regular, EndsOperand
<1>5. Operators(w, lo, lo) = {}
  BY <1>1, <1>3 DEF Operators, Operator
<1> QED BY <1>4, <1>5

\* Where one expression begins, what is due after it is due in all.
LEMMA DueAfter ==
  ASSUME NEW T, NEW w \in Seq(T), NEW lo \in 1 .. Len(w), NEW m \in lo .. Len(w),
         NEW p \in m .. Len(w)
  PROVE  /\ DueIn(w, lo, m) = << >> => DueIn(w, lo, p) = DueIn(w, m + 1, p)
         /\ ~ Spoiled(DueIn(w, m + 1, p)) =>
              DueIn(w, lo, p) = DueIn(w, lo, m) \o DueIn(w, m + 1, p)
         /\ Spoiled(DueIn(w, lo, m)) => Spoiled(DueIn(w, lo, p))
<1>1. Len(w) \in Nat
  BY LenProperties
<1>2. PICK n : n = m + 1
  OBVIOUS
<1>3. /\ lo \in 1 .. Len(w) + 1 /\ n \in lo .. Len(w) + 1
      /\ p \in n - 1 .. Len(w) /\ n - 1 = m
  BY <1>1, <1>2
<1>4. /\ DueIn(w, lo, n - 1) = << >> => DueIn(w, lo, p) = DueIn(w, n, p)
      /\ ~ Spoiled(DueIn(w, n, p)) => DueIn(w, lo, p) = DueIn(w, lo, n - 1) \o DueIn(w, n, p)
      /\ Spoiled(DueIn(w, lo, n - 1)) => Spoiled(DueIn(w, lo, p))
  BY <1>3, DueParts
<1> QED BY <1>2, <1>3, <1>4

\* A prefix operator and its operand.
LEMMA UnaryExpression ==
  ASSUME NEW T, NEW w \in Seq(T), NEW lo \in 1 .. Len(w), Prefixed(w, lo),
         NEW hi, Expression(w, lo + 1, hi)
  PROVE  /\ Expression(w, lo, hi)
         /\ Operators(w, lo, hi) = Operators(w, lo + 1, hi)
<1>1. /\ Len(w) \in Nat /\ lo + 1 \in 1 .. Len(w) /\ hi \in lo + 1 .. Len(w)
      /\ hi \in lo .. Len(w) /\ lo \in lo .. Len(w)
  BY LenProperties DEF Expression
<1>2. DueIn(w, lo, lo) = << >>
  <2>1. /\ DueIn(w, lo, lo - 1) = << >>
        /\ w[lo].type \in LeafTypes \cup BinaryTypes \cup {"BANG", "MINUS"} =>
             DueIn(w, lo, lo) = DueIn(w, lo, lo - 1)
    BY <1>1, DueNext
  <2>2. w[lo].type \in {"BANG", "MINUS"}
    BY DEF Prefixed
  <2> QED BY <2>1, <2>2
<1>3. \A p \in lo .. Len(w) : DueIn(w, lo, p) = DueIn(w, lo + 1, p)
  BY <1>1, <1>2, DueAfter
<1>4. Regular(w, lo)
  BY DEF Prefixed, Regular
<1>5. Expression(w, lo, hi)
  <2>1. \A p \in lo .. hi : p = lo \/ p \in lo + 1 .. hi
    BY <1>1
  <2> QED BY <1>1, <1>3, <1>4, <2>1 DEF Expression, Prefixed
<1>6. ~ EndsOperand(w, lo)
  BY TypeSets DEF Prefixed, EndsOperand
<1>7. ASSUME NEW p \in lo .. hi
      PROVE  Operator(w, lo, p) <=> p \in lo + 1 .. hi /\ Operator(w, lo + 1, p)
  <2>1. p \in Int /\ (p = lo \/ p - 1 = lo \/ (p > lo + 1 /\ p \in lo + 1 .. hi))
    BY <1>1
  <2>2. CASE p = lo
    BY <1>1, <2>2 DEF Operator
  <2>3. CASE p - 1 = lo
    BY <1>1, <1>6, <2>3 DEF Operator
  <2>4. CASE p > lo + 1 /\ p \in lo + 1 .. hi
    <3>1. DueIn(w, lo, p) = DueIn(w, lo + 1, p)
      BY <1>1, <1>3, <2>4
    <3> QED BY <1>1, <2>4, <3>1 DEF Operator
  <2> QED BY <2>1, <2>2, <2>3, <2>4
<1>8. Operators(w, lo, hi) = Operators(w, lo + 1, hi)
  <2>1. \A p \in lo + 1 .. hi : p \in lo .. hi
    BY <1>1
  <2> QED BY <1>7, <2>1 DEF Operators
<1> QED BY <1>5, <1>8

\* An expression in parentheses.
LEMMA GroupExpression ==
  ASSUME NEW T, NEW w \in Seq(T), NEW lo \in 1 .. Len(w),
         w[lo].type = "LEFT_PAREN", ~ AfterOperand(w, lo),
         NEW hi \in 1 .. Len(w), w[hi].type = "RIGHT_PAREN",
         Expression(w, lo + 1, hi - 1)
  PROVE  /\ Expression(w, lo, hi)
         /\ Operators(w, lo, hi) = {}
         /\ \A p \in lo .. hi - 1 : DueIn(w, lo, p) = <<"RIGHT_PAREN">> \o DueIn(w, lo + 1, p)
<1>1. /\ Len(w) \in Nat /\ lo + 1 \in 1 .. Len(w) /\ hi - 1 \in lo + 1 .. Len(w)
      /\ hi \in lo .. Len(w) /\ lo \in lo .. Len(w)
  BY LenProperties DEF Expression
<1>2. DueIn(w, lo, lo) = <<"RIGHT_PAREN">>
  <2>1. DueIn(w, lo, lo) = << >> \o <<"RIGHT_PAREN">>
    BY <1>1, DueNext
  <2>2. <<"RIGHT_PAREN">> \in Seq(Marks)
    BY DEF Marks
  <2> QED BY <2>1, <2>2, ConcatEmptySeq
<1>3. ASSUME NEW p \in lo .. hi - 1
      PROVE  DueIn(w, lo, p) = <<"RIGHT_PAREN">> \o DueIn(w, lo + 1, p)
  <2>1. p \in lo .. Len(w) /\ (p = lo \/ p \in lo + 1 .. hi - 1)
    BY <1>1
  <2>2. CASE p \in lo + 1 .. hi - 1
    <3>1. ~ Spoiled(DueIn(w, lo + 1, p))
      BY <2>2, Unspoiled
    <3>2. p \in lo .. Len(w) /\ lo \in lo .. Len(w)
      BY <1>1, <2>1
    <3>3. \A m \in lo .. Len(w) : m = lo =>
            (p \in m .. Len(w) /\ ~ Spoiled(DueIn(w, m + 1, p)) =>
               DueIn(w, lo, p) = DueIn(w, lo, m) \o DueIn(w, m + 1, p))
      BY DueAfter
    <3>4. ~ Spoiled(DueIn(w, lo + 1, p)) =>
            DueIn(w, lo, p) = DueIn(w, lo, lo) \o DueIn(w, lo + 1, p)
      BY <3>2, <3>3
    <3> QED BY <1>2, <3>1, <3>4
  <2>3. CASE p = lo
    <3>1. PICK m : m = lo + 1
      OBVIOUS
    <3>2. m \in 1 .. Len(w) /\ m \in m .. Len(w) /\ m - 1 = lo
      BY <1>1, <3>1
    <3>3. DueIn(w, m, lo) = << >>
      BY <3>2, DueNext
    <3>4. <<"RIGHT_PAREN">> \in Seq(Marks)
      BY DEF Marks
    <3> QED BY <1>2, <2>3, <3>1, <3>3, <3>4, ConcatEmptySeq
  <2> QED BY <2>1, <2>2, <2>3
<1>4. DueIn(w, lo, hi - 1) = <<"RIGHT_PAREN">>
  <2>1. hi - 1 \in lo .. hi - 1 /\ DueIn(w, lo + 1, hi - 1) = << >>
    BY <1>1 DEF Expression
  <2>2. <<"RIGHT_PAREN">> \in Seq(Marks)
    BY DEF Marks
  <2> QED BY <1>3, <2>1, <2>2, ConcatEmptySeq
<1>5. DueIn(w, lo, hi) = << >>
  BY <1>1, <1>4, DueNext
<1>6. Regular(w, lo)
  BY DEF Regular
<1>7. Regular(w, hi) /\ EndsOperand(w, hi)
  BY <1>1 DEF Regular, EndsOperand, AfterOperand, Expression
<1>8. Expression(w, lo, hi)
  <2>1. \A p \in lo .. hi : p = lo \/ p \in lo + 1 .. hi - 1 \/ p = hi
    BY <1>1
  <2> QED BY <1>1, <1>5, <1>6, <1>7, <2>1 DEF Expression
<1>9. Operators(w, lo, hi) = {}
  <2> SUFFICES ASSUME NEW p \in lo .. hi, Operator(w, lo, p)
               PROVE  FALSE
    BY DEF Operators
  <2>1. p # hi
    BY TypeSets DEF Operator
  <2>2. p \in lo .. hi - 1 /\ p \in lo + 1 .. hi - 1
    BY <1>1, <2>1 DEF Operator
  <2>3. <<"RIGHT_PAREN">> \o DueIn(w, lo + 1, p) = << >>
    BY <1>3, <2>2 DEF Operator
  <2>4. DueIn(w, lo + 1, p) \in Seq(Marks)
    <3>1. p \in lo + 1 .. Len(w)
      BY <1>1, <2>2
    <3> QED BY <1>1, <3>1, DueNext
  <2>5. <<"RIGHT_PAREN">> \in Seq(Marks) /\ Len(<<"RIGHT_PAREN">>) = 1
    BY DEF Marks
  <2>6. Len(<<"RIGHT_PAREN">> \o DueIn(w, lo + 1, p)) = 1 + Len(DueIn(w, lo + 1, p))
    BY <2>4, <2>5, ConcatProperties
  <2>7. Len(DueIn(w, lo + 1, p)) \in Nat
    BY <2>4, LenProperties
  <2> QED BY <2>3, <2>6, <2>7, EmptySeq
<1> QED BY <1>3, <1>8, <1>9

\* Two expressions with an operator between them.
JoinedAt(w, lo, m, hi) ==
  /\ m \in 1 .. Len(w) /\ w[m].type \in BinaryTypes
  /\ Expression(w, lo, m - 1) /\ Expression(w, m + 1, hi)

LEMMA BinaryExpression ==
  ASSUME NEW T, NEW w \in Seq(T), NEW lo, NEW m, NEW hi, JoinedAt(w, lo, m, hi)
  PROVE  /\ Expression(w, lo, hi)
         /\ Operators(w, lo, hi)
              = Operators(w, lo, m - 1) \cup {m} \cup Operators(w, m + 1, hi)
         /\ m \in lo + 1 .. hi - 1
<1> SUFFICES ASSUME m \in 1 .. Len(w), w[m].type \in BinaryTypes,
                    Expression(w, lo, m - 1), Expression(w, m + 1, hi)
             PROVE  /\ Expression(w, lo, hi)
                    /\ Operators(w, lo, hi)
                         = Operators(w, lo, m - 1) \cup {m} \cup Operators(w, m + 1, hi)
                    /\ m \in lo + 1 .. hi - 1
  BY DEF JoinedAt
<1>1. /\ Len(w) \in Nat /\ lo \in 1 .. Len(w) /\ m - 1 \in lo .. Len(w)
      /\ m + 1 \in 1 .. Len(w) /\ hi \in m + 1 .. Len(w)
      /\ hi \in lo .. Len(w) /\ m \in lo .. Len(w) /\ m \in lo + 1 .. hi - 1
  BY LenProperties DEF Expression
<1>2. DueIn(w, lo, m - 1) = << >> /\ EndsOperand(w, m - 1)
  BY DEF Expression
<1>3. DueIn(w, lo, m) = << >>
  BY <1>1, <1>2, DueNext
<1>4. \A p \in m .. Len(w) : DueIn(w, lo, p) = DueIn(w, m + 1, p)
  BY <1>1, <1>3, DueAfter
<1>5. Regular(w, m) /\ ~ EndsOperand(w, m)
  <2>1. AfterOperand(w, m)
    BY <1>1, <1>2 DEF AfterOperand
  <2> QED BY <2>1, TypeSets DEF Regular, EndsOperand
<1>6. Expression(w, lo, hi)
  <2>1. \A p \in lo .. hi : p \in lo .. m - 1 \/ p = m \/ p \in m + 1 .. hi
    BY <1>1
  <2>2. \A p \in lo .. hi : Regular(w, p)
    BY <1>5, <2>1 DEF Expression
  <2>3. DueIn(w, lo, hi) = << >>
    <3>1. hi \in m .. Len(w)
      BY <1>1
    <3> QED BY <1>4, <3>1 DEF Expression
  <2> QED BY <1>1, <2>2, <2>3 DEF Expression
<1>7. Operator(w, lo, m)
  BY <1>1, <1>2, <1>3 DEF Operator
<1>8. ASSUME NEW p \in m + 1 .. hi
      PROVE  Operator(w, lo, p) <=> Operator(w, m + 1, p)
  <2>1. p \in Int /\ p \in m .. Len(w) /\ (p - 1 = m \/ p > m + 1) /\ p > lo
    BY <1>1
  <2>2. CASE p - 1 = m
    BY <1>1, <1>5, <2>2 DEF Operator
  <2>3. CASE p > m + 1
    <3>1. DueIn(w, lo, p) = DueIn(w, m + 1, p)
      BY <1>4, <2>1
    <3> QED BY <2>1, <2>3, <3>1 DEF Operator
  <2> QED BY <2>1, <2>2, <2>3
<1>9. ASSUME NEW p
      PROVE  p \in Operators(w, lo, hi) <=>
               p \in Operators(w, lo, m - 1) \cup {m} \cup Operators(w, m + 1, hi)
  <2>1. p \in lo .. hi <=> p \in lo .. m - 1 \/ p = m \/ p \in m + 1 .. hi
    BY <1>1
  <2> QED BY <1>7, <1>8, <2>1 DEF Operators
<1>10. Operators(w, lo, hi)
         = Operators(w, lo, m - 1) \cup {m} \cup Operators(w, m + 1, hi)
  BY <1>9
<1> QED BY <1>1, <1>6, <1>10

-----------------------------------------------------------------------------
\* What it is for a node to stand for an expression, by the way it was built.

\* The operators outside parentheses are all stronger than prec, or as strong.
Above(w, lo, hi, prec) ==
  \A p \in Operators(w, lo, hi) : prec < InfixPrec(w[p].type)

AtLeast(w, lo, hi, prec) ==
  \A p \in Operators(w, lo, hi) : prec <= InfixPrec(w[p].type)

LeafAt(ns, w, k, lo) ==
  /\ w[lo].type \in LeafTypes /\ ~ AfterOperand(w, lo)
  /\ ns[k].kind = LeafKind[w[lo].type] /\ ns[k].lit = w[lo].lit

UnaryAt(ns, w, k, j, lo, hi) ==
  /\ Prefixed(w, lo)
  /\ Expression(w, lo + 1, hi) /\ Operators(w, lo + 1, hi) = {}
  /\ ns[k].kind = "UnaryOp" /\ ns[k].type = w[lo].type /\ ns[k].kids = <<j>>
  /\ ns[j].kind # "Name"

GroupAt(w, lo, hi) ==
  /\ w[lo].type = "LEFT_PAREN" /\ ~ AfterOperand(w, lo)
  /\ Expression(w, lo + 1, hi - 1)
  /\ w[hi].type = "RIGHT_PAREN"

BinaryAt(ns, w, k, i, j, lo, m, hi) ==
  /\ w[m].type \in BinaryTypes
  /\ Expression(w, lo, m - 1) /\ AtLeast(w, lo, m - 1, InfixPrec(w[m].type))
  /\ Expression(w, m + 1, hi) /\ Above(w, m + 1, hi, InfixPrec(w[m].type))
  /\ ns[k].kind = "BinaryOp" /\ ns[k].type = w[m].type /\ ns[k].kids = <<i, j>>

\* R holds for what these rules build from what R holds for.
Rules(ns, w, R) ==
  /\ \A k \in DOMAIN ns, lo \in 1 .. Len(w) :
       LeafAt(ns, w, k, lo) => <<k, lo, lo>> \in R
  /\ \A k \in DOMAIN ns, j \in DOMAIN ns, lo \in 1 .. Len(w), hi \in 1 .. Len(w) :
       UnaryAt(ns, w, k, j, lo, hi) /\ <<j, lo + 1, hi>> \in R => <<k, lo, hi>> \in R
  /\ \A k \in DOMAIN ns, lo \in 1 .. Len(w), hi \in 1 .. Len(w) :
       GroupAt(w, lo, hi) /\ <<k, lo + 1, hi - 1>> \in R => <<k, lo, hi>> \in R
  /\ \A k \in DOMAIN ns, i \in DOMAIN ns, j \in DOMAIN ns,
        lo \in 1 .. Len(w), m \in 1 .. Len(w), hi \in 1 .. Len(w) :
       /\ BinaryAt(ns, w, k, i, j, lo, m, hi)
       /\ <<i, lo, m - 1>> \in R /\ <<j, m + 1, hi>> \in R
       => <<k, lo, hi>> \in R

Triples(ns, w) ==
  {<<k, lo, hi>> : k \in DOMAIN ns, lo \in 1 .. Len(w), hi \in 1 .. Len(w)}

\* Node k stands for the tokens lo .. hi: the least such relation.
TreeOf(ns, w, k, lo, hi) ==
  \A R \in SUBSET Triples(ns, w) : Rules(ns, w, R) => <<k, lo, hi>> \in R

Spans(ns, w, k, lo, hi) == Expression(w, lo, hi) /\ TreeOf(ns, w, k, lo, hi)

LEMMA TreeLeaf ==
  ASSUME NEW ns, NEW w, NEW k \in DOMAIN ns, NEW lo \in 1 .. Len(w),
         LeafAt(ns, w, k, lo)
  PROVE  TreeOf(ns, w, k, lo, lo)
BY DEF TreeOf, Rules

LEMMA TreeUnary ==
  ASSUME NEW ns, NEW w, NEW k \in DOMAIN ns, NEW j \in DOMAIN ns,
         NEW lo \in 1 .. Len(w), NEW hi \in 1 .. Len(w),
         UnaryAt(ns, w, k, j, lo, hi), TreeOf(ns, w, j, lo + 1, hi)
  PROVE  TreeOf(ns, w, k, lo, hi)
<1> SUFFICES ASSUME NEW R \in SUBSET Triples(ns, w), Rules(ns, w, R)
             PROVE  <<k, lo, hi>> \in R
  BY DEF TreeOf
<1>1. <<j, lo + 1, hi>> \in R
  BY DEF TreeOf
<1> QED BY <1>1 DEF Rules

LEMMA TreeGroup ==
  ASSUME NEW ns, NEW w, NEW k \in DOMAIN ns,
         NEW lo \in 1 .. Len(w), NEW hi \in 1 .. Len(w),
         GroupAt(w, lo, hi), TreeOf(ns, w, k, lo + 1, hi - 1)
  PROVE  TreeOf(ns, w, k, lo, hi)
<1> SUFFICES ASSUME NEW R \in SUBSET Triples(ns, w), Rules(ns, w, R)
             PROVE  <<k, lo, hi>> \in R
  BY DEF TreeOf
<1>1. <<k, lo + 1, hi - 1>> \in R
  BY DEF TreeOf
<1> QED BY <1>1 DEF Rules

LEMMA TreeBinary ==
  ASSUME NEW ns, NEW w, NEW k \in DOMAIN ns, NEW i \in DOMAIN ns, NEW j \in DOMAIN ns,
         NEW lo \in 1 .. Len(w), NEW m \in 1 .. Len(w), NEW hi \in 1 .. Len(w),
         BinaryAt(ns, w, k, i, j, lo, m, hi),
         TreeOf(ns, w, i, lo, m - 1), TreeOf(ns, w, j, m + 1, hi)
  PROVE  TreeOf(ns, w, k, lo, hi)
<1> SUFFICES ASSUME NEW R \in SUBSET Triples(ns, w), Rules(ns, w, R)
             PROVE  <<k, lo, hi>> \in R
  BY DEF TreeOf
<1>1. <<i, lo, m - 1>> \in R /\ <<j, m + 1, hi>> \in R
  BY DEF TreeOf
<1> QED BY <1>1 DEF Rules

\* New nodes make no difference.
Keeps(ns, ms) ==
  DOMAIN ns \subseteq DOMAIN ms /\ \A i \in DOMAIN ns : ms[i] = ns[i]

LEMMA TreeGrows ==
  ASSUME NEW ns, NEW ms, Keeps(ns, ms), NEW w, NEW k, NEW lo, NEW hi,
         TreeOf(ns, w, k, lo, hi)
  PROVE  TreeOf(ms, w, k, lo, hi)
<1> SUFFICES ASSUME NEW R \in SUBSET Triples(ms, w), Rules(ms, w, R)
             PROVE  <<k, lo, hi>> \in R
  BY DEF TreeOf
<1> DEFINE Q == R \cap Triples(ns, w)
<1>1. DOMAIN ns \subseteq DOMAIN ms /\ \A i \in DOMAIN ns : ms[i] = ns[i]
  BY DEF Keeps
<1>2. \A i \in DOMAIN ns, a \in 1 .. Len(w), b \in 1 .. Len(w) :
        <<i, a, b>> \in Triples(ns, w)
  BY DEF Triples
<1>3. \A r \in Q : r \in R
  OBVIOUS
<1>4. \A i \in DOMAIN ns, a \in 1 .. Len(w), b \in 1 .. Len(w) :
        <<i, a, b>> \in R => <<i, a, b>> \in Q
  BY <1>2
<1> HIDE DEF Q
<1>5. ASSUME NEW i \in DOMAIN ns, NEW a \in 1 .. Len(w), LeafAt(ns, w, i, a)
      PROVE  <<i, a, a>> \in Q
  <2>1. LeafAt(ms, w, i, a)
    BY <1>1, <1>5 DEF LeafAt
  <2> QED BY <1>1, <1>4, <2>1 DEF Rules
<1>6. ASSUME NEW i \in DOMAIN ns, NEW j \in DOMAIN ns, NEW a \in 1 .. Len(w),
             NEW b \in 1 .. Len(w), UnaryAt(ns, w, i, j, a, b), <<j, a + 1, b>> \in Q
      PROVE  <<i, a, b>> \in Q
  <2>1. UnaryAt(ms, w, i, j, a, b) /\ <<j, a + 1, b>> \in R
    BY <1>1, <1>3, <1>6 DEF UnaryAt
  <2> QED BY <1>1, <1>4, <2>1 DEF Rules
<1>7. ASSUME NEW i \in DOMAIN ns, NEW a \in 1 .. Len(w), NEW b \in 1 .. Len(w),
             GroupAt(w, a, b), <<i, a + 1, b - 1>> \in Q
      PROVE  <<i, a, b>> \in Q
  <2>1. <<i, a + 1, b - 1>> \in R
    BY <1>3, <1>7
  <2> QED BY <1>1, <1>4, <1>7, <2>1 DEF Rules
<1>8. ASSUME NEW g \in DOMAIN ns, NEW i \in DOMAIN ns, NEW j \in DOMAIN ns,
             NEW a \in 1 .. Len(w), NEW m \in 1 .. Len(w), NEW b \in 1 .. Len(w),
             BinaryAt(ns, w, g, i, j, a, m, b),
             <<i, a, m - 1>> \in Q, <<j, m + 1, b>> \in Q
      PROVE  <<g, a, b>> \in Q
  <2>1. /\ BinaryAt(ms, w, g, i, j, a, m, b)
        /\ <<i, a, m - 1>> \in R /\ <<j, m + 1, b>> \in R
    BY <1>1, <1>3, <1>8 DEF BinaryAt
  <2> QED BY <1>1, <1>4, <2>1 DEF Rules
<1>9. Rules(ns, w, Q)
  BY <1>5, <1>6, <1>7, <1>8 DEF Rules
<1>10. Q \in SUBSET Triples(ns, w)
  BY DEF Q
<1>11. <<k, lo, hi>> \in Q
  BY <1>9, <1>10 DEF TreeOf
<1> QED BY <1>3, <1>11

\* A node that stands for something is there.
LEMMA TreeInside ==
  ASSUME NEW ns, NEW w, NEW k, NEW lo, NEW hi, TreeOf(ns, w, k, lo, hi),
         Len(w) \in Nat
  PROVE  k \in DOMAIN ns /\ lo \in 1 .. Len(w) /\ hi \in 1 .. Len(w)
<1> DEFINE R == Triples(ns, w)
<1>1. \A i \in DOMAIN ns, a \in 1 .. Len(w), b \in 1 .. Len(w) : <<i, a, b>> \in R
  BY DEF Triples
<1> HIDE DEF R
<1>2. Rules(ns, w, R)
  BY <1>1 DEF Rules
<1>3. <<k, lo, hi>> \in R
  BY <1>2 DEF TreeOf, R
<1> QED BY <1>3 DEF R, Triples

-----------------------------------------------------------------------------
\* Names, bare or in parentheses.

\* n parentheses on each side of the name at c.
Nested(w, c, n) ==
  /\ w[c].type = "ID"
  /\ \A i \in 1 .. n : w[c - i].type = "LEFT_PAREN" /\ w[c + i].type = "RIGHT_PAREN"

Wraps(w, lo, hi) == \E n \in Nat : hi = lo + 2 * n /\ Nested(w, lo + n, n)

\* A parenthesis is due between those that match.
Encloses(w, lo, hi) ==
  /\ \A p \in lo .. hi - 1 :
       DueIn(w, lo, p) # << >> /\ ~ Spoiled(DueIn(w, lo, p))
  /\ DueIn(w, lo, hi) = << >>

LEMMA EnclosesMore ==
  ASSUME NEW T, NEW w \in Seq(T), NEW a \in 1 .. Len(w), NEW b \in 1 .. Len(w),
         a + 1 <= b - 1, w[a].type = "LEFT_PAREN", w[b].type = "RIGHT_PAREN",
         Encloses(w, a + 1, b - 1)
  PROVE  Encloses(w, a, b)
<1>1. Len(w) \in Nat /\ a + 1 \in 1 .. Len(w) /\ a \in a .. Len(w) /\ b \in a .. Len(w)
  BY LenProperties
<1>2. /\ <<"RIGHT_PAREN">> \in Seq(Marks) /\ Len(<<"RIGHT_PAREN">>) = 1
      /\ <<"RIGHT_PAREN">>[1] = "RIGHT_PAREN"
  BY DEF Marks
<1>3. DueIn(w, a, a) = <<"RIGHT_PAREN">>
  <2>1. DueIn(w, a, a) = << >> \o <<"RIGHT_PAREN">>
    BY <1>1, DueNext
  <2> QED BY <1>2, <2>1, ConcatEmptySeq
<1>4. ASSUME NEW p \in a + 1 .. b - 1
      PROVE  /\ DueIn(w, a, p) = <<"RIGHT_PAREN">> \o DueIn(w, a + 1, p)
             /\ DueIn(w, a + 1, p) \in Seq(Marks)
  <2>1. p \in a + 1 .. (b - 1) - 1 \/ p = b - 1
    BY <1>1
  <2>2. ~ Spoiled(DueIn(w, a + 1, p))
    BY <2>1 DEF Encloses, Spoiled
  <2>3. p \in a .. Len(w) /\ a \in a .. Len(w) /\ p \in a + 1 .. Len(w)
    BY <1>1
  <2>4. ~ Spoiled(DueIn(w, a + 1, p)) =>
          DueIn(w, a, p) = DueIn(w, a, a) \o DueIn(w, a + 1, p)
    BY <2>3, DueAfter, SMTT(60)
  <2>5. DueIn(w, a + 1, p) \in Seq(Marks)
    BY <1>1, <2>3, DueNext
  <2> QED BY <1>3, <2>2, <2>4, <2>5
<1>5. ASSUME NEW p \in a .. b - 1
      PROVE  DueIn(w, a, p) # << >> /\ ~ Spoiled(DueIn(w, a, p))
  <2>1. CASE p = a
    BY <1>2, <1>3, <2>1, EmptySeq DEF Spoiled
  <2>2. CASE p # a
    <3>1. p \in a + 1 .. b - 1
      BY <1>1, <2>2
    <3> DEFINE d == DueIn(w, a + 1, p)
    <3>2. DueIn(w, a, p) = <<"RIGHT_PAREN">> \o d /\ d \in Seq(Marks)
      BY <1>4, <3>1
    <3> HIDE DEF d
    <3>3. /\ Len(<<"RIGHT_PAREN">> \o d) = 1 + Len(d) /\ Len(d) \in Nat
          /\ (<<"RIGHT_PAREN">> \o d)[1] = "RIGHT_PAREN"
      <4>1. Len(d) \in Nat
        BY <3>2, LenProperties
      <4>2. /\ Len(<<"RIGHT_PAREN">> \o d) = 1 + Len(d)
            /\ \A i \in 1 .. 1 + Len(d) :
                 (<<"RIGHT_PAREN">> \o d)[i]
                   = IF i <= 1 THEN <<"RIGHT_PAREN">>[i] ELSE d[i - 1]
        BY <1>2, <3>2, ConcatProperties
      <4> QED BY <1>2, <4>1, <4>2
    <3> QED BY <3>2, <3>3, EmptySeq DEF Spoiled
  <2> QED BY <2>1, <2>2
<1>6. DueIn(w, a, b - 1) = <<"RIGHT_PAREN">>
  <2>1. b - 1 \in a + 1 .. b - 1 /\ DueIn(w, a + 1, b - 1) = << >>
    BY <1>1 DEF Encloses
  <2> QED BY <1>2, <1>4, <2>1, ConcatEmptySeq
<1>7. DueIn(w, a, b) = << >>
  BY <1>1, <1>6, DueNext
<1> QED BY <1>5, <1>7 DEF Encloses

LEMMA WrapsEncloses ==
  ASSUME NEW T, NEW w \in Seq(T), NEW lo \in 1 .. Len(w), NEW hi \in 1 .. Len(w),
         Wraps(w, lo, hi)
  PROVE  Encloses(w, lo, hi) /\ lo <= hi /\ EndsOperand(w, hi)
<1>1. PICK n \in Nat : hi = lo + 2 * n /\ Nested(w, lo + n, n)
  BY DEF Wraps
<1> DEFINE c == lo + n
           S == {k \in 0 .. n : Encloses(w, c - k, c + k)}
<1>2. /\ Len(w) \in Nat /\ c \in 1 .. Len(w)
      /\ \A k \in 0 .. n : c - k \in 1 .. Len(w) /\ c + k \in 1 .. Len(w)
      /\ c - n = lo /\ c + n = hi
  BY <1>1, LenProperties
<1>3. /\ w[c].type = "ID"
      /\ \A i \in 1 .. n : w[c - i].type = "LEFT_PAREN" /\ w[c + i].type = "RIGHT_PAREN"
  BY <1>1 DEF Nested
<1> HIDE DEF c
<1>4. 0 \in S
  <2>1. c - 0 = c /\ c + 0 = c /\ c \in c .. Len(w)
    BY <1>2
  <2>2. DueIn(w, c, c) = << >>
    <3>1. w[c].type \in LeafTypes
      BY <1>3, TypeSets
    <3>2. DueIn(w, c, c - 1) = << >>
      BY <1>2, <2>1, DueNext
    <3>3. DueIn(w, c, c) = DueIn(w, c, c - 1)
      BY <1>2, <2>1, <3>1, DueNext
    <3> QED BY <3>2, <3>3
  <2>3. c .. c - 1 = {}
    BY <1>2
  <2> QED BY <2>1, <2>2, <2>3 DEF Encloses
<1>5. ASSUME NEW k \in 1 .. n, k - 1 \in S
      PROVE  k \in S
  <2>1. k \in 0 .. n /\ k - 1 \in 0 .. n /\ Encloses(w, c - (k - 1), c + (k - 1))
    BY <1>5
  <2>2. PICK a, b : a = c - k /\ b = c + k
    OBVIOUS
  <2>3. /\ a \in 1 .. Len(w) /\ b \in 1 .. Len(w) /\ a + 1 <= b - 1
        /\ a + 1 = c - (k - 1) /\ b - 1 = c + (k - 1)
    BY <1>2, <2>1, <2>2
  <2>4. w[a].type = "LEFT_PAREN" /\ w[b].type = "RIGHT_PAREN"
    BY <1>3, <2>2
  <2>5. Encloses(w, a, b)
    BY <2>1, <2>3, <2>4, EnclosesMore
  <2> QED BY <2>1, <2>2, <2>5
<1> HIDE DEF S
<1>6. n \in S
  <2>1. n \in 0 .. n
    BY <1>1
  <2> QED BY <1>1, <1>4, <1>5, <2>1, StepInduction
<1>7. EndsOperand(w, hi)
  <2>1. n = 0 \/ n \in 1 .. n
    BY <1>1
  <2> QED BY <1>2, <1>3, <2>1, TypeSets DEF EndsOperand
<1>8. lo <= hi
  BY <1>1, <1>2
<1> QED BY <1>2, <1>6, <1>7, <1>8 DEF S

\* An expression without operators that begins with such a name is no more.
LEMMA WrapsAll ==
  ASSUME NEW T, NEW w \in Seq(T), NEW lo, NEW hi, Expression(w, lo, hi),
         Operators(w, lo, hi) = {}, NEW r \in 1 .. Len(w), Wraps(w, lo, r)
  PROVE  r = hi
<1>1. Len(w) \in Nat /\ lo \in 1 .. Len(w) /\ hi \in lo .. Len(w)
  BY LenProperties DEF Expression
<1>2. Encloses(w, lo, r) /\ lo <= r /\ EndsOperand(w, r)
  BY <1>1, WrapsEncloses
<1>3. ASSUME r < hi
      PROVE  FALSE
  <2>1. PICK t : t = r + 1
    OBVIOUS
  <2>2. t \in lo .. hi /\ t - 1 = r /\ t \in lo .. Len(w) /\ t > 1 /\ t > lo
    BY <1>1, <1>2, <1>3, <2>1
  <2>3. w[t].type \in BinaryTypes \cup {"RIGHT_PAREN"}
    BY <1>2, <2>2 DEF Expression, Regular, AfterOperand
  <2>4. DueIn(w, lo, t - 1) = << >>
    BY <1>2, <2>2 DEF Encloses
  <2>5. CASE w[t].type \in BinaryTypes
    <3>1. DueIn(w, lo, t) = << >>
      BY <1>1, <2>2, <2>4, <2>5, DueNext
    <3>2. Operator(w, lo, t)
      BY <1>2, <2>2, <2>5, <3>1 DEF Operator
    <3> QED BY <2>2, <3>2 DEF Operators
  <2>6. CASE w[t].type = "RIGHT_PAREN"
    <3>1. Spoiled(DueIn(w, lo, t))
      BY <1>1, <2>2, <2>4, <2>6, DueNext
    <3> QED BY <2>2, <3>1, Unspoiled
  <2> QED BY <2>3, <2>5, <2>6
<1>4. ASSUME hi < r
      PROVE  FALSE
  <2>1. hi \in lo .. r - 1
    BY <1>1, <1>4
  <2>2. DueIn(w, lo, hi) # << >>
    BY <1>2, <2>1 DEF Encloses
  <2> QED BY <2>2 DEF Expression
<1> QED BY <1>1, <1>3, <1>4

\* Which nodes are names, and that no name is negated.
Named(ns, w, k, lo, hi) ==
  /\ ns[k].kind = "Name" <=> Wraps(w, lo, hi)
  /\ \A p \in lo .. hi, r \in 1 .. Len(w) :
       Prefixed(w, p) => ~ Wraps(w, p + 1, r)

LEMMA WrapsOne ==
  ASSUME NEW w, NEW lo \in Nat, NEW hi \in Nat
  PROVE  /\ Wraps(w, lo, lo) <=> w[lo].type = "ID"
         /\ Wraps(w, lo, hi) => w[lo].type \in {"ID", "LEFT_PAREN"}
         /\ Wraps(w, lo, hi) => lo <= hi /\ \A p \in lo .. hi :
              w[p].type \in {"ID", "LEFT_PAREN", "RIGHT_PAREN"}
         /\ w[lo].type = "LEFT_PAREN" /\ w[hi].type = "RIGHT_PAREN" =>
              (Wraps(w, lo, hi) <=> Wraps(w, lo + 1, hi - 1))
<1>1. ASSUME Wraps(w, lo, lo)
      PROVE  w[lo].type = "ID"
  <2>1. PICK n \in Nat : lo = lo + 2 * n /\ Nested(w, lo + n, n)
    BY <1>1 DEF Wraps
  <2>2. n = 0
    BY <2>1
  <2> QED BY <2>1, <2>2 DEF Nested
<1>2. ASSUME w[lo].type = "ID"
      PROVE  Wraps(w, lo, lo)
  <2>1. lo = lo + 2 * 0 /\ lo = lo + 0 /\ 0 \in Nat
    OBVIOUS
  <2>2. Nested(w, lo, 0)
    BY <1>2 DEF Nested
  <2> QED BY <2>1, <2>2 DEF Wraps
<1>3. ASSUME Wraps(w, lo, hi)
      PROVE  /\ lo <= hi
             /\ \A p \in lo .. hi : w[p].type \in {"ID", "LEFT_PAREN", "RIGHT_PAREN"}
             /\ w[lo].type \in {"ID", "LEFT_PAREN"}
  <2>1. PICK n \in Nat : hi = lo + 2 * n /\ Nested(w, lo + n, n)
    BY <1>3 DEF Wraps
  <2>2. ASSUME NEW p \in lo .. hi
        PROVE  w[p].type \in {"ID", "LEFT_PAREN", "RIGHT_PAREN"}
    <3>1. CASE p = lo + n
      BY <2>1, <3>1 DEF Nested
    <3>2. CASE p < lo + n
      <4>1. PICK i : i = lo + n - p
        OBVIOUS
      <4>2. i \in 1 .. n /\ p = lo + n - i
        BY <2>1, <3>2, <4>1
      <4> QED BY <2>1, <4>2 DEF Nested
    <3>3. CASE p > lo + n
      <4>1. PICK i : i = p - (lo + n)
        OBVIOUS
      <4>2. i \in 1 .. n /\ p = lo + n + i
        BY <2>1, <3>3, <4>1
      <4> QED BY <2>1, <4>2 DEF Nested
    <3> QED BY <2>1, <3>1, <3>2, <3>3
  <2>3. w[lo].type \in {"ID", "LEFT_PAREN"}
    <3>1. CASE n = 0
      <4>1. lo + n = lo
        BY <3>1
      <4> QED BY <2>1, <4>1 DEF Nested
    <3>2. CASE n # 0
      <4>1. n \in 1 .. n /\ lo + n - n = lo
        BY <2>1, <3>2
      <4>2. w[lo + n - n].type = "LEFT_PAREN"
        BY <2>1, <4>1 DEF Nested
      <4> QED BY <4>1, <4>2
    <3> QED BY <3>1, <3>2
  <2> QED BY <2>1, <2>2, <2>3
<1>4. ASSUME w[lo].type = "LEFT_PAREN", w[hi].type = "RIGHT_PAREN", Wraps(w, lo, hi)
      PROVE  Wraps(w, lo + 1, hi - 1)
  <2>1. PICK n \in Nat : hi = lo + 2 * n /\ Nested(w, lo + n, n)
    BY <1>4 DEF Wraps
  <2>2. n # 0
    <3>1. n = 0 => lo + n = lo
      BY <2>1
    <3> QED BY <1>4, <2>1, <3>1 DEF Nested
  <2>3. PICK k : k = n - 1
    OBVIOUS
  <2>4. /\ k \in Nat /\ hi - 1 = (lo + 1) + 2 * k /\ (lo + 1) + k = lo + n
        /\ \A i \in 1 .. k : i \in 1 .. n
    BY <2>1, <2>2, <2>3
  <2>5. Nested(w, (lo + 1) + k, k)
    BY <2>1, <2>4 DEF Nested
  <2> QED BY <2>4, <2>5 DEF Wraps
<1>5. ASSUME w[lo].type = "LEFT_PAREN", w[hi].type = "RIGHT_PAREN",
             Wraps(w, lo + 1, hi - 1)
      PROVE  Wraps(w, lo, hi)
  <2>1. PICK k \in Nat : hi - 1 = (lo + 1) + 2 * k /\ Nested(w, (lo + 1) + k, k)
    BY <1>5 DEF Wraps
  <2>2. PICK n : n = k + 1
    OBVIOUS
  <2>3. /\ n \in Nat /\ hi = lo + 2 * n /\ (lo + 1) + k = lo + n
        /\ lo + n - n = lo /\ lo + n + n = hi
        /\ \A i \in 1 .. n : i \in 1 .. k \/ i = n
    BY <2>1, <2>2
  <2>4. Nested(w, lo + n, n)
    BY <1>5, <2>1, <2>3 DEF Nested
  <2> QED BY <2>3, <2>4 DEF Wraps
<1> QED BY <1>1, <1>2, <1>3, <1>4, <1>5

LEMMA TreeNamed ==
  ASSUME NEW ns, NEW T, NEW w \in Seq(T), NEW k, NEW lo, NEW hi,
         TreeOf(ns, w, k, lo, hi)
  PROVE  Named(ns, w, k, lo, hi)
<1> DEFINE R == {r \in Triples(ns, w) : Named(ns, w, r[1], r[2], r[3])}
<1>1. \A i \in DOMAIN ns, a \in 1 .. Len(w), b \in 1 .. Len(w) :
        <<i, a, b>> \in R <=> Named(ns, w, i, a, b)
  BY DEF Triples
<1>2. \A r \in R : r \in Triples(ns, w)
  OBVIOUS
<1>3. \A i, a, b : <<i, a, b>> \in R => Named(ns, w, i, a, b)
  OBVIOUS
<1> HIDE DEF R
<1>0. Len(w) \in Nat
  BY LenProperties
<1>4. ASSUME NEW i \in DOMAIN ns, NEW a \in 1 .. Len(w), LeafAt(ns, w, i, a)
      PROVE  Named(ns, w, i, a, a)
  <2>1. LeafKind[w[a].type] = "Name" <=> w[a].type = "ID"
    BY <1>4 DEF LeafAt, LeafKind, LeafTypes
  <2>2. \A p \in a .. a : p = a
    BY <1>0
  <2>3. ~ Prefixed(w, a)
    BY <1>4, TypeSets DEF LeafAt, Prefixed
  <2>4. Wraps(w, a, a) <=> w[a].type = "ID"
    BY <1>0, WrapsOne
  <2> QED BY <1>4, <2>1, <2>2, <2>3, <2>4 DEF LeafAt, Named
<1>5. ASSUME NEW i \in DOMAIN ns, NEW j \in DOMAIN ns, NEW a \in 1 .. Len(w),
             NEW b \in 1 .. Len(w), UnaryAt(ns, w, i, j, a, b),
             Named(ns, w, j, a + 1, b)
      PROVE  Named(ns, w, i, a, b)
  <2>1. ns[i].kind = "UnaryOp" /\ w[a].type \in {"BANG", "MINUS"}
    BY <1>5 DEF UnaryAt, Prefixed
  <2>2. ~ Wraps(w, a, b)
    BY <1>0, <2>1, WrapsOne
  <2>3. ~ Wraps(w, a + 1, b)
    BY <1>5 DEF UnaryAt, Named
  <2>4. ASSUME NEW r \in 1 .. Len(w)
        PROVE  ~ Wraps(w, a + 1, r)
    BY <1>5, <2>3, WrapsAll DEF UnaryAt
  <2>5. \A p \in a .. b : p = a \/ p \in a + 1 .. b
    BY <1>0
  <2> QED BY <1>5, <2>1, <2>2, <2>4, <2>5 DEF Named
<1>6. ASSUME NEW i \in DOMAIN ns, NEW a \in 1 .. Len(w), NEW b \in 1 .. Len(w),
             GroupAt(w, a, b), Named(ns, w, i, a + 1, b - 1)
      PROVE  Named(ns, w, i, a, b)
  <2>1. w[a].type = "LEFT_PAREN" /\ w[b].type = "RIGHT_PAREN"
    BY <1>6 DEF GroupAt
  <2>2. Wraps(w, a, b) <=> Wraps(w, a + 1, b - 1)
    BY <1>0, <2>1, WrapsOne
  <2>3. ~ Prefixed(w, a) /\ ~ Prefixed(w, b)
    BY <2>1 DEF Prefixed
  <2>4. \A p \in a .. b : p = a \/ p \in a + 1 .. b - 1 \/ p = b
    BY <1>0
  <2> QED BY <1>6, <2>2, <2>3, <2>4 DEF Named
<1>7. ASSUME NEW g \in DOMAIN ns, NEW i \in DOMAIN ns, NEW j \in DOMAIN ns,
             NEW a \in 1 .. Len(w), NEW m \in 1 .. Len(w), NEW b \in 1 .. Len(w),
             BinaryAt(ns, w, g, i, j, a, m, b),
             Named(ns, w, i, a, m - 1), Named(ns, w, j, m + 1, b)
      PROVE  Named(ns, w, g, a, b)
  <2>1. /\ w[m].type \in BinaryTypes /\ ns[g].kind = "BinaryOp"
        /\ Expression(w, a, m - 1) /\ Expression(w, m + 1, b)
    BY <1>7 DEF BinaryAt
  <2>2. m \in a .. b
    BY <1>0, <2>1 DEF Expression
  <2>3. ~ Wraps(w, a, b)
    <3>1. w[m].type \notin {"ID", "LEFT_PAREN", "RIGHT_PAREN"}
      BY <2>1, TypeSets
    <3> QED BY <1>0, <2>2, <3>1, WrapsOne
  <2>4. ~ Prefixed(w, m)
    <3>1. m > 1 /\ EndsOperand(w, m - 1)
      BY <1>0, <2>1 DEF Expression
    <3> QED BY <3>1 DEF Prefixed, AfterOperand
  <2>5. \A p \in a .. b : p \in a .. m - 1 \/ p = m \/ p \in m + 1 .. b
    BY <1>0
  <2> QED BY <1>7, <2>1, <2>3, <2>4, <2>5 DEF Named
<1>8. Rules(ns, w, R)
  BY <1>1, <1>3, <1>4, <1>5, <1>6, <1>7 DEF Rules
<1>9. R \in SUBSET Triples(ns, w)
  BY <1>2
<1>10. <<k, lo, hi>> \in R
  BY <1>8, <1>9 DEF TreeOf
<1> QED BY <1>3, <1>10

-----------------------------------------------------------------------------
\* The trees of a program of expressions and prints.

PrintOf(ns, w, k, s, e) ==
  /\ w[s].type = "PRINT"
  /\ k \in DOMAIN ns /\ ns[k].kind = "Print"
  /\ \E j \in DOMAIN ns : ns[k].kids = <<j>> /\ Spans(ns, w, j, s + 1, e)

StmtOf(ns, w, k, s, e) ==
  PrintOf(ns, w, k, s, e) \/ (First(w, s) = s /\ Spans(ns, w, k, s, e))

\* The nodes ks stand for the statements before s.
Laid(ns, w, ks, s) ==
  \E bs \in Seq(1 .. Len(w) + 1) :
    /\ Len(bs) = Len(ks) + 1 /\ bs[1] = 1 /\ bs[Len(bs)] = s
    /\ \A i \in 1 .. Len(ks) :
         /\ PlainAt(w, bs[i], bs[i + 1] - 2)
         /\ StmtOf(ns, w, ks[i], bs[i], bs[i + 1] - 2)

-----------------------------------------------------------------------------

TypeAt(w, t) == IF t <= Len(w) THEN w[t].type ELSE "NONE"

LEMMA SpansGrows ==
  ASSUME NEW ns, NEW ms, Keeps(ns, ms), NEW w
  PROVE  /\ DOMAIN ns \subseteq DOMAIN ms
         /\ \A k, lo, hi : Spans(ns, w, k, lo, hi) => Spans(ms, w, k, lo, hi)
         /\ \A k, s, e : PrintOf(ns, w, k, s, e) => PrintOf(ms, w, k, s, e)
         /\ \A k, s, e : StmtOf(ns, w, k, s, e) => StmtOf(ms, w, k, s, e)
         /\ \A ks, s : Laid(ns, w, ks, s) => Laid(ms, w, ks, s)
<1>1. /\ DOMAIN ns \subseteq DOMAIN ms
      /\ \A k, lo, hi : Spans(ns, w, k, lo, hi) => Spans(ms, w, k, lo, hi)
  BY TreeGrows DEF Spans, Keeps
<1>2. ASSUME NEW k, NEW s, NEW e, PrintOf(ns, w, k, s, e)
      PROVE  PrintOf(ms, w, k, s, e)
  <2>1. /\ w[s].type = "PRINT" /\ k \in DOMAIN ms /\ ms[k] = ns[k]
        /\ ns[k].kind = "Print"
    BY <1>1, <1>2 DEF PrintOf, Keeps
  <2>2. PICK j \in DOMAIN ns : ns[k].kids = <<j>> /\ Spans(ns, w, j, s + 1, e)
    BY <1>2 DEF PrintOf
  <2> QED BY <1>1, <2>1, <2>2 DEF PrintOf
<1>3. \A k, s, e : StmtOf(ns, w, k, s, e) => StmtOf(ms, w, k, s, e)
  BY <1>1, <1>2 DEF StmtOf
<1>4. \A ks, s : Laid(ns, w, ks, s) => Laid(ms, w, ks, s)
  BY <1>3 DEF Laid
<1> QED BY <1>1, <1>2, <1>3, <1>4

LEMMA PlainFacts ==
  ASSUME NEW T, NEW w \in Seq(T), NEW s, NEW e, PlainAt(w, s, e)
  PROVE  /\ Len(w) \in Nat /\ s \in 1 .. Len(w) /\ e \in s .. Len(w)
         /\ s \in s .. e /\ e \in s .. e
         /\ First(w, s) \in {s, s + 1} /\ First(w, s) \in s .. e
         /\ Expression(w, First(w, s), e) /\ EndsOperand(w, e)
         /\ ~ AfterOperand(w, s)
         /\ TypeAt(w, e + 1) \in {"SEMICOLON", "NONE"}
         /\ \A p \in s + 1 .. e : Regular(w, p)
         /\ w[s].type = "PRINT" \/ Regular(w, s)
<1>1. /\ Len(w) \in Nat /\ s \in 1 .. Len(w) /\ e \in s .. Len(w)
      /\ First(w, s) \in {s, s + 1}
      /\ Expression(w, First(w, s), e)
  BY LenProperties DEF PlainAt, SimpleAt, First
<1>2. /\ First(w, s) \in s .. e /\ EndsOperand(w, e)
      /\ \A p \in First(w, s) .. e : Regular(w, p)
  BY <1>1 DEF Expression
<1>3. ~ AfterOperand(w, s)
  <2>1. s = 1 \/ w[s - 1].type = "SEMICOLON"
    BY DEF PlainAt, Reached, BeginsAt
  <2> QED BY <1>1, <2>1, TypeSets DEF AfterOperand, EndsOperand
<1>4. TypeAt(w, e + 1) \in {"SEMICOLON", "NONE"}
  <2>1. e < Len(w) => w[e + 1].type = "SEMICOLON"
    BY DEF PlainAt, SimpleAt
  <2> QED BY <1>1, <2>1 DEF TypeAt
<1>5. \A p \in s + 1 .. e : Regular(w, p)
  BY <1>1, <1>2
<1>6. w[s].type = "PRINT" \/ Regular(w, s)
  <2>1. w[s].type # "PRINT" => First(w, s) = s
    BY DEF First
  <2> QED BY <1>1, <1>2, <2>1
<1> QED BY <1>1, <1>2, <1>3, <1>4, <1>5, <1>6

LEMMA InfixWeights ==
  /\ \A type \in BinaryTypes : InfixPrec(type) \in 10 .. 80
  /\ \A type \in BinaryTypes : InfixPrec(type) \in Int
  /\ \A type \in {"SEMICOLON", "NONE", "RIGHT_PAREN"} : InfixPrec(type) = -99999
<1>1. \A type \in BinaryTypes : InfixPrec(type) \in Int
  BY DEF InfixPrec, PREC_NONE
<1> QED BY <1>1, TypeSets

\* No operator is stronger than a prefix.
LEMMA NoOperators ==
  ASSUME NEW w, NEW lo, NEW hi, Above(w, lo, hi, 100)
  PROVE  Operators(w, lo, hi) = {}
<1> SUFFICES ASSUME NEW m \in Operators(w, lo, hi)
             PROVE  FALSE
  OBVIOUS
<1>1. w[m].type \in BinaryTypes /\ 100 < InfixPrec(w[m].type)
  BY DEF Operators, Operator, Above
<1>2. InfixPrec(w[m].type) \in 10 .. 80
  BY <1>1, InfixWeights
<1> QED BY <1>1, <1>2

\* After an operand there is an operator or a right parenthesis, or the
\* statement ends.
LEMMA AtInfix ==
  ASSUME NEW ns, NEW T, NEW w \in Seq(T), NEW s, NEW e, PlainAt(w, s, e),
         NEW p \in s .. e, NEW k, NEW t, t \in Int, Spans(ns, w, k, p, t - 1)
  PROVE  /\ t \in p + 1 .. e + 1
         /\ t <= e => TypeAt(w, t) = w[t].type /\ w[t].type \in BinaryTypes \cup {"RIGHT_PAREN"}
         /\ t = e + 1 => TypeAt(w, t) \in {"SEMICOLON", "NONE"}
<1>1. /\ Len(w) \in Nat /\ s \in 1 .. Len(w) /\ e \in s .. Len(w)
      /\ TypeAt(w, e + 1) \in {"SEMICOLON", "NONE"}
      /\ \A r \in s + 1 .. e : Regular(w, r)
  BY PlainFacts
<1>2. /\ p \in 1 .. Len(w) /\ t - 1 \in p .. Len(w) /\ EndsOperand(w, t - 1)
      /\ \A r \in p .. t - 1 : Regular(w, r)
  BY DEF Spans, Expression
<1>3. ~ t - 1 > e
  <2> SUFFICES ASSUME t - 1 > e
               PROVE  FALSE
    OBVIOUS
  <2>1. e + 1 \in p .. t - 1 /\ e + 1 <= Len(w) /\ e < Len(w)
    BY <1>1, <1>2
  <2>2. w[e + 1].type = "SEMICOLON"
    BY <2>1 DEF PlainAt, SimpleAt
  <2>3. Regular(w, e + 1)
    BY <1>2, <2>1
  <2> QED BY <2>2, <2>3, TypeSets DEF Regular
<1>4. t \in p + 1 .. e + 1
  BY <1>1, <1>2, <1>3
<1>5. ASSUME t <= e
      PROVE  TypeAt(w, t) = w[t].type /\ w[t].type \in BinaryTypes \cup {"RIGHT_PAREN"}
  <2>1. t \in s + 1 .. e /\ t <= Len(w) /\ t > 1
    BY <1>1, <1>4, <1>5
  <2>2. Regular(w, t) /\ AfterOperand(w, t)
    BY <1>1, <1>2, <2>1 DEF AfterOperand
  <2> QED BY <2>1, <2>2 DEF Regular, TypeAt
<1> QED BY <1>1, <1>4, <1>5

\* A token that ends no operand is not the last of a statement.
LEMMA NotLast ==
  ASSUME NEW T, NEW w \in Seq(T), NEW s, NEW e, PlainAt(w, s, e), NEW t \in s .. e,
         w[t].type \in BinaryTypes \cup {"BANG", "MINUS", "LEFT_PAREN", "PRINT"}
  PROVE  t + 1 \in s .. e /\ t + 1 \in s + 1 .. e /\ (t + 1) - 1 = t /\ t + 1 > 1
         /\ t + 1 <= Len(w) /\ ~ AfterOperand(w, t + 1)
<1>1. s \in 1 .. Len(w) /\ e \in s .. Len(w) /\ Len(w) \in Nat /\ EndsOperand(w, e)
  BY PlainFacts
<1>2. ~ EndsOperand(w, t)
  BY TypeSets DEF EndsOperand
<1>3. t # e
  BY <1>1, <1>2
<1>4. t + 1 \in s .. e /\ t + 1 \in s + 1 .. e /\ (t + 1) - 1 = t /\ t + 1 > 1
      /\ t + 1 <= Len(w)
  BY <1>1, <1>3
<1> QED BY <1>2, <1>4 DEF AfterOperand

\* Where the expression of a statement is complete, so is the statement.
LEMMA StatementEnds ==
  ASSUME NEW ns, NEW T, NEW w \in Seq(T), NEW s, NEW e, PlainAt(w, s, e),
         NEW k, NEW t \in Int, Spans(ns, w, k, First(w, s), t - 1),
         InfixPrec(TypeAt(w, t)) <= 0
  PROVE  t = e + 1
<1> DEFINE f == First(w, s)
<1>1. /\ Len(w) \in Nat /\ s \in 1 .. Len(w) /\ e \in s .. Len(w)
      /\ f \in s .. e /\ Expression(w, f, e)
  BY PlainFacts
<1> HIDE DEF f
<1>2. /\ t \in f + 1 .. e + 1
      /\ t <= e => TypeAt(w, t) = w[t].type
                   /\ w[t].type \in BinaryTypes \cup {"RIGHT_PAREN"}
  BY <1>1, AtInfix DEF f
<1> SUFFICES ASSUME t <= e
             PROVE  FALSE
  BY <1>1, <1>2
<1>3. w[t].type = "RIGHT_PAREN"
  <2> SUFFICES ASSUME w[t].type \in BinaryTypes
               PROVE  FALSE
    BY <1>2
  <2>1. InfixPrec(w[t].type) \in 10 .. 80 /\ InfixPrec(w[t].type) <= 0
    BY <1>2, InfixWeights
  <2>2. \A x \in 10 .. 80 : ~ x <= 0
    OBVIOUS
  <2> QED BY <2>1, <2>2, Zenon
<1>4. f \in 1 .. Len(w) /\ t \in f .. Len(w) /\ t \in f .. e
  BY <1>1, <1>2
<1>5. DueIn(w, f, t - 1) = << >>
  BY DEF Spans, Expression, f
<1>6. Spoiled(DueIn(w, f, t))
  BY <1>3, <1>4, <1>5, DueNext
<1> QED BY <1>1, <1>4, <1>6, Unspoiled

\* What lies past the semicolon of a statement is reached.
LEMMA ReachedNext ==
  ASSUME NEW T, NEW w \in Seq(T), NEW s, NEW e, PlainAt(w, s, e), e < Len(w)
  PROVE  Reached(w, e + 2)
<1>1. /\ Len(w) \in Nat /\ s \in 1 .. Len(w) /\ e \in s .. Len(w)
      /\ \A p \in s + 1 .. e : Regular(w, p)
      /\ w[s].type = "PRINT" \/ Regular(w, s)
  BY PlainFacts
<1>2. w[e + 1].type = "SEMICOLON" /\ Reached(w, s) /\ StartsAt(w, s)
  BY DEF PlainAt, SimpleAt
<1>3. e + 2 \in 1 .. Len(w) + 1 /\ (e + 2) - 1 = e + 1
  BY <1>1
<1>4. BeginsAt(w, e + 2)
  BY <1>2, <1>3 DEF BeginsAt
<1>5. ASSUME NEW r \in 1 .. e + 1, BeginsAt(w, r)
      PROVE  StartsAt(w, r)
  <2>1. r \in 1 .. s - 1 \/ r = s \/ r - 1 \in s .. e
    BY <1>1
  <2>2. ~ r - 1 \in s .. e
    <3> SUFFICES ASSUME r - 1 \in s .. e
                 PROVE  FALSE
      OBVIOUS
    <3>1. r - 1 = s \/ r - 1 \in s + 1 .. e
      BY <1>1
    <3>2. w[r - 1].type = "PRINT" \/ Regular(w, r - 1)
      BY <1>1, <3>1
    <3>3. r # 1
      BY <1>1
    <3>4. w[r - 1].type = "SEMICOLON"
      BY <1>5, <3>3 DEF BeginsAt
    <3> QED BY <3>2, <3>4, TypeSets DEF Regular
  <2> QED BY <1>2, <1>5, <2>1, <2>2 DEF Reached
<1>6. \A r \in 1 .. (e + 2) - 1 : BeginsAt(w, r) => StartsAt(w, r)
  BY <1>3, <1>5
<1> QED BY <1>4, <1>6 DEF Reached

\* One more statement.
LEMMA LaysOne ==
  ASSUME NEW ns, NEW T, NEW w \in Seq(T), NEW ks \in Seq(DOMAIN ns), NEW s,
         Laid(ns, w, ks, s), NEW e, PlainAt(w, s, e), e < Len(w),
         NEW k \in DOMAIN ns, StmtOf(ns, w, k, s, e)
  PROVE  Laid(ns, w, ks \o <<k>>, e + 2)
<1> DEFINE P == 1 .. Len(w) + 1
           n == Len(ks)
           js == ks \o <<k>>
<1>1. PICK bs \in Seq(P) :
        /\ Len(bs) = n + 1 /\ bs[1] = 1 /\ bs[Len(bs)] = s
        /\ \A i \in 1 .. n : /\ PlainAt(w, bs[i], bs[i + 1] - 2)
                             /\ StmtOf(ns, w, ks[i], bs[i], bs[i + 1] - 2)
  BY DEF Laid
<1> DEFINE cs == Append(bs, e + 2)
<1>2. n \in Nat /\ Len(w) \in Nat
  BY LenProperties
<1>3. e + 2 \in P /\ (e + 2) - 2 = e
  <2>1. e \in s .. Len(w) /\ s \in 1 .. Len(w)
    BY PlainFacts
  <2> QED BY <1>2, <2>1
<1> HIDE DEF P
<1>4. /\ cs \in Seq(P) /\ Len(cs) = Len(bs) + 1
      /\ \A i \in 1 .. Len(bs) : cs[i] = bs[i]
      /\ cs[Len(bs) + 1] = e + 2
  BY <1>3, AppendProperties
<1>5. js \in Seq(DOMAIN ns) /\ Len(js) = n + 1 /\ js[n + 1] = k
      /\ \A i \in 1 .. n : js[i] = ks[i]
  <2>1. js = Append(ks, k)
    BY AppendIsConcat
  <2> QED BY <2>1, AppendProperties
<1> HIDE DEF n, js, cs
<1>6. Len(cs) = n + 2 /\ cs[1] = 1 /\ cs[n + 1] = s /\ cs[n + 2] = e + 2
      /\ \A i \in 1 .. n : cs[i] = bs[i] /\ cs[i + 1] = bs[i + 1]
  <2>1. 1 \in 1 .. Len(bs) /\ n + 1 \in 1 .. Len(bs)
        /\ \A i \in 1 .. n : i \in 1 .. Len(bs) /\ i + 1 \in 1 .. Len(bs)
    BY <1>1, <1>2
  <2>2. Len(bs) = n + 1 /\ Len(bs) + 1 = n + 2 /\ bs[n + 1] = s
    BY <1>1, <1>2
  <2> QED BY <1>1, <1>4, <2>1, <2>2
<1>7. ASSUME NEW i \in 1 .. n + 1
      PROVE  PlainAt(w, cs[i], cs[i + 1] - 2) /\ StmtOf(ns, w, js[i], cs[i], cs[i + 1] - 2)
  <2>1. CASE i \in 1 .. n
    BY <1>1, <1>5, <1>6, <2>1
  <2>2. CASE i = n + 1
    <3>1. i + 1 = n + 2
      BY <1>2, <2>2
    <3>2. cs[i + 1] - 2 = e /\ cs[i] = s /\ js[i] = k
      BY <1>3, <1>5, <1>6, <2>2, <3>1
    <3> QED BY <3>2
  <2> QED BY <1>2, <2>1, <2>2
<1>8. Len(cs) = Len(js) + 1 /\ cs[Len(cs)] = e + 2
  BY <1>2, <1>5, <1>6
<1>9. Laid(ns, w, js, e + 2)
  BY <1>4, <1>5, <1>6, <1>7, <1>8 DEF Laid, P
<1> QED BY <1>9 DEF js

-----------------------------------------------------------------------------
\* The root of an expression.

Infixes(w, n, S) == S \subseteq 1 .. n /\ \A p \in S : w[p].type \in BinaryTypes

LEMMA RootAmong ==
  ASSUME NEW w, NEW n \in Nat, NEW S, Infixes(w, n, S), S # {}
  PROVE  RootOf(w, S) \in S
<1> DEFINE prec(p) == InfixPrec(w[p].type)
           T == {prec(p) : p \in S}
           W == {p \in S : \A q \in S : prec(p) <= prec(q)}
<1>1. \A p \in S : prec(p) \in Nat
  <2>1. \A p \in S : prec(p) \in 10 .. 80
    BY TypeSets DEF Infixes
  <2> QED BY <2>1
<1>2. PICK t \in T : \A u \in T : t <= u
  <2>1. T \subseteq Nat /\ T # {}
    BY <1>1
  <2> HIDE DEF T
  <2> QED BY <2>1, LeastNumber
<1>3. PICK p \in S : t = prec(p)
  OBVIOUS
<1>4. \A q \in S : prec(p) <= prec(q)
  BY <1>2, <1>3
<1>5. W \subseteq 1 .. n /\ W # {} /\ W \subseteq S
  BY <1>3, <1>4 DEF Infixes
<1>6. RootOf(w, S) = Max(W)
  BY DEF RootOf
<1> HIDE DEF W
<1>7. PICK m \in W : \A k \in W : k <= m
  BY <1>5, LargestIs
<1>8. \A k \in W : m >= k
  BY <1>5, <1>7
<1>9. Max(W) \in W
  BY <1>7, <1>8 DEF Max
<1> QED BY <1>5, <1>6, <1>9

LEMMA RootIs ==
  ASSUME NEW w, NEW n \in Nat, NEW S, Infixes(w, n, S), NEW m \in S,
         \A p \in S : /\ InfixPrec(w[m].type) <= InfixPrec(w[p].type)
                      /\ m < p => InfixPrec(w[m].type) < InfixPrec(w[p].type)
  PROVE  RootOf(w, S) = m
<1> DEFINE prec(p) == InfixPrec(w[p].type)
           W == {p \in S : \A q \in S : prec(p) <= prec(q)}
<1>1. \A p \in S : prec(p) \in Int /\ p \in Int
  <2>1. \A p \in S : prec(p) \in 10 .. 80 /\ p \in 1 .. n
    BY TypeSets DEF Infixes
  <2> QED BY <2>1
<1>2. m \in W
  OBVIOUS
<1>3. ASSUME NEW k \in W
      PROVE  k \in Int /\ m >= k
  <2>1. k \in S /\ prec(k) <= prec(m) /\ (m < k => prec(m) < prec(k))
    OBVIOUS
  <2>2. k \in Int /\ m \in Int /\ prec(k) \in Int /\ prec(m) \in Int
    BY <1>1, <2>1
  <2> HIDE DEF prec
  <2> QED BY <2>1, <2>2
<1>4. RootOf(w, S) = Max(W)
  BY DEF RootOf
<1> HIDE DEF W
<1>5. \E x \in W : \A y \in W : x >= y
  BY <1>2, <1>3
<1>6. PICK x \in W : x = Max(W) /\ \A y \in W : x >= y
  BY <1>5 DEF Max
<1>7. x >= m /\ m >= x /\ x \in Int /\ m \in Int
  BY <1>1, <1>2, <1>3, <1>6
<1> QED BY <1>4, <1>6, <1>7

-----------------------------------------------------------------------------
-----------------------------------------------------------------------------
\* What the operators of an expression are, for each way to build a node.

LEMMA OuterIs ==
  ASSUME NEW T, NEW w \in Seq(T), NEW lo, NEW hi, Expression(w, lo, hi)
  PROVE  /\ OuterOps(w, lo, hi) = Operators(w, lo, hi)
         /\ Infixes(w, Len(w), OuterOps(w, lo, hi))
<1>1. Len(w) \in Nat /\ lo \in 1 .. Len(w) /\ hi \in lo .. Len(w) /\ EndsOperand(w, hi)
  BY LenProperties DEF Expression
<1>2. \A p : Operator(w, lo, p) => p > lo /\ p # hi
  BY <1>1, TypeSets DEF Operator, EndsOperand
<1>3. ASSUME NEW p \in lo .. hi, Operator(w, lo, p)
      PROVE  p \in lo + 1 .. hi - 1
  BY <1>1, <1>2, <1>3
<1>4. \A p \in lo + 1 .. hi - 1 : p \in lo .. hi /\ p \in 1 .. Len(w)
  BY <1>1
<1>5. OuterOps(w, lo, hi) = Operators(w, lo, hi)
  BY <1>3, <1>4 DEF OuterOps, Operators
<1>6. Infixes(w, Len(w), OuterOps(w, lo, hi))
  BY <1>4 DEF Infixes, OuterOps, Operator
<1> QED BY <1>5, <1>6

LEMMA LeafOuter ==
  ASSUME NEW ns, NEW T, NEW w \in Seq(T), NEW k, NEW lo \in 1 .. Len(w),
         LeafAt(ns, w, k, lo)
  PROVE  /\ OuterOps(w, lo, lo) = {} /\ ~ (lo < lo)
<1>1. Expression(w, lo, lo) /\ Operators(w, lo, lo) = {}
  BY LeafExpression DEF LeafAt
<1>2. lo \in Int
  BY LenProperties
<1> QED BY <1>1, <1>2, OuterIs

LEMMA UnaryOuter ==
  ASSUME NEW ns, NEW T, NEW w \in Seq(T), NEW k, NEW j, NEW lo \in 1 .. Len(w),
         NEW hi \in 1 .. Len(w), UnaryAt(ns, w, k, j, lo, hi)
  PROVE  OuterOps(w, lo, hi) = {} /\ lo < hi /\ w[lo].type \in {"BANG", "MINUS"}
<1>1. /\ Expression(w, lo, hi) /\ Operators(w, lo, hi) = {}
      /\ w[lo].type \in {"BANG", "MINUS"}
  BY UnaryExpression DEF UnaryAt, Prefixed
<1>2. lo < hi
  BY LenProperties DEF UnaryAt, Expression
<1> QED BY <1>1, <1>2, OuterIs

LEMMA GroupOuter ==
  ASSUME NEW T, NEW w \in Seq(T), NEW lo \in 1 .. Len(w),
         NEW hi \in 1 .. Len(w), GroupAt(w, lo, hi)
  PROVE  OuterOps(w, lo, hi) = {} /\ lo < hi /\ w[lo].type = "LEFT_PAREN"
<1>1. Expression(w, lo, hi) /\ Operators(w, lo, hi) = {}
  BY GroupExpression DEF GroupAt
<1>2. lo < hi
  BY LenProperties DEF GroupAt, Expression
<1> QED BY <1>1, <1>2, OuterIs DEF GroupAt

LEMMA BinaryOuter ==
  ASSUME NEW ns, NEW T, NEW w \in Seq(T), NEW k, NEW i, NEW j, NEW lo \in 1 .. Len(w),
         NEW m \in 1 .. Len(w), NEW hi \in 1 .. Len(w),
         BinaryAt(ns, w, k, i, j, lo, m, hi)
  PROVE  OuterOps(w, lo, hi) # {} /\ RootOf(w, OuterOps(w, lo, hi)) = m
<1>1. JoinedAt(w, lo, m, hi)
  BY DEF BinaryAt, JoinedAt
<1>2. /\ Expression(w, lo, hi)
      /\ Operators(w, lo, hi)
           = Operators(w, lo, m - 1) \cup {m} \cup Operators(w, m + 1, hi)
  BY <1>1, BinaryExpression
<1>3. /\ Len(w) \in Nat /\ OuterOps(w, lo, hi) = Operators(w, lo, hi)
      /\ Infixes(w, Len(w), OuterOps(w, lo, hi))
  BY <1>2, OuterIs, LenProperties
<1>4. \A p \in Operators(w, lo, m - 1) :
        p < m /\ InfixPrec(w[m].type) <= InfixPrec(w[p].type)
  <2>1. \A p \in lo .. m - 1 : p < m
    BY <1>3
  <2> QED BY <2>1 DEF Operators, BinaryAt, AtLeast
<1>5. \A p \in Operators(w, m + 1, hi) :
        InfixPrec(w[m].type) < InfixPrec(w[p].type)
  BY DEF BinaryAt, Above
<1>6. InfixPrec(w[m].type) \in Int /\ \A p \in OuterOps(w, lo, hi) : InfixPrec(w[p].type) \in Int
  BY DEF InfixPrec, PREC_NONE
<1>7. ASSUME NEW p \in OuterOps(w, lo, hi)
      PROVE  /\ InfixPrec(w[m].type) <= InfixPrec(w[p].type)
             /\ m < p => InfixPrec(w[m].type) < InfixPrec(w[p].type)
  <2>1. p \in Operators(w, lo, m - 1) \/ p = m \/ p \in Operators(w, m + 1, hi)
    BY <1>2, <1>3
  <2>2. p = m => ~ (m < p)
    BY <1>3
  <2>3. p < m => ~ (m < p)
    BY <1>2, <1>3 DEF Operators, Expression
  <2> QED BY <1>4, <1>5, <1>6, <2>1, <2>2, <2>3
<1>8. m \in OuterOps(w, lo, hi)
  BY <1>2, <1>3
<1> QED BY <1>3, <1>7, <1>8, RootIs

-----------------------------------------------------------------------------
\* An expression and a semicolon are a program of one plain statement.
LEMMA OneStatement ==
  ASSUME NEW T, NEW w \in Seq(T), IsExprStatement(w), NEW n, n = Len(w) - 1
  PROVE  /\ n \in Nat /\ n >= 1 /\ Len(w) = n + 1 /\ w[Len(w)].type = "SEMICOLON"
         /\ Expression(w, 1, n)
         /\ First(w, 1) = 1 /\ w[1].type # "PRINT" /\ StartsAt(w, 1)
         /\ \A s : Reached(w, s) => s = 1 \/ s = n + 2
         /\ \A s, e : PlainAt(w, s, e) => s = 1 /\ e = n
         /\ Plainly(w)
<1>1. /\ Len(w) \in Nat /\ n >= 1 /\ w[n + 1].type = "SEMICOLON"
      /\ Expression(w, 1, n)
  BY LenProperties DEF IsExprStatement
<1>2. n \in Nat /\ Len(w) = n + 1 /\ 1 \in 1 .. Len(w) /\ n \in 1 .. Len(w)
  BY <1>1
<1>4. ~ AfterOperand(w, 1) /\ \A p \in 1 .. n : Regular(w, p)
  BY <1>1 DEF Expression
<1>7. \A p \in 1 .. n : w[p].type \notin {"SEMICOLON", "PRINT"}
  BY <1>4, TypeSets DEF Regular
<1>8. 1 \in 1 .. n /\ w[1].type \in LeafTypes \cup {"BANG", "MINUS", "LEFT_PAREN"}
  BY <1>2, <1>4, <1>1 DEF Regular
<1>9. w[1].type # "PRINT" /\ First(w, 1) = 1
  BY <1>7, <1>8 DEF First
<1>10. StartsAt(w, 1)
  BY <1>2, <1>8, TypeSets DEF StartsAt, PrefixPrec
<1>11. ASSUME NEW s, Reached(w, s)
       PROVE  s = 1 \/ s = n + 2
  <2>1. s \in 1 .. n + 2 /\ (s = 1 \/ w[s - 1].type = "SEMICOLON")
    BY <1>2, <1>11 DEF Reached, BeginsAt
  <2>2. s = 1 \/ s - 1 \in 1 .. n \/ s = n + 2
    BY <1>2, <2>1
  <2> QED BY <1>7, <2>1, <2>2
<1>12. ASSUME NEW s, NEW e, PlainAt(w, s, e)
       PROVE  s = 1 /\ e = n
  <2>1. s = 1
    <3>1. s <= n + 1 /\ Reached(w, s)
      BY <1>2, <1>12 DEF PlainAt, StartsAt
    <3> QED BY <1>2, <1>11, <3>1
  <2>2. /\ e \in 1 .. Len(w) /\ EndsOperand(w, e)
        /\ e < Len(w) => w[e + 1].type = "SEMICOLON"
    BY <1>9, <1>12, <2>1 DEF PlainAt, SimpleAt, Expression
  <2>3. e # Len(w)
    BY <1>1, <1>2, <2>2, TypeSets DEF EndsOperand
  <2>4. e + 1 \in 1 .. n \/ e = n
    <3>1. n \in Nat /\ e \in 1 .. n + 1 /\ e # n + 1
      BY <1>2, <2>2, <2>3
    <3> QED BY <3>1
  <2> QED BY <1>2, <1>7, <2>1, <2>2, <2>3, <2>4
<1>13. SimpleAt(w, 1, n)
  BY <1>1, <1>2, <1>9 DEF SimpleAt
<1>14. Plainly(w)
  <2> SUFFICES ASSUME NEW s \in 1 .. Len(w), Reached(w, s)
               PROVE  \E e \in s .. Len(w) : SimpleAt(w, s, e)
    BY DEF Plainly
  <2>1. s = 1
    BY <1>2, <1>11
  <2> QED BY <1>2, <1>13, <2>1
<1> QED BY <1>1, <1>2, <1>9, <1>10, <1>11, <1>12, <1>14

\* What a parse of such a program leaves.
LEMMA LaidOne ==
  ASSUME NEW T, NEW w \in Seq(T), IsExprStatement(w), NEW n, n = Len(w) - 1,
         NEW ns, NEW ks, Len(ks) \in Nat, Laid(ns, w, ks, n + 2)
  PROVE  Len(ks) = 1 /\ TreeOf(ns, w, ks[1], 1, n)
<1>1. /\ n \in Nat /\ n >= 1
      /\ First(w, 1) = 1 /\ w[1].type # "PRINT"
      /\ \A s, e : PlainAt(w, s, e) => s = 1 /\ e = n
  BY OneStatement
<1>2. PICK bs \in Seq(1 .. Len(w) + 1) :
        /\ Len(bs) = Len(ks) + 1 /\ bs[1] = 1 /\ bs[Len(bs)] = n + 2
        /\ \A i \in 1 .. Len(ks) :
             /\ PlainAt(w, bs[i], bs[i + 1] - 2)
             /\ StmtOf(ns, w, ks[i], bs[i], bs[i + 1] - 2)
  BY DEF Laid
<1>3. Len(ks) # 0
  BY <1>1, <1>2
<1>4. 1 \in 1 .. Len(ks) /\ 1 + 1 = 2
  BY <1>3
<1>5. bs[2] - 2 = n
  BY <1>1, <1>2, <1>4
<1>6. bs[2] \in Int
  <2>1. 2 \in 1 .. Len(bs)
    BY <1>2, <1>3
  <2>2. bs[2] \in 1 .. Len(w) + 1
    BY <1>2, <2>1, ElementOfSeq
  <2> QED BY <2>2
<1>7. Len(ks) = 1
  <2> SUFFICES ASSUME Len(ks) # 1
               PROVE  FALSE
    OBVIOUS
  <2>1. 2 \in 1 .. Len(ks)
    <3>1. \A i \in Nat : i # 0 /\ i # 1 => 2 \in 1 .. i
      OBVIOUS
    <3> QED BY <1>3, <3>1
  <2>2. bs[2] = 1
    BY <1>1, <1>2, <2>1
  <2> QED BY <1>1, <1>5, <2>2
<1>8. StmtOf(ns, w, ks[1], 1, n)
  <2>1. StmtOf(ns, w, ks[1], bs[1], bs[2] - 2)
    BY <1>2, <1>4
  <2> QED BY <1>2, <1>5, <2>1
<1>9. Spans(ns, w, ks[1], 1, n)
  BY <1>1, <1>8 DEF StmtOf, PrintOf
<1> QED BY <1>7, <1>9 DEF Spans

\* NegatesName(w) in terms of Wraps.
LEMMA NegatesIs ==
  ASSUME NEW T, NEW w \in Seq(T), Len(w) >= 1, w[Len(w)].type = "SEMICOLON"
  PROVE  NegatesName(w) <=>
           \E p, r \in 1 .. Len(w) : Prefixed(w, p) /\ Wraps(w, p + 1, r)
<1>0. Len(w) \in Nat /\ DOMAIN w = 1 .. Len(w)
  BY LenProperties
<1>2. ASSUME NegatesName(w)
      PROVE  \E p, r \in 1 .. Len(w) : Prefixed(w, p) /\ Wraps(w, p + 1, r)
  <2>1. PICK p \in 1 .. Len(w), q \in 1 .. Len(w) :
          /\ p < q
          /\ Prefixed(w, p)
          /\ w[q].type = "ID"
          /\ \A i \in 1 .. q - p - 1 : /\ w[q - i].type = "LEFT_PAREN"
                                      /\ w[q + i].type = "RIGHT_PAREN"
    BY <1>0, <1>2 DEF NegatesName
  <2>2. PICK m : m = q - p - 1
    OBVIOUS
  <2>3. m \in Nat /\ q = (p + 1) + m
    BY <1>0, <2>1, <2>2
  <2>4. Nested(w, q, m)
    BY <2>1, <2>2 DEF Nested
  <2>5. ~ q + m > Len(w)
    <3> SUFFICES ASSUME q + m > Len(w)
                 PROVE  FALSE
      OBVIOUS
    <3>1. PICK i : i = Len(w) - q
      OBVIOUS
    <3>2. q \in Int /\ Len(w) \in Int /\ q <= Len(w) /\ m \in Int
      BY <1>0, <2>3
    <3>3. q + i = Len(w) /\ i \in Int /\ i < m /\ 0 <= i
      BY <3>1, <3>2
    <3>4. CASE i = 0
      <4>1. q = Len(w)
        BY <3>2, <3>3, <3>4
      <4> QED BY <2>1, <4>1
    <3>5. CASE i # 0
      <4>1. i \in 1 .. m
        BY <3>2, <3>3, <3>5
      <4> QED BY <2>4, <3>3, <4>1 DEF Nested
    <3> QED BY <3>4, <3>5
  <2>6. PICK r : r = q + m
    OBVIOUS
  <2>7. r \in 1 .. Len(w) /\ r = (p + 1) + 2 * m
    BY <1>0, <2>3, <2>5, <2>6
  <2>8. Wraps(w, p + 1, r)
    BY <2>3, <2>4, <2>7 DEF Wraps
  <2> QED BY <2>1, <2>7, <2>8
<1>3. ASSUME NEW p \in 1 .. Len(w), NEW r \in 1 .. Len(w),
             Prefixed(w, p), Wraps(w, p + 1, r)
      PROVE  NegatesName(w)
  <2>1. PICK m \in Nat : r = (p + 1) + 2 * m /\ Nested(w, (p + 1) + m, m)
    BY <1>3 DEF Wraps
  <2>2. PICK q : q = (p + 1) + m
    OBVIOUS
  <2>3. q \in 1 .. Len(w) /\ p < q /\ q - p - 1 = m
    BY <1>0, <2>1, <2>2
  <2>4. /\ w[q].type = "ID"
        /\ \A i \in 1 .. q - p - 1 : /\ w[q - i].type = "LEFT_PAREN"
                                    /\ w[q + i].type = "RIGHT_PAREN"
    BY <2>1, <2>2, <2>3 DEF Nested
  <2> QED BY <1>0, <1>3, <2>3, <2>4 DEF NegatesName
<1> QED BY <1>2, <1>3
=============================================================================
