---------------------------- MODULE ParserProofs ----------------------------
(***************************************************************************)
(* Theorems about the parser, for token vectors of any length.  TypeOK is  *)
(* not inductive: that a BinaryOp node has two children and a UnaryOp one  *)
(* rests on how many nodes the callees have returned when a function goes  *)
(* on, which is a property of the whole call stack, its Shape.  The later  *)
(* parts are about what becomes of the nodes: which are discarded, that a  *)
(* successful parse keeps every literal in its place, and that the trees   *)
(* of expressions are those of the table of precedences.                   *)
(***************************************************************************)
EXTENDS ParserProps, DataLemmas, FiniteSetTheorems

\* The frames of ParseStatements.
Loops == {"Statements", "Terminator"}

\* The functions that go on as soon as they have all their nodes: how many.
Counted == {"InfixLoop", "UnaryOp", "Grouping", "Print", "Var", "Return",
            "BinaryOp"}

Arity(fn) == IF fn = "BinaryOp" THEN 2 ELSE 1

\* How many more frames a function can need before it consumes a token.
Room(fn) == IF fn \in Loops \cup {"For"} THEN 2
            ELSE IF fn \in {"If", "ParseExpr"} THEN 1 ELSE 0

\* A frame at position i of the call stack, innermost or not.
Fits(f, i, innermost, t, ns) ==
  /\ f \in Frames(ns)
  /\ f.fn \in Counted =>
       Len(f.kids) = Arity(f.fn) - (IF innermost THEN 0 ELSE 1)
  /\ i + Room(f.fn) <= 3 * t

\* ParseStatements is called by run_file and by parseBlock, and by no other.
Rooted(c) ==
  \A i \in DOMAIN c : IF i = 1 THEN c[i].fn \in Loops
                      ELSE c[i].fn \in Loops => c[i - 1].fn = "EndBlock"

Shape(c, t, ns) ==
  /\ Rooted(c)
  /\ \A i \in DOMAIN c : Fits(c[i], i, i = Len(c), t, ns)

ParserInv == TypeOK /\ Shape(calls, tokit, nodes)

-----------------------------------------------------------------------------
\* Sequences.

\* Frames of a heap are frames of every larger one.
LEMMA FramesGrow ==
  ASSUME NEW ns, NEW more, DOMAIN ns \subseteq DOMAIN more,
         NEW f \in Frames(ns)
  PROVE  f \in Frames(more)
<1>1. f.kids \in Seq(DOMAIN more)
  BY SeqGrows DEF Frames
<1> QED BY <1>1 DEF Frames

\* The innermost function has returned ks to its caller.
LEMMA DeliverSeq ==
  ASSUME NEW ns, NEW c \in Seq(Frames(ns)), Len(c) >= 2,
         NEW ks \in Seq(DOMAIN ns)
  PROVE  LET d == Deliver(Front(c), ks)
             n == Len(c) - 1
         IN /\ n \in Nat \ {0}
            /\ d \in Seq(Frames(ns)) /\ Len(d) = n
            /\ \A i \in 1 .. n - 1 : d[i] = c[i]
            /\ d[n].fn = c[n].fn /\ d[n].type = c[n].type
            /\ d[n].kids = c[n].kids \o ks
            /\ Len(d[n].kids) = Len(c[n].kids) + Len(ks)
<1> DEFINE b == Front(c)
           n == Len(b)
           f == [b[n] EXCEPT !.kids = @ \o ks]
           d == [b EXCEPT ![n] = f]
<1>0. d = Deliver(Front(c), ks)
  BY DEF Deliver
<1>1. Len(c) \in Nat /\ c # << >>
  BY LenProperties, EmptySeq
<1>2. /\ b \in Seq(Frames(ns)) /\ n = Len(c) - 1
      /\ \A i \in 1 .. n : b[i] = c[i]
  BY <1>1, FrontLast
<1>3. n \in Nat \ {0}
  BY <1>1, <1>2
<1> HIDE DEF b, n
<1>4. b[n] \in Frames(ns) /\ b[n] = c[n]
  BY <1>2, <1>3, ElementOfSeq DEF n
<1>5. b[n].kids \in Seq(DOMAIN ns)
  BY <1>4 DEF Frames
<1>6. /\ b[n].kids \o ks \in Seq(DOMAIN ns)
      /\ Len(b[n].kids \o ks) = Len(b[n].kids) + Len(ks)
  BY <1>5, ConcatProperties
<1>7. /\ f \in Frames(ns) /\ f.fn = b[n].fn /\ f.type = b[n].type
      /\ f.kids = b[n].kids \o ks
  BY <1>4, <1>6 DEF Frames
<1> HIDE DEF f
<1>8. /\ d \in Seq(Frames(ns)) /\ Len(d) = n
      /\ \A i \in 1 .. n : d[i] = IF i = n THEN f ELSE b[i]
  BY <1>2, <1>3, <1>7, ExceptSeq DEF n
<1> HIDE DEF d
<1>9. /\ d[n] = f
      /\ \A i \in 1 .. n - 1 : d[i] = c[i]
  <2>1. d[n] = f
    BY <1>3, <1>8
  <2>2. \A i \in 1 .. n - 1 : i \in 1 .. n /\ i # n
    BY <1>3
  <2>3. \A i \in 1 .. n - 1 : d[i] = c[i]
    BY <1>2, <1>8, <2>2
  <2> QED BY <2>1, <2>3
<1>10. /\ d[n].fn = c[n].fn /\ d[n].type = c[n].type
       /\ d[n].kids = c[n].kids \o ks
       /\ Len(d[n].kids) = Len(c[n].kids) + Len(ks)
  BY <1>4, <1>6, <1>7, <1>9
<1> QED BY <1>0, <1>2, <1>3, <1>8, <1>9, <1>10

-----------------------------------------------------------------------------
\* The shape of the call stack through calls and returns.

\* A frame that is not touched still fits.
LEMMA FitsGrows ==
  ASSUME NEW ns, NEW more, DOMAIN ns \subseteq DOMAIN more,
         NEW t \in Nat, NEW u \in Nat, t <= u, NEW i \in Nat,
         NEW f, Fits(f, i, FALSE, t, ns)
  PROVE  Fits(f, i, FALSE, u, more)
<1>1. f \in Frames(more)
  BY FramesGrow DEF Fits
<1>2. Room(f.fn) \in Nat
  BY DEF Room
<1>3. i + Room(f.fn) <= 3 * u
  BY <1>2 DEF Fits
<1> QED BY <1>1, <1>3 DEF Fits

LEMMA BecomeShape ==
  ASSUME NEW ns, NEW more, DOMAIN ns \subseteq DOMAIN more,
         NEW t \in Nat, NEW u \in Nat, t <= u,
         NEW c \in Seq(Frames(ns)), c # << >>, Shape(c, t, ns),
         NEW fs \in Seq(Frames(more)), fs # << >>,
         fs[1].fn \in Loops <=> Last(c).fn \in Loops,
         \A j \in 2 .. Len(fs) : fs[j].fn \in Loops => fs[j - 1].fn = "EndBlock",
         \A j \in 1 .. Len(fs) - 1 :
           Fits(fs[j], Len(c) - 1 + j, FALSE, u, more),
         Fits(fs[Len(fs)], Len(c) - 1 + Len(fs), TRUE, u, more)
  PROVE  LET d == Front(c) \o fs
         IN d \in Seq(Frames(more)) /\ d # << >> /\ Shape(d, u, more)
<1> DEFINE n == Len(c)
           m == Len(fs)
           d == Front(c) \o fs
<1>1. c \in Seq(Frames(more))
  <2>1. Frames(ns) \subseteq Frames(more)
    BY FramesGrow
  <2> QED BY <2>1, SeqGrows
<1>2. /\ d \in Seq(Frames(more))
      /\ n \in Nat \ {0} /\ m \in Nat
      /\ Len(d) = n - 1 + m
      /\ \A i \in 1 .. n - 1 : d[i] = c[i]
      /\ \A j \in 1 .. m : d[n - 1 + j] = fs[j]
  BY <1>1, BecomeSeq
<1>3. m \in Nat \ {0}
  BY EmptySeq
<1>4. Last(c) = c[n] /\ DOMAIN c = 1 .. n
  BY FrontLast, LenProperties
<1>5. DOMAIN d = 1 .. n - 1 + m /\ d # << >>
  BY <1>2, <1>3, LenProperties, EmptySeq
<1> HIDE DEF n, m, d
<1>6. ASSUME NEW i \in 1 .. n - 1
      PROVE  Fits(d[i], i, i = Len(d), u, more)
  <2>1. i \in Nat /\ i # n /\ i # Len(d) /\ i \in DOMAIN c
    BY <1>2, <1>3, <1>4
  <2>2. Fits(c[i], i, FALSE, t, ns)
    BY <2>1 DEF Shape, n
  <2>3. Fits(c[i], i, FALSE, u, more)
    BY <2>1, <2>2, FitsGrows
  <2> QED BY <1>2, <2>1, <2>3
<1>7. ASSUME NEW i \in n .. n - 1 + m
      PROVE  Fits(d[i], i, i = Len(d), u, more)
  <2> DEFINE j == i - (n - 1)
  <2>1. j \in 1 .. m /\ i = n - 1 + j /\ (j = m <=> i = Len(d))
    BY <1>2, <1>3
  <2> HIDE DEF j
  <2>2. d[i] = fs[j]
    BY <1>2, <2>1
  <2>3. CASE j = m
    <3>1. Fits(fs[m], n - 1 + m, TRUE, u, more)
      BY DEF n, m
    <3>2. (i = Len(d)) = TRUE
      BY <2>1, <2>3
    <3> QED BY <2>1, <2>2, <2>3, <3>1, <3>2
  <2>4. CASE j # m
    <3>1. j \in 1 .. m - 1 /\ (i = Len(d)) = FALSE
      BY <1>2, <2>1, <2>4
    <3>2. Fits(fs[j], n - 1 + j, FALSE, u, more)
      BY <3>1 DEF n, m
    <3> QED BY <2>1, <2>2, <3>1, <3>2
  <2> QED BY <2>3, <2>4
<1>8. Rooted(d)
  <2> SUFFICES ASSUME NEW i \in 1 .. n - 1 + m
               PROVE  IF i = 1 THEN d[i].fn \in Loops
                      ELSE d[i].fn \in Loops => d[i - 1].fn = "EndBlock"
    BY <1>5 DEF Rooted
  <2>0. \A k \in 1 .. n : IF k = 1 THEN c[k].fn \in Loops
                          ELSE c[k].fn \in Loops => c[k - 1].fn = "EndBlock"
    BY <1>4 DEF Shape, Rooted
  <2>1. CASE i \in 1 .. n - 1
    <3>1. /\ i \in 1 .. n /\ d[i] = c[i]
          /\ i # 1 => i - 1 \in 1 .. n - 1
      BY <1>2, <2>1
    <3>2. i # 1 => d[i - 1] = c[i - 1]
      BY <1>2, <3>1
    <3> QED BY <2>0, <3>1, <3>2
  <2>2. CASE i = n
    <3>1. d[n] = fs[1] /\ n \in 1 .. n
      <4>1. 1 \in 1 .. m /\ n - 1 + 1 = n
        BY <1>2, <1>3
      <4> QED BY <1>2, <4>1
    <3>2. d[n].fn \in Loops <=> c[n].fn \in Loops
      BY <1>4, <3>1
    <3>3. CASE n = 1
      BY <2>0, <2>2, <3>1, <3>2, <3>3
    <3>4. CASE n # 1
      <4>1. d[n - 1] = c[n - 1]
        <5>1. n - 1 \in 1 .. n - 1
          BY <1>2, <3>4
        <5> QED BY <1>2, <5>1
      <4> QED BY <2>0, <2>2, <3>1, <3>2, <3>4, <4>1
    <3> QED BY <3>3, <3>4
  <2>3. CASE i \in n + 1 .. n - 1 + m
    <3> DEFINE j == i - (n - 1)
    <3>1. j \in 2 .. m /\ j - 1 \in 1 .. m /\ j \in 1 .. m /\ i # 1
          /\ i = n - 1 + j /\ i - 1 = n - 1 + (j - 1)
      BY <1>2, <1>3, <2>3
    <3> HIDE DEF j
    <3>2. d[i] = fs[j] /\ d[i - 1] = fs[j - 1]
      BY <1>2, <3>1
    <3>3. fs[j].fn \in Loops => fs[j - 1].fn = "EndBlock"
      BY <3>1 DEF m
    <3> QED BY <3>1, <3>2, <3>3
  <2> QED BY <1>2, <1>3, <2>1, <2>2, <2>3
<1>9. \A i \in DOMAIN d : Fits(d[i], i, i = Len(d), u, more)
  <2>1. \A i \in DOMAIN d : i \in 1 .. n - 1 \/ i \in n .. n - 1 + m
    BY <1>2, <1>5
  <2> QED BY <1>6, <1>7, <2>1
<1> QED BY <1>2, <1>5, <1>8, <1>9 DEF Shape, d

\* A function returns ks.  A function of the precedence recursion returns one
\* node; nested statements are returned to parseBlock only.
LEMMA ReturnShape ==
  ASSUME NEW ns, NEW more, DOMAIN ns \subseteq DOMAIN more,
         NEW t \in Nat, NEW u \in Nat, t <= u,
         NEW c \in Seq(Frames(ns)), c # << >>, Shape(c, t, ns),
         Len(c) >= 2,
         NEW ks \in Seq(DOMAIN more),
         Last(c).fn \notin Loops => Len(ks) = 1
  PROVE  LET d == Deliver(Front(c), ks)
         IN d \in Seq(Frames(more)) /\ d # << >> /\ Shape(d, u, more)
<1> DEFINE n == Len(c) - 1
           d == Deliver(Front(c), ks)
<1>1. /\ Len(c) \in Nat /\ Len(c) >= 2
      /\ DOMAIN c = 1 .. Len(c) /\ Last(c) = c[Len(c)]
  <2>1. Len(c) \in Nat \ {0}
    BY EmptySeq
  <2> QED BY <2>1, LenProperties, FrontLast
<1>2. c \in Seq(Frames(more))
  <2>1. Frames(ns) \subseteq Frames(more)
    BY FramesGrow
  <2> QED BY <2>1, SeqGrows
<1>3. /\ n \in Nat \ {0}
      /\ d \in Seq(Frames(more)) /\ Len(d) = n
      /\ \A i \in 1 .. n - 1 : d[i] = c[i]
      /\ d[n].fn = c[n].fn /\ d[n].type = c[n].type
      /\ d[n].kids = c[n].kids \o ks
      /\ Len(d[n].kids) = Len(c[n].kids) + Len(ks)
  BY <1>1, <1>2, DeliverSeq
<1>4. Len(c) = n + 1 /\ DOMAIN c = 1 .. n + 1
  BY <1>1
<1> HIDE DEF n, d
<1>5. DOMAIN d = 1 .. n /\ d # << >> /\ d[n] \in Frames(more)
  BY <1>3, LenProperties, EmptySeq, ElementOfSeq
<1>6. \A i \in 1 .. n + 1 : Fits(c[i], i, i = n + 1, t, ns)
  BY <1>4 DEF Shape
<1>7. \A k \in 1 .. n + 1 : IF k = 1 THEN c[k].fn \in Loops
                            ELSE c[k].fn \in Loops => c[k - 1].fn = "EndBlock"
  BY <1>4 DEF Shape, Rooted
<1>8. ASSUME NEW i \in 1 .. n - 1
      PROVE  Fits(d[i], i, i = n, u, more)
  <2>1. i \in Nat /\ i # n /\ i # n + 1 /\ i \in 1 .. n + 1
    BY <1>3
  <2>2. Fits(c[i], i, FALSE, t, ns)
    BY <1>6, <2>1
  <2>3. Fits(c[i], i, FALSE, u, more)
    BY <2>1, <2>2, FitsGrows
  <2> QED BY <1>3, <2>1, <2>3
<1>9. Fits(d[n], n, TRUE, u, more)
  <2>1. n \in 1 .. n + 1 /\ n # n + 1 /\ n + 1 \in 1 .. n + 1 /\ n + 1 # 1
    BY <1>3
  <2>2. Fits(c[n], n, FALSE, t, ns)
    BY <1>6, <2>1
  <2>3. Fits(c[n], n, FALSE, u, more)
    BY <1>3, <2>2, FitsGrows
  <2>4. ASSUME c[n].fn \in Counted
        PROVE  Len(d[n].kids) = Arity(d[n].fn)
    <3>1. c[n].fn # "EndBlock"
      BY <2>4 DEF Counted
    <3>2. n + 1 - 1 = n
      BY <1>3
    <3>3. c[n + 1].fn \notin Loops
      BY <1>7, <2>1, <3>1, <3>2
    <3>4. Len(ks) = 1
      BY <1>1, <1>4, <3>3
    <3>5. Len(c[n].kids) = Arity(c[n].fn) - 1 /\ Arity(c[n].fn) \in {1, 2}
      BY <2>2, <2>4 DEF Fits, Arity
    <3> QED BY <1>3, <3>4, <3>5
  <2>5. d[n].fn \in Counted => Len(d[n].kids) = Arity(d[n].fn) - 0
    <3>1. Arity(d[n].fn) \in Nat
      BY DEF Arity
    <3> QED BY <1>3, <2>4, <3>1
  <2>6. n + Room(d[n].fn) <= 3 * u
    BY <1>3, <2>3 DEF Fits
  <2> QED BY <1>5, <2>5, <2>6 DEF Fits
<1>10. Rooted(d)
  <2> SUFFICES ASSUME NEW i \in 1 .. n
               PROVE  IF i = 1 THEN d[i].fn \in Loops
                      ELSE d[i].fn \in Loops => d[i - 1].fn = "EndBlock"
    BY <1>5 DEF Rooted
  <2>1. d[i].fn = c[i].fn /\ i \in 1 .. n + 1
    <3>1. i \in 1 .. n - 1 \/ i = n
      BY <1>3
    <3> QED BY <1>3, <3>1
  <2>2. i # 1 => d[i - 1] = c[i - 1]
    <3>1. i # 1 => i - 1 \in 1 .. n - 1
      BY <1>3
    <3> QED BY <1>3, <3>1
  <2> QED BY <1>7, <2>1, <2>2
<1>11. \A i \in DOMAIN d : Fits(d[i], i, i = Len(d), u, more)
  <2>1. \A i \in DOMAIN d : i \in 1 .. n - 1 \/ i = n
    BY <1>3, <1>5
  <2>2. (n = Len(d)) = TRUE
    BY <1>3
  <2> QED BY <1>3, <1>8, <1>9, <2>1, <2>2
<1> QED BY <1>3, <1>5, <1>10, <1>11 DEF Shape, d

\* What is known of the innermost frame.
LEMMA InnermostFits ==
  ASSUME NEW ns, NEW t \in Nat, NEW c \in Seq(Frames(ns)), c # << >>,
         Shape(c, t, ns)
  PROVE  /\ Len(c) \in Nat \ {0}
         /\ Last(c) \in Frames(ns)
         /\ Last(c).fn \in Counted => Len(Last(c).kids) = Arity(Last(c).fn)
         /\ Len(c) + Room(Last(c).fn) <= 3 * t
         /\ Last(c).fn \notin Loops => Len(c) >= 2
<1> DEFINE n == Len(c)
<1>1. /\ n \in Nat \ {0} /\ DOMAIN c = 1 .. n
      /\ Last(c) = c[n] /\ Last(c) \in Frames(ns)
  BY EmptySeq, LenProperties, FrontLast
<1>2. n \in DOMAIN c
  BY <1>1
<1>3. Fits(c[n], n, TRUE, t, ns)
  BY <1>2 DEF Shape
<1>4. n = 1 => c[n].fn \in Loops
  BY <1>2 DEF Shape, Rooted
<1> HIDE DEF n
<1>7. c[n].fn \notin Loops => n >= 2
  BY <1>1, <1>4
<1>5. Arity(c[n].fn) \in Nat
  BY DEF Arity
<1>6. /\ c[n].fn \in Counted => Len(c[n].kids) = Arity(c[n].fn)
      /\ n + Room(c[n].fn) <= 3 * t
  BY <1>3, <1>5 DEF Fits
<1> QED BY <1>1, <1>6, <1>7 DEF n

LEMMA AppendIsBecome ==
  ASSUME NEW S, NEW c \in Seq(S), c # << >>, NEW g \in S
  PROVE  Append(c, g) = Front(c) \o <<Last(c), g>>
<1> DEFINE fs == <<Last(c), g>>
           n  == Len(c)
<1>1. Last(c) \in S /\ Last(c) = c[n]
  BY FrontLast
<1>2. fs \in Seq(S) /\ Len(fs) = 2 /\ fs[1] = c[n] /\ fs[2] = g
  BY <1>1
<1> HIDE DEF fs
<1>3. /\ Front(c) \o fs \in Seq(S)
      /\ n \in Nat \ {0}
      /\ Len(Front(c) \o fs) = n - 1 + 2
      /\ \A i \in 1 .. n - 1 : (Front(c) \o fs)[i] = c[i]
      /\ \A j \in 1 .. 2 : (Front(c) \o fs)[n - 1 + j] = fs[j]
  <2>1. /\ Front(c) \o fs \in Seq(S)
        /\ Len(c) \in Nat \ {0}
        /\ Len(Front(c) \o fs) = Len(c) - 1 + Len(fs)
        /\ \A i \in 1 .. Len(c) - 1 : (Front(c) \o fs)[i] = c[i]
        /\ \A j \in 1 .. Len(fs) : (Front(c) \o fs)[Len(c) - 1 + j] = fs[j]
    <3>1. fs \in Seq(S)
      BY <1>2
    <3> HIDE DEF n
    <3> QED BY <3>1, BecomeSeq
  <2> QED BY <1>2, <2>1
<1>4. /\ Append(c, g) \in Seq(S)
      /\ Len(Append(c, g)) = n + 1
      /\ \A i \in 1 .. n : Append(c, g)[i] = c[i]
      /\ Append(c, g)[n + 1] = g
  BY AppendProperties
<1> DEFINE a == Append(c, g)
           b == Front(c) \o fs
<1> HIDE DEF n, a, b
<1>5. ASSUME NEW i \in 1 .. n + 1
      PROVE  a[i] = b[i]
  <2>1. CASE i \in 1 .. n - 1
    <3>1. i \in 1 .. n
      BY <1>3, <2>1
    <3> QED BY <1>3, <1>4, <2>1, <3>1 DEF a, b
  <2>2. CASE i = n
    <3>1. n - 1 + 1 = n /\ n \in 1 .. n
      BY <1>3
    <3>2. b[n] = fs[1]
      BY <1>3, <3>1 DEF b
    <3> QED BY <1>2, <1>4, <2>2, <3>1, <3>2 DEF a
  <2>3. CASE i = n + 1
    <3>1. n - 1 + 2 = n + 1
      BY <1>3
    <3>2. b[n + 1] = fs[2]
      BY <1>3, <3>1 DEF b
    <3> QED BY <1>2, <1>4, <2>3, <3>2 DEF a
  <2> QED BY <1>3, <2>1, <2>2, <2>3
<1>6. a \in Seq(S) /\ b \in Seq(S) /\ Len(a) = n + 1 /\ Len(b) = n + 1
  BY <1>3, <1>4 DEF a, b
<1>7. a = b
  BY <1>5, <1>6, SeqEqual
<1> QED BY <1>7 DEF a, b, fs

-----------------------------------------------------------------------------
\* Steps of the parser that go on.

\* The part of such a step that is not about the call stack.
Onward ==
  /\ outcome = "parsing"
  /\ Keep
  /\ Heap(nodes') /\ DOMAIN nodes \subseteq DOMAIN nodes'
  /\ tokit' \in tokit .. Len(toks) + 1

\* What is known of a running parser.
LEMMA Ready ==
  ASSUME ParserInv, outcome = "parsing"
  PROVE  /\ tokit \in Nat \ {0} /\ Len(toks) \in Nat /\ tokit <= Len(toks) + 1
         /\ toks \in Seq(Token)
         /\ calls \in Seq(Frames(nodes)) /\ calls # << >>
         /\ Shape(calls, tokit, nodes)
         /\ Len(calls) \in Nat \ {0}
         /\ Heap(nodes)
         /\ Top \in Frames(nodes)
         /\ Top.fn \in Counted => Len(Top.kids) = Arity(Top.fn)
         /\ Len(calls) + Room(Top.fn) <= 3 * tokit
         /\ Top.fn \notin Loops => Len(calls) >= 2
<1>1. /\ toks \in Seq(Token)
      /\ tokit \in 1 .. Len(toks) + 1
      /\ calls \in Seq(Frames(nodes)) /\ calls # << >>
      /\ Heap(nodes)
      /\ Shape(calls, tokit, nodes)
  BY DEF ParserInv, TypeOK
<1>2. Len(toks) \in Nat
  BY <1>1, LenProperties
<1>3. tokit \in Nat \ {0} /\ tokit <= Len(toks) + 1
  BY <1>1, <1>2
<1>4. /\ Len(calls) \in Nat \ {0}
      /\ Last(calls) \in Frames(nodes)
      /\ Last(calls).fn \in Counted =>
           Len(Last(calls).kids) = Arity(Last(calls).fn)
      /\ Len(calls) + Room(Last(calls).fn) <= 3 * tokit
      /\ Last(calls).fn \notin Loops => Len(calls) >= 2
  BY <1>1, <1>3, InnermostFits
<1> QED BY <1>1, <1>2, <1>3, <1>4 DEF Top

LEMMA Moves ==
  ASSUME ParserInv, Onward,
         calls' \in Seq(Frames(nodes')), calls' # << >>,
         Shape(calls', tokit', nodes')
  PROVE  ParserInv'
<1>1. /\ toks' \in Seq(Token)
      /\ tokit' \in 1 .. Len(toks') + 1
  <2>1. toks' = toks /\ tokit' \in tokit .. Len(toks) + 1
    BY DEF Onward, Keep
  <2>2. tokit \in Nat \ {0} /\ Len(toks) \in Nat /\ toks \in Seq(Token)
    BY Ready DEF Onward
  <2> QED BY <2>1, <2>2
<1>2. stmts' \in Seq(DOMAIN nodes')
  <2>1. stmts' = stmts /\ stmts \in Seq(DOMAIN nodes)
        /\ DOMAIN nodes \subseteq DOMAIN nodes'
    BY DEF Onward, Keep, ParserInv, TypeOK
  <2> QED BY <2>1, SeqGrows
<1>3. outcome' = "parsing" /\ Heap(nodes')
  BY DEF Onward, Keep
<1>4. TypeOK'
  BY <1>1, <1>2, <1>3 DEF TypeOK
<1> QED BY <1>4 DEF ParserInv

\* The innermost frame is replaced by one, two or three frames.
LEMMA BecomeOne ==
  ASSUME ParserInv, Onward, NEW f, Become(<<f>>),
         Fits(f, Len(calls), TRUE, tokit', nodes'),
         f.fn \in Loops <=> Top.fn \in Loops
  PROVE  ParserInv'
<1> DEFINE fs == <<f>>
<1>1. f \in Frames(nodes')
  BY DEF Fits
<1>2. fs \in Seq(Frames(nodes')) /\ Len(fs) = 1 /\ fs[1] = f /\ fs # << >>
  BY <1>1
<1> HIDE DEF fs
<1>3. /\ tokit \in Nat /\ tokit' \in Nat /\ tokit <= tokit'
      /\ Len(calls) \in Nat \ {0}
      /\ calls \in Seq(Frames(nodes)) /\ calls # << >>
      /\ Shape(calls, tokit, nodes)
      /\ DOMAIN nodes \subseteq DOMAIN nodes'
  BY Ready DEF Onward
<1>4. /\ \A j \in 1 .. Len(fs) - 1 :
           Fits(fs[j], Len(calls) - 1 + j, FALSE, tokit', nodes')
      /\ Fits(fs[Len(fs)], Len(calls) - 1 + Len(fs), TRUE, tokit', nodes')
  <2>1. Len(calls) - 1 + 1 = Len(calls)
    BY <1>3
  <2>2. 1 .. Len(fs) - 1 = {}
    BY <1>2
  <2> QED BY <1>2, <2>1, <2>2
<1>5. \A j \in 2 .. Len(fs) : fs[j].fn \in Loops => fs[j - 1].fn = "EndBlock"
  BY <1>2
<1>6. fs[1].fn \in Loops <=> Last(calls).fn \in Loops
  BY <1>2 DEF Top
<1>7. calls' = Front(calls) \o fs
  BY DEF Become, Below, fs
<1>8. /\ calls' \in Seq(Frames(nodes')) /\ calls' # << >>
      /\ Shape(calls', tokit', nodes')
  BY <1>2, <1>3, <1>4, <1>5, <1>6, <1>7, BecomeShape
<1> QED BY <1>8, Moves

LEMMA BecomeTwo ==
  ASSUME ParserInv, Onward, NEW f, NEW g, Become(<<f, g>>),
         Fits(f, Len(calls), FALSE, tokit', nodes'),
         Fits(g, Len(calls) + 1, TRUE, tokit', nodes'),
         f.fn \in Loops <=> Top.fn \in Loops,
         g.fn \in Loops => f.fn = "EndBlock"
  PROVE  ParserInv'
<1> DEFINE fs == <<f, g>>
<1>1. f \in Frames(nodes') /\ g \in Frames(nodes')
  BY DEF Fits
<1>2. /\ fs \in Seq(Frames(nodes')) /\ Len(fs) = 2 /\ fs # << >>
      /\ fs[1] = f /\ fs[2] = g
  BY <1>1
<1> HIDE DEF fs
<1>3. /\ tokit \in Nat /\ tokit' \in Nat /\ tokit <= tokit'
      /\ Len(calls) \in Nat \ {0}
      /\ calls \in Seq(Frames(nodes)) /\ calls # << >>
      /\ Shape(calls, tokit, nodes)
      /\ DOMAIN nodes \subseteq DOMAIN nodes'
  BY Ready DEF Onward
<1>4. /\ \A j \in 1 .. Len(fs) - 1 :
           Fits(fs[j], Len(calls) - 1 + j, FALSE, tokit', nodes')
      /\ Fits(fs[Len(fs)], Len(calls) - 1 + Len(fs), TRUE, tokit', nodes')
  <2>1. Len(calls) - 1 + 1 = Len(calls) /\ Len(calls) - 1 + 2 = Len(calls) + 1
    BY <1>3
  <2>2. \A j \in 1 .. Len(fs) - 1 : j = 1
    BY <1>2
  <2> QED BY <1>2, <2>1, <2>2
<1>5. \A j \in 2 .. Len(fs) : fs[j].fn \in Loops => fs[j - 1].fn = "EndBlock"
  <2>1. \A j \in 2 .. Len(fs) : j = 2
    BY <1>2
  <2>2. 2 - 1 = 1
    OBVIOUS
  <2> QED BY <1>2, <2>1, <2>2
<1>6. fs[1].fn \in Loops <=> Last(calls).fn \in Loops
  BY <1>2 DEF Top
<1>7. calls' = Front(calls) \o fs
  BY DEF Become, Below, fs
<1>8. /\ calls' \in Seq(Frames(nodes')) /\ calls' # << >>
      /\ Shape(calls', tokit', nodes')
  BY <1>2, <1>3, <1>4, <1>5, <1>6, <1>7, BecomeShape
<1> QED BY <1>8, Moves

LEMMA BecomeThree ==
  ASSUME ParserInv, Onward, NEW f, NEW g, NEW h, Become(<<f, g, h>>),
         Fits(f, Len(calls), FALSE, tokit', nodes'),
         Fits(g, Len(calls) + 1, FALSE, tokit', nodes'),
         Fits(h, Len(calls) + 2, TRUE, tokit', nodes'),
         f.fn \in Loops <=> Top.fn \in Loops,
         g.fn \notin Loops, h.fn \notin Loops
  PROVE  ParserInv'
<1> DEFINE fs == <<f, g, h>>
<1>1. f \in Frames(nodes') /\ g \in Frames(nodes') /\ h \in Frames(nodes')
  BY DEF Fits
<1>2. /\ fs \in Seq(Frames(nodes')) /\ Len(fs) = 3 /\ fs # << >>
      /\ fs[1] = f /\ fs[2] = g /\ fs[3] = h
  BY <1>1
<1> HIDE DEF fs
<1>3. /\ tokit \in Nat /\ tokit' \in Nat /\ tokit <= tokit'
      /\ Len(calls) \in Nat \ {0}
      /\ calls \in Seq(Frames(nodes)) /\ calls # << >>
      /\ Shape(calls, tokit, nodes)
      /\ DOMAIN nodes \subseteq DOMAIN nodes'
  BY Ready DEF Onward
<1>4. /\ \A j \in 1 .. Len(fs) - 1 :
           Fits(fs[j], Len(calls) - 1 + j, FALSE, tokit', nodes')
      /\ Fits(fs[Len(fs)], Len(calls) - 1 + Len(fs), TRUE, tokit', nodes')
  <2>1. Len(calls) - 1 + 1 = Len(calls) /\ Len(calls) - 1 + 2 = Len(calls) + 1 /\ Len(calls) - 1 + 3 = Len(calls) + 2
    BY <1>3
  <2>2. \A j \in 1 .. Len(fs) - 1 : j = 1 \/ j = 2
    BY <1>2
  <2> QED BY <1>2, <2>1, <2>2
<1>5. \A j \in 2 .. Len(fs) : fs[j].fn \in Loops => fs[j - 1].fn = "EndBlock"
  <2>1. \A j \in 2 .. Len(fs) : j = 2 \/ j = 3
    BY <1>2
  <2> QED BY <1>2, <2>1
<1>6. fs[1].fn \in Loops <=> Last(calls).fn \in Loops
  BY <1>2 DEF Top
<1>7. calls' = Front(calls) \o fs
  BY DEF Become, Below, fs
<1>8. /\ calls' \in Seq(Frames(nodes')) /\ calls' # << >>
      /\ Shape(calls', tokit', nodes')
  BY <1>2, <1>3, <1>4, <1>5, <1>6, <1>7, BecomeShape
<1> QED BY <1>8, Moves

\* The innermost function calls another.
LEMMA Pushes ==
  ASSUME ParserInv, Onward, NEW g, calls' = Append(calls, g),
         Fits(g, Len(calls) + 1, TRUE, tokit', nodes'),
         g.fn \notin Loops, Top.fn \notin Counted
  PROVE  ParserInv'
<1>1. /\ tokit \in Nat /\ tokit' \in Nat /\ tokit <= tokit'
      /\ Len(calls) \in Nat \ {0}
      /\ calls \in Seq(Frames(nodes)) /\ calls # << >>
      /\ Top \in Frames(nodes)
      /\ Len(calls) + Room(Top.fn) <= 3 * tokit
      /\ DOMAIN nodes \subseteq DOMAIN nodes'
  BY Ready DEF Onward
<1>2. calls' = Front(calls) \o <<Top, g>>
  <2>1. Frames(nodes) \subseteq Frames(nodes')
    BY <1>1, FramesGrow
  <2>2. calls \in Seq(Frames(nodes')) /\ g \in Frames(nodes')
    BY <1>1, <2>1, SeqGrows DEF Fits
  <2> QED BY <1>1, <2>2, AppendIsBecome DEF Top
<1>3. Become(<<Top, g>>)
  BY <1>2 DEF Become, Below
<1>4. Fits(Top, Len(calls), FALSE, tokit', nodes')
  <2>1. Fits(Top, Len(calls), FALSE, tokit, nodes)
    BY <1>1 DEF Fits
  <2> QED BY <1>1, <2>1, FitsGrows
<1> QED BY <1>3, <1>4, BecomeTwo

\* The innermost function returns ks.
LEMMA Returns ==
  ASSUME ParserInv, Onward, NEW ks, calls' = Deliver(Below, ks),
         ks \in Seq(DOMAIN nodes'), Len(calls) >= 2,
         Top.fn \notin Loops => Len(ks) = 1
  PROVE  ParserInv'
<1>1. /\ tokit \in Nat /\ tokit' \in Nat /\ tokit <= tokit'
      /\ calls \in Seq(Frames(nodes)) /\ calls # << >>
      /\ Shape(calls, tokit, nodes)
      /\ DOMAIN nodes \subseteq DOMAIN nodes'
  BY Ready DEF Onward
<1>2. /\ calls' \in Seq(Frames(nodes')) /\ calls' # << >>
      /\ Shape(calls', tokit', nodes')
  BY <1>1, ReturnShape DEF Below, Top
<1> QED BY <1>2, Moves

-----------------------------------------------------------------------------
\* The heap.

\* A node that the parser may add to the heap ns.
NodeFits(m, ns) ==
  /\ m \in [kind : Kinds, type : TokenType, kids : Seq(DOMAIN ns), lit : Value]
  /\ m.kind \in LeafKinds =>
       /\ m.kids = << >>
       /\ m.kind = "Name" => isString(m.lit)
  /\ m.kind = "BinaryOp" => Len(m.kids) = 2
  /\ m.kind \in {"UnaryOp", "Return", "Var", "Print"} => Len(m.kids) = 1
  /\ m.kind = "UnaryOp" => ns[m.kids[1]].kind # "Name"

LEMMA HeapGrows ==
  ASSUME NEW ns, Heap(ns), NEW m, NodeFits(m, ns)
  PROVE  /\ Heap(ns \o <<m>>)
         /\ Len(ns) \in Nat
         /\ DOMAIN ns \subseteq DOMAIN (ns \o <<m>>)
         /\ Len(ns) + 1 \in DOMAIN (ns \o <<m>>)
         /\ Len(ns \o <<m>>) = Len(ns) + 1
<1> DEFINE n    == Len(ns)
           more == ns \o <<m>>
<1>1. ns \in Seq(Node) /\ n \in Nat /\ DOMAIN ns = 1 .. n
  BY LenProperties DEF Heap
<1>2. m.kids \in Seq(1 .. n) /\ m \in Node
  <2>1. m.kids \in Seq(1 .. n)
    BY <1>1 DEF NodeFits
  <2>2. 1 .. n \subseteq Nat \ {0}
    BY <1>1
  <2>3. m.kids \in Seq(Nat \ {0})
    BY <2>1, <2>2, SeqGrows
  <2> QED BY <2>1, <2>3 DEF NodeFits, Node
<1>3. /\ more \in Seq(Node) /\ Len(more) = n + 1
      /\ \A k \in 1 .. n : more[k] = ns[k]
      /\ more[n + 1] = m
  <2>1. <<m>> \in Seq(Node) /\ Len(<<m>>) = 1 /\ <<m>>[1] = m
    BY <1>2
  <2>2. /\ more \in Seq(Node) /\ Len(more) = n + 1
        /\ \A k \in 1 .. n + 1 :
             more[k] = IF k <= n THEN ns[k] ELSE <<m>>[k - n]
    BY <1>1, <2>1, ConcatProperties
  <2> HIDE DEF n, more
  <2>3. \A k \in 1 .. n : more[k] = ns[k]
    BY <1>1, <2>2
  <2>4. more[n + 1] = m
    BY <1>1, <2>1, <2>2
  <2> QED BY <2>2, <2>3, <2>4
<1>4. DOMAIN more = 1 .. n + 1
  BY <1>3, LenProperties
<1> HIDE DEF n, more
<1>5. ASSUME NEW k \in 1 .. n
      PROVE  /\ \A i \in DOMAIN more[k].kids : more[k].kids[i] < k
             /\ more[k].kind \in LeafKinds =>
                  /\ more[k].kids = << >>
                  /\ more[k].kind = "Name" => isString(more[k].lit)
             /\ more[k].kind = "BinaryOp" => Len(more[k].kids) = 2
             /\ more[k].kind \in {"UnaryOp", "Return", "Var", "Print"} =>
                  Len(more[k].kids) = 1
             /\ more[k].kind = "UnaryOp" =>
                  more[more[k].kids[1]].kind # "Name"
  <2>1. more[k] = ns[k] /\ k \in DOMAIN ns
    BY <1>1, <1>3
  <2>2. ASSUME ns[k].kind = "UnaryOp"
        PROVE  more[ns[k].kids[1]].kind # "Name"
    <3>1. ns[k] \in Node
      BY <1>1, ElementOfSeq DEF n
    <3>2. ns[k].kids \in Seq(Nat \ {0}) /\ Len(ns[k].kids) = 1
      BY <2>1, <2>2, <3>1 DEF Heap, Node
    <3>3. 1 \in DOMAIN ns[k].kids /\ ns[k].kids[1] \in Nat \ {0}
      BY <3>2, Elements
    <3>4. ns[k].kids[1] < k
      BY <2>1, <3>3 DEF Heap
    <3>5. ns[k].kids[1] \in 1 .. n
      BY <1>1, <3>3, <3>4
    <3>6. ns[ns[k].kids[1]].kind # "Name"
      BY <2>1, <2>2 DEF Heap
    <3> QED BY <1>3, <3>5, <3>6
  <2> QED BY <2>1, <2>2 DEF Heap
<1>6. /\ \A i \in DOMAIN m.kids : m.kids[i] < n + 1
      /\ m.kind \in LeafKinds =>
           /\ m.kids = << >>
           /\ m.kind = "Name" => isString(m.lit)
      /\ m.kind = "BinaryOp" => Len(m.kids) = 2
      /\ m.kind \in {"UnaryOp", "Return", "Var", "Print"} => Len(m.kids) = 1
      /\ m.kind = "UnaryOp" => more[m.kids[1]].kind # "Name"
  <2>1. \A i \in DOMAIN m.kids : m.kids[i] \in 1 .. n
    BY <1>2, Elements
  <2>2. ASSUME m.kind = "UnaryOp"
        PROVE  more[m.kids[1]].kind # "Name"
    <3>1. Len(m.kids) = 1 /\ ns[m.kids[1]].kind # "Name"
      BY <2>2 DEF NodeFits
    <3>2. m.kids[1] \in 1 .. n
      <4>1. Len(m.kids) >= 1
        BY <3>1
      <4>2. m.kids \in Seq(1 .. n)
        BY <1>2
      <4> QED BY <4>1, <4>2, Elements
    <3> QED BY <1>3, <3>1, <3>2
  <2>3. \A i \in DOMAIN m.kids : m.kids[i] < n + 1
    BY <1>1, <2>1
  <2> QED BY <2>2, <2>3 DEF NodeFits
<1>7. \A k \in DOMAIN more : k \in 1 .. n \/ k = n + 1
  BY <1>1, <1>4
<1>8. Heap(more)
  BY <1>3, <1>5, <1>6, <1>7 DEF Heap
<1>9. DOMAIN ns \subseteq DOMAIN more /\ n + 1 \in DOMAIN more
  BY <1>1, <1>4
<1> QED BY <1>1, <1>3, <1>8, <1>9 DEF n, more

LEMMA LeafFits ==
  ASSUME NEW ns, NEW kind \in LeafKinds, NEW val \in Value,
         kind = "Name" => isString(val)
  PROVE  NodeFits(Leaf(kind, val), ns)
<1>1. kind \in {"Name", "String", "Num", "Bool"} /\ kind \in Kinds
  BY DEF LeafKinds, Kinds
<1>2. << >> \in Seq(DOMAIN ns) /\ "NONE" \in TokenType
  BY DEF TokenType
<1> QED BY <1>1, <1>2 DEF NodeFits, Leaf

LEMMA InnerFits ==
  ASSUME NEW ns, NEW kind \in Kinds \ LeafKinds, NEW type \in TokenType,
         NEW ks \in Seq(DOMAIN ns),
         kind = "BinaryOp" => Len(ks) = 2,
         kind \in {"UnaryOp", "Return", "Var", "Print"} => Len(ks) = 1,
         kind = "UnaryOp" => ns[ks[1]].kind # "Name"
  PROVE  NodeFits(Inner(kind, type, ks), ns)
<1>1. Null \in Value
  BY DEF Value
<1> QED BY <1>1 DEF NodeFits, Inner

\* A step that allocates one node.
LEMMA NewNode ==
  ASSUME ParserInv, NEW m, NodeFits(m, nodes), New(<<m>>)
  PROVE  /\ Heap(nodes') /\ DOMAIN nodes \subseteq DOMAIN nodes'
         /\ NewAt \in DOMAIN nodes'
         /\ nodes' = nodes \o <<m>>
<1>1. Heap(nodes) /\ nodes' = nodes \o <<m>>
  BY DEF ParserInv, TypeOK, New
<1> QED BY <1>1, HeapGrows DEF NewAt

-----------------------------------------------------------------------------
\* Frames, tokens and precedences of the parsing functions.

LEMMA FrameFits ==
  ASSUME NEW ns, NEW t, NEW i, NEW fn \in FnNames, NEW prec \in 0 .. 100,
         NEW type \in TokenType, NEW kids \in Seq(DOMAIN ns),
         i + Room(fn) <= 3 * t
  PROVE  LET f == Frame(fn, prec, type, kids)
         IN /\ f.fn = fn
            /\ (fn \in Counted => Len(kids) = Arity(fn)) => Fits(f, i, TRUE, t, ns)
            /\ (fn \in Counted => Len(kids) = Arity(fn) - 1) =>
                 Fits(f, i, FALSE, t, ns)
<1> DEFINE f == Frame(fn, prec, type, kids)
<1>1. f \in Frames(ns) /\ f.fn = fn /\ f.kids = kids
  BY DEF Frame, Frames
<1> HIDE DEF f
<1>2. Arity(fn) \in Nat
  BY DEF Arity
<1>3. (fn \in Counted => Len(kids) = Arity(fn)) => Fits(f, i, TRUE, t, ns)
  BY <1>1, <1>2 DEF Fits
<1>4. (fn \in Counted => Len(kids) = Arity(fn) - 1) => Fits(f, i, FALSE, t, ns)
  BY <1>1, <1>2 DEF Fits
<1> QED BY <1>1, <1>3, <1>4 DEF f

\* ParseExpr, innermost, and its loop, which waits for the infix function.
LEMMA ExprFits ==
  ASSUME NEW ns, NEW t, NEW i, NEW prec \in 0 .. 100, i + 1 <= 3 * t
  PROVE  Fits(ParseExpr(prec), i, TRUE, t, ns) /\ ParseExpr(prec).fn = "ParseExpr"
<1>1. << >> \in Seq(DOMAIN ns) /\ "NONE" \in TokenType
  BY Tuples DEF TokenType
<1>2. /\ "ParseExpr" \in FnNames /\ "ParseExpr" \notin Counted
      /\ Room("ParseExpr") = 1
  BY DEF FnNames, Counted, Room, Loops
<1> QED BY <1>1, <1>2, FrameFits DEF ParseExpr

\* A function that does not return as soon as it has its nodes.
LEMMA FnFits ==
  ASSUME NEW ns, NEW t, NEW i, NEW fn \in FnNames, fn \notin Counted,
         NEW type \in TokenType, NEW kids \in Seq(DOMAIN ns),
         i + Room(fn) <= 3 * t
  PROVE  /\ Fits(Fn(fn, kids), i, TRUE, t, ns) /\ Fn(fn, kids).fn = fn
         /\ Fits(Typed(fn, type, kids), i, FALSE, t, ns)
         /\ Typed(fn, type, kids).fn = fn
<1>1. 0 \in 0 .. 100 /\ "NONE" \in TokenType
  BY DEF TokenType
<1>2. /\ fn \in Counted => Len(kids) = Arity(fn)
      /\ fn \in Counted => Len(kids) = Arity(fn) - 1
  OBVIOUS
<1> QED BY <1>1, <1>2, FrameFits DEF Fn, Typed

LEMMA LoopFits ==
  ASSUME NEW ns, NEW t \in Nat, NEW i \in Nat, NEW prec \in 0 .. 100,
         i <= 3 * t
  PROVE  /\ Fits(InfixLoop(prec, << >>), i, FALSE, t, ns)
         /\ InfixLoop(prec, << >>).fn = "InfixLoop"
         /\ \A k \in DOMAIN ns : /\ Fits(InfixLoop(prec, <<k>>), i, TRUE, t, ns)
                                 /\ InfixLoop(prec, <<k>>).fn = "InfixLoop"
<1>1. /\ << >> \in Seq(DOMAIN ns) /\ Len(<< >>) = 0 /\ "NONE" \in TokenType
      /\ \A k \in DOMAIN ns : <<k>> \in Seq(DOMAIN ns) /\ Len(<<k>>) = 1
  BY Tuples DEF TokenType
<1>2. /\ "InfixLoop" \in FnNames /\ Arity("InfixLoop") = 1
      /\ Room("InfixLoop") = 0
  BY DEF FnNames, Arity, Room, Loops
<1>3. i + Room("InfixLoop") <= 3 * t
  BY <1>2
<1>4. /\ Fits(InfixLoop(prec, << >>), i, FALSE, t, ns)
      /\ InfixLoop(prec, << >>).fn = "InfixLoop"
  <2>1. Len(<< >>) = Arity("InfixLoop") - 1
    BY <1>1, <1>2
  <2> QED BY <1>1, <1>2, <1>3, <2>1, FrameFits DEF InfixLoop
<1>5. ASSUME NEW k \in DOMAIN ns
      PROVE  /\ Fits(InfixLoop(prec, <<k>>), i, TRUE, t, ns)
             /\ InfixLoop(prec, <<k>>).fn = "InfixLoop"
  BY <1>1, <1>2, <1>3, FrameFits DEF InfixLoop
<1> QED BY <1>4, <1>5

LEMMA Precedences ==
  /\ PrefixPrec("RET") = 1 /\ PrefixPrec("LEFT_PAREN") = 1
  /\ PrefixPrec("BANG") = 100 /\ PrefixPrec("MINUS") = 100
  /\ \A type \in BinaryTypes : InfixPrec(type) \in 0 .. 100
  /\ InfixPrec("COMMA") = 20
BY DEF PrefixPrec, InfixPrec, BinaryTypes

\* A token that was looked at is there.
LEMMA TypeInside ==
  ASSUME ParserInv, outcome = "parsing", NEW n \in Nat, TypeIn(n) # "NONE"
  PROVE  /\ tokit + n <= Len(toks)
         /\ tokit + n \in Nat
         /\ TypeIn(n) = toks[tokit + n].type
         /\ toks[tokit + n].lit \in Value
         /\ TypeIn(n) = "ID" => isString(toks[tokit + n].lit)
<1>1. tokit \in Nat \ {0} /\ Len(toks) \in Nat /\ toks \in Seq(Token)
  BY Ready
<1>2. tokit + n <= Len(toks) /\ TypeIn(n) = toks[tokit + n].type
  BY DEF TypeIn
<1>3. tokit + n \in 1 .. Len(toks)
  BY <1>1, <1>2
<1>4. toks[tokit + n] \in Token
  BY <1>1, <1>3, ElementOfSeq
<1>5. /\ toks[tokit + n].lit \in Value
      /\ toks[tokit + n].type = "ID" => isString(toks[tokit + n].lit)
  BY <1>4 DEF Token
<1> QED BY <1>2, <1>3, <1>5

\* currtype is a type of a token, or "NONE".
LEMMA TypeOfToken ==
  ASSUME ParserInv, outcome = "parsing"
  PROVE  currtype \in TokenType
<1>1. tokit \in Nat \ {0} /\ Len(toks) \in Nat /\ toks \in Seq(Token)
  BY Ready
<1>2. CASE tokit + 0 <= Len(toks)
  <2>1. tokit + 0 \in 1 .. Len(toks)
    BY <1>1, <1>2
  <2>2. toks[tokit + 0] \in Token
    BY <1>1, <2>1, ElementOfSeq
  <2> QED BY <1>2, <2>2 DEF currtype, TypeIn, Token
<1>3. CASE ~ (tokit + 0 <= Len(toks))
  BY <1>3 DEF currtype, TypeIn, TokenType
<1> QED BY <1>2, <1>3

\* n tokens are consumed.
LEMMA Consumes ==
  ASSUME ParserInv, outcome = "parsing", Keep, NEW n \in Nat, Consume(n),
         n = 0 \/ tokit + (n - 1) <= Len(toks),
         Heap(nodes') /\ DOMAIN nodes \subseteq DOMAIN nodes'
  PROVE  Onward /\ tokit' = tokit + n
<1>1. tokit \in Nat \ {0} /\ Len(toks) \in Nat /\ tokit <= Len(toks) + 1
  BY Ready
<1>2. tokit' = tokit + n
  BY DEF Consume
<1>3. tokit' \in tokit .. Len(toks) + 1
  BY <1>1, <1>2
<1> QED BY <1>2, <1>3 DEF Onward

\* No node is allocated.
LEMMA SameHeap ==
  ASSUME ParserInv, UNCHANGED nodes
  PROVE  Heap(nodes') /\ DOMAIN nodes \subseteq DOMAIN nodes'
BY DEF ParserInv, TypeOK

\* No token is consumed.
LEMMA SameToken ==
  ASSUME ParserInv, outcome = "parsing", Keep, UNCHANGED tokit,
         Heap(nodes') /\ DOMAIN nodes \subseteq DOMAIN nodes'
  PROVE  Onward
<1>1. tokit \in Nat \ {0} /\ Len(toks) \in Nat /\ tokit <= Len(toks) + 1
  BY Ready
<1>2. tokit' \in tokit .. Len(toks) + 1
  BY <1>1
<1> QED BY <1>2 DEF Onward

\* The process stops.
LEMMA Stops ==
  ASSUME ParserInv, outcome = "parsing", NEW how \in Stopped, Stop(how)
  PROVE  ParserInv'
<1>1. UNCHANGED <<toks, tokit, calls, nodes, stmts>> /\ outcome' = how
  BY DEF Stop
<1>2. outcome' \in {"parsing", "DONE"} \cup Stopped /\ outcome' # "parsing"
  BY <1>1 DEF Stopped
<1>3. TypeOK'
  BY <1>1, <1>2 DEF ParserInv, TypeOK
<1>4. Shape(calls, tokit, nodes)'
  BY <1>1 DEF ParserInv
<1> QED BY <1>3, <1>4 DEF ParserInv

-----------------------------------------------------------------------------
\* What prefix and infix functions do to the call stack.

\* Room at position n when t, or u, is the current token.
LEMMA RoomLeft ==
  ASSUME NEW n \in Nat, NEW r \in Nat, NEW t \in Nat, NEW u \in Nat,
         n + r <= 3 * t
  PROVE  /\ t <= u => n <= 3 * u /\ n + r <= 3 * u
         /\ u >= t + 1 => /\ n <= 3 * u /\ n + 1 <= 3 * u
                          /\ n + 2 + 1 <= 3 * u
                          /\ \A s \in {0, 1, 2} : n + 1 + s <= 3 * u
OBVIOUS

\* A function is called and calls ParseExpr, after consuming a token.
LEMMA CallsExpr ==
  ASSUME ParserInv, Onward, tokit' >= tokit + 1,
         Top.fn \in {"ParseExpr", "InfixLoop"},
         NEW fn \in FnNames, fn \notin Loops, NEW type \in TokenType,
         NEW kids \in Seq(DOMAIN nodes'),
         fn \in Counted => Len(kids) = Arity(fn) - 1,
         NEW prec \in 0 .. 100,
         Become(<<InfixLoop(Top.prec, << >>)>>
                  \o <<Typed(fn, type, kids), ParseExpr(prec)>>)
  PROVE  ParserInv'
<1> DEFINE e == InfixLoop(Top.prec, << >>)
           f == Typed(fn, type, kids)
           g == ParseExpr(prec)
           n == Len(calls)
<1>1. /\ tokit \in Nat /\ tokit' \in Nat /\ n \in Nat
      /\ n + Room(Top.fn) <= 3 * tokit /\ Top.prec \in 0 .. 100
  BY Ready DEF Onward, Frames
<1>2. Room(Top.fn) \in Nat /\ Room(fn) \in {0, 1, 2}
  BY DEF Room
<1> HIDE DEF n
<1>3. n <= 3 * tokit' /\ n + 1 + Room(fn) <= 3 * tokit' /\ n + 2 + 1 <= 3 * tokit'
  BY <1>1, <1>2, RoomLeft
<1>4. Fits(e, n, FALSE, tokit', nodes') /\ e.fn = "InfixLoop"
  BY <1>1, <1>3, LoopFits
<1>5. Fits(f, n + 1, FALSE, tokit', nodes') /\ f.fn = fn
  <2>1. 0 \in 0 .. 100
    OBVIOUS
  <2> QED BY <1>3, <2>1, FrameFits DEF Typed
<1>6. Fits(g, n + 2, TRUE, tokit', nodes') /\ g.fn = "ParseExpr"
  BY <1>3, ExprFits
<1>7. Become(<<e, f, g>>)
  BY TupleConcat
<1> HIDE DEF e, f, g
<1>8. e.fn \notin Loops /\ g.fn \notin Loops /\ Top.fn \notin Loops
  BY <1>4, <1>6 DEF Loops
<1> QED BY <1>4, <1>5, <1>6, <1>7, <1>8, BecomeThree DEF n

\* A function is called that first calls no other.
LEMMA CallsOne ==
  ASSUME ParserInv, Onward,
         Top.fn \in {"ParseExpr", "InfixLoop"},
         Top.fn = "InfixLoop" => tokit' >= tokit + 1,
         NEW fn \in FnNames, fn \notin Loops, fn \notin Counted, Room(fn) = 0,
         NEW kids \in Seq(DOMAIN nodes'),
         Become(<<InfixLoop(Top.prec, << >>)>> \o <<Fn(fn, kids)>>)
  PROVE  ParserInv'
<1> DEFINE e == InfixLoop(Top.prec, << >>)
           f == Fn(fn, kids)
           n == Len(calls)
<1>1. /\ tokit \in Nat /\ tokit' \in Nat /\ n \in Nat /\ tokit <= tokit'
      /\ n + Room(Top.fn) <= 3 * tokit /\ Top.prec \in 0 .. 100
  BY Ready DEF Onward, Frames
<1>2. Top.fn = "ParseExpr" => Room(Top.fn) = 1
  BY DEF Room, Loops
<1>3. Top.fn = "InfixLoop" => Room(Top.fn) = 0
  BY DEF Room, Loops
<1> HIDE DEF n
<1>4. n <= 3 * tokit' /\ n + 1 + Room(fn) <= 3 * tokit'
  <2>1. n <= 3 * tokit' /\ n + 1 <= 3 * tokit'
    <3>1. CASE Top.fn = "ParseExpr"
      BY <1>1, <1>2, <3>1, RoomLeft
    <3>2. CASE Top.fn = "InfixLoop"
      <4>1. tokit' >= tokit + 1 /\ Room(Top.fn) \in Nat
        BY <1>3, <3>2
      <4> QED BY <1>1, <4>1, RoomLeft
    <3> QED BY <3>1, <3>2
  <2>2. n + 1 + Room(fn) = n + 1
    BY <1>1
  <2> QED BY <2>1, <2>2
<1>5. Fits(e, n, FALSE, tokit', nodes') /\ e.fn = "InfixLoop"
  BY <1>1, <1>4, LoopFits
<1>6. Fits(f, n + 1, TRUE, tokit', nodes') /\ f.fn = fn
  <2>1. "NONE" \in TokenType
    BY DEF TokenType
  <2>2. n + 1 + Room(fn) <= 3 * tokit'
    BY <1>4
  <2> HIDE DEF e, f
  <2>3. Fits(Fn(fn, kids), n + 1, TRUE, tokit', nodes') /\ Fn(fn, kids).fn = fn
    BY <2>1, <2>2, FnFits
  <2> QED BY <2>3 DEF f
<1>7. Become(<<e, f>>)
  BY TupleConcat
<1> HIDE DEF e, f
<1>8. e.fn \notin Loops /\ f.fn \notin Loops /\ Top.fn \notin Loops
  BY <1>5, <1>6 DEF Loops
<1> QED BY <1>5, <1>6, <1>7, <1>8, BecomeTwo DEF n

\* The prefix function returns a node without calling another.
LEMMA YieldsNode ==
  ASSUME ParserInv, Onward, Top.fn = "ParseExpr", NEW k \in DOMAIN nodes',
         Become(<<InfixLoop(Top.prec, <<k>>)>>)
  PROVE  ParserInv'
<1> DEFINE e == InfixLoop(Top.prec, <<k>>)
           n == Len(calls)
<1>1. /\ tokit \in Nat /\ tokit' \in Nat /\ n \in Nat /\ tokit <= tokit'
      /\ n + Room(Top.fn) <= 3 * tokit /\ Top.prec \in 0 .. 100
  BY Ready DEF Onward, Frames
<1>2. Room(Top.fn) \in Nat
  BY DEF Room
<1> HIDE DEF n
<1>3. n <= 3 * tokit'
  BY <1>1, <1>2, RoomLeft
<1>4. Fits(e, n, TRUE, tokit', nodes') /\ e.fn = "InfixLoop"
  BY <1>1, <1>3, LoopFits
<1> HIDE DEF e
<1>5. e.fn \notin Loops /\ Top.fn \notin Loops
  BY <1>4 DEF Loops
<1> QED BY <1>4, <1>5, BecomeOne DEF e, n

\* A function returns the node it allocates.
LEMMA ReturnsNew ==
  ASSUME ParserInv, Onward, Top.fn \notin Loops, NewAt \in DOMAIN nodes',
         calls' = Deliver(Below, <<NewAt>>)
  PROVE  ParserInv'
<1>1. Len(calls) >= 2
  BY Ready DEF Onward
<1>2. <<NewAt>> \in Seq(DOMAIN nodes') /\ Len(<<NewAt>>) = 1
  BY Tuples
<1> QED BY <1>1, <1>2, Returns

-----------------------------------------------------------------------------
\* The prefix functions.

LEMMA ParseNothingStep == ParserInv /\ ParseNothing => ParserInv'
<1> SUFFICES ASSUME ParserInv, ParseNothing
             PROVE  ParserInv'
  OBVIOUS
<1> DEFINE m == Inner("Empty", "NONE", << >>)
<1>1. /\ outcome = "parsing" /\ Top.fn = "ParseExpr"
      /\ New(<<m>>) /\ calls' = Deliver(Below, <<NewAt>>)
      /\ UNCHANGED tokit /\ Keep
  BY DEF ParseNothing, Running, ReturnNew
<1>2. NodeFits(m, nodes)
  BY InnerFits, Tuples DEF Kinds, LeafKinds, TokenType
<1> HIDE DEF m
<1>3. Heap(nodes') /\ DOMAIN nodes \subseteq DOMAIN nodes' /\ NewAt \in DOMAIN nodes'
  BY <1>1, <1>2, NewNode
<1>4. Onward
  BY <1>1, <1>3, SameToken
<1> QED BY <1>1, <1>3, <1>4, ReturnsNew DEF Loops

LEMMA ParseLeafStep == ParserInv /\ ParseLeaf => ParserInv'
<1> SUFFICES ASSUME ParserInv, ParseLeaf
             PROVE  ParserInv'
  OBVIOUS
<1> DEFINE m == Leaf(LeafKind[currtype], toks[tokit].lit)
<1>1. /\ outcome = "parsing" /\ Top.fn = "ParseExpr"
      /\ currtype \in DOMAIN LeafKind
      /\ New(<<m>>) /\ Become(<<InfixLoop(Top.prec, <<NewAt>>)>>)
      /\ Consume(1) /\ Keep
  BY DEF ParseLeaf, LeafTypes, Prefix, Running
<1>2. /\ currtype \in {"ID", "NUM", "STRING", "TRUE", "FALSE"}
      /\ LeafKind[currtype] \in LeafKinds
      /\ LeafKind[currtype] = "Name" => currtype = "ID"
  BY <1>1 DEF LeafKind, LeafKinds
<1>3. tokit + 0 = tokit /\ 0 \in Nat /\ TypeIn(0) # "NONE"
  BY <1>1, <1>2, Ready DEF currtype
<1>4. /\ tokit <= Len(toks) /\ toks[tokit].lit \in Value
      /\ currtype = "ID" => isString(toks[tokit].lit)
  BY <1>1, <1>3, TypeInside DEF currtype
<1>5. NodeFits(m, nodes)
  BY <1>2, <1>4, LeafFits
<1> HIDE DEF m
<1>6. Heap(nodes') /\ DOMAIN nodes \subseteq DOMAIN nodes' /\ NewAt \in DOMAIN nodes'
  BY <1>1, <1>5, NewNode
<1>7. Onward
  <2>1. tokit + (1 - 1) <= Len(toks)
    BY <1>3, <1>4
  <2> QED BY <1>1, <1>6, <2>1, Consumes
<1> QED BY <1>1, <1>6, <1>7, YieldsNode

\* A token that was looked at and all before it are consumed.
LEMMA ConsumesSeen ==
  ASSUME ParserInv, outcome = "parsing", Keep, NEW n \in Nat,
         TypeIn(n) # "NONE", Consume(n + 1),
         Heap(nodes') /\ DOMAIN nodes \subseteq DOMAIN nodes'
  PROVE  Onward /\ tokit' >= tokit + 1 /\ tokit \in Nat
<1>1. tokit \in Nat /\ tokit + n <= Len(toks)
  BY Ready, TypeInside
<1>2. n + 1 \in Nat /\ tokit + (n + 1 - 1) <= Len(toks)
  BY <1>1
<1>3. Onward /\ tokit' = tokit + (n + 1)
  BY <1>2, Consumes
<1> QED BY <1>1, <1>3

LEMMA ConsumesCurrent ==
  ASSUME ParserInv, outcome = "parsing", Keep, currtype # "NONE", Consume(1),
         Heap(nodes') /\ DOMAIN nodes \subseteq DOMAIN nodes'
  PROVE  Onward /\ tokit' >= tokit + 1
<1>1. TypeIn(0) # "NONE" /\ Consume(0 + 1) /\ 0 \in Nat
  BY DEF currtype
<1> QED BY <1>1, ConsumesSeen

LEMMA ParseUnaryOpStep == ParserInv /\ ParseUnaryOp => ParserInv'
<1> SUFFICES ASSUME ParserInv, ParseUnaryOp
             PROVE  ParserInv'
  OBVIOUS
<1>1. /\ outcome = "parsing" /\ Top.fn = "ParseExpr"
      /\ currtype \in {"BANG", "MINUS"} /\ Consume(1) /\ UNCHANGED nodes /\ Keep
      /\ Become(<<InfixLoop(Top.prec, << >>)>>
                  \o <<Typed("UnaryOp", currtype, << >>),
                       ParseExpr(PrefixPrec(currtype))>>)
  BY DEF ParseUnaryOp, Prefix, Running, CallPrefix
<1>2. Onward /\ tokit' >= tokit + 1
  BY <1>1, SameHeap, ConsumesCurrent
<1>3. /\ currtype \in TokenType /\ PrefixPrec(currtype) \in 0 .. 100
      /\ "UnaryOp" \in FnNames /\ "UnaryOp" \notin Loops
  <2>1. currtype \in TokenType
    BY <1>1 DEF TokenType
  <2>2. PrefixPrec(currtype) = 100
    BY <1>1, Precedences
  <2>3. PrefixPrec(currtype) \in 0 .. 100
    BY <2>2
  <2> QED BY <2>1, <2>3 DEF FnNames, Loops
<1>4. << >> \in Seq(DOMAIN nodes') /\ Len(<< >>) = Arity("UnaryOp") - 1
  BY Tuples DEF Arity
<1> QED BY <1>1, <1>2, <1>3, <1>4, CallsExpr

LEMMA ParseGroupingStep == ParserInv /\ ParseGrouping => ParserInv'
<1> SUFFICES ASSUME ParserInv, ParseGrouping
             PROVE  ParserInv'
  OBVIOUS
<1>1. /\ outcome = "parsing" /\ Top.fn = "ParseExpr"
      /\ currtype = "LEFT_PAREN" /\ Keep
  BY DEF ParseGrouping, Prefix, Running
<1>2. CASE TypeIn(1) = "RIGHT_PAREN"
  <2> DEFINE m == Inner("Empty", "NONE", << >>)
  <2>1. /\ New(<<m>>) /\ Become(<<InfixLoop(Top.prec, <<NewAt>>)>>)
        /\ Consume(2)
    BY <1>2 DEF ParseGrouping
  <2>2. NodeFits(m, nodes)
    BY InnerFits, Tuples DEF Kinds, LeafKinds, TokenType
  <2> HIDE DEF m
  <2>3. Heap(nodes') /\ DOMAIN nodes \subseteq DOMAIN nodes' /\ NewAt \in DOMAIN nodes'
    BY <2>1, <2>2, NewNode
  <2>4. Onward
    <3>1. 1 \in Nat /\ 1 + 1 = 2
      OBVIOUS
    <3> QED BY <1>1, <1>2, <2>1, <2>3, <3>1, ConsumesSeen
  <2> QED BY <1>1, <2>1, <2>3, <2>4, YieldsNode
<1>3. CASE TypeIn(1) # "RIGHT_PAREN"
  <2>1. /\ Consume(1) /\ UNCHANGED nodes
        /\ Become(<<InfixLoop(Top.prec, << >>)>>
                    \o <<Typed("Grouping", "NONE", << >>),
                         ParseExpr(PrefixPrec("LEFT_PAREN"))>>)
    BY <1>3 DEF ParseGrouping, CallPrefix, Fn, Typed
  <2>2. Onward /\ tokit' >= tokit + 1
    BY <1>1, <2>1, SameHeap, ConsumesCurrent
  <2>3. /\ "NONE" \in TokenType /\ PrefixPrec("LEFT_PAREN") \in 0 .. 100
        /\ "Grouping" \in FnNames /\ "Grouping" \notin Loops
    BY Precedences DEF TokenType, FnNames, Loops
  <2>4. << >> \in Seq(DOMAIN nodes') /\ Len(<< >>) = Arity("Grouping") - 1
    BY Tuples DEF Arity
  <2> QED BY <1>1, <2>1, <2>2, <2>3, <2>4, CallsExpr
<1> QED BY <1>2, <1>3

LEMMA ParseKeywordStep == ParserInv /\ ParseKeyword => ParserInv'
<1> SUFFICES ASSUME ParserInv, ParseKeyword
             PROVE  ParserInv'
  OBVIOUS
<1>1. /\ outcome = "parsing" /\ Top.fn = "ParseExpr"
      /\ currtype \in {"PRINT", "RET", "VAR", "IF"}
      /\ Consume(1) /\ UNCHANGED nodes /\ Keep
  BY DEF ParseKeyword, Prefix, Running
<1>2. Onward /\ tokit' >= tokit + 1
  BY <1>1, SameHeap, ConsumesCurrent
<1>3. PICK fn \in {"Print", "Return", "Var", "If"}, prec \in {0, 1} :
        Become(<<InfixLoop(Top.prec, << >>)>>
                 \o <<Typed(fn, "NONE", << >>), ParseExpr(prec)>>)
  <2>1. CASE currtype = "PRINT"
    BY <2>1 DEF ParseKeyword, CallPrefix, Fn, Typed
  <2>2. CASE currtype = "VAR"
    BY <2>2 DEF ParseKeyword, CallPrefix, Fn, Typed
  <2>3. CASE currtype = "IF"
    BY <2>3 DEF ParseKeyword, CallPrefix, Fn, Typed
  <2>4. CASE currtype = "RET"
    BY <2>4, Precedences DEF ParseKeyword, CallPrefix, Fn, Typed
  <2> QED BY <1>1, <2>1, <2>2, <2>3, <2>4
<1>4. /\ "NONE" \in TokenType /\ prec \in 0 .. 100
      /\ fn \in FnNames /\ fn \notin Loops /\ Arity(fn) = 1
  BY DEF TokenType, FnNames, Loops, Arity
<1>5. << >> \in Seq(DOMAIN nodes') /\ Len(<< >>) = Arity(fn) - 1
  BY <1>4, Tuples
<1> QED BY <1>1, <1>2, <1>3, <1>4, <1>5, CallsExpr

LEMMA ParseForStep == ParserInv /\ ParseFor => ParserInv'
<1> SUFFICES ASSUME ParserInv, ParseFor
             PROVE  ParserInv'
  OBVIOUS
<1>1. /\ outcome = "parsing" /\ Top.fn = "ParseExpr"
      /\ currtype = "FOR"
  BY DEF ParseFor, Prefix, Running
<1>2. CASE TypeIn(1) # "ID" \/ TypeIn(2) # "COLON"
  BY <1>1, <1>2, Stops DEF ParseFor, Stopped
<1>3. CASE ~ (TypeIn(1) # "ID" \/ TypeIn(2) # "COLON")
  <2> DEFINE m == Leaf("Name", toks[tokit + 1].lit)
  <2>1. /\ New(<<m>>) /\ Consume(3) /\ Keep
        /\ Become(<<InfixLoop(Top.prec, << >>)>>
                    \o <<Typed("For", "NONE", <<NewAt>>), ParseExpr(0)>>)
    BY <1>3 DEF ParseFor, CallPrefix, Fn, Typed
  <2>2. toks[tokit + 1].lit \in Value /\ isString(toks[tokit + 1].lit)
    BY <1>1, <1>3, TypeInside
  <2>3. NodeFits(m, nodes)
    BY <2>2, LeafFits DEF LeafKinds
  <2> HIDE DEF m
  <2>4. Heap(nodes') /\ DOMAIN nodes \subseteq DOMAIN nodes' /\ NewAt \in DOMAIN nodes'
    BY <2>1, <2>3, NewNode
  <2>5. Onward /\ tokit' >= tokit + 1
    <3>1. 2 \in Nat /\ 2 + 1 = 3
      OBVIOUS
    <3> QED BY <1>1, <1>3, <2>1, <2>4, <3>1, ConsumesSeen
  <2>6. /\ "NONE" \in TokenType /\ 0 \in 0 .. 100
        /\ "For" \in FnNames /\ "For" \notin Loops /\ "For" \notin Counted
    BY DEF TokenType, FnNames, Loops, Counted
  <2>7. <<NewAt>> \in Seq(DOMAIN nodes')
    BY <2>4, Tuples
  <2> QED BY <1>1, <2>1, <2>5, <2>6, <2>7, CallsExpr
<1> QED BY <1>2, <1>3

LEMMA ParseFnDefStep == ParserInv /\ ParseFnDef => ParserInv'
<1> SUFFICES ASSUME ParserInv, ParseFnDef
             PROVE  ParserInv'
  OBVIOUS
<1>1. /\ outcome = "parsing" /\ Top.fn = "ParseExpr" /\ currtype = "FN"
  BY DEF ParseFnDef, Prefix, Running
<1>2. ASSUME NEW how \in Stopped, Stop(how)
      PROVE  ParserInv'
  BY <1>1, <1>2, Stops
<1>3. CASE TypeIn(1) # "ID"
  BY <1>2, <1>3 DEF ParseFnDef, Stopped
<1>4. CASE TypeIn(1) = "ID" /\ tokit + 2 > Len(toks)
  BY <1>2, <1>4 DEF ParseFnDef, Stopped
<1>5. CASE TypeIn(1) = "ID" /\ tokit + 2 <= Len(toks) /\ TypeIn(2) # "LEFT_PAREN"
  <2>1. ~ (tokit + 2 > Len(toks))
    BY <1>1, <1>5, Ready
  <2> QED BY <1>2, <1>5, <2>1 DEF ParseFnDef, Stopped
<1>6. CASE TypeIn(1) = "ID" /\ tokit + 2 <= Len(toks) /\ TypeIn(2) = "LEFT_PAREN"
  <2> DEFINE name  == Leaf("Name", toks[tokit + 1].lit)
             empty == Inner("Empty", "NONE", << >>)
  <2>0. ~ (tokit + 2 > Len(toks))
    BY <1>1, <1>6, Ready
  <2>1. /\ IF TypeIn(3) = "RIGHT_PAREN"
           THEN /\ New(<<name, empty>>)
                /\ CallPrefix(<<Fn("FnDef", <<NewAt, NewAt + 1>>)>>)
           ELSE /\ New(<<name>>)
                /\ CallPrefix(<<Fn("FnDef", <<NewAt>>), ParseExpr(0)>>)
        /\ Consume(3) /\ Keep
    BY <1>6, <2>0 DEF ParseFnDef
  <2>2. toks[tokit + 1].lit \in Value /\ isString(toks[tokit + 1].lit)
    BY <1>1, <1>6, TypeInside
  <2>3. NodeFits(name, nodes)
    BY <2>2, LeafFits DEF LeafKinds
  <2>4. \A ns : NodeFits(empty, ns)
    BY InnerFits, Tuples DEF Kinds, LeafKinds, TokenType
  <2> HIDE DEF name, empty
  <2>5. /\ "NONE" \in TokenType /\ 0 \in 0 .. 100
        /\ "FnDef" \in FnNames /\ "FnDef" \notin Loops /\ "FnDef" \notin Counted
        /\ Room("FnDef") = 0
    BY DEF TokenType, FnNames, Loops, Counted, Room
  <2>6. CASE TypeIn(3) = "RIGHT_PAREN"
    <3>1. /\ nodes' = nodes \o <<name, empty>>
          /\ Become(<<InfixLoop(Top.prec, << >>)>>
                      \o <<Fn("FnDef", <<NewAt, NewAt + 1>>)>>)
      BY <2>1, <2>6 DEF New, CallPrefix
    <3> DEFINE one == nodes \o <<name>>
               two == one \o <<empty>>
    <3>2. Heap(nodes)
      BY DEF ParserInv, TypeOK
    <3>3. /\ Heap(one) /\ DOMAIN nodes \subseteq DOMAIN one
          /\ NewAt \in DOMAIN one /\ Len(one) = NewAt
      BY <2>3, <3>2, HeapGrows DEF NewAt
    <3>4. two = nodes \o <<name, empty>>
      <4> DEFINE S == Node \cup {name, empty}
      <4>1. nodes \in Seq(S) /\ <<name>> \in Seq(S) /\ <<empty>> \in Seq(S)
        <5>1. nodes \in Seq(Node)
          BY <3>2 DEF Heap
        <5>2. nodes \in Seq(S)
          BY <5>1, SeqGrows
        <5> QED BY <5>2
      <4>2. two = nodes \o (<<name>> \o <<empty>>)
        BY <4>1, ConcatAssociative
      <4> QED BY <4>2, TupleConcat
    <3> HIDE DEF one
    <3>5. /\ Heap(two) /\ DOMAIN one \subseteq DOMAIN two
          /\ NewAt + 1 \in DOMAIN two
      BY <2>4, <3>3, HeapGrows
    <3> HIDE DEF two
    <3>6. /\ Heap(nodes') /\ DOMAIN nodes \subseteq DOMAIN nodes'
          /\ NewAt \in DOMAIN nodes' /\ NewAt + 1 \in DOMAIN nodes'
      BY <3>1, <3>3, <3>4, <3>5
    <3>7. Onward
      <4>1. 2 \in Nat /\ 2 + 1 = 3
        OBVIOUS
      <4> QED BY <1>1, <1>6, <2>1, <3>6, <4>1, ConsumesSeen
    <3>8. <<NewAt, NewAt + 1>> \in Seq(DOMAIN nodes')
      BY <3>6, Tuples
    <3> QED BY <1>1, <2>5, <3>1, <3>7, <3>8, CallsOne
  <2>7. CASE TypeIn(3) # "RIGHT_PAREN"
    <3>1. /\ New(<<name>>)
          /\ Become(<<InfixLoop(Top.prec, << >>)>>
                      \o <<Typed("FnDef", "NONE", <<NewAt>>), ParseExpr(0)>>)
      BY <2>1, <2>7 DEF CallPrefix, Fn, Typed
    <3>2. Heap(nodes') /\ DOMAIN nodes \subseteq DOMAIN nodes' /\ NewAt \in DOMAIN nodes'
      BY <2>3, <3>1, NewNode
    <3>3. Onward /\ tokit' >= tokit + 1
      <4>1. 2 \in Nat /\ 2 + 1 = 3
        OBVIOUS
      <4> QED BY <1>1, <1>6, <2>1, <3>2, <4>1, ConsumesSeen
    <3>4. <<NewAt>> \in Seq(DOMAIN nodes')
      BY <3>2, Tuples
    <3> QED BY <1>1, <2>5, <3>1, <3>3, <3>4, CallsExpr
  <2> QED BY <2>6, <2>7
<1>7. tokit + 2 > Len(toks) \/ tokit + 2 <= Len(toks)
  BY <1>1, Ready
<1> QED BY <1>3, <1>4, <1>5, <1>6, <1>7

LEMMA ParseBlockExprStep == ParserInv /\ ParseBlockExpr => ParserInv'
<1> SUFFICES ASSUME ParserInv, ParseBlockExpr
             PROVE  ParserInv'
  OBVIOUS
<1>1. /\ outcome = "parsing" /\ Top.fn = "ParseExpr"
      /\ Become(<<InfixLoop(Top.prec, << >>)>> \o <<Fn("Block", << >>)>>)
      /\ UNCHANGED <<tokit, nodes>> /\ Keep
  BY DEF ParseBlockExpr, Prefix, Running, CallPrefix
<1>2. Onward
  BY <1>1, SameHeap, SameToken
<1>3. /\ "Block" \in FnNames /\ "Block" \notin Loops /\ "Block" \notin Counted
      /\ Room("Block") = 0
  BY DEF FnNames, Loops, Counted, Room
<1>4. << >> \in Seq(DOMAIN nodes')
  BY Tuples
<1> QED BY <1>1, <1>2, <1>3, <1>4, CallsOne

LEMMA PrefixBoomStep == ParserInv /\ PrefixBoom => ParserInv'
BY Stops DEF PrefixBoom, Running, Stopped

-----------------------------------------------------------------------------
\* The infix functions.

LEMMA EndInfixStep == ParserInv /\ EndInfix => ParserInv'
<1> SUFFICES ASSUME ParserInv, EndInfix
             PROVE  ParserInv'
  OBVIOUS
<1>1. /\ outcome = "parsing" /\ Top.fn = "InfixLoop"
      /\ calls' = Deliver(Below, Top.kids)
      /\ UNCHANGED <<tokit, nodes>> /\ Keep
  BY DEF EndInfix, Running
<1>2. Onward
  BY <1>1, SameHeap, SameToken
<1>3. Top \in Frames(nodes) /\ Len(Top.kids) = 1 /\ Len(calls) >= 2
  BY <1>1, Ready DEF Counted, Arity, Loops
<1>4. Top.kids \in Seq(DOMAIN nodes')
  BY <1>1, <1>3 DEF Frames
<1> QED BY <1>1, <1>2, <1>3, <1>4, Returns

LEMMA ParseBinaryOpStep == ParserInv /\ ParseBinaryOp => ParserInv'
<1> SUFFICES ASSUME ParserInv, ParseBinaryOp
             PROVE  ParserInv'
  OBVIOUS
<1>1. /\ outcome = "parsing" /\ Top.fn = "InfixLoop"
      /\ currtype \in BinaryTypes
      /\ Consume(1) /\ UNCHANGED nodes /\ Keep
      /\ Become(<<InfixLoop(Top.prec, << >>)>>
                  \o <<Typed("BinaryOp", currtype, Top.kids),
                       ParseExpr(InfixPrec(currtype))>>)
  BY DEF ParseBinaryOp, Infix, Running, CallInfix
<1>2. currtype \in TokenType \ {"NONE"} /\ InfixPrec(currtype) \in 0 .. 100
  <2>1. BinaryTypes \subseteq TokenType \ {"NONE"}
    BY DEF BinaryTypes, TokenType
  <2> QED BY <1>1, <2>1, Precedences
<1>3. Onward /\ tokit' >= tokit + 1
  BY <1>1, <1>2, SameHeap, ConsumesCurrent
<1>4. Top \in Frames(nodes) /\ Len(Top.kids) = 1
  BY <1>1, Ready DEF Counted, Arity
<1>5. Top.kids \in Seq(DOMAIN nodes') /\ Len(Top.kids) = Arity("BinaryOp") - 1
  BY <1>1, <1>4 DEF Frames, Arity
<1>6. "BinaryOp" \in FnNames /\ "BinaryOp" \notin Loops
  BY DEF FnNames, Loops
<1> QED BY <1>1, <1>2, <1>3, <1>5, <1>6, CallsExpr

LEMMA ParseCallStep == ParserInv /\ ParseCall => ParserInv'
<1> SUFFICES ASSUME ParserInv, ParseCall
             PROVE  ParserInv'
  OBVIOUS
<1>1. /\ outcome = "parsing" /\ Top.fn = "InfixLoop"
      /\ currtype = "LEFT_PAREN"
  BY DEF ParseCall, Infix, Running
<1>2. Top.kids \in Seq(DOMAIN nodes)
  BY <1>1, Ready DEF Frames
<1>3. /\ "Call" \in FnNames /\ "Call" \notin Loops /\ "Call" \notin Counted
      /\ Room("Call") = 0 /\ "NONE" \in TokenType /\ 0 \in 0 .. 100
  BY DEF FnNames, Loops, Counted, Room, TokenType
<1>4. CASE nodes[Top.kids[1]].kind # "Name"
  BY <1>1, <1>4, Stops DEF ParseCall, Stopped
<1>5. CASE nodes[Top.kids[1]].kind = "Name" /\ TypeIn(1) = "RIGHT_PAREN"
  <2> DEFINE m == Inner("Empty", "NONE", << >>)
  <2>1. /\ New(<<m>>) /\ Consume(1) /\ Keep
        /\ Become(<<InfixLoop(Top.prec, << >>)>>
                    \o <<Fn("Call", Append(Top.kids, NewAt))>>)
    BY <1>5 DEF ParseCall, CallInfix
  <2>2. NodeFits(m, nodes)
    BY InnerFits, Tuples DEF Kinds, LeafKinds, TokenType
  <2> HIDE DEF m
  <2>3. Heap(nodes') /\ DOMAIN nodes \subseteq DOMAIN nodes' /\ NewAt \in DOMAIN nodes'
    BY <2>1, <2>2, NewNode
  <2>4. Onward /\ tokit' >= tokit + 1
    BY <1>1, <2>1, <2>3, ConsumesCurrent
  <2>5. Append(Top.kids, NewAt) \in Seq(DOMAIN nodes')
    <3>1. Top.kids \in Seq(DOMAIN nodes')
      BY <1>2, <2>3, SeqGrows
    <3> QED BY <2>3, <3>1, AppendProperties
  <2> QED BY <1>1, <1>3, <2>1, <2>4, <2>5, CallsOne
<1>6. CASE nodes[Top.kids[1]].kind = "Name" /\ TypeIn(1) # "RIGHT_PAREN"
  <2>1. /\ UNCHANGED nodes /\ Consume(1) /\ Keep
        /\ Become(<<InfixLoop(Top.prec, << >>)>>
                    \o <<Typed("Call", "NONE", Top.kids), ParseExpr(0)>>)
    BY <1>6 DEF ParseCall, CallInfix, Fn, Typed
  <2>2. Onward /\ tokit' >= tokit + 1
    BY <1>1, <2>1, SameHeap, ConsumesCurrent
  <2>3. Top.kids \in Seq(DOMAIN nodes')
    BY <1>2, <2>1
  <2> QED BY <1>1, <1>3, <2>1, <2>2, <2>3, CallsExpr
<1> QED BY <1>4, <1>5, <1>6

LEMMA ParseSubscriptStep == ParserInv /\ ParseSubscript => ParserInv'
<1> SUFFICES ASSUME ParserInv, ParseSubscript
             PROVE  ParserInv'
  OBVIOUS
<1>1. /\ outcome = "parsing" /\ Top.fn = "InfixLoop"
      /\ currtype = "LEFT_BRACKET"
  BY DEF ParseSubscript, Infix, Running
<1>2. CASE TypeIn(1) = "RIGHT_BRACKET"
  BY <1>1, <1>2, Stops DEF ParseSubscript, Stopped
<1>3. CASE TypeIn(1) # "RIGHT_BRACKET"
  <2>1. /\ UNCHANGED nodes /\ Consume(1) /\ Keep
        /\ Become(<<InfixLoop(Top.prec, << >>)>>
                    \o <<Typed("Subscript", "NONE", Top.kids), ParseExpr(0)>>)
    BY <1>3 DEF ParseSubscript, CallInfix, Fn, Typed
  <2>2. Onward /\ tokit' >= tokit + 1
    BY <1>1, <2>1, SameHeap, ConsumesCurrent
  <2>3. Top.kids \in Seq(DOMAIN nodes')
    BY <1>1, <2>1, Ready DEF Frames
  <2>4. /\ "Subscript" \in FnNames /\ "Subscript" \notin Loops
        /\ "Subscript" \notin Counted
        /\ "NONE" \in TokenType /\ 0 \in 0 .. 100
    BY DEF FnNames, Loops, Counted, TokenType
  <2> QED BY <1>1, <2>1, <2>2, <2>3, <2>4, CallsExpr
<1> QED BY <1>2, <1>3

LEMMA ParseCommaListStep == ParserInv /\ ParseCommaList => ParserInv'
<1> SUFFICES ASSUME ParserInv, ParseCommaList
             PROVE  ParserInv'
  OBVIOUS
<1>1. /\ outcome = "parsing" /\ Top.fn = "InfixLoop"
      /\ currtype = "COMMA"
      /\ UNCHANGED nodes /\ Consume(1) /\ Keep
      /\ Become(<<InfixLoop(Top.prec, << >>)>>
                  \o <<Typed("CommaList", "NONE", Top.kids),
                       ParseExpr(InfixPrec("COMMA"))>>)
  BY DEF ParseCommaList, Infix, Running, CallInfix, Fn, Typed
<1>2. Onward /\ tokit' >= tokit + 1
  BY <1>1, SameHeap, ConsumesCurrent
<1>3. Top.kids \in Seq(DOMAIN nodes')
  BY <1>1, Ready DEF Frames
<1>4. /\ "CommaList" \in FnNames /\ "CommaList" \notin Loops
      /\ "CommaList" \notin Counted
      /\ "NONE" \in TokenType /\ InfixPrec("COMMA") \in 0 .. 100
  BY Precedences DEF FnNames, Loops, Counted, TokenType
<1> QED BY <1>1, <1>2, <1>3, <1>4, CallsExpr

-----------------------------------------------------------------------------
\* The functions go on when a callee has returned.

\* ... and return a new node made of what they have.
LEMMA ReturnsInner ==
  ASSUME ParserInv, outcome = "parsing", NEW kind \in Kinds \ LeafKinds,
         Top.fn \notin Loops, NEW type \in TokenType,
         ReturnNew(kind, type, Top.kids), Keep,
         kind = "BinaryOp" => Len(Top.kids) = 2,
         kind \in {"UnaryOp", "Return", "Var", "Print"} => Len(Top.kids) = 1,
         kind = "UnaryOp" => nodes[Top.kids[1]].kind # "Name",
         UNCHANGED tokit \/ (tokit <= Len(toks) /\ Consume(1))
  PROVE  ParserInv'
<1> DEFINE m == Inner(kind, type, Top.kids)
<1>1. Top.kids \in Seq(DOMAIN nodes)
  BY Ready DEF Frames
<1>2. NodeFits(m, nodes)
  BY <1>1, InnerFits
<1>3. New(<<m>>) /\ calls' = Deliver(Below, <<NewAt>>)
  BY DEF ReturnNew
<1> HIDE DEF m
<1>4. Heap(nodes') /\ DOMAIN nodes \subseteq DOMAIN nodes' /\ NewAt \in DOMAIN nodes'
  BY <1>2, <1>3, NewNode
<1>5. Onward
  <2>1. CASE UNCHANGED tokit
    BY <1>4, <2>1, SameToken
  <2>2. CASE tokit <= Len(toks) /\ Consume(1)
    <3>1. tokit + (1 - 1) <= Len(toks)
      BY <2>2, Ready
    <3> QED BY <1>4, <2>2, <3>1, Consumes
  <2> QED BY <2>1, <2>2
<1> QED BY <1>3, <1>4, <1>5, ReturnsNew

LEMMA EndUnaryOpStep == ParserInv /\ EndUnaryOp => ParserInv'
<1> SUFFICES ASSUME ParserInv, EndUnaryOp
             PROVE  ParserInv'
  OBVIOUS
<1>1. outcome = "parsing" /\ Top.fn = "UnaryOp"
  BY DEF EndUnaryOp, Running
<1>2. CASE nodes[Top.kids[1]].kind = "Name"
  BY <1>1, <1>2, Stops DEF EndUnaryOp, Stopped
<1>3. CASE nodes[Top.kids[1]].kind # "Name"
  <2>1. ReturnNew("UnaryOp", Top.type, Top.kids) /\ UNCHANGED tokit /\ Keep
    BY <1>3 DEF EndUnaryOp
  <2>2. /\ Len(Top.kids) = 1 /\ Top.type \in TokenType /\ "UnaryOp" \notin Loops
        /\ "UnaryOp" \in Kinds \ LeafKinds
    BY <1>1, Ready DEF Counted, Arity, Frames, Loops, Kinds, LeafKinds
  <2> QED BY <1>1, <1>3, <2>1, <2>2, ReturnsInner
<1> QED BY <1>2, <1>3

LEMMA EndSimpleStep == ParserInv /\ EndSimple => ParserInv'
<1> SUFFICES ASSUME ParserInv, EndSimple
             PROVE  ParserInv'
  OBVIOUS
<1>1. /\ outcome = "parsing"
      /\ Top.fn \in {"Print", "Return", "Var", "BinaryOp", "For", "FnDef", "If"}
      /\ ReturnNew(Top.fn, Top.type, Top.kids) /\ UNCHANGED tokit /\ Keep
  BY DEF EndSimple
<1>2. /\ Top.fn \in Kinds \ LeafKinds /\ Top.fn \notin Loops /\ Top.fn # "UnaryOp"
  BY <1>1 DEF Kinds, LeafKinds, Loops
<1>3. Top.type \in TokenType
  BY <1>1, Ready DEF Frames
<1>4. Top.fn = "BinaryOp" => Len(Top.kids) = 2
  BY <1>1, Ready DEF Counted, Arity
<1>5. Top.fn \in {"UnaryOp", "Return", "Var", "Print"} => Len(Top.kids) = 1
  BY <1>1, Ready DEF Counted, Arity
<1> QED BY <1>1, <1>2, <1>3, <1>4, <1>5, ReturnsInner

\* consume() does not run past the end of the tokens.
LEMMA NotAtEnd ==
  ASSUME ParserInv, outcome = "parsing", ~ AtEnd
  PROVE  tokit <= Len(toks)
<1>1. tokit \in Nat /\ Len(toks) \in Nat /\ tokit <= Len(toks) + 1
  BY Ready
<1>2. tokit # Len(toks) + 1
  BY DEF AtEnd
<1> QED BY <1>1, <1>2

LEMMA ConsumesOne ==
  ASSUME ParserInv, outcome = "parsing", ~ AtEnd, Consume(1), UNCHANGED nodes,
         Keep
  PROVE  Onward /\ tokit' >= tokit + 1
<1>1. tokit \in Nat /\ tokit <= Len(toks) /\ Len(toks) \in Nat
  BY NotAtEnd, Ready
<1>2. tokit + (1 - 1) <= Len(toks) /\ 1 \in Nat
  BY <1>1
<1>3. Onward /\ tokit' = tokit + 1
  BY <1>2, SameHeap, Consumes
<1> QED BY <1>1, <1>3

LEMMA EndGroupingStep == ParserInv /\ EndGrouping => ParserInv'
<1> SUFFICES ASSUME ParserInv, EndGrouping
             PROVE  ParserInv'
  OBVIOUS
<1>1. outcome = "parsing" /\ Top.fn = "Grouping"
  BY DEF EndGrouping, Running
<1>2. CASE AtEnd
  BY <1>1, <1>2, Stops DEF EndGrouping, Closing, Stopped
<1>3. CASE ~ AtEnd /\ currtype = "ID"
  BY <1>1, <1>3, Stops DEF EndGrouping, Closing, Stopped
<1>4. CASE ~ AtEnd /\ currtype # "ID"
  <2>1. /\ calls' = Deliver(Below, Top.kids) /\ UNCHANGED nodes
        /\ Consume(1) /\ Keep
    BY <1>4 DEF EndGrouping, Closing
  <2>2. Onward
    BY <1>1, <1>4, <2>1, ConsumesOne
  <2>3. Top \in Frames(nodes) /\ Len(Top.kids) = 1 /\ Len(calls) >= 2
    BY <1>1, Ready DEF Counted, Arity, Loops
  <2>4. Top.kids \in Seq(DOMAIN nodes')
    BY <2>1, <2>3 DEF Frames
  <2> QED BY <1>1, <2>1, <2>2, <2>3, <2>4, Returns
<1> QED BY <1>2, <1>3, <1>4

LEMMA EndCallStep == ParserInv /\ EndCall => ParserInv'
<1> SUFFICES ASSUME ParserInv, EndCall
             PROVE  ParserInv'
  OBVIOUS
<1>1. outcome = "parsing" /\ Top.fn \in {"Call", "Subscript"}
  BY DEF EndCall, Running
<1>2. CASE AtEnd
  BY <1>1, <1>2, Stops DEF EndCall, Closing, Stopped
<1>3. CASE ~ AtEnd /\ currtype = "ID"
  BY <1>1, <1>3, Stops DEF EndCall, Closing, Stopped
<1>4. CASE ~ AtEnd /\ currtype # "ID"
  <2>1. ReturnNew(Top.fn, "NONE", Top.kids) /\ Consume(1) /\ Keep
    BY <1>4 DEF EndCall, Closing
  <2>2. tokit <= Len(toks)
    BY <1>1, <1>4, NotAtEnd
  <2>3. /\ Top.fn \in Kinds \ LeafKinds /\ Top.fn \notin Loops
        /\ "NONE" \in TokenType
        /\ Top.fn \notin {"BinaryOp", "UnaryOp", "Return", "Var", "Print"}
    BY <1>1 DEF Kinds, LeafKinds, Loops, TokenType
  <2> QED BY <1>1, <2>1, <2>2, <2>3, ReturnsInner
<1> QED BY <1>2, <1>3, <1>4

\* A function calls ParseExpr(0) a second time.
LEMMA PushesExpr ==
  ASSUME ParserInv, Onward, Top.fn \in {"For", "FnDef", "CommaList"},
         Top.fn = "For" \/ tokit' >= tokit + 1,
         calls' = Append(calls, ParseExpr(0))
  PROVE  ParserInv'
<1> DEFINE g == ParseExpr(0)
           n == Len(calls)
<1>1. /\ tokit \in Nat /\ tokit' \in Nat /\ n \in Nat /\ tokit <= tokit'
      /\ n + Room(Top.fn) <= 3 * tokit
  BY Ready DEF Onward
<1>2. Room(Top.fn) \in Nat /\ (Top.fn = "For" => Room(Top.fn) = 2)
  BY DEF Room
<1> HIDE DEF n
<1>3. n + 1 + 1 <= 3 * tokit'
  <2>1. CASE Top.fn = "For"
    <3>1. n + 2 <= 3 * tokit'
      BY <1>1, <1>2, <2>1, RoomLeft
    <3>2. n + 1 + 1 = n + 2
      BY <1>1
    <3> QED BY <3>1, <3>2
  <2>2. CASE tokit' >= tokit + 1
    BY <1>1, <1>2, <2>2, RoomLeft
  <2> QED BY <2>1, <2>2
<1>4. Fits(g, n + 1, TRUE, tokit', nodes') /\ g.fn = "ParseExpr"
  <2>1. 0 \in 0 .. 100
    OBVIOUS
  <2> QED BY <1>3, <2>1, ExprFits
<1> HIDE DEF g
<1>5. g.fn \notin Loops /\ Top.fn \notin Counted
  BY <1>4 DEF Loops, Counted
<1> QED BY <1>4, <1>5, Pushes DEF g, n

LEMMA ForBodyStep == ParserInv /\ ForBody => ParserInv'
<1> SUFFICES ASSUME ParserInv, ForBody
             PROVE  ParserInv'
  OBVIOUS
<1>1. /\ outcome = "parsing" /\ Top.fn = "For"
      /\ calls' = Append(calls, ParseExpr(0))
      /\ UNCHANGED <<tokit, nodes>> /\ Keep
  BY DEF ForBody, Running
<1>2. Onward
  BY <1>1, SameHeap, SameToken
<1> QED BY <1>1, <1>2, PushesExpr

LEMMA FnDefBodyStep == ParserInv /\ FnDefBody => ParserInv'
<1> SUFFICES ASSUME ParserInv, FnDefBody
             PROVE  ParserInv'
  OBVIOUS
<1>1. outcome = "parsing" /\ Top.fn = "FnDef"
  BY DEF FnDefBody, Running
<1>2. ASSUME NEW how \in Stopped, Stop(how)
      PROVE  ParserInv'
  BY <1>1, <1>2, Stops
<1>3. CASE ~ AtEnd /\ TypeIn(1) = "ID"
  BY <1>2, <1>3 DEF FnDefBody, Stopped
<1>4. CASE AtEnd
  BY <1>2, <1>4 DEF FnDefBody, Closing, Stopped
<1>5. CASE ~ AtEnd /\ TypeIn(1) # "ID" /\ currtype = "ID"
  BY <1>2, <1>5 DEF FnDefBody, Closing, Stopped
<1>6. CASE ~ AtEnd /\ TypeIn(1) # "ID" /\ currtype # "ID"
  <2>1. /\ calls' = Append(calls, ParseExpr(0)) /\ UNCHANGED nodes
        /\ Consume(1) /\ Keep
    BY <1>6 DEF FnDefBody, Closing
  <2>2. Onward /\ tokit' >= tokit + 1
    BY <1>1, <1>6, <2>1, ConsumesOne
  <2> QED BY <1>1, <2>1, <2>2, PushesExpr
<1> QED BY <1>3, <1>4, <1>5, <1>6

LEMMA IfBodyStep == ParserInv /\ IfBody => ParserInv'
<1> SUFFICES ASSUME ParserInv, IfBody
             PROVE  ParserInv'
  OBVIOUS
<1> DEFINE g == Fn("Block", << >>)
           n == Len(calls)
<1>1. /\ outcome = "parsing" /\ Top.fn = "If"
      /\ calls' = Append(calls, g)
      /\ UNCHANGED <<tokit, nodes>> /\ Keep
  BY DEF IfBody, Running
<1>2. Onward
  BY <1>1, SameHeap, SameToken
<1>3. n \in Nat /\ n + 1 <= 3 * tokit'
  BY <1>1, Ready DEF Room, Loops
<1> HIDE DEF n
<1>4. /\ "Block" \in FnNames /\ "Block" \notin Counted /\ Room("Block") = 0
      /\ "NONE" \in TokenType
  BY DEF FnNames, Loops, Counted, Room, TokenType
<1>5. << >> \in Seq(DOMAIN nodes') /\ n + 1 + Room("Block") <= 3 * tokit'
  BY <1>3, <1>4, Tuples
<1>6. Fits(g, n + 1, TRUE, tokit', nodes') /\ g.fn = "Block"
  BY <1>4, <1>5, FnFits
<1> HIDE DEF g
<1>7. g.fn \notin Loops /\ Top.fn \notin Counted
  BY <1>1, <1>6 DEF Loops, Counted
<1> QED BY <1>1, <1>2, <1>6, <1>7, Pushes DEF n

LEMMA IfElseStep == ParserInv /\ IfElse => ParserInv'
<1> SUFFICES ASSUME ParserInv, IfElse
             PROVE  ParserInv'
  OBVIOUS
<1> DEFINE m == Inner("Empty", "NONE", << >>)
           n == Len(calls)
<1>1. outcome = "parsing" /\ Top.fn = "If" /\ New(<<m>>) /\ Keep
  BY DEF IfElse, Running
<1>2. NodeFits(m, nodes)
  BY InnerFits, Tuples DEF Kinds, LeafKinds, TokenType
<1> HIDE DEF m
<1>3. Heap(nodes') /\ DOMAIN nodes \subseteq DOMAIN nodes' /\ NewAt \in DOMAIN nodes'
  BY <1>1, <1>2, NewNode
<1>4. /\ tokit \in Nat /\ n \in Nat /\ Top.kids \in Seq(DOMAIN nodes)
      /\ n + 1 <= 3 * tokit
  BY <1>1, Ready DEF Frames, Room, Loops
<1>5. Top.kids \in Seq(DOMAIN nodes')
  BY <1>3, <1>4, SeqGrows
<1> HIDE DEF n
<1>6. /\ "If" \in FnNames /\ "If" \notin Counted /\ "If" \notin Loops
      /\ Room("If") = 1
      /\ "Block" \in FnNames /\ "Block" \notin Counted /\ "Block" \notin Loops
      /\ Room("Block") = 0
      /\ "NONE" \in TokenType /\ "ELSE" \in TokenType
  BY DEF FnNames, Loops, Counted, Room, TokenType
<1>7. CASE currtype = "ELSE"
  <2> DEFINE f == Typed("If", "ELSE", Top.kids)
             g == Fn("Block", << >>)
  <2>1. Become(<<f, g>>) /\ Consume(1)
    BY <1>7 DEF IfElse
  <2>2. Onward /\ tokit' >= tokit + 1 /\ tokit' \in Nat
    <3>1. Onward /\ tokit' >= tokit + 1
      BY <1>1, <1>3, <1>7, <2>1, ConsumesCurrent
    <3> QED BY <1>4, <3>1 DEF Onward
  <2>3. n + 1 <= 3 * tokit'
    BY <1>4, <2>2, RoomLeft
  <2>4. /\ n + Room("If") <= 3 * tokit' /\ n + 1 + Room("Block") <= 3 * tokit'
        /\ << >> \in Seq(DOMAIN nodes')
    BY <1>4, <1>6, <2>2, <2>3, Tuples
  <2> HIDE DEF f, g
  <2>5. Fits(f, n, FALSE, tokit', nodes') /\ f.fn = "If"
    <3>1. n + Room("If") <= 3 * tokit'
      BY <2>4
    <3>2. "If" \in FnNames /\ "If" \notin Counted /\ "ELSE" \in TokenType
      BY <1>6
    <3>3. /\ Fits(Typed("If", "ELSE", Top.kids), n, FALSE, tokit', nodes')
          /\ Typed("If", "ELSE", Top.kids).fn = "If"
      BY <1>5, <3>1, <3>2, FnFits
    <3> QED BY <3>3 DEF f
  <2>6. Fits(g, n + 1, TRUE, tokit', nodes') /\ g.fn = "Block"
    <3>1. n + 1 + Room("Block") <= 3 * tokit' /\ << >> \in Seq(DOMAIN nodes')
      BY <2>4
    <3>2. /\ "Block" \in FnNames /\ "Block" \notin Counted
          /\ "NONE" \in TokenType
      BY <1>6
    <3>3. /\ Fits(Fn("Block", << >>), n + 1, TRUE, tokit', nodes')
          /\ Fn("Block", << >>).fn = "Block"
      BY <3>1, <3>2, FnFits
    <3> QED BY <3>3 DEF g
  <2>7. f.fn \notin Loops /\ g.fn \notin Loops /\ Top.fn \notin Loops
    BY <1>1, <1>6, <2>5, <2>6
  <2> QED BY <2>1, <2>2, <2>5, <2>6, <2>7, BecomeTwo DEF n
<1>8. CASE currtype # "ELSE"
  <2> DEFINE f == Fn("If", Append(Top.kids, NewAt))
  <2>1. Become(<<f>>) /\ UNCHANGED tokit
    BY <1>8 DEF IfElse
  <2>2. Onward
    BY <1>1, <1>3, <2>1, SameToken
  <2>3. Append(Top.kids, NewAt) \in Seq(DOMAIN nodes')
    BY <1>3, <1>5, AppendProperties
  <2>4. n + Room("If") <= 3 * tokit'
    BY <1>4, <1>6, <2>1
  <2> HIDE DEF f
  <2>5. Fits(f, n, TRUE, tokit', nodes') /\ f.fn = "If"
    <3>1. "If" \in FnNames /\ "If" \notin Counted /\ "NONE" \in TokenType
      BY <1>6
    <3>2. /\ Fits(Fn("If", Append(Top.kids, NewAt)), n, TRUE, tokit', nodes')
          /\ Fn("If", Append(Top.kids, NewAt)).fn = "If"
      BY <2>3, <2>4, <3>1, FnFits
    <3> QED BY <3>2 DEF f
  <2>6. f.fn \notin Loops /\ Top.fn \notin Loops
    BY <1>1, <1>6, <2>5
  <2> QED BY <2>1, <2>2, <2>5, <2>6, BecomeOne DEF n
<1> QED BY <1>7, <1>8

LEMMA CommaListNextStep == ParserInv /\ CommaListNext => ParserInv'
<1> SUFFICES ASSUME ParserInv, CommaListNext
             PROVE  ParserInv'
  OBVIOUS
<1>1. outcome = "parsing" /\ Top.fn = "CommaList" /\ Keep
  BY DEF CommaListNext, Running
<1>2. CASE currtype = "COMMA"
  <2>1. /\ calls' = Append(calls, ParseExpr(0)) /\ Consume(1)
        /\ UNCHANGED nodes
    BY <1>2 DEF CommaListNext
  <2>2. Onward /\ tokit' >= tokit + 1
    BY <1>1, <1>2, <2>1, SameHeap, ConsumesCurrent
  <2> QED BY <1>1, <2>1, <2>2, PushesExpr
<1>3. CASE currtype # "COMMA"
  <2>1. ReturnNew("CommaList", "NONE", Top.kids) /\ UNCHANGED tokit
    BY <1>3 DEF CommaListNext
  <2>2. /\ "CommaList" \in Kinds \ LeafKinds /\ Top.fn \notin Loops
        /\ "NONE" \in TokenType
    BY <1>1 DEF Kinds, LeafKinds, Loops, TokenType
  <2> QED BY <1>1, <2>1, <2>2, ReturnsInner
<1> QED BY <1>2, <1>3

LEMMA ParseBlockStep == ParserInv /\ ParseBlock => ParserInv'
<1> SUFFICES ASSUME ParserInv, ParseBlock
             PROVE  ParserInv'
  OBVIOUS
<1> DEFINE f == Fn("EndBlock", << >>)
           g == Fn("Statements", << >>)
           n == Len(calls)
<1>1. outcome = "parsing" /\ Top.fn = "Block"
  BY DEF ParseBlock, Running
<1>2. CASE AtEnd
  BY <1>1, <1>2, Stops DEF ParseBlock, Stopped
<1>3. CASE ~ AtEnd
  <2>1. /\ Become(IF TypeIn(1) = "RIGHT_BRACE" THEN <<f>> ELSE <<f, g>>)
        /\ Consume(1) /\ UNCHANGED nodes /\ Keep
    BY <1>3 DEF ParseBlock
  <2>2. Onward /\ tokit' >= tokit + 1
    BY <1>1, <1>3, <2>1, ConsumesOne
  <2>3. /\ tokit \in Nat /\ tokit' \in Nat /\ n \in Nat
        /\ n + Room(Top.fn) <= 3 * tokit /\ Room(Top.fn) \in Nat
    <3>1. Room(Top.fn) \in Nat
      BY DEF Room
    <3> QED BY <1>1, <2>2, <3>1, Ready DEF Onward
  <2> HIDE DEF n
  <2>4. n <= 3 * tokit' /\ n + 1 + 2 <= 3 * tokit'
    BY <2>2, <2>3, RoomLeft
  <2>5. /\ "EndBlock" \in FnNames /\ "EndBlock" \notin Counted
        /\ "EndBlock" \notin Loops /\ Room("EndBlock") = 0
        /\ "Statements" \in FnNames /\ "Statements" \notin Counted
        /\ Room("Statements") = 2
        /\ "NONE" \in TokenType
    BY DEF FnNames, Loops, Counted, Room, TokenType
  <2>6. /\ n + Room("EndBlock") <= 3 * tokit'
        /\ n + 1 + Room("Statements") <= 3 * tokit'
        /\ << >> \in Seq(DOMAIN nodes')
    <3>1. n + 0 = n
      BY <2>3
    <3>2. n + Room("EndBlock") <= 3 * tokit'
      BY <2>4, <2>5, <3>1
    <3>3. n + 1 + Room("Statements") <= 3 * tokit'
      BY <2>4, <2>5
    <3> QED BY <3>2, <3>3, Tuples
  <2> HIDE DEF f, g
  <2>7. /\ Fits(f, n, TRUE, tokit', nodes') /\ f.fn = "EndBlock"
        /\ Fits(f, n, FALSE, tokit', nodes')
    <3>1. n + Room("EndBlock") <= 3 * tokit' /\ << >> \in Seq(DOMAIN nodes')
      BY <2>6
    <3>2. /\ "EndBlock" \in FnNames /\ "EndBlock" \notin Counted
          /\ "NONE" \in TokenType
      BY <2>5
    <3>3. /\ Fits(Fn("EndBlock", << >>), n, TRUE, tokit', nodes')
          /\ Fn("EndBlock", << >>).fn = "EndBlock"
          /\ Fits(Typed("EndBlock", "NONE", << >>), n, FALSE, tokit', nodes')
      BY <3>1, <3>2, FnFits
    <3>4. Fn("EndBlock", << >>) = Typed("EndBlock", "NONE", << >>)
      BY DEF Fn, Typed
    <3> QED BY <3>3, <3>4 DEF f
  <2>8. Fits(g, n + 1, TRUE, tokit', nodes') /\ g.fn = "Statements"
    <3>1. n + 1 + Room("Statements") <= 3 * tokit'
          /\ << >> \in Seq(DOMAIN nodes')
      BY <2>6
    <3>2. /\ "Statements" \in FnNames /\ "Statements" \notin Counted
          /\ "NONE" \in TokenType
      BY <2>5
    <3>3. /\ Fits(Fn("Statements", << >>), n + 1, TRUE, tokit', nodes')
          /\ Fn("Statements", << >>).fn = "Statements"
      BY <3>1, <3>2, FnFits
    <3> QED BY <3>3 DEF g
  <2>9. f.fn \notin Loops /\ Top.fn \notin Loops
    BY <1>1, <2>5, <2>7 DEF Loops
  <2>10. CASE TypeIn(1) = "RIGHT_BRACE"
    <3>1. Become(<<f>>)
      BY <2>1, <2>10
    <3> QED BY <2>2, <2>7, <2>9, <3>1, BecomeOne DEF n
  <2>11. CASE TypeIn(1) # "RIGHT_BRACE"
    <3>1. Become(<<f, g>>)
      BY <2>1, <2>11
    <3> QED BY <2>2, <2>7, <2>8, <2>9, <3>1, BecomeTwo DEF n
  <2> QED BY <2>10, <2>11
<1> QED BY <1>2, <1>3

LEMMA EndBlockStep == ParserInv /\ EndBlock => ParserInv'
<1> SUFFICES ASSUME ParserInv, EndBlock
             PROVE  ParserInv'
  OBVIOUS
<1>1. outcome = "parsing" /\ Top.fn = "EndBlock"
  BY DEF EndBlock, Running
<1>2. CASE AtEnd
  <2>1. currtype # "RIGHT_BRACE"
    <3>1. ~ (tokit + 0 <= Len(toks))
      BY <1>1, <1>2, Ready DEF AtEnd
    <3> QED BY <3>1 DEF currtype, TypeIn
  <2>2. Stop("UNDEFINED")
    BY <1>2, <2>1 DEF EndBlock
  <2> QED BY <1>1, <2>2, Stops DEF Stopped
<1>3. CASE ~ AtEnd /\ currtype = "RIGHT_BRACE"
  <2>1. ReturnNew("Block", "NONE", Top.kids) /\ Consume(1) /\ Keep
    BY <1>3 DEF EndBlock
  <2>2. tokit <= Len(toks)
    BY <1>1, <1>3, NotAtEnd
  <2>3. /\ "Block" \in Kinds \ LeafKinds /\ Top.fn \notin Loops
        /\ "NONE" \in TokenType
    BY <1>1 DEF Kinds, LeafKinds, Loops, TokenType
  <2> QED BY <1>1, <2>1, <2>2, <2>3, ReturnsInner
<1>4. CASE ~ AtEnd /\ currtype # "RIGHT_BRACE"
  BY <1>1, <1>4, Stops DEF EndBlock, Stopped
<1> QED BY <1>2, <1>3, <1>4

LEMMA NextStatementStep == ParserInv /\ NextStatement => ParserInv'
<1> SUFFICES ASSUME ParserInv, NextStatement
             PROVE  ParserInv'
  OBVIOUS
<1> DEFINE f == Fn("Terminator", Top.kids)
           g == ParseExpr(0)
           n == Len(calls)
<1>1. /\ outcome = "parsing" /\ Top.fn = "Statements"
      /\ Become(<<f, g>>) /\ UNCHANGED <<tokit, nodes>> /\ Keep
  BY DEF NextStatement, Running
<1>2. Onward
  BY <1>1, SameHeap, SameToken
<1>3. /\ "Terminator" \in FnNames /\ "Terminator" \notin Counted
      /\ Room("Terminator") = 2 /\ Room("Statements") = 2
      /\ "NONE" \in TokenType
  BY DEF FnNames, Loops, Counted, Room, TokenType
<1>4. n \in Nat /\ tokit \in Nat /\ n + 2 <= 3 * tokit /\ tokit' = tokit
  BY <1>1, <1>3, Ready
<1>5. Top.kids \in Seq(DOMAIN nodes')
  BY <1>1, Ready DEF Frames
<1> HIDE DEF f, g, n
<1>6. n + Room("Terminator") <= 3 * tokit' /\ n + 1 + 1 <= 3 * tokit'
  BY <1>3, <1>4
<1>7. Fits(f, n, FALSE, tokit', nodes') /\ f.fn = "Terminator"
  <2>1. n + Room("Terminator") <= 3 * tokit'
    BY <1>6
  <2>2. /\ "Terminator" \in FnNames /\ "Terminator" \notin Counted
        /\ "NONE" \in TokenType
    BY <1>3
  <2>3. /\ Fits(Typed("Terminator", "NONE", Top.kids), n, FALSE, tokit', nodes')
        /\ Typed("Terminator", "NONE", Top.kids).fn = "Terminator"
    BY <1>5, <2>1, <2>2, FnFits
  <2> QED BY <2>3 DEF f, Fn, Typed
<1>8. Fits(g, n + 1, TRUE, tokit', nodes') /\ g.fn = "ParseExpr"
  <2>1. 0 \in 0 .. 100
    OBVIOUS
  <2> QED BY <1>6, <2>1, ExprFits DEF g
<1>9. f.fn \in Loops /\ Top.fn \in Loops /\ g.fn \notin Loops
  BY <1>1, <1>7, <1>8 DEF Loops
<1> QED BY <1>1, <1>2, <1>7, <1>8, <1>9, BecomeTwo DEF n

LEMMA TerminatorStep == ParserInv /\ Terminator => ParserInv'
<1> SUFFICES ASSUME ParserInv, Terminator
             PROVE  ParserInv'
  OBVIOUS
<1> DEFINE f == Fn("Statements", Top.kids)
           n == Len(calls)
<1>1. outcome = "parsing" /\ Top.fn = "Terminator"
  BY DEF Terminator, Running
<1>2. CASE currtype # "SEMICOLON" /\ lasttype # "RIGHT_BRACE"
  BY <1>1, <1>2, Stops DEF Terminator, Stopped
<1>3. CASE ~ (currtype # "SEMICOLON" /\ lasttype # "RIGHT_BRACE")
  <2>1. /\ Become(<<f>>)
        /\ tokit' = IF currtype = "SEMICOLON" THEN tokit + 1 ELSE tokit
        /\ UNCHANGED nodes /\ Keep
    BY <1>3 DEF Terminator
  <2>2. Onward
    <3>1. CASE currtype = "SEMICOLON"
      <4>1. Consume(1)
        BY <2>1, <3>1 DEF Consume
      <4> QED BY <1>1, <2>1, <3>1, <4>1, SameHeap, ConsumesCurrent
    <3>2. CASE currtype # "SEMICOLON"
      <4>1. UNCHANGED tokit
        BY <2>1, <3>2
      <4> QED BY <1>1, <2>1, <4>1, SameHeap, SameToken
    <3> QED BY <3>1, <3>2
  <2>3. /\ "Statements" \in FnNames /\ "Statements" \notin Counted
        /\ Room("Terminator") = 2 /\ Room("Statements") = 2
        /\ "NONE" \in TokenType
    BY DEF FnNames, Loops, Counted, Room, TokenType
  <2>4. /\ n \in Nat /\ tokit \in Nat /\ tokit' \in Nat /\ 2 \in Nat
        /\ tokit <= tokit' /\ n + 2 <= 3 * tokit
    BY <1>1, <2>2, <2>3, Ready DEF Onward
  <2>5. Top.kids \in Seq(DOMAIN nodes')
    BY <1>1, <2>1, Ready DEF Frames
  <2> HIDE DEF f, n
  <2>6. n + Room("Statements") <= 3 * tokit'
    <3>1. n + 2 <= 3 * tokit'
      BY <2>4, RoomLeft
    <3> QED BY <2>3, <3>1
  <2>7. Fits(f, n, TRUE, tokit', nodes') /\ f.fn = "Statements"
    <3>1. /\ "Statements" \in FnNames /\ "Statements" \notin Counted
          /\ "NONE" \in TokenType
      BY <2>3
    <3>2. /\ Fits(Fn("Statements", Top.kids), n, TRUE, tokit', nodes')
          /\ Fn("Statements", Top.kids).fn = "Statements"
      BY <2>5, <2>6, <3>1, FnFits
    <3> QED BY <3>2 DEF f
  <2>8. f.fn \in Loops /\ Top.fn \in Loops
    BY <1>1, <2>7 DEF Loops
  <2> QED BY <2>1, <2>2, <2>7, <2>8, BecomeOne DEF n
<1> QED BY <1>2, <1>3

LEMMA EndStatementsStep == ParserInv /\ EndStatements => ParserInv'
<1> SUFFICES ASSUME ParserInv, EndStatements
             PROVE  ParserInv'
  OBVIOUS
<1>1. /\ outcome = "parsing" /\ Top.fn = "Statements"
      /\ UNCHANGED <<toks, tokit, nodes>>
  BY DEF EndStatements, Running
<1>2. Top.kids \in Seq(DOMAIN nodes')
  BY <1>1, Ready DEF Frames
<1>3. CASE Len(calls) = 1
  <2>1. stmts' = Top.kids /\ outcome' = "DONE" /\ calls' = << >>
    BY <1>3 DEF EndStatements
  <2>2. Shape(calls, tokit, nodes)'
    BY <2>1 DEF Shape, Rooted
  <2>3. TypeOK'
    <3>1. calls' \in Seq(Frames(nodes'))
      BY <2>1
    <3>2. /\ toks' \in Seq(Token) /\ tokit' \in 1 .. Len(toks') + 1
          /\ Heap(nodes')
      BY <1>1 DEF ParserInv, TypeOK
    <3> QED BY <1>2, <2>1, <3>1, <3>2 DEF TypeOK
  <2> QED BY <2>2, <2>3 DEF ParserInv
<1>4. CASE Len(calls) # 1
  <2>1. calls' = Deliver(Below, Top.kids) /\ Keep
    BY <1>1, <1>4 DEF EndStatements, Keep
  <2>2. Onward
    BY <1>1, <2>1, SameHeap, SameToken
  <2>3. Len(calls) >= 2
    <3>1. \A n \in Nat \ {0} : n # 1 => n >= 2
      OBVIOUS
    <3>2. Len(calls) \in Nat \ {0}
      BY <1>1, Ready
    <3> QED BY <1>4, <3>1, <3>2
  <2>4. Top.fn \in Loops
    BY <1>1 DEF Loops
  <2> QED BY <1>2, <2>1, <2>2, <2>3, <2>4, Returns
<1> QED BY <1>3, <1>4

-----------------------------------------------------------------------------

LEMMA InitInv == Init => ParserInv
<1> SUFFICES ASSUME Init
             PROVE  ParserInv
  OBVIOUS
<1> DEFINE f == Fn("Statements", << >>)
<1>1. /\ toks \in Seq(Token) /\ tokit = 1 /\ calls = <<f>> /\ nodes = << >>
      /\ stmts = << >> /\ outcome = "parsing"
  BY InputsAssumption DEF Init
<1>2. Len(toks) \in Nat
  BY <1>1, LenProperties
<1>3. /\ "Statements" \in FnNames /\ "Statements" \notin Counted
      /\ "Statements" \in Loops
      /\ Room("Statements") = 2 /\ "NONE" \in TokenType
  BY DEF FnNames, Loops, Counted, Room, TokenType
<1>4. Fits(f, 1, TRUE, 1, nodes) /\ f.fn = "Statements"
  <2> HIDE DEF f
  <2>1. << >> \in Seq(DOMAIN nodes)
    BY Tuples
  <2>2. 1 + Room("Statements") <= 3 * 1
    BY <1>3
  <2>3. /\ "Statements" \in FnNames /\ "Statements" \notin Counted
        /\ "NONE" \in TokenType
    BY <1>3
  <2>4. /\ Fits(Fn("Statements", << >>), 1, TRUE, 1, nodes)
        /\ Fn("Statements", << >>).fn = "Statements"
    BY <2>1, <2>2, <2>3, FnFits
  <2> QED BY <2>4 DEF f
<1> HIDE DEF f
<1>5. f \in Frames(nodes)
  BY <1>4 DEF Fits
<1>6. /\ calls \in Seq(Frames(nodes)) /\ calls # << >>
      /\ Len(calls) = 1 /\ DOMAIN calls = {1} /\ calls[1] = f
  BY <1>1, <1>5
<1>7. Shape(calls, tokit, nodes)
  BY <1>1, <1>3, <1>4, <1>6 DEF Shape, Rooted
<1>8. Heap(nodes)
  BY <1>1 DEF Heap
<1>9. stmts \in Seq(DOMAIN nodes)
  BY <1>1
<1>10. TypeOK
  BY <1>1, <1>2, <1>6, <1>8, <1>9 DEF TypeOK
<1> QED BY <1>7, <1>10 DEF ParserInv

LEMMA ParserStep == ParserInv /\ [Next]_vars => ParserInv'
<1> SUFFICES ASSUME ParserInv, [Next]_vars
             PROVE  ParserInv'
  OBVIOUS
<1>1. CASE ParseNothing \/ ParseLeaf \/ ParseUnaryOp \/ ParseGrouping
  BY <1>1, ParseNothingStep, ParseLeafStep, ParseUnaryOpStep,
     ParseGroupingStep
<1>2. CASE ParseKeyword \/ ParseFor \/ ParseFnDef \/ ParseBlockExpr
           \/ PrefixBoom
  BY <1>2, ParseKeywordStep, ParseForStep, ParseFnDefStep,
     ParseBlockExprStep, PrefixBoomStep
<1>3. CASE EndInfix \/ ParseBinaryOp \/ ParseCall \/ ParseSubscript
           \/ ParseCommaList
  BY <1>3, EndInfixStep, ParseBinaryOpStep, ParseCallStep,
     ParseSubscriptStep, ParseCommaListStep
<1>4. CASE EndUnaryOp \/ EndGrouping \/ EndSimple \/ EndCall
  BY <1>4, EndUnaryOpStep, EndGroupingStep, EndSimpleStep, EndCallStep
<1>5. CASE ForBody \/ FnDefBody \/ IfBody \/ IfElse \/ CommaListNext
  BY <1>5, ForBodyStep, FnDefBodyStep, IfBodyStep, IfElseStep,
     CommaListNextStep
<1>6. CASE ParseBlock \/ EndBlock \/ NextStatement \/ Terminator
           \/ EndStatements
  BY <1>6, ParseBlockStep, EndBlockStep, NextStatementStep, TerminatorStep,
     EndStatementsStep
<1>7. CASE UNCHANGED vars
  BY <1>7 DEF vars, ParserInv, TypeOK, Shape, Rooted
<1> QED BY <1>1, <1>2, <1>3, <1>4, <1>5, <1>6, <1>7 DEF Next

\* The call stack of the parser always has its shape: ParseStatements is
\* called from run_file and parseBlock only, a function that goes on has the
\* nodes it reads, and the frame at any place of it fits three per token seen.
THEOREM ParserInvariant == Spec => []ParserInv
<1>1. Init => ParserInv
  BY InitInv
<1>2. ParserInv /\ [Next]_vars => ParserInv'
  BY ParserStep
<1> QED BY <1>1, <1>2, PTL DEF Spec

\* For every token vector the trees are a heap in which children precede
\* their parents and have the number and kinds that codegen relies on.
THEOREM ParserTypeOK == Spec => []TypeOK
<1>1. ParserInv => TypeOK
  BY DEF ParserInv
<1> QED BY <1>1, ParserInvariant, PTL

\* The C++ call stack of the parser is bounded by the source: at most three
\* frames per token seen.
THEOREM ParserDepthBySource == Spec => []DepthBySource
<1>1. ParserInv => DepthBySource
  <2> SUFFICES ASSUME ParserInv
               PROVE  Len(calls) <= 3 * tokit
    BY DEF DepthBySource
  <2>1. /\ Shape(calls, tokit, nodes) /\ calls \in Seq(Frames(nodes))
        /\ tokit \in Nat
    <3>1. Len(toks) \in Nat
      BY LenProperties DEF ParserInv, TypeOK
    <3> QED BY <3>1 DEF ParserInv, TypeOK
  <2> DEFINE n == Len(calls)
  <2>2. n \in Nat /\ DOMAIN calls = 1 .. n
    BY <2>1, LenProperties
  <2> HIDE DEF n
  <2>3. CASE n = 0
    BY <2>1, <2>3 DEF n
  <2>4. CASE n # 0
    <3>1. n \in DOMAIN calls
      BY <2>2, <2>4
    <3>2. n + Room(calls[n].fn) <= 3 * tokit
      BY <2>1, <3>1 DEF Shape, Fits
    <3>3. Room(calls[n].fn) \in {0, 1, 2}
      BY DEF Room
    <3>4. n <= 3 * tokit
      BY <2>1, <2>2, <3>2, <3>3
    <3> QED BY <3>4 DEF n
  <2> QED BY <2>3, <2>4
<1> QED BY <1>1, ParserInvariant, PTL
-----------------------------------------------------------------------------
(***************************************************************************)
(* SingleOwner, for token vectors of any length: no node is held twice,    *)
(* and none is lost but an EmptyExpr (of parseIf).  A step changes what a  *)
(* few owners hold: the innermost frame, the one it returns to, the frames *)
(* it pushes and the nodes it allocates.  It has only to be shown that     *)
(* these hold among them what they held before, and what is new.  The same *)
(* steps count the lost nodes: there is one for each if with an else.      *)
(***************************************************************************)

\* The owners of a state, and what they hold, as a function.
OwnersIn(ns, cs) ==
  ({"node"} \X DOMAIN ns) \cup ({"call"} \X DOMAIN cs) \cup {<<"stmts", 0>>}

Holdings(ns, cs, st) ==
  [o \in OwnersIn(ns, cs) |-> CASE o[1] = "node" -> ns[o[2]].kids
                                [] o[1] = "call" -> cs[o[2]].kids
                                [] OTHER         -> st]

\* Every node is held once, or is an EmptyExpr that nobody holds.
Owned(H, ns) ==
  /\ \A o \in DOMAIN H : IsInjective(H[o])
  /\ \A o, p \in DOMAIN H : \A k \in Range(H[o]) : k \in Range(H[p]) => o = p
  /\ \A k \in DOMAIN ns :
       ns[k].kind # "Empty" => \E o \in DOMAIN H : k \in Range(H[o])

\* The nodes that nobody holds.
Unheld(H, ns) == {k \in DOMAIN ns : \A o \in DOMAIN H : k \notin Range(H[o])}

\* The calls of parseIf that have dropped their EmptyExpr and wait for the else
\* body, and the nodes that such calls have made.
Waiting(f) == f.fn = "If" /\ f.type = "ELSE"
Waits(c)   == {i \in DOMAIN c : Waiting(c[i])}
Elses(ns)  == {k \in DOMAIN ns : ns[k].kind = "If" /\ ns[k].type = "ELSE"}

\* H becomes G, which owns each node once but the lost ones and gone.
Passes(ns, ms, H, G, gone) ==
  Owned(G, ms) /\ Unheld(G, ms) = Unheld(H, ns) \cup gone

\* Frames that wait for no callee: they hold nothing, and are innermost.
Bare == {"ParseExpr", "Block"}

Lean(c) ==
  \A i \in DOMAIN c :
    /\ c[i].fn \in Bare => i = Len(c) /\ c[i].kids = << >>
    /\ Waiting(c[i]) => Len(c[i].kids) = IF i = Len(c) THEN 3 ELSE 2

Lost == Unheld(Holdings(nodes, calls, stmts), nodes)

OwnerInv ==
  /\ Owned(Holdings(nodes, calls, stmts), nodes)
  /\ Cardinality(Lost) = Cardinality(Elses(nodes)) + Cardinality(Waits(calls))
  /\ \A k \in DOMAIN nodes : nodes[k].kind = "Empty" => nodes[k].kids = << >>
  /\ Lean(calls)
  /\ outcome = "parsing" => stmts = << >>
  /\ outcome = "DONE" => calls = << >>

-----------------------------------------------------------------------------
\* The owners C become the owners D: all others keep what they hold, and D
\* hold what C held and the new nodes, each once.
Rewires(ns, ms, H, G, C, D) ==
  /\ DOMAIN ns \subseteq DOMAIN ms /\ \A k \in DOMAIN ns : ms[k] = ns[k]
  /\ \A o \in DOMAIN H : Range(H[o]) \subseteq DOMAIN ns
  /\ C \subseteq DOMAIN H /\ D \subseteq DOMAIN G
  /\ DOMAIN G \ D = DOMAIN H \ C
  /\ \A o \in DOMAIN G \ D : G[o] = H[o]
  /\ \A o \in D : IsInjective(G[o])
  /\ \A o, p \in D : \A k \in Range(G[o]) : k \in Range(G[p]) => o = p
  /\ \A o \in D : \A k \in Range(G[o]) :
       k \in DOMAIN ns => \E q \in C : k \in Range(H[q])
  /\ \A q \in C : \A k \in Range(H[q]) : \E o \in D : k \in Range(G[o])
  /\ \A k \in DOMAIN ms \ DOMAIN ns :
       ms[k].kind # "Empty" => \E o \in D : k \in Range(G[o])

LEMMA Rewired ==
  ASSUME NEW ns, NEW ms, NEW H, NEW G, NEW C, NEW D,
         Owned(H, ns), Rewires(ns, ms, H, G, C, D)
  PROVE  Owned(G, ms)
<1> USE DEF Rewires
<1>1. \A o \in DOMAIN G : IsInjective(G[o])
  BY DEF Owned
<1>2. ASSUME NEW o \in DOMAIN G, NEW p \in DOMAIN G,
             NEW k \in Range(G[o]), k \in Range(G[p])
      PROVE  o = p
  <2>1. CASE o \in D /\ p \in D
    BY <1>2, <2>1
  <2>2. CASE o \notin D /\ p \notin D
    <3>1. o \in DOMAIN H /\ p \in DOMAIN H /\ G[o] = H[o] /\ G[p] = H[p]
      BY <2>2
    <3> QED BY <1>2, <3>1 DEF Owned
  <2>3. ASSUME NEW a \in D, NEW b \in DOMAIN G \ D,
               k \in Range(G[a]), k \in Range(G[b])
        PROVE  FALSE
    <3>1. b \in DOMAIN H /\ b \notin C /\ G[b] = H[b]
      BY <2>3
    <3>2. k \in Range(H[b]) /\ k \in DOMAIN ns
      BY <2>3, <3>1
    <3>3. PICK q \in C : k \in Range(H[q])
      BY <2>3, <3>2
    <3>4. q \in DOMAIN H
      OBVIOUS
    <3>5. q = b
      BY <3>1, <3>2, <3>3, <3>4 DEF Owned
    <3> QED BY <3>1, <3>5
  <2> QED BY <1>2, <2>1, <2>2, <2>3
<1>3. ASSUME NEW k \in DOMAIN ms, ms[k].kind # "Empty"
      PROVE  \E o \in DOMAIN G : k \in Range(G[o])
  <2>1. CASE k \notin DOMAIN ns
    BY <1>3, <2>1
  <2>2. CASE k \in DOMAIN ns
    <3>1. PICK q \in DOMAIN H : k \in Range(H[q])
      BY <1>3, <2>2 DEF Owned
    <3>2. CASE q \in C
      BY <3>1, <3>2
    <3>3. CASE q \notin C
      BY <3>1, <3>3
    <3> QED BY <3>2, <3>3
  <2> QED BY <2>1, <2>2
<1> QED BY <1>1, <1>2, <1>3 DEF Owned

\* The new nodes that are lost by it.
Unplaced(ns, ms, G, D) ==
  {k \in DOMAIN ms \ DOMAIN ns : \A o \in D : k \notin Range(G[o])}

LEMMA RewiredLost ==
  ASSUME NEW ns, NEW ms, NEW H, NEW G, NEW C, NEW D,
         Rewires(ns, ms, H, G, C, D)
  PROVE  Unheld(G, ms) = Unheld(H, ns) \cup Unplaced(ns, ms, G, D)
<1> USE DEF Rewires
<1>1. ASSUME NEW k \in DOMAIN ns
      PROVE  (\E o \in DOMAIN G : k \in Range(G[o]))
               <=> (\E o \in DOMAIN H : k \in Range(H[o]))
  <2>1. ASSUME NEW o \in DOMAIN G, k \in Range(G[o])
        PROVE  \E q \in DOMAIN H : k \in Range(H[q])
    <3>1. CASE o \in D
      BY <2>1, <3>1
    <3>2. CASE o \notin D
      BY <2>1, <3>2
    <3> QED BY <3>1, <3>2
  <2>2. ASSUME NEW q \in DOMAIN H, k \in Range(H[q])
        PROVE  \E o \in DOMAIN G : k \in Range(G[o])
    <3>1. CASE q \in C
      BY <2>2, <3>1
    <3>2. CASE q \notin C
      BY <2>2, <3>2
    <3> QED BY <3>1, <3>2
  <2> QED BY <2>1, <2>2
<1>2. ASSUME NEW k \in DOMAIN ms \ DOMAIN ns
      PROVE  (\A o \in DOMAIN G : k \notin Range(G[o]))
               <=> k \in Unplaced(ns, ms, G, D)
  <2>1. \A o \in DOMAIN G \ D : k \notin Range(G[o])
    OBVIOUS
  <2> QED BY <2>1 DEF Unplaced
<1>3. DOMAIN ns \subseteq DOMAIN ms
  OBVIOUS
<1>4. Unplaced(ns, ms, G, D) \subseteq DOMAIN ms \ DOMAIN ns
  BY DEF Unplaced
<1> QED BY <1>1, <1>2, <1>3, <1>4 DEF Unheld

\* What each owner holds.
LEMMA Holds ==
  ASSUME NEW ns, NEW cs, NEW st
  PROVE  LET H == Holdings(ns, cs, st)
         IN /\ DOMAIN H = OwnersIn(ns, cs)
            /\ \A k \in DOMAIN ns :
                 <<"node", k>> \in DOMAIN H /\ H[<<"node", k>>] = ns[k].kids
            /\ \A i \in DOMAIN cs :
                 <<"call", i>> \in DOMAIN H /\ H[<<"call", i>>] = cs[i].kids
            /\ <<"stmts", 0>> \in DOMAIN H /\ H[<<"stmts", 0>>] = st
            /\ \A o \in DOMAIN H :
                 \/ \E k \in DOMAIN ns : o = <<"node", k>>
                 \/ \E i \in DOMAIN cs : o = <<"call", i>>
                 \/ o = <<"stmts", 0>>
<1> DEFINE H == Holdings(ns, cs, st)
<1>1. DOMAIN H = OwnersIn(ns, cs)
  BY DEF Holdings
<1>2. ASSUME NEW k \in DOMAIN ns
      PROVE  <<"node", k>> \in DOMAIN H /\ H[<<"node", k>>] = ns[k].kids
  BY DEF Holdings, OwnersIn
<1>3. ASSUME NEW i \in DOMAIN cs
      PROVE  <<"call", i>> \in DOMAIN H /\ H[<<"call", i>>] = cs[i].kids
  BY DEF Holdings, OwnersIn
<1>4. <<"stmts", 0>> \in DOMAIN H /\ H[<<"stmts", 0>>] = st
  BY DEF Holdings, OwnersIn
<1>5. ASSUME NEW o \in DOMAIN H
      PROVE  \/ \E k \in DOMAIN ns : o = <<"node", k>>
             \/ \E i \in DOMAIN cs : o = <<"call", i>>
             \/ o = <<"stmts", 0>>
  BY <1>1, <1>5 DEF OwnersIn
<1> QED BY <1>1, <1>2, <1>3, <1>4, <1>5

\* The call stack changes from position n on, and nodes are allocated.
Elsewhere(ns, ms, c, d, st, n) ==
  LET H == Holdings(ns, c, st)
      G == Holdings(ms, d, st)
      C == {"call"} \X (n .. Len(c))
      D == ({"call"} \X (n .. Len(d))) \cup ({"node"} \X (DOMAIN ms \ DOMAIN ns))
  IN /\ C \subseteq DOMAIN H /\ D \subseteq DOMAIN G
     /\ DOMAIN G \ D = DOMAIN H \ C
     /\ \A o \in DOMAIN G \ D : G[o] = H[o]

LEMMA Others ==
  ASSUME NEW ns, NEW ms, DOMAIN ns \subseteq DOMAIN ms,
         \A k \in DOMAIN ns : ms[k] = ns[k],
         NEW c, NEW d, NEW st, NEW n \in Nat \ {0},
         Len(c) \in Nat, Len(d) \in Nat, n - 1 <= Len(c), n - 1 <= Len(d),
         DOMAIN c = 1 .. Len(c), DOMAIN d = 1 .. Len(d),
         \A i \in 1 .. n - 1 : d[i] = c[i]
  PROVE  Elsewhere(ns, ms, c, d, st, n)
<1> DEFINE p     == Len(c)
           q     == Len(d)
           fresh == DOMAIN ms \ DOMAIN ns
           H     == Holdings(ns, c, st)
           G     == Holdings(ms, d, st)
           C     == {"call"} \X (n .. p)
           D     == ({"call"} \X (n .. q)) \cup ({"node"} \X fresh)
           E     == ({"node"} \X DOMAIN ns) \cup ({"call"} \X (1 .. n - 1))
                      \cup {<<"stmts", 0>>}
<1>1. /\ DOMAIN H = OwnersIn(ns, c)
      /\ \A k \in DOMAIN ns : H[<<"node", k>>] = ns[k].kids
      /\ \A i \in DOMAIN c : H[<<"call", i>>] = c[i].kids
      /\ H[<<"stmts", 0>>] = st
  BY Holds
<1>2. /\ DOMAIN G = OwnersIn(ms, d)
      /\ \A k \in DOMAIN ms : G[<<"node", k>>] = ms[k].kids
      /\ \A i \in DOMAIN d : G[<<"call", i>>] = d[i].kids
      /\ G[<<"stmts", 0>>] = st
  BY Holds
<1> HIDE DEF H, G
<1> HIDE DEF p, q
<1>3. /\ 1 .. p = (1 .. n - 1) \cup (n .. p)
      /\ 1 .. q = (1 .. n - 1) \cup (n .. q)
      /\ (1 .. n - 1) \cap (n .. p) = {} /\ (1 .. n - 1) \cap (n .. q) = {}
  BY DEF p, q
<1>4. DOMAIN ms = DOMAIN ns \cup fresh /\ DOMAIN ns \cap fresh = {}
  OBVIOUS
<1> HIDE DEF fresh
<1>5. DOMAIN H = E \cup C /\ E \cap C = {}
  <2>0. DOMAIN c = 1 .. p
    BY DEF p
  <2>1. {"call"} \X (1 .. p) = ({"call"} \X (1 .. n - 1)) \cup C
    BY <1>3, Zenon
  <2>2. E \cap C = {}
    BY <1>3
  <2> HIDE DEF C
  <2> QED BY <1>1, <2>0, <2>1, <2>2 DEF OwnersIn
<1>6. DOMAIN G = E \cup D /\ E \cap D = {}
  <2>0. DOMAIN d = 1 .. q
    BY DEF q
  <2>1. {"call"} \X (1 .. q) = ({"call"} \X (1 .. n - 1)) \cup ({"call"} \X (n .. q))
    BY <1>3, Zenon
  <2>2. {"node"} \X DOMAIN ms = ({"node"} \X DOMAIN ns) \cup ({"node"} \X fresh)
    BY <1>4, Zenon
  <2>3. E \cap D = {}
    BY <1>3, <1>4
  <2> QED BY <1>2, <2>0, <2>1, <2>2, <2>3 DEF OwnersIn
<1>7. ASSUME NEW o \in E
      PROVE  G[o] = H[o]
  <2>1. CASE \E k \in DOMAIN ns : o = <<"node", k>>
    BY <1>1, <1>2, <2>1
  <2>2. CASE \E i \in 1 .. n - 1 : o = <<"call", i>>
    <3>1. PICK i \in 1 .. n - 1 : o = <<"call", i>>
      BY <2>2
    <3>2. i \in DOMAIN c /\ i \in DOMAIN d /\ d[i] = c[i]
      BY <1>3, <3>1 DEF p, q
    <3> QED BY <1>1, <1>2, <3>1, <3>2
  <2>3. CASE o = <<"stmts", 0>>
    BY <1>1, <1>2, <2>3
  <2> QED BY <2>1, <2>2, <2>3
<1> HIDE DEF E, C, D
<1>8. C \subseteq DOMAIN H /\ D \subseteq DOMAIN G
  BY <1>5, <1>6
<1>9. DOMAIN G \ D = E /\ DOMAIN H \ C = E
  BY <1>5, <1>6
<1> QED BY <1>7, <1>8, <1>9 DEF H, G, C, D, fresh, p, q, Elsewhere

\* The children of a node are nodes of the heap.
LEMMA KidsOfHeap ==
  ASSUME NEW ns, Heap(ns), NEW k \in DOMAIN ns
  PROVE  ns[k].kids \in Seq(DOMAIN ns)
<1> DEFINE s == ns[k].kids
           n == Len(ns)
<1>1. ns \in Seq(Node) /\ n \in Nat /\ DOMAIN ns = 1 .. n
  BY LenProperties DEF Heap
<1>2. ns[k] \in Node
  BY <1>1, ElementOfSeq
<1>3. s \in Seq(Nat \ {0})
  BY <1>2 DEF Node
<1>4. \A i \in DOMAIN s : s[i] < k
  BY DEF Heap
<1> HIDE DEF s, n
<1>5. Len(s) \in Nat /\ DOMAIN s = 1 .. Len(s) /\ s \in [1 .. Len(s) -> Nat \ {0}]
  BY <1>3, LenProperties
<1>6. \A i \in 1 .. Len(s) : s[i] \in 1 .. n
  BY <1>1, <1>4, <1>5
<1>7. s \in [1 .. Len(s) -> 1 .. n]
  BY <1>5, <1>6
<1>8. s \in Seq(1 .. n)
  BY <1>5, <1>7, SeqDef
<1> QED BY <1>1, <1>8 DEF s

\* A state of the parser holds only nodes there are.
LEMMA HoldsNodes ==
  ASSUME NEW ns, NEW cs, NEW st, Heap(ns), cs \in Seq(Frames(ns)),
         st \in Seq(DOMAIN ns)
  PROVE  LET H == Holdings(ns, cs, st)
         IN \A o \in DOMAIN H : /\ H[o] \in Seq(DOMAIN ns)
                                /\ Range(H[o]) \subseteq DOMAIN ns
<1> DEFINE H == Holdings(ns, cs, st)
<1>1. ASSUME NEW o \in DOMAIN H
      PROVE  H[o] \in Seq(DOMAIN ns)
  <2>1. \A k \in DOMAIN ns : ns[k].kids \in Seq(DOMAIN ns)
    BY KidsOfHeap
  <2>2. \A i \in DOMAIN cs : cs[i].kids \in Seq(DOMAIN ns)
    <3>1. \A i \in DOMAIN cs : cs[i] \in Frames(ns)
      BY Elements
    <3> QED BY <3>1 DEF Frames
  <2>3. \/ \E k \in DOMAIN ns : o = <<"node", k>> /\ H[o] = ns[k].kids
        \/ \E i \in DOMAIN cs : o = <<"call", i>> /\ H[o] = cs[i].kids
        \/ o = <<"stmts", 0>> /\ H[o] = st
    <3>1. /\ \A k \in DOMAIN ns : H[<<"node", k>>] = ns[k].kids
          /\ \A i \in DOMAIN cs : H[<<"call", i>>] = cs[i].kids
          /\ H[<<"stmts", 0>>] = st
      BY Holds
    <3>2. \/ \E k \in DOMAIN ns : o = <<"node", k>>
          \/ \E i \in DOMAIN cs : o = <<"call", i>>
          \/ o = <<"stmts", 0>>
      BY <1>1, Holds
    <3> HIDE DEF H
    <3> QED BY <3>1, <3>2
  <2> HIDE DEF H
  <2> QED BY <2>1, <2>2, <2>3
<1> HIDE DEF H
<1>2. \A o \in DOMAIN H : Range(H[o]) \subseteq DOMAIN ns
  BY <1>1, RangeOfSeq
<1> QED BY <1>1, <1>2 DEF H

-----------------------------------------------------------------------------
\* The innermost frame of c becomes the frames fs, of which the j-th holds
\* what the old one held, and new nodes.
LEMMA BecomeOwns ==
  ASSUME NEW ns, NEW ms, Heap(ns), DOMAIN ns \subseteq DOMAIN ms,
         \A k \in DOMAIN ns : ms[k] = ns[k],
         NEW c \in Seq(Frames(ns)), c # << >>, NEW st \in Seq(DOMAIN ns),
         Owned(Holdings(ns, c, st), ns),
         NEW fs \in Seq(Frames(ms)), NEW j \in 1 .. Len(fs),
         \A i \in 1 .. Len(fs) : i # j => fs[i].kids = << >>,
         NEW more \in Seq(DOMAIN ms \ DOMAIN ns), IsInjective(more),
         fs[j].kids = Last(c).kids \o more,
         \A k \in DOMAIN ms \ DOMAIN ns :
           ms[k].kids = << >> /\ (ms[k].kind # "Empty" => k \in Range(more))
  PROVE  Passes(ns, ms, Holdings(ns, c, st), Holdings(ms, Front(c) \o fs, st),
                (DOMAIN ms \ DOMAIN ns) \ Range(more))
<1> DEFINE n     == Len(c)
           d     == Front(c) \o fs
           fresh == DOMAIN ms \ DOMAIN ns
           H     == Holdings(ns, c, st)
           G     == Holdings(ms, d, st)
           top   == <<"call", n>>
           heir  == <<"call", n - 1 + j>>
           C     == {"call"} \X (n .. n)
           D     == ({"call"} \X (n .. Len(d))) \cup ({"node"} \X fresh)
<1>1. /\ n \in Nat \ {0} /\ Len(fs) \in Nat /\ Len(d) = n - 1 + Len(fs)
      /\ DOMAIN c = 1 .. n /\ DOMAIN d = 1 .. Len(d)
      /\ \A i \in 1 .. n - 1 : d[i] = c[i]
      /\ \A i \in 1 .. Len(fs) : d[n - 1 + i] = fs[i]
      /\ Last(c) = c[n]
  <2>1. Frames(ns) \subseteq Frames(ms)
    BY FramesGrow
  <2>2. c \in Seq(Frames(ms))
    BY <2>1, SeqGrows
  <2>3. /\ n \in Nat \ {0} /\ Len(fs) \in Nat /\ Len(d) = n - 1 + Len(fs)
        /\ d \in Seq(Frames(ms))
        /\ \A i \in 1 .. n - 1 : d[i] = c[i]
        /\ \A i \in 1 .. Len(fs) : d[n - 1 + i] = fs[i]
    BY <2>2, BecomeSeq
  <2>4. Last(c) = c[n]
    BY FrontLast
  <2>5. DOMAIN c = 1 .. n /\ DOMAIN d = 1 .. Len(d)
    BY <2>3, LenProperties
  <2> QED BY <2>3, <2>4, <2>5
<1> HIDE DEF n, d
<1>2. /\ DOMAIN H = OwnersIn(ns, c)
      /\ \A k \in DOMAIN ns : H[<<"node", k>>] = ns[k].kids
      /\ \A i \in DOMAIN c : H[<<"call", i>>] = c[i].kids
      /\ H[<<"stmts", 0>>] = st
  BY Holds
<1>3. /\ DOMAIN G = OwnersIn(ms, d)
      /\ \A k \in DOMAIN ms : G[<<"node", k>>] = ms[k].kids
      /\ \A i \in DOMAIN d : G[<<"call", i>>] = d[i].kids
      /\ G[<<"stmts", 0>>] = st
  BY Holds
<1>4. \A o \in DOMAIN H : H[o] \in Seq(DOMAIN ns) /\ Range(H[o]) \subseteq DOMAIN ns
  BY HoldsNodes
<1> HIDE DEF H, G
<1>5. /\ top \in DOMAIN H /\ H[top] = Last(c).kids /\ n \in DOMAIN c
      /\ n - 1 + j \in DOMAIN d /\ n - 1 + j \in n .. Len(d)
  <2>1. n \in DOMAIN c /\ n - 1 + j \in n .. Len(d) /\ n - 1 + j \in DOMAIN d
    BY <1>1
  <2>2. top \in DOMAIN H
    BY <1>2, <2>1, Zenon DEF OwnersIn
  <2>3. H[top] = Last(c).kids
    BY <1>1, <1>2, <2>1
  <2> QED BY <2>1, <2>2, <2>3
<1>6. /\ C \subseteq DOMAIN H /\ D \subseteq DOMAIN G
      /\ DOMAIN G \ D = DOMAIN H \ C
      /\ \A o \in DOMAIN G \ D : G[o] = H[o]
  <2>1. /\ Len(c) \in Nat /\ Len(d) \in Nat /\ n \in Nat \ {0}
        /\ n - 1 <= Len(c) /\ n - 1 <= Len(d)
        /\ DOMAIN c = 1 .. Len(c) /\ DOMAIN d = 1 .. Len(d)
    BY <1>1 DEF n
  <2>2. Elsewhere(ns, ms, c, d, st, n)
    BY <1>1, <2>1, Others
  <2>3. n = Len(c)
    BY DEF n
  <2> QED BY <2>2, <2>3 DEF H, G, Elsewhere
<1>7. top \in C /\ \A q \in C : q = top
  BY <1>1
<1>9. heir \in D /\ G[heir] = H[top] \o more
  <2>1. d[n - 1 + j].kids = Last(c).kids \o more
    BY <1>1
  <2> QED BY <1>3, <1>5, <2>1
<1>10. \A o \in D : o # heir => G[o] = << >>
  <2> SUFFICES ASSUME NEW o \in D, o # heir
               PROVE  G[o] = << >>
    OBVIOUS
  <2>1. CASE \E k \in fresh : o = <<"node", k>>
    BY <1>3, <2>1
  <2>2. CASE \E i \in n .. Len(d) : o = <<"call", i>>
    <3>1. PICK i \in n .. Len(d) : o = <<"call", i>>
      BY <2>2
    <3>2. i - (n - 1) \in 1 .. Len(fs) /\ i - (n - 1) # j /\ i \in DOMAIN d
          /\ n - 1 + (i - (n - 1)) = i
      BY <1>1, <3>1
    <3>3. d[i] = fs[i - (n - 1)]
      BY <1>1, <3>2
    <3> QED BY <1>3, <3>1, <3>2, <3>3
  <2> QED BY <2>1, <2>2
<1> HIDE DEF D, top, heir
<1>11. /\ Range(H[top]) \cap Range(more) = {} /\ H[top] \in Seq(DOMAIN ms)
       /\ more \in Seq(DOMAIN ms) /\ IsInjective(H[top])
       /\ Range(more) \subseteq fresh
  <2>1. Range(more) \subseteq fresh
    BY RangeOfSeq
  <2>2. more \in Seq(DOMAIN ms) /\ H[top] \in Seq(DOMAIN ms)
    <3>1. fresh \subseteq DOMAIN ms
      OBVIOUS
    <3> QED BY <1>4, <1>5, <3>1, SeqGrows
  <2>3. Range(H[top]) \subseteq DOMAIN ns
    BY <1>4, <1>5
  <2>4. IsInjective(H[top])
    <3>1. Owned(H, ns)
      BY DEF H
    <3> QED BY <1>5, <3>1 DEF Owned
  <2>5. Range(H[top]) \cap Range(more) = {}
    BY <2>1, <2>3
  <2> QED BY <2>1, <2>2, <2>4, <2>5
<1>12. /\ IsInjective(G[heir])
       /\ Range(G[heir]) = Range(H[top]) \cup Range(more)
  BY <1>9, <1>11, ConcatOnce
<1>13. \A o \in D : o # heir => IsInjective(G[o]) /\ Range(G[o]) = {}
  BY <1>10, EmptyOnce
<1> QED
  <2>1. \A o \in D : IsInjective(G[o])
    BY <1>12, <1>13
  <2>2. \A o, p \in D : \A k \in Range(G[o]) : k \in Range(G[p]) => o = p
    BY <1>13
  <2>3. \A o \in D : \A k \in Range(G[o]) :
          k \in DOMAIN ns => \E q \in C : k \in Range(H[q])
    BY <1>7, <1>11, <1>12, <1>13
  <2>4. \A q \in C : \A k \in Range(H[q]) : \E o \in D : k \in Range(G[o])
    BY <1>7, <1>9, <1>12
  <2>5. \A k \in DOMAIN ms \ DOMAIN ns :
          ms[k].kind # "Empty" => \E o \in D : k \in Range(G[o])
    BY <1>9, <1>12
  <2>6. \A o \in DOMAIN H : Range(H[o]) \subseteq DOMAIN ns
    BY <1>4
  <2>7. Owned(H, ns)
    BY DEF H
  <2>8. DOMAIN ns \subseteq DOMAIN ms /\ \A k \in DOMAIN ns : ms[k] = ns[k]
    OBVIOUS
  <2> HIDE DEF C
  <2>9. Rewires(ns, ms, H, G, C, D)
    <3> HIDE DEF fresh
    <3> QED BY <1>6, <2>1, <2>2, <2>3, <2>4, <2>5, <2>6, <2>8, Zenon DEF Rewires
  <2>10. Owned(G, ms)
    BY <2>7, <2>9, Rewired
  <2>11. Unheld(G, ms) = Unheld(H, ns) \cup (fresh \ Range(more))
    <3>1. Range(H[top]) \subseteq DOMAIN ns
      BY <1>4, <1>5
    <3>2. \A k \in fresh : k \in Range(more) <=> \E o \in D : k \in Range(G[o])
      BY <1>9, <1>12, <1>13, <3>1
    <3>3. Unplaced(ns, ms, G, D) = fresh \ Range(more)
      BY <3>2 DEF Unplaced
    <3> QED BY <2>9, <3>3, RewiredLost
  <2> QED BY <2>10, <2>11 DEF G, H, d, Passes

\* The two frames at the top of the stack, and what they hold.
LEMMA TopTwo ==
  ASSUME NEW ns, Heap(ns), NEW c \in Seq(Frames(ns)), Len(c) >= 2,
         NEW st \in Seq(DOMAIN ns), Owned(Holdings(ns, c, st), ns)
  PROVE  LET n == Len(c) - 1
             H == Holdings(ns, c, st)
             a == <<"call", n>>
             b == <<"call", n + 1>>
         IN /\ n \in Nat \ {0} /\ Len(c) = n + 1 /\ Last(c) = c[n + 1]
            /\ c # << >> /\ DOMAIN c = 1 .. n + 1
            /\ a # b /\ a \in DOMAIN H /\ b \in DOMAIN H
            /\ \A q \in {"call"} \X (n .. Len(c)) : q = a \/ q = b
            /\ a \in {"call"} \X (n .. Len(c)) /\ b \in {"call"} \X (n .. Len(c))
            /\ H[a] = c[n].kids /\ H[b] = Last(c).kids
            /\ H[a] \in Seq(DOMAIN ns) /\ H[b] \in Seq(DOMAIN ns)
            /\ Range(H[a]) \subseteq DOMAIN ns /\ Range(H[b]) \subseteq DOMAIN ns
            /\ IsInjective(H[a]) /\ IsInjective(H[b])
            /\ Range(H[a]) \cap Range(H[b]) = {}
<1> DEFINE n == Len(c) - 1
           H == Holdings(ns, c, st)
           a == <<"call", n>>
           b == <<"call", n + 1>>
<1>1. Len(c) \in Nat /\ c # << >> /\ DOMAIN c = 1 .. Len(c)
  BY LenProperties, EmptySeq
<1>2. n \in Nat \ {0} /\ Len(c) = n + 1
  BY <1>1
<1>3. Last(c) = c[n + 1]
  <2>1. Last(c) = c[Len(c)]
    BY <1>1, FrontLast
  <2> QED BY <1>2, <2>1
<1> HIDE DEF n
<1>4. n \in DOMAIN c /\ n + 1 \in DOMAIN c /\ n # n + 1
  BY <1>1, <1>2
<1>5. /\ a \in DOMAIN H /\ b \in DOMAIN H /\ H[a] = c[n].kids
      /\ H[b] = c[n + 1].kids
  <2>1. /\ DOMAIN H = OwnersIn(ns, c)
        /\ \A k \in DOMAIN ns : H[<<"node", k>>] = ns[k].kids
        /\ \A i \in DOMAIN c : H[<<"call", i>>] = c[i].kids
        /\ H[<<"stmts", 0>>] = st
    BY Holds
  <2> HIDE DEF H
  <2>2. a \in DOMAIN H /\ b \in DOMAIN H
    BY <1>4, <2>1, Zenon DEF OwnersIn
  <2> QED BY <1>4, <2>1, <2>2
<1>6. /\ H[a] \in Seq(DOMAIN ns) /\ H[b] \in Seq(DOMAIN ns)
      /\ Range(H[a]) \subseteq DOMAIN ns /\ Range(H[b]) \subseteq DOMAIN ns
  <2>1. \A o \in DOMAIN H : /\ H[o] \in Seq(DOMAIN ns)
                            /\ Range(H[o]) \subseteq DOMAIN ns
    BY HoldsNodes
  <2> HIDE DEF H
  <2> QED BY <1>5, <2>1
<1>7. a # b
  BY <1>4
<1>8. IsInjective(H[a]) /\ IsInjective(H[b]) /\ Range(H[a]) \cap Range(H[b]) = {}
  <2>1. Owned(H, ns)
    OBVIOUS
  <2> HIDE DEF H, a, b
  <2> QED BY <1>5, <1>7, <2>1 DEF Owned
<1>9. /\ \A q \in {"call"} \X (n .. Len(c)) : q = a \/ q = b
      /\ a \in {"call"} \X (n .. Len(c)) /\ b \in {"call"} \X (n .. Len(c))
  <2>1. \A i \in n .. Len(c) : i = n \/ i = n + 1
    BY <1>2
  <2>2. n \in n .. Len(c) /\ n + 1 \in n .. Len(c)
    BY <1>2
  <2> QED BY <2>1, <2>2
<1>10. DOMAIN c = 1 .. n + 1
  BY <1>1, <1>2
<1> HIDE DEF H, a, b
<1> QED BY <1>1, <1>2, <1>3, <1>5, <1>6, <1>7, <1>8, <1>9, <1>10 DEF n, H, a, b

\* The innermost function returns the nodes it holds.
LEMMA ReturnOwns ==
  ASSUME NEW ns, Heap(ns), NEW c \in Seq(Frames(ns)), Len(c) >= 2,
         NEW st \in Seq(DOMAIN ns), Owned(Holdings(ns, c, st), ns)
  PROVE  Passes(ns, ns, Holdings(ns, c, st),
                Holdings(ns, Deliver(Front(c), Last(c).kids), st), {})
<1> DEFINE n == Len(c) - 1
           ks == Last(c).kids
           d == Deliver(Front(c), ks)
           H == Holdings(ns, c, st)
           G == Holdings(ns, d, st)
           a == <<"call", n>>
           b == <<"call", n + 1>>
           C == {"call"} \X (n .. Len(c))
           D == ({"call"} \X (n .. Len(d))) \cup ({"node"} \X (DOMAIN ns \ DOMAIN ns))
<1>1. /\ n \in Nat \ {0} /\ Len(c) = n + 1 /\ Last(c) = c[n + 1]
      /\ c # << >> /\ DOMAIN c = 1 .. n + 1
      /\ a # b /\ a \in DOMAIN H /\ b \in DOMAIN H
      /\ \A q \in C : q = a \/ q = b
      /\ a \in C /\ b \in C
      /\ H[a] = c[n].kids /\ H[b] = Last(c).kids
      /\ H[a] \in Seq(DOMAIN ns) /\ H[b] \in Seq(DOMAIN ns)
      /\ Range(H[a]) \subseteq DOMAIN ns /\ Range(H[b]) \subseteq DOMAIN ns
      /\ IsInjective(H[a]) /\ IsInjective(H[b])
      /\ Range(H[a]) \cap Range(H[b]) = {}
  BY TopTwo
<1>2. ks \in Seq(DOMAIN ns)
  BY <1>1
<1>13. H[b] = ks
  BY <1>1
<1> HIDE DEF ks
<1>3. /\ n \in Nat \ {0}
      /\ d \in Seq(Frames(ns)) /\ Len(d) = n
      /\ \A i \in 1 .. n - 1 : d[i] = c[i]
      /\ d[n].fn = c[n].fn /\ d[n].type = c[n].type
      /\ d[n].kids = c[n].kids \o ks
      /\ Len(d[n].kids) = Len(c[n].kids) + Len(ks)
  BY <1>2, DeliverSeq
<1>4. DOMAIN d = 1 .. n
  BY <1>3, LenProperties
<1>5. \A o \in DOMAIN H : Range(H[o]) \subseteq DOMAIN ns
  BY HoldsNodes
<1>6. /\ DOMAIN G = OwnersIn(ns, d)
      /\ \A k \in DOMAIN ns : G[<<"node", k>>] = ns[k].kids
      /\ \A i \in DOMAIN d : G[<<"call", i>>] = d[i].kids
      /\ G[<<"stmts", 0>>] = st
  BY Holds
<1> HIDE DEF n, d
<1>7. Elsewhere(ns, ns, c, d, st, n)
  <2>1. Len(c) \in Nat /\ Len(d) \in Nat /\ n - 1 <= Len(c) /\ n - 1 <= Len(d)
    BY <1>1, <1>3
  <2>2. DOMAIN c = 1 .. Len(c) /\ DOMAIN d = 1 .. Len(d)
    BY <1>1, <1>3, <1>4
  <2> QED BY <1>1, <1>3, <2>1, <2>2, Others
<1>8. G[a] = H[a] \o H[b]
  <2>1. n \in DOMAIN d
    BY <1>1, <1>4
  <2> QED BY <1>1, <1>3, <1>6, <1>13, <2>1
<1>9. a \in D /\ \A o \in D : o = a
  BY <1>1, <1>3
<1> HIDE DEF H, G, a, b
<1>10. IsInjective(G[a]) /\ Range(G[a]) = Range(H[a]) \cup Range(H[b])
  BY <1>1, <1>8, ConcatOnce
<1>11. Rewires(ns, ns, H, G, C, D)
  <2>1. /\ C \subseteq DOMAIN H /\ D \subseteq DOMAIN G
        /\ DOMAIN G \ D = DOMAIN H \ C
        /\ \A o \in DOMAIN G \ D : G[o] = H[o]
    BY <1>7 DEF Elsewhere, H, G
  <2> HIDE DEF C, D
  <2>2. /\ \A o \in D : IsInjective(G[o])
        /\ \A o, p \in D : \A k \in Range(G[o]) : k \in Range(G[p]) => o = p
    BY <1>9, <1>10
  <2>3. \A o \in D : \A k \in Range(G[o]) : \E q \in C : k \in Range(H[q])
    BY <1>1, <1>9, <1>10
  <2>4. \A q \in C : \A k \in Range(H[q]) : \E o \in D : k \in Range(G[o])
    BY <1>1, <1>9, <1>10
  <2> QED BY <1>5, <2>1, <2>2, <2>3, <2>4 DEF Rewires
<1>12. Owned(H, ns)
  BY DEF H
<1>14. Owned(G, ns)
  BY <1>11, <1>12, Rewired
<1>15. Unheld(G, ns) = Unheld(H, ns)
  <2> HIDE DEF C, D
  <2>1. Unplaced(ns, ns, G, D) = {}
    BY DEF Unplaced
  <2>2. Unheld(G, ns) = Unheld(H, ns) \cup Unplaced(ns, ns, G, D)
    BY <1>11, RewiredLost
  <2> QED BY <2>1, <2>2
<1> QED BY <1>14, <1>15 DEF G, H, d, ks, Passes

\* The innermost function returns a new node, which takes what it held.
LEMMA ReturnNewOwns ==
  ASSUME NEW ns, Heap(ns), NEW c \in Seq(Frames(ns)), Len(c) >= 2,
         NEW st \in Seq(DOMAIN ns), Owned(Holdings(ns, c, st), ns),
         NEW ms, NEW k, k \notin DOMAIN ns, DOMAIN ms = DOMAIN ns \cup {k},
         \A i \in DOMAIN ns : ms[i] = ns[i], ms[k].kids = Last(c).kids
  PROVE  Passes(ns, ms, Holdings(ns, c, st),
                Holdings(ms, Deliver(Front(c), <<k>>), st), {})
<1> DEFINE n == Len(c) - 1
           ks == <<k>>
           d == Deliver(Front(c), ks)
           H == Holdings(ns, c, st)
           G == Holdings(ms, d, st)
           a == <<"call", n>>
           b == <<"call", n + 1>>
           e == <<"node", k>>
           C == {"call"} \X (n .. Len(c))
           D == ({"call"} \X (n .. Len(d))) \cup ({"node"} \X (DOMAIN ms \ DOMAIN ns))
<1>1. /\ n \in Nat \ {0} /\ Len(c) = n + 1 /\ Last(c) = c[n + 1]
      /\ c # << >> /\ DOMAIN c = 1 .. n + 1
      /\ a # b /\ a \in DOMAIN H /\ b \in DOMAIN H
      /\ \A q \in C : q = a \/ q = b
      /\ a \in C /\ b \in C
      /\ H[a] = c[n].kids /\ H[b] = Last(c).kids
      /\ H[a] \in Seq(DOMAIN ns) /\ H[b] \in Seq(DOMAIN ns)
      /\ Range(H[a]) \subseteq DOMAIN ns /\ Range(H[b]) \subseteq DOMAIN ns
      /\ IsInjective(H[a]) /\ IsInjective(H[b])
      /\ Range(H[a]) \cap Range(H[b]) = {}
  BY TopTwo
<1>2. ks \in Seq(DOMAIN ms) /\ IsInjective(ks) /\ Range(ks) = {k}
  <2>1. ks \in Seq(DOMAIN ms) /\ DOMAIN ks = {1} /\ ks[1] = k
    OBVIOUS
  <2> HIDE DEF ks
  <2> QED BY <2>1 DEF IsInjective, Range
<1> HIDE DEF ks
<1>3. c \in Seq(Frames(ms))
  <2>1. Frames(ns) \subseteq Frames(ms)
    BY FramesGrow
  <2> QED BY <2>1, SeqGrows
<1>4. /\ n \in Nat \ {0}
      /\ d \in Seq(Frames(ms)) /\ Len(d) = n
      /\ \A i \in 1 .. n - 1 : d[i] = c[i]
      /\ d[n].fn = c[n].fn /\ d[n].kids = c[n].kids \o ks
      /\ Len(d[n].kids) = Len(c[n].kids) + Len(ks)
  BY <1>2, <1>3, DeliverSeq
<1>5. DOMAIN d = 1 .. n
  BY <1>4, LenProperties
<1>6. \A o \in DOMAIN H : Range(H[o]) \subseteq DOMAIN ns
  BY HoldsNodes
<1>7. /\ DOMAIN G = OwnersIn(ms, d)
      /\ \A i \in DOMAIN ms : G[<<"node", i>>] = ms[i].kids
      /\ \A i \in DOMAIN d : G[<<"call", i>>] = d[i].kids
      /\ G[<<"stmts", 0>>] = st
  BY Holds
<1> HIDE DEF n, d
<1>8. Elsewhere(ns, ms, c, d, st, n)
  <2>1. Len(c) \in Nat /\ Len(d) \in Nat /\ n - 1 <= Len(c) /\ n - 1 <= Len(d)
    BY <1>1, <1>4
  <2>2. DOMAIN c = 1 .. Len(c) /\ DOMAIN d = 1 .. Len(d)
    BY <1>1, <1>4, <1>5
  <2>3. DOMAIN ns \subseteq DOMAIN ms
    OBVIOUS
  <2> QED BY <1>1, <1>4, <2>1, <2>2, <2>3, Others
<1>9. G[a] = H[a] \o ks /\ G[e] = H[b]
  <2>1. n \in DOMAIN d /\ k \in DOMAIN ms
    BY <1>1, <1>5
  <2>2. G[a] = d[n].kids /\ G[e] = ms[k].kids
    BY <1>7, <2>1
  <2> QED BY <1>1, <1>4, <2>2
<1>10. a \in D /\ e \in D /\ a # e /\ \A o \in D : o = a \/ o = e
  <2>1. DOMAIN ms \ DOMAIN ns = {k} /\ n .. Len(d) = {n}
    BY <1>1, <1>4
  <2> QED BY <2>1
<1> HIDE DEF H, G, a, b, e
<1>11. IsInjective(G[a]) /\ Range(G[a]) = Range(H[a]) \cup {k}
  <2>1. H[a] \in Seq(DOMAIN ms)
    <3>1. DOMAIN ns \subseteq DOMAIN ms
      OBVIOUS
    <3> QED BY <1>1, <3>1, SeqGrows
  <2>2. Range(H[a]) \cap Range(ks) = {}
    BY <1>1, <1>2
  <2> QED BY <1>1, <1>2, <1>9, <2>1, <2>2, ConcatOnce
<1>12. Rewires(ns, ms, H, G, C, D)
  <2>1. /\ C \subseteq DOMAIN H /\ D \subseteq DOMAIN G
        /\ DOMAIN G \ D = DOMAIN H \ C
        /\ \A o \in DOMAIN G \ D : G[o] = H[o]
    BY <1>8 DEF Elsewhere, H, G
  <2> HIDE DEF C, D
  <2>2. \A o \in D : IsInjective(G[o])
    BY <1>1, <1>9, <1>10, <1>11
  <2>3. Range(G[a]) \cap Range(G[e]) = {}
    BY <1>1, <1>9, <1>11
  <2>4. \A o, p \in D : \A i \in Range(G[o]) : i \in Range(G[p]) => o = p
    BY <1>10, <2>3
  <2>5. \A o \in D : \A i \in Range(G[o]) :
          i \in DOMAIN ns => \E q \in C : i \in Range(H[q])
    BY <1>1, <1>9, <1>10, <1>11
  <2>6. \A q \in C : \A i \in Range(H[q]) : \E o \in D : i \in Range(G[o])
    BY <1>1, <1>9, <1>10, <1>11
  <2>7. \A i \in DOMAIN ms \ DOMAIN ns : \E o \in D : i \in Range(G[o])
    BY <1>10, <1>11
  <2>8. DOMAIN ns \subseteq DOMAIN ms /\ \A i \in DOMAIN ns : ms[i] = ns[i]
    OBVIOUS
  <2> QED BY <1>6, <2>1, <2>2, <2>4, <2>5, <2>6, <2>7, <2>8 DEF Rewires
<1>13. Owned(H, ns)
  BY DEF H
<1>14. Owned(G, ms)
  BY <1>12, <1>13, Rewired
<1>15. Unheld(G, ms) = Unheld(H, ns)
  <2>1. \A i \in DOMAIN ms \ DOMAIN ns : \E o \in D : i \in Range(G[o])
    BY <1>10, <1>11
  <2> HIDE DEF C, D
  <2>2. Unplaced(ns, ms, G, D) = {}
    BY <2>1 DEF Unplaced
  <2>3. Unheld(G, ms) = Unheld(H, ns) \cup Unplaced(ns, ms, G, D)
    BY <1>12, RewiredLost
  <2> QED BY <2>2, <2>3
<1> QED BY <1>14, <1>15 DEF G, H, d, ks, Passes

\* The outermost function returns: its frame becomes the result.
LEMMA ResultOwns ==
  ASSUME NEW ns, Heap(ns), NEW c \in Seq(Frames(ns)), Len(c) = 1,
         Owned(Holdings(ns, c, << >>), ns)
  PROVE  Passes(ns, ns, Holdings(ns, c, << >>),
                Holdings(ns, << >>, Last(c).kids), {})
<1> DEFINE st == Last(c).kids
           H == Holdings(ns, c, << >>)
           G == Holdings(ns, << >>, st)
           a == <<"call", 1>>
           b == <<"stmts", 0>>
           C == {a, b}
           D == {b}
<1>1. Last(c) = c[1] /\ DOMAIN c = {1} /\ DOMAIN << >> = {}
  <2>1. c # << >> /\ DOMAIN c = 1 .. 1
    BY LenProperties, EmptySeq
  <2>2. Last(c) = c[Len(c)]
    BY <2>1, FrontLast
  <2>3. Last(c) = c[1]
    BY <2>2
  <2> QED BY <2>1, <2>3
<1>2. << >> \in Seq(DOMAIN ns)
  BY Tuples
<1>3. \A o \in DOMAIN H : /\ H[o] \in Seq(DOMAIN ns)
                          /\ Range(H[o]) \subseteq DOMAIN ns
  BY <1>2, HoldsNodes
<1>4. /\ DOMAIN H = OwnersIn(ns, c)
      /\ \A k \in DOMAIN ns : H[<<"node", k>>] = ns[k].kids
      /\ \A i \in DOMAIN c : H[<<"call", i>>] = c[i].kids
      /\ H[<<"stmts", 0>>] = << >>
  BY Holds
<1>5. /\ DOMAIN G = OwnersIn(ns, << >>)
      /\ \A k \in DOMAIN ns : G[<<"node", k>>] = ns[k].kids
      /\ \A i \in DOMAIN << >> : G[<<"call", i>>] = << >>[i].kids
      /\ G[<<"stmts", 0>>] = st
  BY Holds
<1>6. Owned(H, ns)
  OBVIOUS
<1> HIDE DEF H, G, st
<1>7. /\ DOMAIN H = ({"node"} \X DOMAIN ns) \cup C
      /\ DOMAIN G = ({"node"} \X DOMAIN ns) \cup D
  BY <1>1, <1>4, <1>5 DEF OwnersIn
<1>8. a \notin {"node"} \X DOMAIN ns /\ b \notin {"node"} \X DOMAIN ns /\ a # b
  OBVIOUS
<1>9. H[a] = st /\ G[b] = st /\ H[b] = << >>
  BY <1>1, <1>4, <1>5 DEF st
<1>10. \A o \in {"node"} \X DOMAIN ns : G[o] = H[o]
  BY <1>4, <1>5
<1> HIDE DEF a, b
<1>11. Rewires(ns, ns, H, G, C, D)
  <2>1. C \subseteq DOMAIN H /\ D \subseteq DOMAIN G /\ DOMAIN G \ D = DOMAIN H \ C
    BY <1>7, <1>8
  <2>2. \A o \in DOMAIN G \ D : G[o] = H[o]
    BY <1>7, <1>10
  <2>3. \A o \in D : IsInjective(G[o])
    BY <1>6, <1>7, <1>9 DEF Owned
  <2>4. \A q \in C : \A k \in Range(H[q]) : \E o \in D : k \in Range(G[o])
    BY <1>9, EmptyOnce
  <2> QED BY <1>3, <1>9, <2>1, <2>2, <2>3, <2>4 DEF Rewires
<1>12. Owned(G, ns)
  BY <1>6, <1>11, Rewired
<1>13. Unheld(G, ns) = Unheld(H, ns)
  <2> HIDE DEF C, D
  <2>1. Unplaced(ns, ns, G, D) = {}
    BY DEF Unplaced
  <2>2. Unheld(G, ns) = Unheld(H, ns) \cup Unplaced(ns, ns, G, D)
    BY <1>11, RewiredLost
  <2> QED BY <2>1, <2>2
<1> QED BY <1>12, <1>13 DEF G, H, st, Passes

-----------------------------------------------------------------------------
\* Steps of the parser.

LEMMA OwnerReady ==
  ASSUME ParserInv, OwnerInv, outcome = "parsing"
  PROVE  /\ Heap(nodes) /\ calls \in Seq(Frames(nodes)) /\ calls # << >>
         /\ stmts = << >> /\ stmts \in Seq(DOMAIN nodes)
         /\ Owned(Holdings(nodes, calls, stmts), nodes) /\ Lean(calls)
         /\ Top.kids \in Seq(DOMAIN nodes)
         /\ Top.fn \in Bare => Top.kids = << >>
         /\ Len(calls) \in DOMAIN calls /\ Top = calls[Len(calls)]
         /\ Top.fn # "If" \/ Len(Top.kids) # 3 => ~ Waiting(Top)
<1>1. /\ Heap(nodes) /\ calls \in Seq(Frames(nodes)) /\ calls # << >>
      /\ stmts \in Seq(DOMAIN nodes)
  BY DEF ParserInv, TypeOK
<1>2. /\ Owned(Holdings(nodes, calls, stmts), nodes) /\ Lean(calls)
      /\ stmts = << >>
  BY DEF OwnerInv
<1>3. Top \in Frames(nodes) /\ Len(calls) \in DOMAIN calls /\ Top = calls[Len(calls)]
  <2>1. Last(calls) = calls[Len(calls)] /\ Last(calls) \in Frames(nodes)
    BY <1>1, FrontLast
  <2>2. Len(calls) \in Nat \ {0} /\ DOMAIN calls = 1 .. Len(calls)
    BY <1>1, EmptySeq, LenProperties
  <2> QED BY <2>1, <2>2 DEF Top
<1>4. Top.fn \in Bare => Top.kids = << >>
  BY <1>2, <1>3 DEF Lean
<1>5. Top.kids \in Seq(DOMAIN nodes)
  BY <1>3 DEF Frames
<1>6. Waiting(Top) => Top.fn = "If" /\ Len(Top.kids) = 3
  BY <1>2, <1>3 DEF Lean, Waiting
<1> QED BY <1>1, <1>2, <1>3, <1>4, <1>5, <1>6

\* The sets that OwnerInv counts.
LEMMA FiniteParts ==
  ASSUME ParserInv
  PROVE  /\ IsFiniteSet(Lost) /\ Cardinality(Lost) \in Nat
         /\ IsFiniteSet(Elses(nodes)) /\ Cardinality(Elses(nodes)) \in Nat
         /\ IsFiniteSet(Waits(calls)) /\ Cardinality(Waits(calls)) \in Nat
         /\ Lost \subseteq DOMAIN nodes /\ Elses(nodes) \subseteq DOMAIN nodes
         /\ Waits(calls) \subseteq DOMAIN calls
<1>1. /\ Len(nodes) \in Nat /\ DOMAIN nodes = 1 .. Len(nodes)
      /\ Len(calls) \in Nat /\ DOMAIN calls = 1 .. Len(calls)
  BY LenProperties DEF ParserInv, TypeOK, Heap
<1>2. IsFiniteSet(DOMAIN nodes) /\ IsFiniteSet(DOMAIN calls)
  <2>1. \A n \in Nat : IsFiniteSet(1 .. n)
    BY FS_Interval
  <2> QED BY <1>1, <2>1
<1>3. /\ Lost \in SUBSET DOMAIN nodes /\ Elses(nodes) \in SUBSET DOMAIN nodes
      /\ Waits(calls) \in SUBSET DOMAIN calls
  BY DEF Lost, Unheld, Elses, Waits
<1>4. IsFiniteSet(Lost) /\ IsFiniteSet(Elses(nodes)) /\ IsFiniteSet(Waits(calls))
  BY <1>2, <1>3, FS_Subset
<1> QED BY <1>3, <1>4, FS_CardinalityType

\* The new nodes are more and gone, of which gone are EmptyExprs; they hold
\* nothing.
Allots(more, gone) ==
  /\ DOMAIN nodes \subseteq DOMAIN nodes'
  /\ \A k \in DOMAIN nodes : nodes'[k] = nodes[k]
  /\ more \in Seq(DOMAIN nodes' \ DOMAIN nodes) /\ IsInjective(more)
  /\ gone = (DOMAIN nodes' \ DOMAIN nodes) \ Range(more)
  /\ \A k \in DOMAIN nodes' \ DOMAIN nodes :
       nodes'[k].kids = << >> /\ nodes'[k].kind # "If"
  /\ \A k \in gone : nodes'[k].kind = "Empty"

Fresh(more) == Allots(more, {})

LEMMA FreshNone ==
  ASSUME UNCHANGED nodes
  PROVE  Fresh(<< >>)
<1>1. << >> \in Seq(DOMAIN nodes' \ DOMAIN nodes) /\ IsInjective(<< >>)
  BY Tuples, EmptyOnce
<1> QED BY <1>1, EmptyOnce DEF Fresh, Allots

\* What New adds to the heap.
LEMMA NewNodes ==
  ASSUME ParserInv, NEW S, NEW more \in Seq(S), New(more)
  PROVE  /\ NewAt \in Nat /\ Len(nodes) \in Nat /\ Len(more) \in Nat
         /\ DOMAIN nodes = 1 .. Len(nodes)
         /\ DOMAIN nodes' = 1 .. Len(nodes) + Len(more)
         /\ DOMAIN nodes \subseteq DOMAIN nodes'
         /\ \A k \in DOMAIN nodes : nodes'[k] = nodes[k]
         /\ \A i \in 1 .. Len(more) : nodes'[Len(nodes) + i] = more[i]
<1> DEFINE T == Node \cup S
           m == Len(nodes)
           n == Len(more)
           ns == nodes \o more
<1>1. nodes \in Seq(T) /\ more \in Seq(T)
  <2>1. nodes \in Seq(Node)
    BY DEF ParserInv, TypeOK, Heap
  <2> QED BY <2>1, SeqGrows
<1>2. /\ ns \in Seq(T) /\ Len(ns) = m + n
      /\ \A i \in 1 .. m + n : ns[i] = IF i <= m THEN nodes[i] ELSE more[i - m]
  BY <1>1, ConcatProperties
<1>3. m \in Nat /\ n \in Nat /\ DOMAIN nodes = 1 .. m /\ DOMAIN ns = 1 .. m + n
  BY <1>1, <1>2, LenProperties
<1>4. nodes' = ns
  BY DEF New
<1> HIDE DEF m, n, ns
<1>5. \A k \in 1 .. m : k \in 1 .. m + n /\ ns[k] = nodes[k]
  BY <1>2, <1>3
<1>6. \A i \in 1 .. n : ns[m + i] = more[i]
  <2> SUFFICES ASSUME NEW i \in 1 .. n
               PROVE  ns[m + i] = more[i]
    OBVIOUS
  <2> DEFINE k == m + i
  <2>1. k \in 1 .. m + n /\ ~ (k <= m) /\ k - m = i
    BY <1>3
  <2> HIDE DEF k
  <2>2. ns[k] = more[k - m]
    BY <1>2, <2>1
  <2> QED BY <2>1, <2>2 DEF k
<1> QED BY <1>3, <1>4, <1>5, <1>6 DEF m, n, NewAt

LEMMA FreshOne ==
  ASSUME ParserInv, NEW m, New(<<m>>), m.kids = << >>, m.kind # "If"
  PROVE  Fresh(<<NewAt>>) /\ (m.kind = "Empty" => Allots(<< >>, {NewAt}))
<1> DEFINE new == <<m>>
           at  == <<NewAt>>
<1>1. new \in Seq({m}) /\ Len(new) = 1 /\ new[1] = m
  OBVIOUS
<1>2. at \in Seq({NewAt}) /\ DOMAIN at = {1} /\ at[1] = NewAt
  OBVIOUS
<1>3. IsInjective(at) /\ Range(at) = {NewAt}
  <2> HIDE DEF at
  <2> QED BY <1>2 DEF IsInjective, Range
<1>4. New(new)
  OBVIOUS
<1> HIDE DEF new, at
<1>5. /\ NewAt \in Nat /\ Len(nodes) \in Nat /\ Len(new) \in Nat
      /\ DOMAIN nodes = 1 .. Len(nodes)
      /\ DOMAIN nodes' = 1 .. Len(nodes) + Len(new)
      /\ DOMAIN nodes \subseteq DOMAIN nodes'
      /\ \A k \in DOMAIN nodes : nodes'[k] = nodes[k]
      /\ \A i \in 1 .. Len(new) : nodes'[Len(nodes) + i] = new[i]
  BY <1>1, <1>4, NewNodes
<1>6. DOMAIN nodes' \ DOMAIN nodes = {NewAt} /\ nodes'[NewAt] = m
  <2>1. DOMAIN nodes' \ DOMAIN nodes = {Len(nodes) + 1}
    BY <1>1, <1>5
  <2>2. nodes'[Len(nodes) + 1] = m
    BY <1>1, <1>5
  <2> QED BY <2>1, <2>2 DEF NewAt
<1>7. << >> \in Seq({NewAt}) /\ IsInjective(<< >>)
  BY Tuples, EmptyOnce
<1>8. Fresh(at)
  BY <1>2, <1>3, <1>5, <1>6 DEF Fresh, Allots
<1>9. m.kind = "Empty" => Allots(<< >>, {NewAt})
  BY <1>5, <1>6, <1>7, EmptyOnce DEF Allots
<1> QED BY <1>8, <1>9 DEF at

LEMMA FreshTwo ==
  ASSUME ParserInv, NEW a, NEW b, New(<<a, b>>), a.kids = << >>, b.kids = << >>,
         a.kind # "If", b.kind # "If"
  PROVE  Fresh(<<NewAt, NewAt + 1>>)
<1> DEFINE new == <<a, b>>
           at  == <<NewAt, NewAt + 1>>
<1>1. new \in Seq({a, b}) /\ Len(new) = 2 /\ new[1] = a /\ new[2] = b
  OBVIOUS
<1>2. New(new)
  OBVIOUS
<1> HIDE DEF new
<1>3. /\ NewAt \in Nat /\ Len(nodes) \in Nat /\ Len(new) \in Nat
      /\ DOMAIN nodes = 1 .. Len(nodes)
      /\ DOMAIN nodes' = 1 .. Len(nodes) + Len(new)
      /\ DOMAIN nodes \subseteq DOMAIN nodes'
      /\ \A k \in DOMAIN nodes : nodes'[k] = nodes[k]
      /\ \A i \in 1 .. Len(new) : nodes'[Len(nodes) + i] = new[i]
  BY <1>1, <1>2, NewNodes
<1>4. /\ at \in Seq({NewAt, NewAt + 1}) /\ DOMAIN at = {1, 2}
      /\ at[1] = NewAt /\ at[2] = NewAt + 1 /\ NewAt # NewAt + 1
  BY <1>3
<1>5. IsInjective(at) /\ Range(at) = {NewAt, NewAt + 1}
  <2> HIDE DEF at
  <2> QED BY <1>4 DEF IsInjective, Range
<1> HIDE DEF at
<1>6. /\ DOMAIN nodes' \ DOMAIN nodes = {NewAt, NewAt + 1}
      /\ nodes'[NewAt] = a /\ nodes'[NewAt + 1] = b
  <2>1. /\ DOMAIN nodes' \ DOMAIN nodes = {Len(nodes) + 1, Len(nodes) + 2}
        /\ NewAt = Len(nodes) + 1 /\ NewAt + 1 = Len(nodes) + 2
    BY <1>1, <1>3 DEF NewAt
  <2>2. nodes'[Len(nodes) + 1] = a /\ nodes'[Len(nodes) + 2] = b
    BY <1>1, <1>3
  <2> QED BY <2>1, <2>2
<1>7. Fresh(at)
  BY <1>3, <1>4, <1>5, <1>6 DEF Fresh, Allots
<1> QED BY <1>7 DEF at

\* The innermost frame becomes the frames fs: the j-th takes what it held, and
\* more; the others hold nothing.
HandsOver(fs, j, more) ==
  /\ \E S : fs \in Seq(S)
  /\ j \in 1 .. Len(fs)
  /\ \A i \in 1 .. Len(fs) : i # j => fs[i].kids = << >>
  /\ fs[j].kids = Top.kids \o more
  /\ \A i \in 1 .. Len(fs) :
       /\ fs[i].fn \in Bare => i = Len(fs) /\ fs[i].kids = << >>
       /\ Waiting(fs[i]) => i = 1 /\ Len(fs) = 2 /\ Len(fs[i].kids) = 2

LEMMA Hands ==
  ASSUME ParserInv, ParserInv', OwnerInv, outcome = "parsing", Keep,
         ~ Waiting(Top), NEW fs, NEW j, NEW more, NEW gone, Become(fs),
         Allots(more, gone), HandsOver(fs, j, more),
         IF Waiting(fs[1]) THEN \E g : gone = {g} ELSE gone = {}
  PROVE  OwnerInv'
<1> DEFINE n == Len(calls)
           m == Len(fs)
<1>1. /\ Heap(nodes) /\ calls \in Seq(Frames(nodes)) /\ calls # << >>
      /\ stmts = << >> /\ stmts \in Seq(DOMAIN nodes)
      /\ Owned(Holdings(nodes, calls, stmts), nodes) /\ Lean(calls)
  BY OwnerReady
<1>2. calls' = Front(calls) \o fs /\ calls' \in Seq(Frames(nodes'))
  BY DEF Become, Below, ParserInv, TypeOK
<1>3. PICK S : fs \in Seq(S)
  BY DEF HandsOver
<1>4. /\ n \in Nat \ {0} /\ m \in Nat /\ Len(calls') = n - 1 + m
      /\ \A i \in 1 .. n - 1 : calls'[i] = calls[i]
      /\ \A i \in 1 .. m : calls'[n - 1 + i] = fs[i]
  <2> DEFINE T == Frames(nodes) \cup S
  <2>1. calls \in Seq(T) /\ fs \in Seq(T)
    BY <1>1, <1>3, SeqGrows
  <2> HIDE DEF T
  <2>2. /\ Front(calls) \o fs \in Seq(T)
        /\ n \in Nat \ {0} /\ m \in Nat
        /\ Len(Front(calls) \o fs) = n - 1 + m
        /\ \A i \in 1 .. n - 1 : (Front(calls) \o fs)[i] = calls[i]
        /\ \A i \in 1 .. m : (Front(calls) \o fs)[n - 1 + i] = fs[i]
    BY <1>1, <2>1, BecomeSeq
  <2> QED BY <1>2, <2>2
<1>5. DOMAIN calls = 1 .. n /\ DOMAIN calls' = 1 .. n - 1 + m
      /\ DOMAIN fs = 1 .. m
  BY <1>1, <1>2, <1>3, <1>4, LenProperties
<1> HIDE DEF n, m
<1>6. fs \in Seq(Frames(nodes'))
  <2>1. ASSUME NEW i \in 1 .. m
        PROVE  fs[i] \in Frames(nodes')
    <3>1. n - 1 + i \in DOMAIN calls'
      BY <1>4, <1>5
    <3>2. calls'[n - 1 + i] \in Frames(nodes')
      BY <1>2, <3>1, Elements
    <3> QED BY <1>4, <3>2
  <2>2. fs = [i \in 1 .. m |-> fs[i]]
    BY <1>3, <1>5
  <2> QED BY <1>4, <2>1, <2>2
<1>7. Passes(nodes, nodes', Holdings(nodes, calls, stmts),
             Holdings(nodes', Front(calls) \o fs, stmts), gone)
  <2>1. /\ DOMAIN nodes \subseteq DOMAIN nodes'
        /\ \A k \in DOMAIN nodes : nodes'[k] = nodes[k]
        /\ more \in Seq(DOMAIN nodes' \ DOMAIN nodes) /\ IsInjective(more)
        /\ \A k \in DOMAIN nodes' \ DOMAIN nodes :
             /\ nodes'[k].kids = << >>
             /\ nodes'[k].kind # "Empty" => k \in Range(more)
        /\ gone = (DOMAIN nodes' \ DOMAIN nodes) \ Range(more)
    BY DEF Allots
  <2>2. /\ j \in 1 .. Len(fs)
        /\ \A i \in 1 .. Len(fs) : i # j => fs[i].kids = << >>
        /\ fs[j].kids = Last(calls).kids \o more
    BY DEF HandsOver, Top
  <2>3. Passes(nodes, nodes', Holdings(nodes, calls, stmts),
               Holdings(nodes', Front(calls) \o fs, stmts),
               (DOMAIN nodes' \ DOMAIN nodes) \ Range(more))
    BY <1>1, <1>6, <2>1, <2>2, BecomeOwns
  <2> QED BY <2>1, <2>3
<1>8. \A i \in 1 .. n - 1 :
        i \in DOMAIN calls /\ i # Len(calls) /\ calls'[i] = calls[i]
  <2>1. \A i \in 1 .. n - 1 : i \in 1 .. n /\ i # n
    BY <1>4
  <2>2. n = Len(calls)
    BY DEF n
  <2> QED BY <1>4, <1>5, <2>1, <2>2
<1>9. \A i \in 1 .. n - 1 + m : i \in 1 .. n - 1 \/ i - (n - 1) \in 1 .. m
  BY <1>4
<1>10. \A i \in 1 .. n - 1 + m :
         i - (n - 1) \in 1 .. m => calls'[i] = fs[i - (n - 1)]
  <2> SUFFICES ASSUME NEW i \in 1 .. n - 1 + m, i - (n - 1) \in 1 .. m
               PROVE  calls'[i] = fs[i - (n - 1)]
    OBVIOUS
  <2>1. n - 1 + (i - (n - 1)) = i
    BY <1>4
  <2> QED BY <1>4, <2>1
<1>11. Lean(calls')
  <2> SUFFICES ASSUME NEW i \in 1 .. n - 1 + m
               PROVE  /\ calls'[i].fn \in Bare =>
                           i = Len(calls') /\ calls'[i].kids = << >>
                      /\ Waiting(calls'[i]) =>
                           Len(calls'[i].kids) = IF i = Len(calls') THEN 3 ELSE 2
    BY <1>5 DEF Lean
  <2>1. CASE i \in 1 .. n - 1
    <3>1. i # Len(calls')
      BY <1>4, <2>1 DEF HandsOver, m
    <3> QED BY <1>1, <1>8, <2>1, <3>1 DEF Lean
  <2>2. CASE i - (n - 1) \in 1 .. m
    <3>1. PICK k \in 1 .. m : k = i - (n - 1)
      BY <2>2
    <3>2. calls'[i] = fs[k]
      BY <1>10, <3>1
    <3>3. /\ fs[k].fn \in Bare => k = m /\ fs[k].kids = << >>
          /\ Waiting(fs[k]) => k = 1 /\ m = 2 /\ Len(fs[k].kids) = 2
      BY DEF HandsOver, m
    <3>4. (k = m => i = Len(calls')) /\ (k = 1 /\ m = 2 => i # Len(calls'))
      BY <1>4, <3>1
    <3> QED BY <3>2, <3>3, <3>4
  <2> QED BY <1>9, <2>1, <2>2
<1>12. stmts' = stmts /\ outcome' = outcome
  BY DEF Keep
<1>13. Lost' = Lost \cup gone
  BY <1>2, <1>7, <1>12 DEF Lost, Passes
<1>14. /\ DOMAIN nodes \subseteq DOMAIN nodes'
       /\ \A k \in DOMAIN nodes : nodes'[k] = nodes[k]
       /\ \A k \in DOMAIN nodes' \ DOMAIN nodes :
            nodes'[k].kids = << >> /\ nodes'[k].kind # "If"
       /\ gone \cap DOMAIN nodes = {}
  BY DEF Allots
<1>15. Elses(nodes') = Elses(nodes)
  BY <1>14 DEF Elses
<1>16. \A k \in DOMAIN nodes' : nodes'[k].kind = "Empty" => nodes'[k].kids = << >>
  BY <1>14 DEF OwnerInv
<1>17. /\ n \notin Waits(calls)
       /\ Waits(calls') = Waits(calls) \cup (IF Waiting(fs[1]) THEN {n} ELSE {})
  <2>1. n \notin Waits(calls)
    <3>1. Top = calls[n]
      BY OwnerReady DEF n
    <3> QED BY <3>1 DEF Waits
  <2>2. \A i \in 1 .. n : i \in 1 .. n - 1 \/ i = n
    BY <1>4
  <2>3. \A i \in 1 .. n - 1 : i \in Waits(calls') <=> i \in Waits(calls)
    <3>1. \A i \in 1 .. n - 1 : i \in 1 .. n /\ i \in 1 .. n - 1 + m
      BY <1>4
    <3> QED BY <1>5, <1>8, <3>1 DEF Waits
  <2>4. \A i \in 1 .. n - 1 + m : i - (n - 1) \in 1 .. m =>
          (i \in Waits(calls') <=> i = n /\ Waiting(fs[1]))
    <3> SUFFICES ASSUME NEW i \in 1 .. n - 1 + m, i - (n - 1) \in 1 .. m
                 PROVE  i \in Waits(calls') <=> i = n /\ Waiting(fs[1])
      OBVIOUS
    <3>1. PICK k \in 1 .. m : k = i - (n - 1)
      OBVIOUS
    <3>2. calls'[i] = fs[k]
      BY <1>10, <3>1
    <3>3. Waiting(fs[k]) => k = 1
      BY DEF HandsOver, m
    <3>4. k = 1 <=> i = n
      BY <1>4, <3>1
    <3>5. i \in Waits(calls') <=> Waiting(fs[k])
      BY <1>5, <3>2 DEF Waits
    <3> QED BY <3>3, <3>4, <3>5
  <2>5. n \in 1 .. n - 1 + m /\ n - (n - 1) \in 1 .. m
    BY <1>4 DEF HandsOver, m
  <2>6. /\ Waits(calls) \subseteq 1 .. n /\ Waits(calls') \subseteq 1 .. n - 1 + m
        /\ 1 .. n - 1 \subseteq 1 .. n - 1 + m
    <3>1. Waits(calls) \subseteq 1 .. n /\ Waits(calls') \subseteq 1 .. n - 1 + m
      BY <1>5 DEF Waits
    <3>2. 1 .. n - 1 \subseteq 1 .. n - 1 + m
      BY <1>4
    <3> QED BY <3>1, <3>2
  <2>7. \A i : i \in Waits(calls') <=>
          i \in Waits(calls) \/ (i = n /\ Waiting(fs[1]))
    <3> TAKE i
    <3>1. CASE i \in 1 .. n - 1
      <4>1. i # n
        BY <1>4, <3>1
      <4> QED BY <2>3, <3>1, <4>1
    <3>2. CASE i \in 1 .. n - 1 + m /\ i - (n - 1) \in 1 .. m
      <4>1. i \notin 1 .. n - 1
        BY <1>4, <3>2
      <4> QED BY <2>1, <2>2, <2>4, <2>6, <3>2, <4>1
    <3>3. CASE i \notin 1 .. n - 1 + m
      <4>1. i \notin 1 .. n
        BY <2>2, <2>5, <2>6, <3>3
      <4> QED BY <2>5, <2>6, <3>3, <4>1
    <3> QED BY <1>9, <3>1, <3>2, <3>3
  <2> QED BY <2>1, <2>7
<1>18. Cardinality(Lost') = Cardinality(Elses(nodes')) + Cardinality(Waits(calls'))
  <2>1. Cardinality(Lost) = Cardinality(Elses(nodes)) + Cardinality(Waits(calls))
    BY DEF OwnerInv
  <2>2. /\ IsFiniteSet(Lost) /\ Cardinality(Lost) \in Nat
        /\ Cardinality(Elses(nodes)) \in Nat
        /\ IsFiniteSet(Waits(calls)) /\ Cardinality(Waits(calls)) \in Nat
        /\ Lost \subseteq DOMAIN nodes
    BY FiniteParts
  <2>3. CASE ~ Waiting(fs[1])
    <3>1. Lost' = Lost /\ Waits(calls') = Waits(calls)
      BY <1>13, <1>17, <2>3
    <3> QED BY <1>15, <2>1, <3>1
  <2>4. CASE Waiting(fs[1])
    <3>1. PICK g : gone = {g}
      BY <2>4
    <3>2. Lost' = Lost \cup {g} /\ g \notin Lost
      BY <1>13, <1>14, <2>2, <3>1
    <3>3. Waits(calls') = Waits(calls) \cup {n}
      BY <1>17, <2>4
    <3>4. Cardinality(Lost \cup {g}) = Cardinality(Lost) + 1
      BY <2>2, <3>2, FS_AddElement
    <3>5. Cardinality(Waits(calls) \cup {n}) = Cardinality(Waits(calls)) + 1
      BY <1>17, <2>2, FS_AddElement
    <3> QED BY <1>15, <2>1, <2>2, <3>2, <3>3, <3>4, <3>5
  <2> QED BY <2>3, <2>4
<1>19. outcome' = "parsing"
  BY <1>12
<1>20. Owned(Holdings(nodes, calls, stmts), nodes)'
  BY <1>2, <1>7, <1>12 DEF Passes
<1> QED BY <1>1, <1>11, <1>12, <1>16, <1>18, <1>19, <1>20 DEF OwnerInv

LEMMA NothingMore ==
  ASSUME ParserInv, OwnerInv, outcome = "parsing"
  PROVE  /\ Top.kids \o << >> = Top.kids
         /\ \A k \in Nat : Append(Top.kids, k) = Top.kids \o <<k>>
         /\ \A S : \A ks \in Seq(S) : << >> \o ks = ks
<1>1. Top.kids \in Seq(DOMAIN nodes)
  BY OwnerReady
<1>2. \A S : \A ks \in Seq(S) : << >> \o ks = ks /\ ks \o << >> = ks
  BY ConcatEmptySeq
<1>3. \A k \in Nat : Append(Top.kids, k) = Top.kids \o <<k>>
  <2> SUFFICES ASSUME NEW k \in Nat
               PROVE  Append(Top.kids, k) = Top.kids \o <<k>>
    OBVIOUS
  <2>1. Top.kids \in Seq(DOMAIN nodes \cup {k})
    BY <1>1, SeqGrows
  <2> QED BY <2>1, AppendIsConcat
<1> QED BY <1>1, <1>2, <1>3

\* One, two or three frames.
LEMMA HandsOne ==
  ASSUME ParserInv, ParserInv', OwnerInv, outcome = "parsing", Keep,
         ~ Waiting(Top), NEW f, Become(<<f>>), NEW more, Fresh(more),
         f.kids = Top.kids \o more, f.fn \notin Bare, ~ Waiting(f)
  PROVE  OwnerInv'
<1> DEFINE fs == <<f>>
<1>1. fs \in Seq({f}) /\ Len(fs) = 1 /\ fs[1] = f /\ Become(fs)
  OBVIOUS
<1> HIDE DEF fs
<1>2. 1 .. Len(fs) = {1}
  BY <1>1
<1>3. HandsOver(fs, 1, more)
  BY <1>1, <1>2 DEF HandsOver
<1> QED BY <1>1, <1>3, Hands DEF Fresh

LEMMA HandsTwo ==
  ASSUME ParserInv, ParserInv', OwnerInv, outcome = "parsing", Keep,
         ~ Waiting(Top), NEW f, NEW g, Become(<<f, g>>), NEW more, Fresh(more),
         f.fn \notin Bare, ~ Waiting(f), ~ Waiting(g),
         \/ f.kids = Top.kids \o more /\ g.kids = << >>
         \/ f.kids = << >> /\ g.kids = Top.kids \o more /\ g.fn \notin Bare
  PROVE  OwnerInv'
<1> DEFINE fs == <<f, g>>
<1>1. /\ fs \in Seq({f, g}) /\ Len(fs) = 2 /\ fs[1] = f /\ fs[2] = g
      /\ Become(fs)
  OBVIOUS
<1> HIDE DEF fs
<1>2. 1 .. Len(fs) = {1, 2}
  BY <1>1
<1>3. HandsOver(fs, 1, more) \/ HandsOver(fs, 2, more)
  BY <1>1, <1>2 DEF HandsOver
<1> QED BY <1>1, <1>3, Hands DEF Fresh

\* parseIf drops the new node g, and calls parseBlock for the else body.
LEMMA HandsElse ==
  ASSUME ParserInv, ParserInv', OwnerInv, outcome = "parsing", Keep,
         ~ Waiting(Top), NEW f, NEW h, Become(<<f, h>>), NEW g,
         Allots(<< >>, {g}), f.fn \notin Bare, Waiting(f), ~ Waiting(h),
         f.kids = Top.kids, Len(Top.kids) = 2, h.kids = << >>
  PROVE  OwnerInv'
<1> DEFINE fs == <<f, h>>
<1>1. /\ fs \in Seq({f, h}) /\ Len(fs) = 2 /\ fs[1] = f /\ fs[2] = h
      /\ Become(fs)
  OBVIOUS
<1>2. Top.kids = Top.kids \o << >>
  BY NothingMore
<1> HIDE DEF fs
<1>3. 1 .. Len(fs) = {1, 2}
  BY <1>1
<1>4. HandsOver(fs, 1, << >>)
  BY <1>1, <1>2, <1>3 DEF HandsOver
<1> QED BY <1>1, <1>4, Hands

LEMMA HandsThree ==
  ASSUME ParserInv, ParserInv', OwnerInv, outcome = "parsing", Keep,
         ~ Waiting(Top), NEW e, NEW f, NEW g, Become(<<e>> \o <<f, g>>),
         NEW more, Fresh(more), ~ Waiting(e), ~ Waiting(f), ~ Waiting(g),
         e.fn \notin Bare, f.fn \notin Bare, e.kids = << >>, g.kids = << >>,
         f.kids = Top.kids \o more
  PROVE  OwnerInv'
<1> DEFINE fs == <<e, f, g>>
<1>1. /\ fs \in Seq({e, f, g}) /\ Len(fs) = 3 /\ fs[1] = e /\ fs[2] = f
      /\ fs[3] = g
  OBVIOUS
<1>2. Become(fs)
  BY TupleConcat
<1> HIDE DEF fs
<1>3. 1 .. Len(fs) = {1, 2, 3}
  BY <1>1
<1>4. HandsOver(fs, 2, more)
  BY <1>1, <1>3 DEF HandsOver
<1> QED BY <1>1, <1>2, <1>4, Hands DEF Fresh

\* A function returns ks to the frame below, which waited for it.
LEMMA LeanReturn ==
  ASSUME NEW ns, NEW c \in Seq(Frames(ns)), Len(c) >= 2, Lean(c),
         NEW ks \in Seq(DOMAIN ns), Len(ks) = 1 \/ ~ Waiting(c[Len(c) - 1])
  PROVE  /\ Lean(Deliver(Front(c), ks))
         /\ Waits(Deliver(Front(c), ks)) = Waits(c) \ {Len(c)}
<1> DEFINE d == Deliver(Front(c), ks)
           n == Len(c) - 1
<1>1. /\ n \in Nat \ {0}
      /\ d \in Seq(Frames(ns)) /\ Len(d) = n
      /\ \A i \in 1 .. n - 1 : d[i] = c[i]
      /\ d[n].fn = c[n].fn /\ d[n].type = c[n].type
      /\ Len(d[n].kids) = Len(c[n].kids) + Len(ks)
  BY DeliverSeq
<1>2. Len(c) \in Nat /\ DOMAIN c = 1 .. Len(c)
  BY LenProperties
<1>3. Len(c) = n + 1 /\ DOMAIN c = 1 .. n + 1
  BY <1>2
<1> HIDE DEF d, n
<1>4. DOMAIN d = 1 .. n
  BY <1>1, LenProperties
<1>5. \A i \in 1 .. n : /\ i \in DOMAIN c /\ i # Len(c) /\ d[i].fn = c[i].fn
                        /\ d[i].type = c[i].type
  <2> SUFFICES ASSUME NEW i \in 1 .. n
               PROVE  /\ i \in DOMAIN c /\ i # Len(c) /\ d[i].fn = c[i].fn
                      /\ d[i].type = c[i].type
    OBVIOUS
  <2>1. i \in 1 .. n - 1 \/ i = n
    BY <1>1
  <2>2. i \in DOMAIN c /\ i # Len(c)
    BY <1>1, <1>3
  <2> QED BY <1>1, <2>1, <2>2
<1>6. \A i \in 1 .. n : d[i].fn \notin Bare
  BY <1>5 DEF Lean
<1>7. \A i \in 1 .. n : Waiting(d[i]) <=> Waiting(c[i])
  BY <1>5 DEF Waiting
<1>8. \A i \in 1 .. n : Waiting(d[i]) => Len(d[i].kids) = IF i = n THEN 3 ELSE 2
  <2> SUFFICES ASSUME NEW i \in 1 .. n, Waiting(d[i])
               PROVE  Len(d[i].kids) = IF i = n THEN 3 ELSE 2
    OBVIOUS
  <2>1. Len(c[i].kids) = 2
    BY <1>5, <1>7 DEF Lean
  <2>2. CASE i = n
    <3>1. Waiting(c[n])
      BY <1>7, <2>2
    <3>2. n = Len(c) - 1
      BY DEF n
    <3>3. Len(ks) = 1
      BY <3>1, <3>2
    <3>4. c[n].kids = c[i].kids /\ d[n].kids = d[i].kids
      BY <2>2
    <3>5. Len(d[n].kids) = 2 + 1
      BY <1>1, <2>1, <3>3, <3>4
    <3> QED BY <2>2, <3>4, <3>5
  <2>3. CASE i # n
    <3>1. i \in 1 .. n - 1
      BY <1>1, <2>3
    <3> QED BY <1>1, <2>1, <2>3, <3>1
  <2> QED BY <2>2, <2>3
<1>9. Lean(d)
  BY <1>1, <1>4, <1>6, <1>8 DEF Lean
<1>10. Waits(d) = Waits(c) \ {Len(c)}
  <2>1. \A i \in DOMAIN c \ {Len(c)} : i \in 1 .. n
    BY <1>1, <1>3
  <2> QED BY <1>4, <1>5, <1>7, <2>1 DEF Waits
<1> QED BY <1>9, <1>10 DEF d

LEMMA ReturnsHeld ==
  ASSUME ParserInv, ParserInv', OwnerInv, outcome = "parsing",
         UNCHANGED <<stmts, outcome, nodes>>, Len(calls) >= 2,
         calls' = Deliver(Below, Top.kids), ~ Waiting(Top),
         Len(Top.kids) = 1 \/ ~ Waiting(calls[Len(calls) - 1])
  PROVE  OwnerInv'
<1>1. /\ Heap(nodes) /\ calls \in Seq(Frames(nodes)) /\ calls # << >>
      /\ stmts = << >> /\ stmts \in Seq(DOMAIN nodes)
      /\ Owned(Holdings(nodes, calls, stmts), nodes) /\ Lean(calls)
      /\ Top.kids \in Seq(DOMAIN nodes)
  BY OwnerReady
<1>2. calls' = Deliver(Front(calls), Last(calls).kids)
  BY DEF Below, Top
<1>3. /\ Owned(Holdings(nodes, calls', stmts), nodes)
      /\ Unheld(Holdings(nodes, calls', stmts), nodes) = Lost
  BY <1>1, <1>2, ReturnOwns DEF Lost, Passes
<1>4. Lean(calls') /\ Waits(calls') = Waits(calls) \ {Len(calls)}
  BY <1>1, LeanReturn DEF Below
<1>5. Waits(calls') = Waits(calls)
  <2>1. Top = calls[Len(calls)]
    BY OwnerReady
  <2>2. Len(calls) \notin Waits(calls)
    BY <2>1 DEF Waits
  <2> QED BY <1>4, <2>2
<1>6. Lost' = Lost
  BY <1>3 DEF Lost
<1> QED BY <1>1, <1>3, <1>4, <1>5, <1>6 DEF OwnerInv

LEMMA ReturnsMade ==
  ASSUME ParserInv, ParserInv', OwnerInv, outcome = "parsing", Keep,
         Top.fn \notin Loops, NEW kind, NEW type,
         ReturnNew(kind, type, Top.kids), kind = "Empty" => Top.kids = << >>,
         kind = "If" /\ type = "ELSE" <=> Waiting(Top)
  PROVE  OwnerInv'
<1> DEFINE m   == Inner(kind, type, Top.kids)
           new == <<m>>
<1>1. /\ Heap(nodes) /\ calls \in Seq(Frames(nodes)) /\ calls # << >>
      /\ stmts = << >> /\ stmts \in Seq(DOMAIN nodes)
      /\ Owned(Holdings(nodes, calls, stmts), nodes) /\ Lean(calls)
  BY OwnerReady
<1>2. Len(calls) >= 2
  BY Ready
<1>3. New(new) /\ calls' = Deliver(Front(calls), <<NewAt>>)
  BY DEF ReturnNew, Below
<1>4. new \in Seq({m}) /\ Len(new) = 1 /\ new[1] = m
  OBVIOUS
<1>5. m.kids = Last(calls).kids /\ m.kind = kind /\ m.type = type
  BY DEF Inner, Top
<1> HIDE DEF new, m
<1>6. /\ NewAt \in Nat /\ Len(nodes) \in Nat /\ Len(new) \in Nat
      /\ DOMAIN nodes = 1 .. Len(nodes)
      /\ DOMAIN nodes' = 1 .. Len(nodes) + Len(new)
      /\ DOMAIN nodes \subseteq DOMAIN nodes'
      /\ \A k \in DOMAIN nodes : nodes'[k] = nodes[k]
      /\ \A i \in 1 .. Len(new) : nodes'[Len(nodes) + i] = new[i]
  BY <1>3, <1>4, NewNodes
<1>7. /\ NewAt \notin DOMAIN nodes /\ DOMAIN nodes' = DOMAIN nodes \cup {NewAt}
      /\ nodes'[NewAt] = m
  <2>1. NewAt = Len(nodes) + 1
    BY DEF NewAt
  <2>2. nodes'[Len(nodes) + 1] = m
    BY <1>4, <1>6
  <2>3. NewAt \notin DOMAIN nodes /\ DOMAIN nodes' = DOMAIN nodes \cup {NewAt}
    BY <1>4, <1>6, <2>1
  <2> QED BY <2>1, <2>2, <2>3
<1>8. /\ Owned(Holdings(nodes', calls', stmts), nodes')
      /\ Unheld(Holdings(nodes', calls', stmts), nodes') = Lost
  <2>1. nodes'[NewAt].kids = Last(calls).kids
    BY <1>5, <1>7
  <2>2. Passes(nodes, nodes', Holdings(nodes, calls, stmts),
               Holdings(nodes', Deliver(Front(calls), <<NewAt>>), stmts), {})
    BY <1>1, <1>2, <1>6, <1>7, <2>1, ReturnNewOwns
  <2> QED BY <1>3, <2>2 DEF Lost, Passes
<1>9. Lean(calls') /\ Waits(calls') = Waits(calls) \ {Len(calls)}
  <2>1. calls \in Seq(Frames(nodes'))
    <3>1. Frames(nodes) \subseteq Frames(nodes')
      BY <1>6, FramesGrow
    <3> QED BY <1>1, <3>1, SeqGrows
  <2>2. <<NewAt>> \in Seq(DOMAIN nodes') /\ Len(<<NewAt>>) = 1
    BY <1>7, Tuples
  <2> QED BY <1>1, <1>2, <1>3, <2>1, <2>2, LeanReturn
<1>10. stmts' = stmts /\ outcome' = outcome
  BY DEF Keep
<1>11. Lost' = Lost
  BY <1>8, <1>10 DEF Lost
<1>12. \A k \in DOMAIN nodes' : nodes'[k].kind = "Empty" => nodes'[k].kids = << >>
  <2>1. \A k \in DOMAIN nodes : nodes[k].kind = "Empty" => nodes[k].kids = << >>
    BY DEF OwnerInv
  <2>2. m.kind = "Empty" => m.kids = << >>
    BY <1>5 DEF Top
  <2> QED BY <1>6, <1>7, <2>1, <2>2
<1>13. Elses(nodes') = Elses(nodes) \cup (IF Waiting(Top) THEN {NewAt} ELSE {})
  <2>1. m.kind = "If" /\ m.type = "ELSE" <=> Waiting(Top)
    BY <1>5
  <2> QED BY <1>6, <1>7, <2>1 DEF Elses
<1>14. Cardinality(Lost') = Cardinality(Elses(nodes')) + Cardinality(Waits(calls'))
  <2>1. Cardinality(Lost) = Cardinality(Elses(nodes)) + Cardinality(Waits(calls))
    BY DEF OwnerInv
  <2>2. /\ IsFiniteSet(Elses(nodes)) /\ Cardinality(Elses(nodes)) \in Nat
        /\ IsFiniteSet(Waits(calls)) /\ Cardinality(Waits(calls)) \in Nat
        /\ Elses(nodes) \subseteq DOMAIN nodes
    BY FiniteParts
  <2>3. Top = calls[Len(calls)] /\ Len(calls) \in DOMAIN calls
    BY OwnerReady
  <2>4. CASE ~ Waiting(Top)
    <3>1. Len(calls) \notin Waits(calls)
      BY <2>3, <2>4 DEF Waits
    <3>2. Waits(calls') = Waits(calls) /\ Elses(nodes') = Elses(nodes)
      BY <1>9, <1>13, <2>4, <3>1
    <3> QED BY <1>11, <2>1, <3>2
  <2>5. CASE Waiting(Top)
    <3>1. Len(calls) \in Waits(calls)
      BY <2>3, <2>5 DEF Waits
    <3>2. Cardinality(Waits(calls) \ {Len(calls)}) = Cardinality(Waits(calls)) - 1
      BY <2>2, <3>1, FS_RemoveElement
    <3>3. NewAt \notin Elses(nodes)
      BY <1>7, <2>2
    <3>4. Cardinality(Elses(nodes) \cup {NewAt}) = Cardinality(Elses(nodes)) + 1
      BY <2>2, <3>3, FS_AddElement
    <3> QED BY <1>9, <1>11, <1>13, <2>1, <2>2, <2>5, <3>2, <3>4
  <2> QED BY <2>4, <2>5
<1>15. Owned(Holdings(nodes, calls, stmts), nodes)'
  BY <1>8, <1>10
<1> QED BY <1>1, <1>9, <1>10, <1>12, <1>14, <1>15 DEF OwnerInv

LEMMA StopsOwner ==
  ASSUME OwnerInv, outcome = "parsing", NEW how, Stop(how),
         how \notin {"parsing", "DONE"}
  PROVE  OwnerInv'
BY DEF OwnerInv, Stop, Lost

\* The innermost function calls another.
LEMMA PushesOwner ==
  ASSUME ParserInv, ParserInv', OwnerInv, outcome = "parsing", Keep,
         UNCHANGED nodes, NEW g, g.kids = << >>, calls' = Append(calls, g),
         Top.fn \notin Bare, ~ Waiting(Top), ~ Waiting(g)
  PROVE  OwnerInv'
<1>1. calls \in Seq(Frames(nodes)) /\ calls # << >>
  BY OwnerReady
<1>2. calls' = Front(calls) \o <<Top, g>>
  <2> DEFINE S == Frames(nodes) \cup {g}
  <2>1. calls \in Seq(S) /\ g \in S
    BY <1>1, SeqGrows
  <2> HIDE DEF S
  <2> QED BY <1>1, <2>1, AppendIsBecome DEF Top
<1>3. Become(<<Top, g>>)
  BY <1>2 DEF Become, Below
<1>4. Top.kids = Top.kids \o << >>
  BY NothingMore
<1>5. Fresh(<< >>)
  BY FreshNone
<1> QED BY <1>3, <1>4, <1>5, HandsTwo

-----------------------------------------------------------------------------
\* The prefix functions.

LEMMA FrameKids ==
  /\ \A prec, ks : /\ InfixLoop(prec, ks).kids = ks
                   /\ InfixLoop(prec, ks).fn = "InfixLoop"
                   /\ ~ Waiting(InfixLoop(prec, ks))
  /\ \A fn, ks : /\ Fn(fn, ks).kids = ks /\ Fn(fn, ks).fn = fn
                 /\ ~ Waiting(Fn(fn, ks))
  /\ \A fn, type, ks : /\ Typed(fn, type, ks).kids = ks
                       /\ Typed(fn, type, ks).fn = fn
                       /\ Waiting(Typed(fn, type, ks)) <=> fn = "If" /\ type = "ELSE"
  /\ \A prec : ParseExpr(prec).kids = << >> /\ ~ Waiting(ParseExpr(prec))
  /\ "InfixLoop" \notin Bare
  /\ \A kind, val : Leaf(kind, val).kids = << >> /\ Leaf(kind, val).kind = kind
  /\ \A kind, type, ks : /\ Inner(kind, type, ks).kids = ks
                         /\ Inner(kind, type, ks).kind = kind
BY DEF InfixLoop, Fn, Typed, ParseExpr, Frame, Bare, Leaf, Inner, Waiting

\* A function is called and calls ParseExpr.
LEMMA CallsOwner ==
  ASSUME ParserInv, ParserInv', OwnerInv, outcome = "parsing", Keep,
         ~ Waiting(Top), NEW fn, fn \notin Bare, NEW type,
         fn # "If" \/ type # "ELSE", NEW prec, NEW kids, NEW more, Fresh(more), kids = Top.kids \o more,
         Become(<<InfixLoop(Top.prec, << >>)>>
                  \o <<Typed(fn, type, kids), ParseExpr(prec)>>)
  PROVE  OwnerInv'
<1> DEFINE e == InfixLoop(Top.prec, << >>)
           f == Typed(fn, type, kids)
           g == ParseExpr(prec)
<1>1. /\ e.fn \notin Bare /\ f.fn \notin Bare /\ e.kids = << >> /\ g.kids = << >>
      /\ f.kids = Top.kids \o more
      /\ ~ Waiting(e) /\ ~ Waiting(f) /\ ~ Waiting(g)
  <2>1. /\ e.fn = "InfixLoop" /\ "InfixLoop" \notin Bare /\ e.kids = << >>
        /\ ~ Waiting(e)
    BY FrameKids
  <2>2. f.fn = fn /\ f.kids = kids /\ ~ Waiting(f)
    <3>1. f.fn = fn /\ f.kids = kids /\ (Waiting(f) <=> fn = "If" /\ type = "ELSE")
      BY DEF Typed, Frame, Waiting
    <3> QED BY <3>1
  <2>3. g.kids = << >> /\ ~ Waiting(g)
    BY FrameKids
  <2> HIDE DEF e, f, g
  <2> QED BY <2>1, <2>2, <2>3
<1>2. Become(<<e>> \o <<f, g>>)
  OBVIOUS
<1> HIDE DEF e, f, g
<1> QED BY <1>1, <1>2, HandsThree

\* What ParseExpr, which holds nothing, hands over.
LEMMA StartsWith ==
  ASSUME ParserInv, OwnerInv, outcome = "parsing", Top.fn \in Bare
  PROVE  /\ Top.kids = << >> /\ ~ Waiting(Top)
         /\ << >> = Top.kids \o << >>
         /\ <<NewAt>> = Top.kids \o <<NewAt>>
         /\ <<NewAt, NewAt + 1>> = Top.kids \o <<NewAt, NewAt + 1>>
<1>1. Top.kids = << >> /\ ~ Waiting(Top)
  BY OwnerReady DEF Bare, Waiting
<1>2. /\ << >> \in Seq({NewAt, NewAt + 1}) /\ <<NewAt>> \in Seq({NewAt, NewAt + 1})
      /\ <<NewAt, NewAt + 1>> \in Seq({NewAt, NewAt + 1})
  OBVIOUS
<1>3. \A S : \A ks \in Seq(S) : << >> \o ks = ks
  BY NothingMore
<1> QED BY <1>1, <1>2, <1>3

LEMMA ParseNothingOwner == ParserInv /\ ParserInv' /\ OwnerInv /\ ParseNothing => OwnerInv'
<1> SUFFICES ASSUME ParserInv, ParserInv', OwnerInv, ParseNothing
             PROVE  OwnerInv'
  OBVIOUS
<1>1. /\ outcome = "parsing" /\ Top.fn \in Bare /\ Top.fn \notin Loops /\ Keep
      /\ ReturnNew("Empty", "NONE", << >>)
  BY DEF ParseNothing, Running, Bare, Loops
<1>2. Top.kids = << >> /\ ~ Waiting(Top)
  BY <1>1, StartsWith
<1>3. ~ ("Empty" = "If" /\ "NONE" = "ELSE")
  OBVIOUS
<1> QED BY <1>1, <1>2, <1>3, ReturnsMade

LEMMA ParseLeafOwner == ParserInv /\ ParserInv' /\ OwnerInv /\ ParseLeaf => OwnerInv'
<1> SUFFICES ASSUME ParserInv, ParserInv', OwnerInv, ParseLeaf
             PROVE  OwnerInv'
  OBVIOUS
<1> DEFINE m == Leaf(LeafKind[currtype], toks[tokit].lit)
           f == InfixLoop(Top.prec, <<NewAt>>)
<1>1. /\ outcome = "parsing" /\ Top.fn \in Bare /\ Keep
      /\ New(<<m>>) /\ Become(<<f>>)
  BY DEF ParseLeaf, Prefix, Running, Bare
<1>2. m.kids = << >> /\ f.kids = <<NewAt>> /\ f.fn \notin Bare
      /\ ~ Waiting(f)
  BY FrameKids
<1>3. f.kids = Top.kids \o <<NewAt>> /\ ~ Waiting(Top)
  BY <1>1, <1>2, StartsWith
<1>5. m.kind # "If"
  <2>1. currtype \in DOMAIN LeafKind
    BY DEF ParseLeaf, LeafTypes, Prefix
  <2>2. LeafKind[currtype] # "If"
    BY <2>1 DEF LeafKind
  <2> QED BY <2>2, FrameKids
<1> HIDE DEF m, f
<1>4. Fresh(<<NewAt>>)
  BY <1>1, <1>2, <1>5, FreshOne
<1> QED BY <1>1, <1>2, <1>3, <1>4, HandsOne

LEMMA ParseUnaryOpOwner == ParserInv /\ ParserInv' /\ OwnerInv /\ ParseUnaryOp => OwnerInv'
<1> SUFFICES ASSUME ParserInv, ParserInv', OwnerInv, ParseUnaryOp
             PROVE  OwnerInv'
  OBVIOUS
<1>1. /\ outcome = "parsing" /\ Top.fn \in Bare /\ UNCHANGED nodes /\ Keep
      /\ Become(<<InfixLoop(Top.prec, << >>)>>
                  \o <<Typed("UnaryOp", currtype, << >>),
                       ParseExpr(PrefixPrec(currtype))>>)
      /\ "UnaryOp" \notin Bare /\ "UnaryOp" # "If"
  BY DEF ParseUnaryOp, Prefix, Running, CallPrefix, Bare
<1> QED BY <1>1, StartsWith, FreshNone, CallsOwner

LEMMA ParseGroupingOwner == ParserInv /\ ParserInv' /\ OwnerInv /\ ParseGrouping => OwnerInv'
<1> SUFFICES ASSUME ParserInv, ParserInv', OwnerInv, ParseGrouping
             PROVE  OwnerInv'
  OBVIOUS
<1>1. outcome = "parsing" /\ Top.fn \in Bare /\ Keep /\ ~ Waiting(Top)
  BY DEF ParseGrouping, Prefix, Running, Bare, Waiting
<1>2. CASE TypeIn(1) = "RIGHT_PAREN"
  <2> DEFINE m == Inner("Empty", "NONE", << >>)
             f == InfixLoop(Top.prec, <<NewAt>>)
  <2>1. New(<<m>>) /\ Become(<<f>>)
    BY <1>2 DEF ParseGrouping
  <2>2. m.kids = << >> /\ f.kids = <<NewAt>> /\ f.fn \notin Bare
        /\ m.kind # "If" /\ ~ Waiting(f)
    BY FrameKids
  <2>3. f.kids = Top.kids \o <<NewAt>>
    BY <1>1, <2>2, StartsWith
  <2> HIDE DEF m, f
  <2>4. Fresh(<<NewAt>>)
    BY <2>1, <2>2, FreshOne
  <2> QED BY <1>1, <2>1, <2>2, <2>3, <2>4, HandsOne
<1>3. CASE TypeIn(1) # "RIGHT_PAREN"
  <2>1. /\ UNCHANGED nodes /\ "Grouping" \notin Bare /\ "Grouping" # "If"
        /\ Become(<<InfixLoop(Top.prec, << >>)>>
                    \o <<Typed("Grouping", "NONE", << >>),
                         ParseExpr(PrefixPrec("LEFT_PAREN"))>>)
    BY <1>3 DEF ParseGrouping, CallPrefix, Fn, Typed, Bare
  <2> QED BY <1>1, <2>1, StartsWith, FreshNone, CallsOwner
<1> QED BY <1>2, <1>3

LEMMA ParseKeywordOwner == ParserInv /\ ParserInv' /\ OwnerInv /\ ParseKeyword => OwnerInv'
<1> SUFFICES ASSUME ParserInv, ParserInv', OwnerInv, ParseKeyword
             PROVE  OwnerInv'
  OBVIOUS
<1>1. /\ outcome = "parsing" /\ Top.fn \in Bare
      /\ currtype \in {"PRINT", "RET", "VAR", "IF"}
      /\ UNCHANGED nodes /\ Keep
  BY DEF ParseKeyword, Prefix, Running, Bare
<1>2. PICK fn \in {"Print", "Return", "Var", "If"}, prec \in {0, 1} :
        Become(<<InfixLoop(Top.prec, << >>)>>
                 \o <<Typed(fn, "NONE", << >>), ParseExpr(prec)>>)
  <2>1. CASE currtype = "PRINT"
    BY <2>1 DEF ParseKeyword, CallPrefix, Fn, Typed
  <2>2. CASE currtype = "VAR"
    BY <2>2 DEF ParseKeyword, CallPrefix, Fn, Typed
  <2>3. CASE currtype = "IF"
    BY <2>3 DEF ParseKeyword, CallPrefix, Fn, Typed
  <2>4. CASE currtype = "RET"
    BY <2>4, Precedences DEF ParseKeyword, CallPrefix, Fn, Typed
  <2> QED BY <1>1, <2>1, <2>2, <2>3, <2>4
<1>3. fn \notin Bare /\ "NONE" # "ELSE"
  BY DEF Bare
<1> QED BY <1>1, <1>2, <1>3, StartsWith, FreshNone, CallsOwner

LEMMA ParseForOwner == ParserInv /\ ParserInv' /\ OwnerInv /\ ParseFor => OwnerInv'
<1> SUFFICES ASSUME ParserInv, ParserInv', OwnerInv, ParseFor
             PROVE  OwnerInv'
  OBVIOUS
<1>1. outcome = "parsing" /\ Top.fn \in Bare
  BY DEF ParseFor, Prefix, Running, Bare
<1>2. CASE TypeIn(1) # "ID" \/ TypeIn(2) # "COLON"
  BY <1>1, <1>2, StopsOwner DEF ParseFor
<1>3. CASE ~ (TypeIn(1) # "ID" \/ TypeIn(2) # "COLON")
  <2> DEFINE m == Leaf("Name", toks[tokit + 1].lit)
  <2>1. /\ New(<<m>>) /\ Keep /\ "For" \notin Bare /\ "For" # "If"
        /\ Become(<<InfixLoop(Top.prec, << >>)>>
                    \o <<Typed("For", "NONE", <<NewAt>>), ParseExpr(0)>>)
    BY <1>3 DEF ParseFor, CallPrefix, Fn, Typed, Bare
  <2>2. m.kids = << >> /\ m.kind # "If"
    BY FrameKids
  <2> HIDE DEF m
  <2>3. Fresh(<<NewAt>>)
    BY <2>1, <2>2, FreshOne
  <2> QED BY <1>1, <2>1, <2>3, StartsWith, CallsOwner
<1> QED BY <1>2, <1>3

LEMMA ParseFnDefOwner == ParserInv /\ ParserInv' /\ OwnerInv /\ ParseFnDef => OwnerInv'
<1> SUFFICES ASSUME ParserInv, ParserInv', OwnerInv, ParseFnDef
             PROVE  OwnerInv'
  OBVIOUS
<1>1. /\ outcome = "parsing" /\ Top.fn \in Bare
      /\ tokit \in Nat /\ Len(toks) \in Nat /\ "FnDef" \notin Bare
      /\ "FnDef" # "If" /\ ~ Waiting(Top)
  BY Ready DEF ParseFnDef, Prefix, Running, Bare, Waiting
<1>2. ASSUME NEW how \in {"ABORT", "EXIT", "UNDEFINED"}, Stop(how)
      PROVE  OwnerInv'
  BY <1>1, <1>2, StopsOwner
<1>3. CASE TypeIn(1) # "ID"
  BY <1>2, <1>3 DEF ParseFnDef
<1>4. CASE TypeIn(1) = "ID" /\ tokit + 2 > Len(toks)
  BY <1>2, <1>4 DEF ParseFnDef
<1>5. CASE TypeIn(1) = "ID" /\ ~ (tokit + 2 > Len(toks)) /\ TypeIn(2) # "LEFT_PAREN"
  <2>1. tokit + 2 <= Len(toks)
    BY <1>1, <1>5
  <2> QED BY <1>2, <1>5, <2>1 DEF ParseFnDef
<1>6. CASE TypeIn(1) = "ID" /\ ~ (tokit + 2 > Len(toks)) /\ TypeIn(2) = "LEFT_PAREN"
  <2> DEFINE name  == Leaf("Name", toks[tokit + 1].lit)
             empty == Inner("Empty", "NONE", << >>)
  <2>1. /\ IF TypeIn(3) = "RIGHT_PAREN"
           THEN /\ New(<<name, empty>>)
                /\ CallPrefix(<<Fn("FnDef", <<NewAt, NewAt + 1>>)>>)
           ELSE /\ New(<<name>>)
                /\ CallPrefix(<<Fn("FnDef", <<NewAt>>), ParseExpr(0)>>)
        /\ Keep
    BY <1>6 DEF ParseFnDef
  <2>2. name.kids = << >> /\ empty.kids = << >>
        /\ name.kind # "If" /\ empty.kind # "If"
    BY FrameKids
  <2> HIDE DEF name, empty
  <2>3. CASE TypeIn(3) = "RIGHT_PAREN"
    <3> DEFINE e == InfixLoop(Top.prec, << >>)
               f == Fn("FnDef", <<NewAt, NewAt + 1>>)
    <3>1. New(<<name, empty>>) /\ Become(<<e, f>>)
      BY <2>1, <2>3, TupleConcat DEF CallPrefix
    <3>2. Fresh(<<NewAt, NewAt + 1>>)
      BY <2>2, <3>1, FreshTwo
    <3>3. /\ e.fn \notin Bare /\ e.kids = << >> /\ f.fn \notin Bare
          /\ f.kids = Top.kids \o <<NewAt, NewAt + 1>>
          /\ ~ Waiting(e) /\ ~ Waiting(f)
      <4>1. e.fn \notin Bare /\ e.kids = << >> /\ ~ Waiting(e)
        BY FrameKids
      <4>2. f.fn = "FnDef" /\ f.kids = <<NewAt, NewAt + 1>> /\ ~ Waiting(f)
        BY FrameKids
      <4>3. <<NewAt, NewAt + 1>> = Top.kids \o <<NewAt, NewAt + 1>>
        BY <1>1, StartsWith
      <4> HIDE DEF e, f
      <4> QED BY <1>1, <4>1, <4>2, <4>3
    <3> HIDE DEF e, f
    <3> QED BY <1>1, <2>1, <3>1, <3>2, <3>3, HandsTwo
  <2>4. CASE TypeIn(3) # "RIGHT_PAREN"
    <3>1. /\ New(<<name>>)
          /\ Become(<<InfixLoop(Top.prec, << >>)>>
                      \o <<Typed("FnDef", "NONE", <<NewAt>>), ParseExpr(0)>>)
      BY <2>1, <2>4 DEF CallPrefix, Fn, Typed
    <3>2. Fresh(<<NewAt>>)
      BY <2>2, <3>1, FreshOne
    <3> QED BY <1>1, <2>1, <3>1, <3>2, StartsWith, CallsOwner
  <2> QED BY <2>3, <2>4
<1> QED BY <1>3, <1>4, <1>5, <1>6

LEMMA ParseBlockExprOwner == ParserInv /\ ParserInv' /\ OwnerInv /\ ParseBlockExpr => OwnerInv'
<1> SUFFICES ASSUME ParserInv, ParserInv', OwnerInv, ParseBlockExpr
             PROVE  OwnerInv'
  OBVIOUS
<1> DEFINE e == InfixLoop(Top.prec, << >>)
           f == Fn("Block", << >>)
<1>1. /\ outcome = "parsing" /\ Top.fn \in Bare /\ UNCHANGED nodes /\ Keep
      /\ Become(<<e, f>>)
  BY TupleConcat DEF ParseBlockExpr, Prefix, Running, CallPrefix, Bare
<1>2. e.fn \notin Bare /\ e.kids = << >> /\ f.kids = << >>
      /\ ~ Waiting(e) /\ ~ Waiting(f)
  BY FrameKids
<1>3. e.kids = Top.kids \o << >> /\ ~ Waiting(Top)
  BY <1>1, <1>2, StartsWith
<1> HIDE DEF e, f
<1>4. Fresh(<< >>)
  BY <1>1, FreshNone
<1> QED BY <1>1, <1>2, <1>3, <1>4, HandsTwo

LEMMA PrefixBoomOwner == ParserInv /\ ParserInv' /\ OwnerInv /\ PrefixBoom => OwnerInv'
<1> SUFFICES ASSUME ParserInv, ParserInv', OwnerInv, PrefixBoom
             PROVE  OwnerInv'
  OBVIOUS
<1> QED BY StopsOwner DEF PrefixBoom, Running

-----------------------------------------------------------------------------
\* The infix functions.

LEMMA EndInfixOwner == ParserInv /\ ParserInv' /\ OwnerInv /\ EndInfix => OwnerInv'
<1> SUFFICES ASSUME ParserInv, ParserInv', OwnerInv, EndInfix
             PROVE  OwnerInv'
  OBVIOUS
<1>1. /\ outcome = "parsing" /\ Top.fn \notin Loops
      /\ UNCHANGED <<stmts, outcome, nodes>> /\ calls' = Deliver(Below, Top.kids)
  BY DEF EndInfix, Running, Keep, Loops
<1>2. Len(calls) >= 2 /\ Len(Top.kids) = 1 /\ ~ Waiting(Top)
  BY <1>1, Ready DEF EndInfix, Running, Counted, Arity, Waiting
<1> QED BY <1>1, <1>2, ReturnsHeld

LEMMA ParseBinaryOpOwner == ParserInv /\ ParserInv' /\ OwnerInv /\ ParseBinaryOp => OwnerInv'
<1> SUFFICES ASSUME ParserInv, ParserInv', OwnerInv, ParseBinaryOp
             PROVE  OwnerInv'
  OBVIOUS
<1>1. /\ outcome = "parsing" /\ UNCHANGED nodes /\ Keep /\ "BinaryOp" \notin Bare
      /\ "BinaryOp" # "If" /\ ~ Waiting(Top)
      /\ Become(<<InfixLoop(Top.prec, << >>)>>
                  \o <<Typed("BinaryOp", currtype, Top.kids), ParseExpr(InfixPrec(currtype))>>)
  BY DEF ParseBinaryOp, Infix, Running, CallInfix, Bare, Waiting
<1>2. Top.kids = Top.kids \o << >>
  BY <1>1, NothingMore
<1> QED BY <1>1, <1>2, FreshNone, CallsOwner

LEMMA ParseCallOwner == ParserInv /\ ParserInv' /\ OwnerInv /\ ParseCall => OwnerInv'
<1> SUFFICES ASSUME ParserInv, ParserInv', OwnerInv, ParseCall
             PROVE  OwnerInv'
  OBVIOUS
<1>1. outcome = "parsing" /\ "Call" \notin Bare /\ "Call" # "If" /\ ~ Waiting(Top)
  BY DEF ParseCall, Infix, Running, Bare, Waiting
<1>2. CASE nodes[Top.kids[1]].kind # "Name"
  BY <1>1, <1>2, StopsOwner DEF ParseCall
<1>3. CASE nodes[Top.kids[1]].kind = "Name" /\ TypeIn(1) = "RIGHT_PAREN"
  <2> DEFINE m == Inner("Empty", "NONE", << >>)
             e == InfixLoop(Top.prec, << >>)
             f == Fn("Call", Append(Top.kids, NewAt))
  <2>1. New(<<m>>) /\ Keep /\ Become(<<e, f>>)
    BY <1>3, TupleConcat DEF ParseCall, CallInfix
  <2>2. NewAt \in Nat
    BY LenProperties DEF NewAt, ParserInv, TypeOK, Heap
  <2>3. Append(Top.kids, NewAt) = Top.kids \o <<NewAt>>
    BY <1>1, <2>2, NothingMore
  <2>4. m.kids = << >> /\ e.kids = << >> /\ e.fn \notin Bare
        /\ m.kind # "If" /\ ~ Waiting(e)
    BY FrameKids
  <2>5. f.kids = Append(Top.kids, NewAt) /\ f.fn = "Call" /\ ~ Waiting(f)
    BY FrameKids
  <2> HIDE DEF m, e, f
  <2>6. Fresh(<<NewAt>>)
    BY <2>1, <2>4, FreshOne
  <2>7. f.kids = Top.kids \o <<NewAt>> /\ f.fn \notin Bare /\ ~ Waiting(f)
    BY <1>1, <2>3, <2>5
  <2> QED BY <1>1, <2>1, <2>4, <2>6, <2>7, HandsTwo
<1>4. CASE nodes[Top.kids[1]].kind = "Name" /\ TypeIn(1) # "RIGHT_PAREN"
  <2>1. /\ UNCHANGED nodes /\ Keep
        /\ Become(<<InfixLoop(Top.prec, << >>)>>
                    \o <<Typed("Call", "NONE", Top.kids), ParseExpr(0)>>)
    BY <1>4 DEF ParseCall, CallInfix, Fn, Typed
  <2>2. Top.kids = Top.kids \o << >>
    BY <1>1, NothingMore
  <2> QED BY <1>1, <2>1, <2>2, FreshNone, CallsOwner
<1> QED BY <1>2, <1>3, <1>4

LEMMA ParseSubscriptOwner == ParserInv /\ ParserInv' /\ OwnerInv /\ ParseSubscript => OwnerInv'
<1> SUFFICES ASSUME ParserInv, ParserInv', OwnerInv, ParseSubscript
             PROVE  OwnerInv'
  OBVIOUS
<1>1. outcome = "parsing" /\ "Subscript" \notin Bare /\ "Subscript" # "If" /\ ~ Waiting(Top)
  BY DEF ParseSubscript, Infix, Running, Bare, Waiting
<1>2. CASE TypeIn(1) = "RIGHT_BRACKET"
  BY <1>1, <1>2, StopsOwner DEF ParseSubscript
<1>3. CASE TypeIn(1) # "RIGHT_BRACKET"
  <2>1. /\ UNCHANGED nodes /\ Keep
        /\ Become(<<InfixLoop(Top.prec, << >>)>>
                    \o <<Typed("Subscript", "NONE", Top.kids), ParseExpr(0)>>)
    BY <1>3 DEF ParseSubscript, CallInfix, Fn, Typed
  <2>2. Top.kids = Top.kids \o << >>
    BY <1>1, NothingMore
  <2> QED BY <1>1, <2>1, <2>2, FreshNone, CallsOwner
<1> QED BY <1>2, <1>3

LEMMA ParseCommaListOwner == ParserInv /\ ParserInv' /\ OwnerInv /\ ParseCommaList => OwnerInv'
<1> SUFFICES ASSUME ParserInv, ParserInv', OwnerInv, ParseCommaList
             PROVE  OwnerInv'
  OBVIOUS
<1>1. /\ outcome = "parsing" /\ UNCHANGED nodes /\ Keep /\ "CommaList" \notin Bare
      /\ "CommaList" # "If" /\ ~ Waiting(Top)
      /\ Become(<<InfixLoop(Top.prec, << >>)>>
                  \o <<Typed("CommaList", "NONE", Top.kids), ParseExpr(InfixPrec("COMMA"))>>)
  BY DEF ParseCommaList, Infix, Running, CallInfix, Fn, Typed, Bare, Waiting
<1>2. Top.kids = Top.kids \o << >>
  BY <1>1, NothingMore
<1> QED BY <1>1, <1>2, FreshNone, CallsOwner

-----------------------------------------------------------------------------
\* The functions go on.

LEMMA EndUnaryOpOwner == ParserInv /\ ParserInv' /\ OwnerInv /\ EndUnaryOp => OwnerInv'
<1> SUFFICES ASSUME ParserInv, ParserInv', OwnerInv, EndUnaryOp
             PROVE  OwnerInv'
  OBVIOUS
<1>1. outcome = "parsing" /\ Top.fn \notin Loops /\ ~ Waiting(Top)
      /\ "UnaryOp" # "Empty" /\ "UnaryOp" # "If"
  BY DEF EndUnaryOp, Running, Loops, Waiting
<1>2. CASE nodes[Top.kids[1]].kind = "Name"
  BY <1>1, <1>2, StopsOwner DEF EndUnaryOp
<1>3. CASE nodes[Top.kids[1]].kind # "Name"
  BY <1>1, <1>3, ReturnsMade DEF EndUnaryOp
<1> QED BY <1>2, <1>3

LEMMA EndSimpleOwner == ParserInv /\ ParserInv' /\ OwnerInv /\ EndSimple => OwnerInv'
<1> SUFFICES ASSUME ParserInv, ParserInv', OwnerInv, EndSimple
             PROVE  OwnerInv'
  OBVIOUS
<1>1. /\ outcome = "parsing" /\ Top.fn \notin Loops /\ Keep
      /\ ReturnNew(Top.fn, Top.type, Top.kids) /\ Top.fn # "Empty"
      /\ (Top.fn = "If" /\ Top.type = "ELSE" <=> Waiting(Top))
  BY DEF EndSimple, Loops, Waiting
<1> QED BY <1>1, ReturnsMade

LEMMA EndGroupingOwner == ParserInv /\ ParserInv' /\ OwnerInv /\ EndGrouping => OwnerInv'
<1> SUFFICES ASSUME ParserInv, ParserInv', OwnerInv, EndGrouping
             PROVE  OwnerInv'
  OBVIOUS
<1>1. outcome = "parsing" /\ Top.fn \notin Loops /\ ~ Waiting(Top)
      /\ Len(Top.kids) = 1
  BY Ready DEF EndGrouping, Running, Loops, Waiting, Counted, Arity
<1>2. CASE AtEnd
  BY <1>1, <1>2, StopsOwner DEF EndGrouping, Closing
<1>3. CASE ~ AtEnd /\ currtype = "ID"
  BY <1>1, <1>3, StopsOwner DEF EndGrouping, Closing
<1>4. CASE ~ AtEnd /\ currtype # "ID"
  <2>1. /\ calls' = Deliver(Below, Top.kids)
        /\ UNCHANGED <<stmts, outcome, nodes>>
    BY <1>4 DEF EndGrouping, Closing, Keep
  <2>2. Len(calls) >= 2
    BY <1>1, Ready
  <2> QED BY <1>1, <2>1, <2>2, ReturnsHeld
<1> QED BY <1>2, <1>3, <1>4

LEMMA EndCallOwner == ParserInv /\ ParserInv' /\ OwnerInv /\ EndCall => OwnerInv'
<1> SUFFICES ASSUME ParserInv, ParserInv', OwnerInv, EndCall
             PROVE  OwnerInv'
  OBVIOUS
<1>1. outcome = "parsing" /\ Top.fn \notin Loops /\ ~ Waiting(Top)
      /\ Top.fn # "Empty" /\ Top.fn # "If"
  BY DEF EndCall, Running, Loops, Waiting
<1>2. CASE AtEnd
  BY <1>1, <1>2, StopsOwner DEF EndCall, Closing
<1>3. CASE ~ AtEnd /\ currtype = "ID"
  BY <1>1, <1>3, StopsOwner DEF EndCall, Closing
<1>4. CASE ~ AtEnd /\ currtype # "ID"
  <2>1. ReturnNew(Top.fn, "NONE", Top.kids) /\ Keep
    BY <1>4 DEF EndCall, Closing
  <2> QED BY <1>1, <2>1, ReturnsMade
<1> QED BY <1>2, <1>3, <1>4

\* ParseExpr(0) is called a second time, or parseBlock.
LEMMA PushesNext ==
  ASSUME ParserInv, ParserInv', OwnerInv, outcome = "parsing", Keep,
         UNCHANGED nodes, Top.fn \notin Bare, ~ Waiting(Top),
         calls' = Append(calls, ParseExpr(0)) \/ calls' = Append(calls, Fn("Block", << >>))
  PROVE  OwnerInv'
<1>1. ParseExpr(0).kids = << >> /\ Fn("Block", << >>).kids = << >>
      /\ ~ Waiting(ParseExpr(0)) /\ ~ Waiting(Fn("Block", << >>))
  BY FrameKids
<1> QED BY <1>1, PushesOwner

LEMMA ForBodyOwner == ParserInv /\ ParserInv' /\ OwnerInv /\ ForBody => OwnerInv'
<1> SUFFICES ASSUME ParserInv, ParserInv', OwnerInv, ForBody
             PROVE  OwnerInv'
  OBVIOUS
<1> QED BY PushesNext DEF ForBody, Running, Bare, Waiting

LEMMA IfBodyOwner == ParserInv /\ ParserInv' /\ OwnerInv /\ IfBody => OwnerInv'
<1> SUFFICES ASSUME ParserInv, ParserInv', OwnerInv, IfBody
             PROVE  OwnerInv'
  OBVIOUS
<1>1. ~ Waiting(Top)
  BY OwnerReady DEF IfBody, Running
<1> QED BY <1>1, PushesNext DEF IfBody, Running, Bare

LEMMA FnDefBodyOwner == ParserInv /\ ParserInv' /\ OwnerInv /\ FnDefBody => OwnerInv'
<1> SUFFICES ASSUME ParserInv, ParserInv', OwnerInv, FnDefBody
             PROVE  OwnerInv'
  OBVIOUS
<1>1. outcome = "parsing" /\ Top.fn \notin Bare /\ ~ Waiting(Top)
  BY DEF FnDefBody, Running, Bare, Waiting
<1>2. ASSUME NEW how \in {"ABORT", "EXIT", "UNDEFINED"}, Stop(how)
      PROVE  OwnerInv'
  BY <1>1, <1>2, StopsOwner
<1>3. CASE AtEnd \/ TypeIn(1) = "ID" \/ currtype = "ID"
  BY <1>2, <1>3 DEF FnDefBody, Closing
<1>4. CASE ~ AtEnd /\ TypeIn(1) # "ID" /\ currtype # "ID"
  <2>1. calls' = Append(calls, ParseExpr(0)) /\ UNCHANGED nodes /\ Keep
    BY <1>4 DEF FnDefBody, Closing
  <2> QED BY <1>1, <2>1, PushesNext
<1> QED BY <1>3, <1>4

LEMMA IfElseOwner == ParserInv /\ ParserInv' /\ OwnerInv /\ IfElse => OwnerInv'
<1> SUFFICES ASSUME ParserInv, ParserInv', OwnerInv, IfElse
             PROVE  OwnerInv'
  OBVIOUS
<1> DEFINE m == Inner("Empty", "NONE", << >>)
<1>1. /\ outcome = "parsing" /\ New(<<m>>) /\ Keep /\ "If" \notin Bare
      /\ Len(Top.kids) = 2 /\ ~ Waiting(Top)
  BY OwnerReady DEF IfElse, Running, Bare
<1>2. m.kids = << >> /\ m.kind = "Empty"
  BY FrameKids
<1> HIDE DEF m
<1>3. Fresh(<<NewAt>>) /\ Allots(<< >>, {NewAt})
  BY <1>1, <1>2, FreshOne
<1>4. CASE currtype = "ELSE"
  <2> DEFINE f == Typed("If", "ELSE", Top.kids)
             g == Fn("Block", << >>)
  <2>1. Become(<<f, g>>)
    BY <1>4 DEF IfElse
  <2>2. f.kids = Top.kids /\ f.fn = "If" /\ Waiting(f)
    BY FrameKids
  <2>3. g.kids = << >> /\ ~ Waiting(g)
    BY FrameKids
  <2> HIDE DEF f, g
  <2> QED BY <1>1, <1>3, <2>1, <2>2, <2>3, HandsElse
<1>5. CASE currtype # "ELSE"
  <2> DEFINE f == Fn("If", Append(Top.kids, NewAt))
  <2>1. Become(<<f>>)
    BY <1>5 DEF IfElse
  <2>2. f.kids = Append(Top.kids, NewAt) /\ f.fn = "If" /\ ~ Waiting(f)
    BY FrameKids
  <2>3. NewAt \in Nat
    BY LenProperties DEF NewAt, ParserInv, TypeOK, Heap
  <2>4. Append(Top.kids, NewAt) = Top.kids \o <<NewAt>>
    BY <1>1, <2>3, NothingMore
  <2> HIDE DEF f
  <2> QED BY <1>1, <1>3, <2>1, <2>2, <2>4, HandsOne
<1> QED BY <1>4, <1>5

LEMMA CommaListNextOwner == ParserInv /\ ParserInv' /\ OwnerInv /\ CommaListNext => OwnerInv'
<1> SUFFICES ASSUME ParserInv, ParserInv', OwnerInv, CommaListNext
             PROVE  OwnerInv'
  OBVIOUS
<1>1. outcome = "parsing" /\ Top.fn \notin Bare /\ Top.fn \notin Loops /\ Keep
      /\ ~ Waiting(Top) /\ "CommaList" # "Empty" /\ "CommaList" # "If"
  BY DEF CommaListNext, Running, Bare, Loops, Waiting
<1>2. CASE currtype = "COMMA"
  BY <1>1, <1>2, PushesNext DEF CommaListNext
<1>3. CASE currtype # "COMMA"
  BY <1>1, <1>3, ReturnsMade DEF CommaListNext
<1> QED BY <1>2, <1>3

LEMMA ParseBlockOwner == ParserInv /\ ParserInv' /\ OwnerInv /\ ParseBlock => OwnerInv'
<1> SUFFICES ASSUME ParserInv, ParserInv', OwnerInv, ParseBlock
             PROVE  OwnerInv'
  OBVIOUS
<1> DEFINE f == Fn("EndBlock", << >>)
           g == Fn("Statements", << >>)
<1>1. outcome = "parsing" /\ Top.fn \in Bare
  BY DEF ParseBlock, Running, Bare
<1>2. CASE AtEnd
  BY <1>1, <1>2, StopsOwner DEF ParseBlock
<1>3. CASE ~ AtEnd
  <2>1. /\ Become(IF TypeIn(1) = "RIGHT_BRACE" THEN <<f>> ELSE <<f, g>>)
        /\ UNCHANGED nodes /\ Keep
    BY <1>3 DEF ParseBlock
  <2>2. f.kids = << >> /\ f.fn \notin Bare /\ ~ Waiting(f)
    BY FrameKids DEF Bare
  <2>3. g.kids = << >> /\ ~ Waiting(g)
    BY FrameKids
  <2>4. << >> = Top.kids \o << >> /\ ~ Waiting(Top)
    BY <1>1, StartsWith
  <2> HIDE DEF f, g
  <2>5. Fresh(<< >>)
    BY <2>1, FreshNone
  <2>6. Become(<<f>>) \/ Become(<<f, g>>)
    BY <2>1
  <2> QED BY <1>1, <2>1, <2>2, <2>3, <2>4, <2>5, <2>6, HandsOne, HandsTwo
<1> QED BY <1>2, <1>3

LEMMA EndBlockOwner == ParserInv /\ ParserInv' /\ OwnerInv /\ EndBlock => OwnerInv'
<1> SUFFICES ASSUME ParserInv, ParserInv', OwnerInv, EndBlock
             PROVE  OwnerInv'
  OBVIOUS
<1>1. outcome = "parsing" /\ Top.fn \notin Loops /\ ~ Waiting(Top)
      /\ "Block" # "Empty" /\ "Block" # "If"
  BY DEF EndBlock, Running, Loops, Waiting
<1>2. CASE AtEnd
  <2>1. currtype # "RIGHT_BRACE"
    <3>1. ~ (tokit + 0 <= Len(toks))
      BY <1>1, <1>2, Ready DEF AtEnd
    <3> QED BY <3>1 DEF currtype, TypeIn
  <2>2. Stop("UNDEFINED")
    BY <1>2, <2>1 DEF EndBlock
  <2> QED BY <1>1, <2>2, StopsOwner
<1>3. CASE ~ AtEnd /\ currtype = "RIGHT_BRACE"
  BY <1>1, <1>3, ReturnsMade DEF EndBlock
<1>4. CASE ~ AtEnd /\ currtype # "RIGHT_BRACE"
  BY <1>1, <1>4, StopsOwner DEF EndBlock
<1> QED BY <1>2, <1>3, <1>4

-----------------------------------------------------------------------------
\* ParseStatements.

LEMMA NextStatementOwner == ParserInv /\ ParserInv' /\ OwnerInv /\ NextStatement => OwnerInv'
<1> SUFFICES ASSUME ParserInv, ParserInv', OwnerInv, NextStatement
             PROVE  OwnerInv'
  OBVIOUS
<1> DEFINE f == Fn("Terminator", Top.kids)
           g == ParseExpr(0)
<1>1. /\ outcome = "parsing" /\ Become(<<f, g>>) /\ UNCHANGED nodes /\ Keep
      /\ ~ Waiting(Top)
  BY DEF NextStatement, Running, Waiting
<1>2. f.kids = Top.kids /\ f.fn \notin Bare /\ ~ Waiting(f)
  BY FrameKids DEF Bare
<1>3. g.kids = << >> /\ ~ Waiting(g)
  BY FrameKids
<1>4. Top.kids \o << >> = Top.kids /\ Fresh(<< >>)
  BY <1>1, NothingMore, FreshNone
<1> HIDE DEF f, g
<1> QED BY <1>1, <1>2, <1>3, <1>4, HandsTwo

LEMMA TerminatorOwner == ParserInv /\ ParserInv' /\ OwnerInv /\ Terminator => OwnerInv'
<1> SUFFICES ASSUME ParserInv, ParserInv', OwnerInv, Terminator
             PROVE  OwnerInv'
  OBVIOUS
<1>1. outcome = "parsing" /\ ~ Waiting(Top)
  BY DEF Terminator, Running, Waiting
<1>2. CASE currtype # "SEMICOLON" /\ lasttype # "RIGHT_BRACE"
  BY <1>1, <1>2, StopsOwner DEF Terminator
<1>3. CASE ~ (currtype # "SEMICOLON" /\ lasttype # "RIGHT_BRACE")
  <2> DEFINE f == Fn("Statements", Top.kids)
  <2>1. Become(<<f>>) /\ UNCHANGED nodes /\ Keep
    BY <1>3 DEF Terminator
  <2>2. f.kids = Top.kids /\ f.fn \notin Bare /\ ~ Waiting(f)
    BY FrameKids DEF Bare
  <2>3. Top.kids \o << >> = Top.kids /\ Fresh(<< >>)
    BY <1>1, <2>1, NothingMore, FreshNone
  <2> HIDE DEF f
  <2> QED BY <1>1, <2>1, <2>2, <2>3, HandsOne
<1> QED BY <1>2, <1>3

LEMMA EndStatementsOwner == ParserInv /\ ParserInv' /\ OwnerInv /\ EndStatements => OwnerInv'
<1> SUFFICES ASSUME ParserInv, ParserInv', OwnerInv, EndStatements
             PROVE  OwnerInv'
  OBVIOUS
<1>1. outcome = "parsing" /\ UNCHANGED nodes /\ ~ Waiting(Top)
      /\ Top.fn \in Loops
  BY DEF EndStatements, Running, Waiting, Loops
<1>2. CASE Len(calls) = 1
  <2>1. stmts' = Top.kids /\ outcome' = "DONE" /\ calls' = << >>
    BY <1>2 DEF EndStatements
  <2>2. /\ Heap(nodes) /\ calls \in Seq(Frames(nodes)) /\ stmts = << >>
        /\ Owned(Holdings(nodes, calls, stmts), nodes)
    BY <1>1, OwnerReady
  <2>3. Passes(nodes, nodes, Holdings(nodes, calls, << >>),
               Holdings(nodes, << >>, Top.kids), {})
    BY <1>2, <2>2, ResultOwns DEF Top
  <2>4. Lean(<< >>) /\ Waits(<< >>) = {}
    BY DEF Lean, Waits
  <2>5. Owned(Holdings(nodes, calls, stmts), nodes)' /\ Lost' = Lost
    BY <1>1, <2>1, <2>2, <2>3 DEF Passes, Lost
  <2>6. Waits(calls) = {}
    <3>1. Top = calls[Len(calls)] /\ calls \in Seq(Frames(nodes))
      BY <1>1, OwnerReady
    <3>2. DOMAIN calls = {1}
      BY <1>2, <3>1, LenProperties
    <3> QED BY <1>1, <1>2, <3>1, <3>2 DEF Waits
  <2> QED BY <1>1, <2>1, <2>4, <2>5, <2>6 DEF OwnerInv
<1>3. CASE Len(calls) # 1
  <2>1. calls' = Deliver(Below, Top.kids) /\ UNCHANGED <<stmts, outcome, nodes>>
    BY <1>1, <1>3 DEF EndStatements
  <2>2. Len(calls) >= 2
    <3>1. \A n \in Nat \ {0} : n # 1 => n >= 2
      OBVIOUS
    <3>2. Len(calls) \in Nat \ {0}
      BY <1>1, Ready
    <3> QED BY <1>3, <3>1, <3>2
  <2>3. ~ Waiting(calls[Len(calls) - 1])
    <3>1. /\ Rooted(calls) /\ Top = calls[Len(calls)]
          /\ Len(calls) \in DOMAIN calls
      BY <1>1, Ready, OwnerReady DEF Shape
    <3>2. calls[Len(calls) - 1].fn = "EndBlock"
      BY <1>1, <1>3, <3>1 DEF Rooted
    <3> QED BY <3>2 DEF Waiting
  <2> QED BY <1>1, <2>1, <2>2, <2>3, ReturnsHeld
<1> QED BY <1>2, <1>3

-----------------------------------------------------------------------------

LEMMA InitOwner == Init => OwnerInv
<1> SUFFICES ASSUME Init
             PROVE  OwnerInv
  OBVIOUS
<1> DEFINE f == Fn("Statements", << >>)
           H == Holdings(nodes, calls, stmts)
<1>1. nodes = << >> /\ calls = <<f>> /\ stmts = << >> /\ outcome = "parsing"
  BY DEF Init
<1>2. f.kids = << >> /\ f.fn \notin Bare /\ ~ Waiting(f)
  BY FrameKids DEF Bare
<1> HIDE DEF f
<1>3. DOMAIN nodes = {} /\ DOMAIN calls = {1} /\ calls[1] = f
  BY <1>1
<1>4. /\ \A i \in DOMAIN calls : H[<<"call", i>>] = calls[i].kids
      /\ H[<<"stmts", 0>>] = stmts
      /\ \A o \in DOMAIN H :
           \/ \E k \in DOMAIN nodes : o = <<"node", k>>
           \/ \E i \in DOMAIN calls : o = <<"call", i>>
           \/ o = <<"stmts", 0>>
  BY Holds
<1> HIDE DEF H
<1>5. \A o \in DOMAIN H : H[o] = << >>
  BY <1>1, <1>2, <1>3, <1>4
<1>6. Owned(H, nodes)
  BY <1>3, <1>5, EmptyOnce DEF Owned
<1>7. Lean(calls)
  BY <1>2, <1>3 DEF Lean
<1>8. Lost = {} /\ Elses(nodes) = {} /\ Waits(calls) = {}
  BY <1>2, <1>3 DEF Lost, Unheld, Elses, Waits
<1>9. Cardinality(Lost) = Cardinality(Elses(nodes)) + Cardinality(Waits(calls))
  BY <1>8, FS_EmptySet
<1> QED BY <1>1, <1>3, <1>6, <1>7, <1>9 DEF OwnerInv, H

LEMMA OwnerStep == ParserInv /\ ParserInv' /\ OwnerInv /\ [Next]_vars => OwnerInv'
<1> SUFFICES ASSUME ParserInv, ParserInv', OwnerInv, [Next]_vars
             PROVE  OwnerInv'
  OBVIOUS
<1>1. CASE ParseNothing \/ ParseLeaf \/ ParseUnaryOp \/ ParseGrouping
  BY <1>1, ParseNothingOwner, ParseLeafOwner, ParseUnaryOpOwner,
     ParseGroupingOwner
<1>2. CASE ParseKeyword \/ ParseFor \/ ParseFnDef \/ ParseBlockExpr
           \/ PrefixBoom
  BY <1>2, ParseKeywordOwner, ParseForOwner, ParseFnDefOwner,
     ParseBlockExprOwner, PrefixBoomOwner
<1>3. CASE EndInfix \/ ParseBinaryOp \/ ParseCall \/ ParseSubscript
           \/ ParseCommaList
  BY <1>3, EndInfixOwner, ParseBinaryOpOwner, ParseCallOwner,
     ParseSubscriptOwner, ParseCommaListOwner
<1>4. CASE EndUnaryOp \/ EndGrouping \/ EndSimple \/ EndCall
  BY <1>4, EndUnaryOpOwner, EndGroupingOwner, EndSimpleOwner, EndCallOwner
<1>5. CASE ForBody \/ FnDefBody \/ IfBody \/ IfElse \/ CommaListNext
  BY <1>5, ForBodyOwner, FnDefBodyOwner, IfBodyOwner, IfElseOwner,
     CommaListNextOwner
<1>6. CASE ParseBlock \/ EndBlock \/ NextStatement \/ Terminator
           \/ EndStatements
  BY <1>6, ParseBlockOwner, EndBlockOwner, NextStatementOwner,
     TerminatorOwner, EndStatementsOwner
<1>7. CASE UNCHANGED vars
  BY <1>7 DEF vars, OwnerInv, Lost
<1> QED BY <1>1, <1>2, <1>3, <1>4, <1>5, <1>6, <1>7 DEF Next

LEMMA OwnedIsSingle == ParserInv /\ OwnerInv => SingleOwner
<1> SUFFICES ASSUME ParserInv, OwnerInv
             PROVE  SingleOwner
  OBVIOUS
<1> DEFINE H == Holdings(nodes, calls, stmts)
<1>1. Owned(H, nodes)
  BY DEF OwnerInv
<1>2. DOMAIN H = Owners
  BY DEF Holdings, OwnersIn, Owners
<1>3. \A o \in Owners : H[o] = Held(o)
  BY DEF Holdings, OwnersIn, Owners, Held
<1> HIDE DEF H
<1>4. \A o \in Owners : IsInjective(Held(o))
  BY <1>1, <1>2, <1>3 DEF Owned
<1>5. ASSUME NEW k \in DOMAIN nodes, NEW o \in HoldersOf(k), NEW p \in HoldersOf(k)
      PROVE  o = p
  <2>1. o \in DOMAIN H /\ p \in DOMAIN H /\ k \in Range(H[o]) /\ k \in Range(H[p])
    BY <1>2, <1>3 DEF HoldersOf
  <2> QED BY <1>1, <2>1 DEF Owned
<1>6. ASSUME NEW k \in DOMAIN nodes, nodes[k].kind # "Empty"
      PROVE  HoldersOf(k) # {}
  <2>1. PICK o \in DOMAIN H : k \in Range(H[o])
    BY <1>1, <1>6 DEF Owned
  <2>2. o \in HoldersOf(k)
    BY <1>2, <1>3, <2>1 DEF HoldersOf
  <2> QED BY <2>2
<1> QED BY <1>4, <1>5, <1>6 DEF SingleOwner

\* What codegen and the destructors walk is a tree: at every step of every
\* parse each node has at most one owner, a node, a function of the parser or
\* the result, which holds it once; and none has no owner but an EmptyExpr,
\* such as the one parseIf drops when it sees an else.
THEOREM ParserSingleOwner == Spec => []SingleOwner
<1>1. Init => OwnerInv
  BY InitOwner
<1>2. ParserInv /\ ParserInv' /\ OwnerInv /\ [Next]_vars => OwnerInv'
  BY OwnerStep
<1>3. ParserInv /\ OwnerInv => SingleOwner
  BY OwnedIsSingle
<1>4. Spec => []ParserInv
  BY ParserInvariant
<1> QED BY <1>1, <1>2, <1>3, <1>4, PTL DEF Spec

-----------------------------------------------------------------------------
\* The literals and names under a node.

YieldAt(ns, f, k) ==
  IF ns[k].kind \in LeafKinds THEN <<ns[k].lit>> ELSE FlatMap(f, ns[k].kids)

\* The children of each node.
Children(ns) == [k \in DOMAIN ns |-> Range(ns[k].kids)]

LEMMA ChildrenBelow ==
  ASSUME NEW ns, Heap(ns), NEW k \in DOMAIN ns
  PROVE  /\ Len(ns) \in Nat /\ DOMAIN ns = 1 .. Len(ns)
         /\ \A i \in DOMAIN ns[k].kids :
              /\ ns[k].kids[i] \in Children(ns)[k]
              /\ ns[k].kids[i] \in DOMAIN ns /\ ns[k].kids[i] \in 1 .. k - 1
         /\ Children(ns)[k] \subseteq 1 .. k - 1
         /\ ns[k].lit \in Value
         /\ ns[k].kids \in Seq(DOMAIN ns)
<1>1. ns \in Seq(Node) /\ Len(ns) \in Nat /\ DOMAIN ns = 1 .. Len(ns)
  BY LenProperties DEF Heap
<1>2. ns[k] \in Node /\ k \in Nat
  BY <1>1, ElementOfSeq
<1>3. ns[k].lit \in Value
  BY <1>2 DEF Node
<1>4. ns[k].kids \in Seq(DOMAIN ns)
  BY KidsOfHeap
<1>5. \A i \in DOMAIN ns[k].kids : ns[k].kids[i] < k
  BY DEF Heap
<1>6. \A i \in DOMAIN ns[k].kids : ns[k].kids[i] \in DOMAIN ns
  BY <1>4, Elements
<1>7. \A i \in DOMAIN ns[k].kids : ns[k].kids[i] \in 1 .. k - 1
  BY <1>1, <1>2, <1>5, <1>6
<1>8. Children(ns)[k] = {ns[k].kids[i] : i \in DOMAIN ns[k].kids}
  BY DEF Children, Range
<1> QED BY <1>1, <1>3, <1>4, <1>6, <1>7, <1>8

LEMMA YieldAgrees ==
  ASSUME NEW ns, Heap(ns), NEW k \in DOMAIN ns, NEW g, NEW h,
         \A i \in Children(ns)[k] : g[i] = h[i]
  PROVE  YieldAt(ns, g, k) = YieldAt(ns, h, k)
<1>1. \A i \in DOMAIN ns[k].kids : g[ns[k].kids[i]] = h[ns[k].kids[i]]
  BY ChildrenBelow
<1>2. Map(g, ns[k].kids) = Map(h, ns[k].kids)
  BY <1>1 DEF Map
<1> QED BY <1>2 DEF YieldAt, FlatMap

LEMMA YieldDef ==
  ASSUME NEW ns, Heap(ns)
  PROVE  /\ Yield(ns) \in [DOMAIN ns -> Seq(Value)]
         /\ \A k \in DOMAIN ns : Yield(ns)[k] = YieldAt(ns, Yield(ns), k)
<1> DEFINE D == DOMAIN ns
           V == Seq(Value)
           F == [k \in D |-> [g \in [D -> V] |-> YieldAt(ns, g, k)]]
           Q(f) == f = [k \in D |-> YieldAt(ns, f, k)]
           y == Yield(ns)
<1>0. Len(ns) \in Nat /\ D = 1 .. Len(ns)
  BY LenProperties DEF Heap
<1>1. \A k \in D : \A g \in [D -> V] : F[k][g] = YieldAt(ns, g, k)
  OBVIOUS
<1>2. ASSUME NEW k \in D, NEW g \in [D -> V]
      PROVE  YieldAt(ns, g, k) \in V
  <2>1. ns[k].kids \in Seq(D) /\ ns[k].lit \in Value
    BY ChildrenBelow
  <2>2. FlattensTo(g, ns[k].kids, ns[k].kids, D, Value)
    BY <2>1, FlatMapIs
  <2>3. <<ns[k].lit>> \in V
    BY <2>1
  <2> QED BY <2>2, <2>3 DEF FlattensTo, YieldAt
<1>3. \A k \in D : \A g, h \in [D -> V] :
        (\A i \in Children(ns)[k] : g[i] = h[i]) =>
          YieldAt(ns, g, k) = YieldAt(ns, h, k)
  BY YieldAgrees
<1>5. \A k \in D : Children(ns)[k] \subseteq 1 .. k - 1
  BY ChildrenBelow
<1>6. << >> \in V
  OBVIOUS
<1> HIDE DEF F, V, D
<1>4. Recurses(F, Children(ns), D, V)
  <2>1. \A k \in D : \A g \in [D -> V] : F[k][g] \in V
    BY <1>1, <1>2
  <2>2. ASSUME NEW k \in D, NEW g \in [D -> V], NEW h \in [D -> V],
               \A i \in Children(ns)[k] : g[i] = h[i]
        PROVE  F[k][g] = F[k][h]
    <3>1. YieldAt(ns, g, k) = YieldAt(ns, h, k)
      BY <1>3, <2>2
    <3> QED BY <1>1, <3>1
  <2> QED BY <2>1, <2>2 DEF Recurses
<1>7. Solvable(F, D, V)
  BY <1>0, <1>4, <1>5, <1>6, Recursion
<1>8. PICK f \in [D -> V] : \A k \in D : f[k] = F[k][f]
  BY <1>7 DEF Solvable
<1>9. Q(f)
  BY <1>1, <1>8
<1>10. y = CHOOSE g : Q(g)
  BY DEF Yield, YieldAt, FlatMap, Map, D
<1> HIDE DEF y, Q
<1>11. Q(y)
  BY <1>9, <1>10
<1>12. /\ DOMAIN y = D /\ \A k \in D : y[k] = YieldAt(ns, y, k)
       /\ y = [k \in D |-> y[k]]
  BY <1>11, Zenon DEF Q
<1>13. \A k \in D : f[k] = YieldAt(ns, f, k)
  BY <1>9, Zenon DEF Q
<1> DEFINE S == {k \in D : y[k] = f[k]}
<1>14. ASSUME NEW k \in 1 .. Len(ns), \A i \in 1 .. k - 1 : i \in S
       PROVE  k \in S
  <2>1. k \in D
    BY <1>0
  <2>2. \A i \in Children(ns)[k] : y[i] = f[i]
    BY <1>5, <1>14, <2>1
  <2>3. YieldAt(ns, y, k) = YieldAt(ns, f, k)
    BY <2>1, <2>2, YieldAgrees DEF D
  <2> QED BY <1>12, <1>13, <2>1, <2>3
<1> HIDE DEF S
<1>15. \A k \in D : k \in S
  BY <1>0, <1>14, IntervalInduction
<1>16. \A k \in D : y[k] \in V
  BY <1>8, <1>15 DEF S
<1>17. y \in [D -> V]
  BY <1>12, <1>16
<1> QED BY <1>12, <1>17 DEF y, D, V

\* More nodes change nothing for those there are.
Grown(ns, ms) ==
  /\ Heap(ns) /\ Heap(ms) /\ DOMAIN ns \subseteq DOMAIN ms
  /\ \A k \in DOMAIN ns : ms[k] = ns[k]

LEMMA YieldGrows ==
  ASSUME NEW ns, NEW ms, Grown(ns, ms)
  PROVE  \A k \in DOMAIN ns : Yield(ms)[k] = Yield(ns)[k]
<1> DEFINE S == {k \in DOMAIN ns : Yield(ms)[k] = Yield(ns)[k]}
<1>1. /\ Heap(ns) /\ Heap(ms) /\ DOMAIN ns \subseteq DOMAIN ms
      /\ Len(ns) \in Nat /\ DOMAIN ns = 1 .. Len(ns)
  BY LenProperties DEF Heap, Grown
<1>2. ASSUME NEW k \in 1 .. Len(ns), \A i \in 1 .. k - 1 : i \in S
      PROVE  k \in S
  <2>1. k \in DOMAIN ns /\ k \in DOMAIN ms /\ ms[k] = ns[k]
    BY <1>1 DEF Grown
  <2>2. \A i \in Children(ns)[k] : Yield(ms)[i] = Yield(ns)[i]
    BY <1>1, <1>2, <2>1, ChildrenBelow
  <2>3. YieldAt(ns, Yield(ms), k) = YieldAt(ns, Yield(ns), k)
    BY <1>1, <2>1, <2>2, YieldAgrees
  <2>4. YieldAt(ms, Yield(ms), k) = YieldAt(ns, Yield(ms), k)
    BY <2>1 DEF YieldAt
  <2>5. /\ Yield(ms)[k] = YieldAt(ms, Yield(ms), k)
        /\ Yield(ns)[k] = YieldAt(ns, Yield(ns), k)
    BY <1>1, <2>1, YieldDef
  <2> QED BY <2>1, <2>3, <2>4, <2>5
<1> HIDE DEF S
<1>3. \A k \in DOMAIN ns : k \in S
  BY <1>1, <1>2, IntervalInduction
<1> QED BY <1>3 DEF S

LEMMA YieldOfIs ==
  ASSUME NEW ns, Heap(ns), NEW ks \in Seq(DOMAIN ns), NEW js \in Seq(DOMAIN ns)
  PROVE  /\ YieldOf(ns, ks) \in Seq(Value) /\ YieldOf(ns, js) \in Seq(Value)
         /\ YieldOf(ns, ks \o js) = YieldOf(ns, ks) \o YieldOf(ns, js)
         /\ YieldOf(ns, << >>) = << >>
         /\ \A k \in DOMAIN ns : YieldOf(ns, <<k>>) = Yield(ns)[k]
<1>1. Yield(ns) \in [DOMAIN ns -> Seq(Value)]
  BY YieldDef
<1>2. FlattensTo(Yield(ns), ks, js, DOMAIN ns, Value)
  BY <1>1, FlatMapIs
<1>3. \A s : YieldOf(ns, s) = FlatMap(Yield(ns), s)
  BY DEF YieldOf, FlatMap, Map
<1> QED BY <1>2, <1>3 DEF FlattensTo

LEMMA YieldOfGrows ==
  ASSUME NEW ns, NEW ms, Grown(ns, ms), NEW ks \in Seq(DOMAIN ns)
  PROVE  YieldOf(ms, ks) = YieldOf(ns, ks)
<1>1. \A i \in DOMAIN ks : Yield(ms)[ks[i]] = Yield(ns)[ks[i]]
  BY YieldGrows, Elements
<1>2. [i \in DOMAIN ks |-> Yield(ms)[ks[i]]] = [i \in DOMAIN ks |-> Yield(ns)[ks[i]]]
  BY <1>1
<1> QED BY <1>2 DEF YieldOf

\* A node added to the heap.
LEMMA YieldNode ==
  ASSUME NEW ns, Heap(ns), NEW m, Heap(ns \o <<m>>), m.kids \in Seq(DOMAIN ns)
  PROVE  /\ Grown(ns, ns \o <<m>>)
         /\ Len(ns) + 1 \in DOMAIN (ns \o <<m>>)
         /\ m.kind \in LeafKinds =>
              YieldOf(ns \o <<m>>, <<Len(ns) + 1>>) = <<m.lit>>
         /\ m.kind \notin LeafKinds =>
              YieldOf(ns \o <<m>>, <<Len(ns) + 1>>) = YieldOf(ns, m.kids)
<1> DEFINE ms == ns \o <<m>>
           k  == Len(ns) + 1
<1>2. DOMAIN ns = 1 .. Len(ns) /\ ns \in Seq(Node) /\ Len(ns) \in Nat
  BY LenProperties DEF Heap
<1>3. /\ (\A i \in 1 .. Len(ns) : ms[i] = ns[i]) /\ ms[k] = m
      /\ DOMAIN ms = 1 .. k
  <2>1. PICK U : U = Node \cup {m}
    OBVIOUS
  <2>2. ns \in Seq(U) /\ <<m>> \in Seq(U) /\ Len(<<m>>) = 1 /\ <<m>>[1] = m
    <3>1. Node \subseteq U /\ m \in U
      BY <2>1
    <3>2. ns \in Seq(U)
      BY <1>2, <3>1, SeqGrows
    <3> QED BY <3>1, <3>2
  <2>3. /\ \A i \in 1 .. Len(ns) + 1 :
             ms[i] = IF i <= Len(ns) THEN ns[i] ELSE <<m>>[i - Len(ns)]
        /\ ms \in Seq(U) /\ Len(ms) = Len(ns) + 1
    BY <2>2, ConcatProperties
  <2> HIDE DEF ms
  <2>4. (\A i \in 1 .. Len(ns) : ms[i] = ns[i]) /\ ms[k] = <<m>>[1]
    BY <1>2, <2>3
  <2>5. DOMAIN ms = 1 .. k
    BY <2>3, LenProperties
  <2> QED BY <2>2, <2>4, <2>5
<1>1. /\ Heap(ns) /\ Heap(ms) /\ DOMAIN ns \subseteq DOMAIN ms
      /\ k \in DOMAIN ms
  <2> HIDE DEF ms
  <2>1. 1 .. Len(ns) \subseteq 1 .. k /\ k \in 1 .. k
    BY <1>2
  <2> QED BY <1>2, <1>3, <2>1 DEF ms
<1> HIDE DEF ms, k
<1>4. Grown(ns, ms)
  BY <1>1, <1>2, <1>3 DEF Grown
<1>5. << >> \in Seq(DOMAIN ms)
  OBVIOUS
<1>6. YieldOf(ms, <<k>>) = YieldAt(ms, Yield(ms), k)
  BY <1>1, <1>5, YieldOfIs, YieldDef
<1>7. m.kind \in LeafKinds => YieldOf(ms, <<k>>) = <<m.lit>>
  BY <1>3, <1>6 DEF YieldAt
<1>8. m.kids \in Seq(DOMAIN ns)
  OBVIOUS
<1>9. YieldOf(ms, m.kids) = YieldOf(ns, m.kids)
  BY <1>4, <1>8, YieldOfGrows
<1>10. m.kind \notin LeafKinds => YieldOf(ms, <<k>>) = YieldOf(ms, m.kids)
  BY <1>3, <1>6 DEF YieldAt, YieldOf, FlatMap, Map
<1> QED BY <1>1, <1>4, <1>7, <1>9, <1>10 DEF ms, k

-----------------------------------------------------------------------------
\* What brackets weigh: 1 when a parenthesis or a bracket opens or a brace
\* closes, for those are the tokens that a function consumes after a look.

TokenWeight ==
  [t \in Token |->
     IF t.type \in {"LEFT_PAREN", "LEFT_BRACKET", "RIGHT_BRACE"} THEN 1
     ELSE IF t.type \in {"RIGHT_PAREN", "RIGHT_BRACKET", "LEFT_BRACE"} THEN -1
     ELSE 0]

Weight(s) == TotalMap(TokenWeight, s)

DueWeight ==
  [c \in Marks |-> IF c \in {"RIGHT_PAREN", "RIGHT_BRACKET"} THEN 1
                   ELSE IF c = "RIGHT_BRACE" THEN -1 ELSE 0]

\* The weight of the tokens is that of the closers due, until a mismatch.
Agrees(due, w) == Spoiled(due) \/ w = TotalMap(DueWeight, due)

LEMMA Weights ==
  /\ TokenWeight \in [Token -> Int] /\ DueWeight \in [Marks -> Int]
  /\ \A t \in Token :
       /\ t.type \in DOMAIN Closer =>
            /\ Closer[t.type] \in Marks /\ Closer[t.type] # "mismatch"
            /\ TokenWeight[t] = DueWeight[Closer[t.type]]
       /\ t.type \in Range(Closer) =>
            /\ t.type \in Marks /\ t.type # "mismatch"
            /\ TokenWeight[t] = 0 - DueWeight[t.type]
       /\ t.type \notin DOMAIN Closer \cup Range(Closer) => TokenWeight[t] = 0
<1>1. TokenWeight \in [Token -> Int] /\ DueWeight \in [Marks -> Int]
  BY DEF TokenWeight, DueWeight
<1>2. ASSUME NEW t \in Token
      PROVE  /\ t.type \in DOMAIN Closer =>
                  /\ Closer[t.type] \in Marks /\ Closer[t.type] # "mismatch"
                  /\ TokenWeight[t] = DueWeight[Closer[t.type]]
             /\ t.type \in Range(Closer) =>
                  /\ t.type \in Marks /\ t.type # "mismatch"
                  /\ TokenWeight[t] = 0 - DueWeight[t.type]
             /\ t.type \notin DOMAIN Closer \cup Range(Closer) => TokenWeight[t] = 0
  <2>1. CASE t.type \in DOMAIN Closer
    BY <2>1, Closers DEF TokenWeight, DueWeight, Marks
  <2>2. CASE t.type \in Range(Closer)
    BY <2>2, Closers DEF TokenWeight, DueWeight, Marks
  <2>3. CASE t.type \notin DOMAIN Closer \cup Range(Closer)
    BY <2>3, Closers DEF TokenWeight
  <2> QED BY <2>1, <2>2, <2>3, Closers
<1> QED BY <1>1, <1>2

\* A sequence is its first part and its last element.
LEMMA MeetsAgrees ==
  ASSUME NEW due \in Seq(Marks), NEW t \in Token, NEW w \in Int, Agrees(due, w)
  PROVE  /\ Meets(due, t) \in Seq(Marks)
         /\ Agrees(Meets(due, t), w + TokenWeight[t])
<1>1. \A u \in Seq(Marks), c \in Marks :
        /\ AddsUp(DueWeight, u, <<c>>, Marks)
        /\ TotalMap(DueWeight, <<c>>) = DueWeight[c]
        /\ TotalMap(DueWeight, u) \in Int /\ DueWeight[c] \in Int
        /\ TotalMap(DueWeight, u \o <<c>>) = TotalMap(DueWeight, u) + DueWeight[c]
  <2> SUFFICES ASSUME NEW u \in Seq(Marks), NEW c \in Marks
               PROVE  /\ AddsUp(DueWeight, u, <<c>>, Marks)
                      /\ TotalMap(DueWeight, <<c>>) = DueWeight[c]
                      /\ TotalMap(DueWeight, u) \in Int /\ DueWeight[c] \in Int
                      /\ TotalMap(DueWeight, u \o <<c>>)
                           = TotalMap(DueWeight, u) + DueWeight[c]
    OBVIOUS
  <2>1. <<c>> \in Seq(Marks) /\ DueWeight \in [Marks -> Int]
    BY Weights
  <2>2. AddsUp(DueWeight, u, <<c>>, Marks)
    BY <2>1, TotalMapIs
  <2>3. DueWeight[c] \in Int
    BY <2>1
  <2> QED BY <2>2, <2>3 DEF AddsUp
<1>2. TokenWeight[t] \in Int
  BY Weights
<1>3. CASE t.type \in DOMAIN Closer
  <2> DEFINE c == Closer[t.type]
  <2>1. c \in Marks /\ TokenWeight[t] = DueWeight[c]
    BY <1>3, Weights
  <2>2. Meets(due, t) = Append(due, c)
    <3>1. t.type \notin Range(Closer)
      BY <1>3, Closers
    <3> QED BY <1>3, <3>1 DEF Meets
  <2> HIDE DEF c
  <2>3. /\ Append(due, c) \in Seq(Marks) /\ Append(due, c) = due \o <<c>>
        /\ Append(due, c) # << >>
    BY <2>1, AppendIsConcat, FrontLastAppend
  <2>4. CASE Spoiled(due)
    <3>1. due # << >> /\ due[1] = "mismatch"
      BY <2>4 DEF Spoiled
    <3>2. Len(due) \in Nat \ {0}
      BY <3>1, EmptySeq, LenProperties
    <3>3. Append(due, c)[1] = due[1]
      BY <2>1, <3>2, AppendProperties
    <3> QED BY <2>2, <2>3, <3>1, <3>3 DEF Spoiled, Agrees
  <2>5. CASE w = TotalMap(DueWeight, due)
    <3>1. TotalMap(DueWeight, due \o <<c>>) = TotalMap(DueWeight, due) + DueWeight[c]
      BY <1>1, <2>1
    <3>2. TotalMap(DueWeight, Meets(due, t)) = w + TokenWeight[t]
      BY <2>1, <2>2, <2>3, <2>5, <3>1
    <3> QED BY <2>2, <2>3, <3>2 DEF Agrees
  <2> QED BY <2>4, <2>5 DEF Agrees
<1>4. CASE t.type \in Range(Closer)
  <2>1. t.type \notin DOMAIN Closer
    BY <1>4, Closers
  <2>2. t.type \in Marks /\ t.type # "mismatch" /\ TokenWeight[t] = 0 - DueWeight[t.type]
    BY <1>4, Weights
  <2>3. CASE due # << >> /\ Last(due) = t.type
    <3>1. Meets(due, t) = Front(due)
      BY <1>4, <2>1, <2>3 DEF Meets
    <3>2. /\ Front(due) \in Seq(Marks) /\ Len(Front(due)) = Len(due) - 1
          /\ Last(due) = due[Len(due)]
          /\ \A i \in 1 .. Len(due) - 1 : Front(due)[i] = due[i]
      BY <2>3, FrontLast
    <3>3. Len(due) \in Nat \ {0}
      BY <2>3, EmptySeq, LenProperties
    <3>4. CASE Spoiled(due)
      <4>1. Len(due) # 1
        BY <2>2, <2>3, <3>2, <3>4 DEF Spoiled
      <4>2. 1 \in 1 .. Len(due) - 1
        <5>1. \A n \in Nat \ {0} : n # 1 => 1 \in 1 .. n - 1
          OBVIOUS
        <5> QED BY <3>3, <4>1, <5>1
      <4>3. Front(due)[1] = "mismatch" /\ Len(Front(due)) # 0
        BY <3>2, <3>3, <3>4, <4>1, <4>2 DEF Spoiled
      <4>4. Front(due) # << >>
        BY <4>3
      <4> QED BY <3>1, <3>2, <4>3, <4>4 DEF Spoiled, Agrees
    <3>5. CASE w = TotalMap(DueWeight, due)
      <4>1. due = Front(due) \o <<t.type>>
        BY <2>3, FrontAndLast
      <4> DEFINE c == t.type
                 u == Front(due)
      <4>2. /\ TotalMap(DueWeight, u \o <<c>>) = TotalMap(DueWeight, u) + DueWeight[c]
            /\ TotalMap(DueWeight, u) \in Int /\ DueWeight[c] \in Int
        BY <1>1, <2>2, <3>2
      <4>3. TotalMap(DueWeight, due) = TotalMap(DueWeight, u) + DueWeight[c]
        BY <4>1, <4>2
      <4>4. w + TokenWeight[t] = TotalMap(DueWeight, u)
        BY <1>2, <2>2, <3>5, <4>2, <4>3
      <4> QED BY <3>1, <3>2, <4>4 DEF Agrees
    <3> QED BY <3>4, <3>5 DEF Agrees
  <2>4. CASE ~ (due # << >> /\ Last(due) = t.type)
    <3>1. Meets(due, t) = <<"mismatch">>
      BY <1>4, <2>1, <2>4 DEF Meets
    <3>2. /\ <<"mismatch">> \in Seq(Marks) /\ <<"mismatch">> # << >>
          /\ <<"mismatch">>[1] = "mismatch"
      BY DEF Marks
    <3> QED BY <3>1, <3>2 DEF Spoiled, Agrees
  <2> QED BY <2>3, <2>4
<1>5. CASE t.type \notin DOMAIN Closer \cup Range(Closer)
  <2>1. Meets(due, t) = due
    BY <1>5 DEF Meets
  <2>2. w + TokenWeight[t] = w
    BY <1>5, Weights
  <2> QED BY <2>1, <2>2
<1> QED BY <1>3, <1>4, <1>5

LEMMA WeightNext ==
  ASSUME NEW s \in Seq(Token), NEW n \in 1 .. Len(s)
  PROVE  /\ Weight(SubSeq(s, 1, n)) = Weight(SubSeq(s, 1, n - 1)) + TokenWeight[s[n]]
         /\ Weight(SubSeq(s, 1, n - 1)) \in Int /\ TokenWeight[s[n]] \in Int
<1>1. Len(s) \in Nat
  BY LenProperties
<1>2. n - 1 \in 0 .. Len(s)
  BY <1>1
<1> DEFINE u == SubSeq(s, 1, n - 1)
<1>3. /\ u \in Seq(Token) /\ <<s[n]>> \in Seq(Token) /\ s[n] \in Token
      /\ SubSeq(s, 1, n) = u \o <<s[n]>>
  <2>1. Split(s, Token)
    BY FirstParts
  <2> QED BY <1>2, <2>1 DEF Split
<1>4. TokenWeight \in [Token -> Int]
  BY Weights
<1> HIDE DEF u
<1>5. AddsUp(TokenWeight, u, <<s[n]>>, Token)
  BY <1>3, <1>4, TotalMapIs
<1>6. TokenWeight[s[n]] \in Int
  BY <1>3, <1>4
<1> QED BY <1>3, <1>5, <1>6 DEF AddsUp, Weight, u

LEMMA WeightNone == Weight(<< >>) = 0
<1>1. << >> \in Seq(Token) /\ TokenWeight \in [Token -> Int]
  BY Weights
<1>2. AddsUp(TokenWeight, << >>, << >>, Token)
  BY <1>1, TotalMapIs
<1> QED BY <1>2 DEF AddsUp, Weight

\* Tokens whose brackets match weigh nothing.
LEMMA BalancedWeighs ==
  ASSUME NEW s \in Seq(Token), Balanced(s)
  PROVE  Weight(s) = 0
<1>1. PICK d : DueChain(d, s) /\ Due(s) = d[Len(s)]
  BY DueIs
<1> DEFINE n == Len(s)
           W(k) == Weight(SubSeq(s, 1, k))
           S == {k \in 0 .. n : W(k) \in Int /\ Agrees(d[k], W(k))}
<1>2. /\ n \in Nat /\ W(0) = Weight(<< >>) /\ W(n) = Weight(s)
      /\ \A k \in 1 .. n : s[k] \in Token
  <2>1. Split(s, Token)
    BY FirstParts
  <2> QED BY <2>1 DEF Split
<1>3. /\ d[0] = << >> /\ d \in [0 .. n -> Seq(Marks)]
      /\ \A k \in 1 .. n : d[k] = Meets(d[k - 1], s[k])
  BY <1>1 DEF DueChain
<1>4. TotalMap(DueWeight, << >>) = 0
  <2>1. << >> \in Seq(Marks) /\ DueWeight \in [Marks -> Int]
    BY Weights
  <2>2. AddsUp(DueWeight, << >>, << >>, Marks)
    BY <2>1, TotalMapIs
  <2> QED BY <2>2 DEF AddsUp
<1>5. \A k \in 1 .. n : /\ W(k) = W(k - 1) + TokenWeight[s[k]]
                        /\ TokenWeight[s[k]] \in Int
  BY WeightNext
<1> HIDE DEF W, n
<1>6. 0 \in S
  <2>1. W(0) = 0
    BY <1>2, WeightNone
  <2>2. Agrees(d[0], W(0))
    BY <1>3, <1>4, <2>1 DEF Agrees
  <2> QED BY <1>2, <2>1, <2>2
<1>7. ASSUME NEW k \in 1 .. n, k - 1 \in S
      PROVE  k \in S
  <2>1. W(k - 1) \in Int /\ Agrees(d[k - 1], W(k - 1)) /\ k - 1 \in 0 .. n /\ k \in 0 .. n
    BY <1>2, <1>7
  <2>2. d[k - 1] \in Seq(Marks) /\ s[k] \in Token
    BY <1>2, <1>3, <2>1
  <2>3. Agrees(Meets(d[k - 1], s[k]), W(k - 1) + TokenWeight[s[k]])
    BY <2>1, <2>2, MeetsAgrees
  <2>4. Agrees(d[k], W(k))
    BY <1>3, <1>5, <2>3
  <2>5. W(k) \in Int
    BY <1>5, <2>1
  <2> QED BY <2>1, <2>4, <2>5
<1>8. \A k \in 0 .. n : k \in S
  <2> HIDE DEF S
  <2> QED BY <1>2, <1>6, <1>7, StepInduction
<1>9. Agrees(<< >>, Weight(s))
  <2>1. d[n] = << >>
    BY <1>1 DEF Balanced, n
  <2>2. n \in 0 .. n
    BY <1>2
  <2> QED BY <1>2, <1>8, <2>1, <2>2
<1> QED BY <1>4, <1>9 DEF Agrees, Spoiled

-----------------------------------------------------------------------------
\* The literals and names among the first tokens.

LiteralsAt == [t \in Token |-> LiteralOf(t)]

LEMMA LiteralsIs ==
  ASSUME NEW s \in Seq(Token)
  PROVE  /\ Literals(s) = FlatMap(LiteralsAt, s)
         /\ LiteralsAt \in [Token -> Seq(Value)]
<1>1. \A i \in DOMAIN s : s[i] \in Token
  BY Elements
<1>2. ASSUME NEW t \in Token
      PROVE  LiteralOf(t) \in Seq(Value)
  <2>1. t.lit \in Value
    BY DEF Token
  <2> QED BY <2>1 DEF LiteralOf
<1>3. [i \in DOMAIN s |-> LiteralsAt[s[i]]] = [i \in DOMAIN s |-> LiteralOf(s[i])]
  BY <1>1 DEF LiteralsAt
<1> QED BY <1>2, <1>3 DEF Literals, FlatMap, Map, LiteralsAt

LEMMA LiteralsNext ==
  ASSUME NEW s \in Seq(Token), NEW n \in 1 .. Len(s)
  PROVE  /\ Literals(SubSeq(s, 1, n))
              = Literals(SubSeq(s, 1, n - 1)) \o LiteralOf(s[n])
         /\ Literals(SubSeq(s, 1, n - 1)) \in Seq(Value)
         /\ LiteralOf(s[n]) \in Seq(Value)
<1>1. Len(s) \in Nat
  BY LenProperties
<1>2. n - 1 \in 0 .. Len(s) /\ n \in 0 .. Len(s)
  BY <1>1
<1> DEFINE u == SubSeq(s, 1, n - 1)
           v == SubSeq(s, 1, n)
<1>3. /\ u \in Seq(Token) /\ <<s[n]>> \in Seq(Token) /\ s[n] \in Token
      /\ v = u \o <<s[n]>> /\ v \in Seq(Token)
  <2>1. Split(s, Token)
    BY FirstParts
  <2> QED BY <1>2, <2>1 DEF Split
<1> HIDE DEF u, v
<1>4. /\ Literals(u) = FlatMap(LiteralsAt, u) /\ Literals(v) = FlatMap(LiteralsAt, v)
      /\ LiteralsAt \in [Token -> Seq(Value)]
  BY <1>3, LiteralsIs
<1>5. FlattensTo(LiteralsAt, u, <<s[n]>>, Token, Value)
  BY <1>3, <1>4, FlatMapIs
<1>6. FlatMap(LiteralsAt, <<s[n]>>) = LiteralOf(s[n])
  BY <1>3, <1>5 DEF FlattensTo, LiteralsAt
<1>7. Literals(v) = Literals(u) \o LiteralOf(s[n])
  BY <1>3, <1>4, <1>5, <1>6 DEF FlattensTo
<1>8. Literals(u) \in Seq(Value) /\ LiteralOf(s[n]) \in Seq(Value)
  BY <1>4, <1>5, <1>6 DEF FlattensTo
<1> QED BY <1>7, <1>8 DEF u, v

LEMMA LiteralsNone == Literals(<< >>) = << >>
<1>1. << >> \in Seq(Token)
  OBVIOUS
<1>2. Literals(<< >>) = FlatMap(LiteralsAt, << >>) /\ LiteralsAt \in [Token -> Seq(Value)]
  BY <1>1, LiteralsIs
<1>3. FlattensTo(LiteralsAt, << >>, << >>, Token, Value)
  BY <1>1, <1>2, FlatMapIs
<1> QED BY <1>2, <1>3 DEF FlattensTo

-----------------------------------------------------------------------------
\* The nodes that the frames hold, outermost first.
Carried(c) == FlattenSeq([i \in DOMAIN c |-> c[i].kids])

\* What the brackets weigh that a frame has yet to close: n is the number of
\* nodes with which parseFnDef is before its right parenthesis.
FrameWeight(f, n) ==
  CASE f.fn \in {"Grouping", "Call", "Subscript"} -> 1
    [] f.fn = "FnDef" /\ Len(f.kids) = n -> 1
    [] f.fn = "EndBlock" -> -1
    [] OTHER -> 0

Outer(c) == Total([i \in DOMAIN c |-> FrameWeight(c[i], 1)])

Load(c) == Outer(Front(c)) + FrameWeight(Last(c), 2)

LEMMA FrameWeights ==
  \A f, n : /\ FrameWeight(f, n) \in {-1, 0, 1}
            /\ f.fn \in {"Grouping", "Call", "Subscript"} => FrameWeight(f, n) = 1
            /\ f.fn = "EndBlock" => FrameWeight(f, n) = -1
            /\ f.fn = "FnDef" => FrameWeight(f, n) = IF Len(f.kids) = n THEN 1 ELSE 0
            /\ f.fn \notin {"Grouping", "Call", "Subscript", "FnDef", "EndBlock"} =>
                 FrameWeight(f, n) = 0
BY DEF FrameWeight

CarriesOver(c, d, ns) ==
  /\ Carried(c) \in Seq(DOMAIN ns) /\ Carried(d) \in Seq(DOMAIN ns)
  /\ Carried(c \o d) = Carried(c) \o Carried(d)
  /\ Outer(c) \in Int /\ Outer(d) \in Int
  /\ Outer(c \o d) = Outer(c) + Outer(d)
  /\ Carried(<< >>) = << >> /\ Outer(<< >>) = 0
  /\ \A f \in Frames(ns) :
       Carried(<<f>>) = f.kids /\ Outer(<<f>>) = FrameWeight(f, 1)

LEMMA CarriedIs ==
  ASSUME NEW ns, NEW c \in Seq(Frames(ns)), NEW d \in Seq(Frames(ns))
  PROVE  CarriesOver(c, d, ns)
<1> DEFINE g == [f \in Frames(ns) |-> f.kids]
           h == [f \in Frames(ns) |-> FrameWeight(f, 1)]
<1>1. g \in [Frames(ns) -> Seq(DOMAIN ns)]
  BY DEF Frames
<1>2. h \in [Frames(ns) -> Int]
  <2>1. \A f \in Frames(ns) : FrameWeight(f, 1) \in Int
    BY FrameWeights
  <2> QED BY <2>1
<1>3. ASSUME NEW s \in Seq(Frames(ns))
      PROVE  Carried(s) = FlatMap(g, s) /\ Outer(s) = TotalMap(h, s)
  <2>1. \A i \in DOMAIN s : s[i] \in Frames(ns)
    BY Elements
  <2>2. [i \in DOMAIN s |-> g[s[i]]] = [i \in DOMAIN s |-> s[i].kids]
    BY <2>1
  <2>3. [i \in DOMAIN s |-> h[s[i]]] = [i \in DOMAIN s |-> FrameWeight(s[i], 1)]
    BY <2>1
  <2> HIDE DEF g, h
  <2> QED BY <2>2, <2>3 DEF Carried, Outer, FlatMap, TotalMap, Map
<1>4. \A f \in Frames(ns) : g[f] = f.kids /\ h[f] = FrameWeight(f, 1)
  OBVIOUS
<1> HIDE DEF g, h
<1>5. FlattensTo(g, c, d, Frames(ns), DOMAIN ns) /\ AddsUp(h, c, d, Frames(ns))
  BY <1>1, <1>2, FlatMapIs, TotalMapIs
<1>6. /\ c \o d \in Seq(Frames(ns)) /\ << >> \in Seq(Frames(ns))
      /\ \A f \in Frames(ns) : <<f>> \in Seq(Frames(ns))
  BY ConcatProperties, Tuples
<1>7. /\ Carried(c) = FlatMap(g, c) /\ Outer(c) = TotalMap(h, c)
      /\ Carried(d) = FlatMap(g, d) /\ Outer(d) = TotalMap(h, d)
      /\ Carried(c \o d) = FlatMap(g, c \o d) /\ Outer(c \o d) = TotalMap(h, c \o d)
      /\ Carried(<< >>) = FlatMap(g, << >>) /\ Outer(<< >>) = TotalMap(h, << >>)
      /\ \A f \in Frames(ns) :
           Carried(<<f>>) = FlatMap(g, <<f>>) /\ Outer(<<f>>) = TotalMap(h, <<f>>)
  BY <1>3, <1>6
<1> QED BY <1>4, <1>5, <1>7 DEF CarriesOver, FlattensTo, AddsUp

\* The innermost frame apart from the others.
LEMMA StackSplits ==
  ASSUME NEW ns, NEW c \in Seq(Frames(ns)), c # << >>
  PROVE  /\ Carried(c) = Carried(Front(c)) \o Last(c).kids
         /\ Outer(c) = Outer(Front(c)) + FrameWeight(Last(c), 1)
         /\ Outer(Front(c)) \in Int
         /\ Carried(Front(c)) \in Seq(DOMAIN ns) /\ Last(c).kids \in Seq(DOMAIN ns)
<1> DEFINE a == Front(c)
           f == Last(c)
<1>1. a \in Seq(Frames(ns)) /\ f \in Frames(ns)
  BY FrontLast
<1>2. c = a \o <<f>> /\ <<f>> \in Seq(Frames(ns))
  BY FrontAndLast
<1> HIDE DEF a, f
<1>3. CarriesOver(a, <<f>>, ns)
  BY <1>1, <1>2, CarriedIs
<1>4. f.kids \in Seq(DOMAIN ns)
  BY <1>1 DEF Frames
<1> QED BY <1>1, <1>2, <1>3, <1>4 DEF CarriesOver, a, f

\* In a step, ks and w take the place of what the innermost frame adds.
Shifts(ks, w) ==
  /\ Carried(calls') = Carried(Below) \o ks
  /\ Load(calls') = Outer(Below) + w
  /\ ks \in Seq(DOMAIN nodes') /\ w \in Int

LEMMA BecomeShifts ==
  ASSUME NEW fs \in Seq(Frames(nodes')), fs # << >>, Become(fs),
         calls \in Seq(Frames(nodes)), calls # << >>,
         DOMAIN nodes \subseteq DOMAIN nodes'
  PROVE  Shifts(Carried(fs), Load(fs))
<1> DEFINE b == Below
<1>1. b \in Seq(Frames(nodes)) /\ Frames(nodes) \subseteq Frames(nodes')
  BY FrontLast, FramesGrow DEF Below
<1>2. b \in Seq(Frames(nodes'))
  BY <1>1, SeqGrows
<1>3. calls' = b \o fs
  BY DEF Become
<1> HIDE DEF b
<1>4. /\ Front(calls') = b \o Front(fs) /\ Last(calls') = Last(fs)
      /\ Front(fs) \in Seq(Frames(nodes'))
  BY <1>2, <1>3, FrontLastConcat, FrontLast
<1>5. CarriesOver(b, fs, nodes') /\ CarriesOver(b, Front(fs), nodes')
  BY <1>2, <1>4, CarriedIs
<1>6. Carried(calls') = Carried(b) \o Carried(fs) /\ Carried(fs) \in Seq(DOMAIN nodes')
  BY <1>3, <1>5 DEF CarriesOver
<1>7. FrameWeight(Last(fs), 2) \in Int
  BY FrameWeights
<1>8. /\ Outer(b \o Front(fs)) = Outer(b) + Outer(Front(fs))
      /\ Outer(b) \in Int /\ Outer(Front(fs)) \in Int
  BY <1>5 DEF CarriesOver
<1>9. Load(fs) \in Int /\ Load(calls') = Outer(b) + Load(fs)
  BY <1>4, <1>7, <1>8 DEF Load
<1> QED BY <1>6, <1>9 DEF Shifts, b

\* The frames of the next call stack are frames of the next heap.
LEMMA BecomeFrames ==
  ASSUME ParserInv, ParserInv', outcome = "parsing",
         NEW U, NEW fs \in Seq(U), Become(fs)
  PROVE  fs \in Seq(Frames(nodes'))
<1> DEFINE S == Frames(nodes) \cup U
           c == calls
<1>1. c \in Seq(Frames(nodes)) /\ c # << >>
  BY Ready
<1>2. c \in Seq(S) /\ fs \in Seq(S)
  BY <1>1, SeqGrows
<1>3. calls' = Front(c) \o fs /\ calls' \in Seq(Frames(nodes'))
  BY DEF Become, Below, ParserInv, TypeOK
<1> HIDE DEF S, c
<1>4. /\ Len(c) \in Nat \ {0} /\ Len(fs) \in Nat
      /\ Len(Front(c) \o fs) = Len(c) - 1 + Len(fs)
      /\ \A j \in 1 .. Len(fs) : (Front(c) \o fs)[Len(c) - 1 + j] = fs[j]
  BY <1>1, <1>2, BecomeSeq
<1>5. ASSUME NEW j \in 1 .. Len(fs)
      PROVE  fs[j] \in Frames(nodes')
  <2>1. Len(c) - 1 + j \in 1 .. Len(calls')
    BY <1>3, <1>4
  <2>2. calls'[Len(c) - 1 + j] = fs[j]
    BY <1>3, <1>4
  <2> QED BY <1>3, <2>1, <2>2, ElementOfSeq
<1>6. fs \in [1 .. Len(fs) -> Frames(nodes')]
  <2>1. fs = [i \in 1 .. Len(fs) |-> fs[i]]
    BY <1>2, LenProperties
  <2> QED BY <1>5, <2>1
<1> QED BY <1>4, <1>6, SeqDef

LEMMA BecomesOne ==
  ASSUME ParserInv, ParserInv', outcome = "parsing",
         DOMAIN nodes \subseteq DOMAIN nodes', NEW f, Become(<<f>>)
  PROVE  Shifts(f.kids, FrameWeight(f, 2)) /\ f.kids \in Seq(DOMAIN nodes')
<1> DEFINE fs == <<f>>
<1>1. fs \in Seq({f}) /\ Len(fs) = 1 /\ fs[1] = f /\ fs # << >>
  OBVIOUS
<1>2. Become(fs)
  OBVIOUS
<1> HIDE DEF fs
<1>3. fs \in Seq(Frames(nodes'))
  BY <1>1, <1>2, BecomeFrames
<1>4. calls \in Seq(Frames(nodes)) /\ calls # << >>
  BY Ready
<1>5. Shifts(Carried(fs), Load(fs))
  BY <1>1, <1>2, <1>3, <1>4, BecomeShifts
<1>6. /\ Carried(fs) = Carried(Front(fs)) \o Last(fs).kids
      /\ Last(fs).kids \in Seq(DOMAIN nodes')
  BY <1>1, <1>3, StackSplits
<1>7. Last(fs) = f /\ Front(fs) = << >>
  <2>1. Len(Front(fs)) = 1 - 1 /\ Front(fs) \in Seq(Frames(nodes')) /\ Last(fs) = fs[1]
    BY <1>1, <1>3, FrontLast
  <2> QED BY <1>1, <2>1, EmptySeq
<1>8. Carried(<< >>) = << >> /\ Outer(<< >>) = 0
  BY <1>3, CarriedIs DEF CarriesOver
<1>9. Carried(fs) = f.kids
  BY <1>6, <1>7, <1>8, ConcatEmptySeq
<1>10. Load(fs) = FrameWeight(f, 2)
  BY <1>7, <1>8, FrameWeights DEF Load
<1> QED BY <1>5, <1>6, <1>7, <1>9, <1>10

LEMMA BecomesTwo ==
  ASSUME ParserInv, ParserInv', outcome = "parsing",
         DOMAIN nodes \subseteq DOMAIN nodes', NEW f, NEW g,
         Become(<<f, g>>) \/ Become(<<f>> \o <<g>>)
  PROVE  /\ Shifts(f.kids \o g.kids, FrameWeight(f, 1) + FrameWeight(g, 2))
         /\ f.kids \in Seq(DOMAIN nodes') /\ g.kids \in Seq(DOMAIN nodes')
<1> DEFINE a == <<f>>
           b == <<g>>
           fs == a \o b
           U == {f, g}
<1>1. a \in Seq(U) /\ b \in Seq(U) /\ Len(b) = 1 /\ b[1] = g /\ b # << >>
  OBVIOUS
<1>2. Become(fs) /\ fs \in Seq(U)
  <2>1. fs = <<f, g>>
    BY TupleConcat
  <2>2. <<f, g>> \in Seq(U)
    OBVIOUS
  <2> QED BY <2>1, <2>2
<1> HIDE DEF U
<1>3. fs \in Seq(Frames(nodes'))
  BY <1>2, BecomeFrames
<1>4. calls \in Seq(Frames(nodes)) /\ calls # << >>
  BY Ready
<1>5. /\ f \in Frames(nodes') /\ g \in Frames(nodes')
  <2>1. fs = <<f, g>>
    BY TupleConcat
  <2>2. <<f, g>> \in Seq(Frames(nodes'))
    BY <1>3, <2>1
  <2> HIDE DEF fs
  <2>3. PICK u : u = <<f, g>>
    OBVIOUS
  <2>4. Len(u) = 2 /\ u[1] = f /\ u[2] = g /\ u \in Seq(Frames(nodes'))
    BY <2>2, <2>3
  <2>5. 1 \in 1 .. Len(u) /\ 2 \in 1 .. Len(u)
    BY <2>4
  <2> QED BY <2>4, <2>5, ElementOfSeq
<1>6. a \in Seq(Frames(nodes')) /\ b \in Seq(Frames(nodes'))
  BY <1>5
<1>7. /\ Carried(a) = f.kids /\ Carried(b) = g.kids /\ Outer(a) = FrameWeight(f, 1)
      /\ Carried(fs) = Carried(a) \o Carried(b)
      /\ f.kids \in Seq(DOMAIN nodes') /\ g.kids \in Seq(DOMAIN nodes')
  <2>1. CarriesOver(a, b, nodes')
    BY <1>6, CarriedIs
  <2> HIDE DEF a, b
  <2>2. /\ Carried(a) \in Seq(DOMAIN nodes') /\ Carried(b) \in Seq(DOMAIN nodes')
        /\ Carried(fs) = Carried(a) \o Carried(b)
    BY <2>1 DEF CarriesOver
  <2>3. \A x \in Frames(nodes') :
          Carried(<<x>>) = x.kids /\ Outer(<<x>>) = FrameWeight(x, 1)
    BY <2>1 DEF CarriesOver
  <2>4. Carried(a) = f.kids /\ Carried(b) = g.kids /\ Outer(a) = FrameWeight(f, 1)
    BY <1>5, <2>3 DEF a, b
  <2> QED BY <2>2, <2>4
<1>8. Front(fs) = a /\ Last(fs) = g /\ fs # << >>
  <2> HIDE DEF a
  <2>1. Append(a, g) = fs /\ Front(Append(a, g)) = a /\ Last(Append(a, g)) = g
        /\ Append(a, g) # << >>
    BY <1>5, <1>6, AppendIsConcat, FrontLastAppend
  <2> QED BY <2>1
<1> HIDE DEF fs, a, b
<1>9. Shifts(Carried(fs), Load(fs))
  BY <1>2, <1>3, <1>4, <1>8, BecomeShifts
<1>10. Load(fs) = FrameWeight(f, 1) + FrameWeight(g, 2)
  BY <1>7, <1>8 DEF Load
<1> QED BY <1>7, <1>9, <1>10

\* A function is called and calls ParseExpr.
LEMMA CallsShift ==
  ASSUME ParserInv, ParserInv', outcome = "parsing",
         DOMAIN nodes \subseteq DOMAIN nodes',
         NEW fn, NEW type, NEW kids, NEW prec, NEW p,
         Become(<<InfixLoop(p, << >>)>> \o <<Typed(fn, type, kids), ParseExpr(prec)>>)
  PROVE  /\ Shifts(kids, FrameWeight(Typed(fn, type, kids), 1))
         /\ kids \in Seq(DOMAIN nodes')
<1> DEFINE e == InfixLoop(p, << >>)
           f == Typed(fn, type, kids)
           g == ParseExpr(prec)
<1>1. /\ e.kids = << >> /\ f.kids = kids /\ g.kids = << >>
      /\ e.fn = "InfixLoop" /\ g.fn = "ParseExpr"
  BY DEF InfixLoop, Typed, ParseExpr, Frame
<1>2. FrameWeight(e, 1) = 0 /\ FrameWeight(g, 2) = 0 /\ FrameWeight(f, 1) \in Int
  BY <1>1, FrameWeights
<1> DEFINE u == <<e, f>>
           b == <<g>>
           fs == u \o b
           U == {e, f, g}
<1>3. Become(fs) /\ fs \in Seq(U)
  <2>1. Become(<<e>> \o <<f, g>>)
    OBVIOUS
  <2> HIDE DEF e, f, g
  <2>2. <<e>> \o <<f, g>> = <<e, f, g>>
    BY TupleConcat
  <2>3. <<e, f>> \o <<g>> = <<e, f, g>>
    <3>1. /\ <<e>> \in Seq(U) /\ <<f>> \in Seq(U) /\ <<g>> \in Seq(U)
      OBVIOUS
    <3>2. <<e>> \o <<f>> = <<e, f>> /\ <<f>> \o <<g>> = <<f, g>>
      BY TupleConcat
    <3> HIDE DEF U
    <3>3. (<<e>> \o <<f>>) \o <<g>> = <<e>> \o (<<f>> \o <<g>>)
      BY <3>1, ConcatAssociative
    <3> QED BY <2>2, <3>2, <3>3
  <2>4. <<e, f, g>> \in Seq(U)
    OBVIOUS
  <2> QED BY <2>1, <2>2, <2>3, <2>4
<1> HIDE DEF U, e, f, g
<1>4. fs \in Seq(Frames(nodes'))
  BY <1>3, BecomeFrames
<1>5. e \in Frames(nodes') /\ f \in Frames(nodes') /\ g \in Frames(nodes')
  <2>1. PICK v : v = <<e, f, g>>
    OBVIOUS
  <2>2. v = fs
    <3>1. /\ <<e>> \in Seq({e, f, g}) /\ <<f>> \in Seq({e, f, g}) /\ <<g>> \in Seq({e, f, g})
      OBVIOUS
    <3>2. <<e>> \o <<f>> = <<e, f>> /\ <<f>> \o <<g>> = <<f, g>>
          /\ <<e>> \o <<f, g>> = <<e, f, g>>
      BY TupleConcat
    <3>3. (<<e>> \o <<f>>) \o <<g>> = <<e>> \o (<<f>> \o <<g>>)
      BY <3>1, ConcatAssociative
    <3> QED BY <2>1, <3>2, <3>3
  <2>3. Len(v) = 3 /\ v[1] = e /\ v[2] = f /\ v[3] = g
    BY <2>1
  <2>4. 1 \in 1 .. Len(v) /\ 2 \in 1 .. Len(v) /\ 3 \in 1 .. Len(v)
    BY <2>3
  <2>5. v \in Seq(Frames(nodes'))
    BY <1>4, <2>2
  <2> HIDE DEF fs
  <2> QED BY <2>3, <2>4, <2>5, ElementOfSeq
<1>6. calls \in Seq(Frames(nodes)) /\ calls # << >>
  BY Ready
<1>7. /\ u \in Seq(Frames(nodes')) /\ u # << >> /\ b \in Seq(Frames(nodes'))
      /\ <<e>> \in Seq(Frames(nodes')) /\ <<f>> \in Seq(Frames(nodes'))
      /\ u = <<e>> \o <<f>>
  <2>1. u = <<e>> \o <<f>>
    BY TupleConcat
  <2>2. /\ u \in Seq(Frames(nodes')) /\ Len(u) = 2 /\ b \in Seq(Frames(nodes'))
        /\ <<e>> \in Seq(Frames(nodes')) /\ <<f>> \in Seq(Frames(nodes'))
    BY <1>5
  <2> QED BY <2>1, <2>2
<1>8. CarriesOver(u, b, nodes') /\ CarriesOver(<<e>>, <<f>>, nodes')
  BY <1>7, CarriedIs
<1>9. \A x \in Frames(nodes') :
        Carried(<<x>>) = x.kids /\ Outer(<<x>>) = FrameWeight(x, 1)
  BY <1>8 DEF CarriesOver
<1>10. /\ Carried(<<e>>) = << >> /\ Carried(<<f>>) = kids /\ Carried(b) = << >>
       /\ Outer(<<e>>) = 0 /\ Outer(<<f>>) = FrameWeight(f, 1)
  BY <1>1, <1>2, <1>5, <1>9
<1>11. kids \in Seq(DOMAIN nodes')
  BY <1>1, <1>5 DEF Frames
<1>12. Carried(u) = kids /\ Outer(u) = FrameWeight(f, 1)
  <2>1. Carried(u) = << >> \o kids /\ Outer(u) = 0 + FrameWeight(f, 1)
    BY <1>7, <1>8, <1>10 DEF CarriesOver
  <2> QED BY <1>2, <1>11, <2>1, ConcatEmptySeq
<1>13. Carried(fs) = kids
  <2>1. Carried(fs) = Carried(u) \o Carried(b)
    BY <1>8 DEF CarriesOver
  <2> QED BY <1>10, <1>11, <1>12, <2>1, ConcatEmptySeq
<1>14. Front(fs) = u /\ Last(fs) = g /\ fs # << >>
  <2> HIDE DEF u
  <2>1. Append(u, g) = fs /\ Front(Append(u, g)) = u /\ Last(Append(u, g)) = g
        /\ Append(u, g) # << >>
    BY <1>5, <1>7, AppendIsConcat, FrontLastAppend
  <2> QED BY <2>1
<1> HIDE DEF fs, u, b
<1>15. Shifts(Carried(fs), Load(fs))
  BY <1>3, <1>4, <1>6, <1>14, BecomeShifts
<1>16. Load(fs) = FrameWeight(f, 1)
  BY <1>2, <1>12, <1>14 DEF Load
<1> QED BY <1>11, <1>13, <1>15, <1>16 DEF f

\* The innermost function returns ks.
LEMMA ReturnShifts ==
  ASSUME ParserInv, outcome = "parsing", DOMAIN nodes \subseteq DOMAIN nodes',
         NEW ks \in Seq(DOMAIN nodes'), calls' = Deliver(Below, ks),
         Len(calls) >= 2, Top.fn \notin Loops => Len(ks) = 1
  PROVE  Shifts(ks, 0)
<1> DEFINE c == calls
           n == Len(calls) - 1
           b == Front(calls)
           d == Deliver(b, ks)
<1>1. /\ c \in Seq(Frames(nodes)) /\ c # << >> /\ Shape(c, tokit, nodes)
      /\ Len(c) \in Nat \ {0} /\ DOMAIN c = 1 .. Len(c)
  BY Ready, LenProperties
<1>2. c \in Seq(Frames(nodes'))
  <2>1. Frames(nodes) \subseteq Frames(nodes')
    BY FramesGrow
  <2> QED BY <1>1, <2>1, SeqGrows
<1>3. /\ n \in Nat \ {0}
      /\ d \in Seq(Frames(nodes')) /\ Len(d) = n
      /\ \A i \in 1 .. n - 1 : d[i] = c[i]
      /\ d[n].fn = c[n].fn
      /\ d[n].kids = c[n].kids \o ks
      /\ Len(d[n].kids) = Len(c[n].kids) + Len(ks)
  BY <1>2, DeliverSeq
<1>4. /\ b \in Seq(Frames(nodes')) /\ Len(b) = n
      /\ \A i \in 1 .. n : b[i] = c[i]
  BY <1>1, <1>2, FrontLast
<1>5. calls' = d /\ Below = b
  BY DEF Below
<1>6. Len(c) = n + 1 /\ Top = c[n + 1]
  <2>1. Len(c) = n + 1
    BY <1>1
  <2>2. Last(c) = c[Len(c)]
    BY <1>1, FrontLast
  <2> QED BY <2>1, <2>2 DEF Top
<1> HIDE DEF c, n, b, d
<1>7. b # << >> /\ d # << >> /\ n \in 1 .. n
  BY <1>3, <1>4
<1>8. /\ Front(b) \in Seq(Frames(nodes')) /\ Len(Front(b)) = n - 1
      /\ \A i \in 1 .. n - 1 : Front(b)[i] = b[i]
      /\ Last(b) = b[n]
  BY <1>4, <1>7, FrontLast
<1>9. /\ Front(d) \in Seq(Frames(nodes')) /\ Len(Front(d)) = n - 1
      /\ \A i \in 1 .. n - 1 : Front(d)[i] = d[i]
      /\ Last(d) = d[n]
  BY <1>3, <1>7, FrontLast
<1>10. Front(d) = Front(b)
  <2>1. \A i \in 1 .. n - 1 : Front(d)[i] = Front(b)[i]
    <3>1. \A i \in 1 .. n - 1 : i \in 1 .. n
      BY <1>3
    <3> QED BY <1>3, <1>4, <1>8, <1>9, <3>1
  <2> QED BY <1>8, <1>9, <2>1, SeqEqual
<1>11. Last(b) = c[n]
  BY <1>4, <1>7, <1>8
<1>12. /\ Carried(b) = Carried(Front(b)) \o c[n].kids
       /\ Outer(b) = Outer(Front(b)) + FrameWeight(c[n], 1)
       /\ Outer(Front(b)) \in Int
       /\ Carried(Front(b)) \in Seq(DOMAIN nodes') /\ c[n].kids \in Seq(DOMAIN nodes')
  BY <1>4, <1>7, <1>11, StackSplits
<1>13. Carried(d) = Carried(Front(d)) \o d[n].kids
  BY <1>3, <1>7, <1>9, StackSplits
<1>14. Carried(d) = Carried(b) \o ks
  <2>1. PICK p, q : p = Carried(Front(b)) /\ q = c[n].kids
    OBVIOUS
  <2>2. p \in Seq(DOMAIN nodes') /\ q \in Seq(DOMAIN nodes')
    BY <1>12, <2>1
  <2>3. (p \o q) \o ks = p \o (q \o ks)
    BY <2>2, ConcatAssociative
  <2>4. Carried(d) = p \o (q \o ks) /\ Carried(b) = p \o q
    BY <1>3, <1>10, <1>12, <1>13, <2>1
  <2> QED BY <2>3, <2>4
<1>15. FrameWeight(c[n], 1) = FrameWeight(d[n], 2)
  <2>1. CASE c[n].fn = "FnDef"
    <3>1. Top.fn \notin Loops
      <4>1. n + 1 \in DOMAIN c /\ n + 1 # 1 /\ (n + 1) - 1 = n
        BY <1>1, <1>3, <1>6
      <4>2. c[n + 1].fn \in Loops => c[n].fn = "EndBlock"
        BY <1>1, <4>1 DEF Shape, Rooted
      <4> QED BY <1>6, <2>1, <4>2
    <3>2. Len(d[n].kids) = Len(c[n].kids) + 1
      BY <1>3, <3>1
    <3>3. Len(c[n].kids) \in Nat
      BY <1>12, LenProperties
    <3>4. Len(c[n].kids) = 1 <=> Len(d[n].kids) = 2
      <4>1. \A i \in Nat : \A j : j = i + 1 => (i = 1 <=> j = 2)
        OBVIOUS
      <4> QED BY <3>2, <3>3, <4>1
    <3> QED BY <1>3, <2>1, <3>4 DEF FrameWeight
  <2>2. CASE c[n].fn # "FnDef"
    BY <1>3, <2>2 DEF FrameWeight
  <2> QED BY <2>1, <2>2
<1>16. Load(d) = Outer(b) + 0
  <2>1. FrameWeight(c[n], 1) \in Int
    BY FrameWeights
  <2> QED BY <1>9, <1>10, <1>12, <1>15, <2>1 DEF Load
<1> QED BY <1>5, <1>14, <1>16 DEF Shifts

-----------------------------------------------------------------------------
(***************************************************************************)
(* As long as the functions closed every bracket that they opened, the     *)
(* trees under construction hold the literals and names consumed so far,   *)
(* in order.  The closing tokens are not looked at, so a function may      *)
(* consume another token, even a literal, in place of one: then the        *)
(* consumed brackets weigh more than the functions have yet to close, and  *)
(* they do so for good, for no function makes up for it.                   *)
(***************************************************************************)
Slack == Weight(Consumed) - (IF outcome = "parsing" THEN Load(calls) ELSE 0)

Built == IF outcome = "parsing" THEN Carried(calls) ELSE stmts

YieldInv ==
  outcome \in {"parsing", "DONE"} =>
    /\ Slack >= 0
    /\ Slack = 0 => YieldOf(nodes, Built) = Literals(Consumed)

\* The tokens that a step consumes: their literals, and what they weigh.
Reads(l, v) ==
  /\ Literals(Consumed') = Literals(Consumed) \o l
  /\ Weight(Consumed') = Weight(Consumed) + v
  /\ l \in Seq(Value) /\ v \in Int

\* The trees ks hold those of the innermost frame, and l.
Tells(ks, l) == YieldOf(nodes', ks) = YieldOf(nodes, Top.kids) \o l

LEMMA ConsumedIs ==
  ASSUME ParserInv
  PROVE  /\ Consumed \in Seq(Token) /\ Weight(Consumed) \in Int
         /\ Literals(Consumed) \in Seq(Value)
<1>1. toks \in Seq(Token) /\ tokit \in 1 .. Len(toks) + 1
  BY DEF ParserInv, TypeOK
<1>2. Split(toks, Token)
  BY <1>1, FirstParts
<1>3. Len(toks) \in Nat
  BY <1>2 DEF Split
<1>4. tokit - 1 \in 0 .. Len(toks)
  BY <1>1, <1>3
<1>5. Consumed \in Seq(Token)
  BY <1>2, <1>4 DEF Split, Consumed
<1>6. TokenWeight \in [Token -> Int]
  BY Weights
<1>7. Weight(Consumed) \in Int
  <2> DEFINE s == Consumed
  <2> HIDE DEF s
  <2>1. s \in Seq(Token)
    BY <1>5 DEF s
  <2>2. AddsUp(TokenWeight, s, s, Token)
    BY <1>6, <2>1, TotalMapIs
  <2> QED BY <2>2 DEF AddsUp, Weight, s
<1>8. Literals(Consumed) \in Seq(Value)
  <2> DEFINE s == Consumed
  <2> HIDE DEF s
  <2>1. s \in Seq(Token)
    BY <1>5 DEF s
  <2>2. Literals(s) = FlatMap(LiteralsAt, s) /\ LiteralsAt \in [Token -> Seq(Value)]
    BY <2>1, LiteralsIs
  <2>3. FlattensTo(LiteralsAt, s, s, Token, Value)
    BY <2>1, <2>2, FlatMapIs
  <2> QED BY <2>2, <2>3 DEF FlattensTo, s
<1> QED BY <1>5, <1>7, <1>8

\* A step that goes on keeps YieldInv, if it may lose a literal only when the
\* slack grows.
LEMMA Carries ==
  ASSUME ParserInv, ParserInv', YieldInv, outcome = "parsing", Keep,
         Grown(nodes, nodes'),
         NEW ks, NEW w, Shifts(ks, w), NEW l, NEW v, Reads(l, v),
         v - w + FrameWeight(Top, 2) >= 0,
         v - w + FrameWeight(Top, 2) = 0 => Tells(ks, l)
  PROVE  YieldInv'
<1> DEFINE b == Below
           x == FrameWeight(Top, 2)
           a == Carried(Below)
           W == Weight(Consumed)
<1>1. calls \in Seq(Frames(nodes)) /\ calls # << >> /\ Heap(nodes)
  BY Ready
<1>2. /\ Carried(calls) = a \o Top.kids /\ Outer(b) \in Int
      /\ a \in Seq(DOMAIN nodes) /\ Top.kids \in Seq(DOMAIN nodes)
  BY <1>1, StackSplits DEF Below, Top
<1>3. Load(calls) = Outer(b) + x /\ x \in Int
  <2>1. x \in Int
    BY FrameWeights
  <2> QED BY <2>1 DEF Load, Below, Top
<1>4. outcome' = "parsing"
  BY DEF Keep
<1>5. W \in Int /\ Literals(Consumed) \in Seq(Value)
  BY ConsumedIs
<1>6. /\ Carried(calls') = a \o ks /\ Load(calls') = Outer(b) + w
      /\ ks \in Seq(DOMAIN nodes') /\ w \in Int
  BY DEF Shifts
<1>7. /\ Literals(Consumed') = Literals(Consumed) \o l
      /\ Weight(Consumed') = W + v /\ l \in Seq(Value) /\ v \in Int
  BY DEF Reads
<1> HIDE DEF b, x, a, W
<1>8. Slack = W - (Outer(b) + x)
  BY <1>3 DEF Slack, W
<1>9. Slack' = (W + v) - (Outer(b) + w)
  BY <1>4, <1>6, <1>7 DEF Slack
<1>10. v - w + x >= 0 /\ (v - w + x = 0 => Tells(ks, l))
  BY DEF x
<1>11. Slack >= 0 /\ (Slack = 0 => YieldOf(nodes, a \o Top.kids) = Literals(Consumed))
  BY <1>2 DEF YieldInv, Built
<1>12. Slack' >= 0 /\ (Slack' = 0 => Slack = 0 /\ v - w + x = 0)
  <2>1. /\ W \in Int /\ Outer(b) \in Int
        /\ x \in Int /\ w \in Int /\ v \in Int
    BY <1>2, <1>3, <1>5, <1>6, <1>7
  <2>2. Slack \in Int /\ Slack' = Slack + (v - w + x)
    BY <1>8, <1>9, <2>1
  <2>3. v - w + x >= 0 /\ Slack >= 0
    BY <1>10, <1>11
  <2> QED BY <2>1, <2>2, <2>3
<1>13. ASSUME Slack' = 0
       PROVE  YieldOf(nodes', a \o ks) = Literals(Consumed')
  <2>1. YieldOf(nodes', ks) = YieldOf(nodes, Top.kids) \o l
    BY <1>10, <1>12, <1>13 DEF Tells
  <2>2. YieldOf(nodes, a \o Top.kids) = Literals(Consumed)
    BY <1>11, <1>12, <1>13
  <2>3. /\ YieldOf(nodes, a \o Top.kids) = YieldOf(nodes, a) \o YieldOf(nodes, Top.kids)
        /\ YieldOf(nodes, a) \in Seq(Value) /\ YieldOf(nodes, Top.kids) \in Seq(Value)
    BY <1>1, <1>2, YieldOfIs
  <2>4. Heap(nodes') /\ a \in Seq(DOMAIN nodes')
    BY <1>2, SeqGrows DEF Grown
  <2>5. YieldOf(nodes', a \o ks) = YieldOf(nodes', a) \o YieldOf(nodes', ks)
    BY <1>6, <2>4, YieldOfIs
  <2>6. YieldOf(nodes', a) = YieldOf(nodes, a)
    BY <1>2, YieldOfGrows
  <2> QED BY <1>7, <2>1, <2>2, <2>3, <2>5, <2>6, ConcatAssociative,
             SMTT(30)
<1>14. Built' = a \o ks
  BY <1>4, <1>6 DEF Built
<1> QED BY <1>12, <1>13, <1>14 DEF YieldInv

-----------------------------------------------------------------------------
\* What steps consume.

LEMMA TokenKinds ==
  ASSUME NEW t \in Token
  PROVE  /\ TokenWeight[t] \in {-1, 0, 1}
         /\ t.type \in DOMAIN LeafKind => LiteralOf(t) = <<t.lit>> /\ TokenWeight[t] = 0
         /\ t.type \notin DOMAIN LeafKind => LiteralOf(t) = << >>
         /\ TokenWeight[t] = -1 => LiteralOf(t) = << >>
         /\ t.type \in {"LEFT_PAREN", "LEFT_BRACKET", "RIGHT_BRACE"} => TokenWeight[t] = 1
         /\ t.type = "RIGHT_PAREN" => TokenWeight[t] = -1
         /\ t.type \notin DOMAIN Closer \cup Range(Closer) => TokenWeight[t] = 0
<1>1. DOMAIN LeafKind = {"ID", "NUM", "STRING", "TRUE", "FALSE"}
  BY DEF LeafKind
<1>2. TokenWeight[t] = IF t.type \in {"LEFT_PAREN", "LEFT_BRACKET", "RIGHT_BRACE"} THEN 1
     ELSE IF t.type \in {"RIGHT_PAREN", "RIGHT_BRACKET", "LEFT_BRACE"} THEN -1
     ELSE 0
  BY DEF TokenWeight
<1>3. /\ t.type \in DOMAIN LeafKind => LiteralOf(t) = <<t.lit>>
      /\ t.type \notin DOMAIN LeafKind => LiteralOf(t) = << >>
  BY DEF LiteralOf, LeafTypes
<1> QED BY <1>1, <1>2, <1>3, Closers

LEMMA TokenAt ==
  ASSUME ParserInv, outcome = "parsing", NEW n \in Nat, tokit + n <= Len(toks)
  PROVE  /\ toks[tokit + n] \in Token /\ TypeIn(n) = toks[tokit + n].type
         /\ tokit + n \in 1 .. Len(toks) /\ toks \in Seq(Token)
<1>1. tokit \in Nat \ {0} /\ Len(toks) \in Nat /\ toks \in Seq(Token)
  BY Ready
<1>2. tokit + n \in 1 .. Len(toks)
  BY <1>1
<1> QED BY <1>1, <1>2, ElementOfSeq DEF TypeIn

LEMMA ReadsNone ==
  ASSUME ParserInv, UNCHANGED <<toks, tokit>>
  PROVE  Reads(<< >>, 0)
<1>1. Weight(Consumed) \in Int /\ Literals(Consumed) \in Seq(Value)
  BY ConsumedIs
<1>2. Consumed' = Consumed
  BY DEF Consumed
<1>3. Literals(Consumed) \o << >> = Literals(Consumed) /\ << >> \in Seq(Value)
  BY <1>1, ConcatEmptySeq
<1>4. Weight(Consumed) + 0 = Weight(Consumed)
  BY <1>1
<1> QED BY <1>2, <1>3, <1>4 DEF Reads

\* The first n tokens from the current one on.
LEMMA ReadsOne ==
  ASSUME ParserInv, outcome = "parsing", Keep, Consume(1), tokit <= Len(toks)
  PROVE  /\ Reads(LiteralOf(toks[tokit]), TokenWeight[toks[tokit]])
         /\ toks[tokit] \in Token /\ toks[tokit].type = currtype
<1>1. tokit \in Nat \ {0} /\ Len(toks) \in Nat /\ toks \in Seq(Token)
  BY Ready
<1>2. /\ tokit' - 1 = tokit /\ toks' = toks /\ tokit \in 1 .. Len(toks)
      /\ tokit + 0 = tokit
  BY <1>1 DEF Consume, Keep
<1>3. Consumed' = SubSeq(toks, 1, tokit) /\ Consumed = SubSeq(toks, 1, tokit - 1)
  BY <1>2 DEF Consumed
<1>4. /\ Literals(Consumed') = Literals(Consumed) \o LiteralOf(toks[tokit])
      /\ LiteralOf(toks[tokit]) \in Seq(Value)
  BY <1>1, <1>2, <1>3, LiteralsNext
<1>5. /\ Weight(Consumed') = Weight(Consumed) + TokenWeight[toks[tokit]]
      /\ TokenWeight[toks[tokit]] \in Int
  BY <1>1, <1>2, <1>3, WeightNext
<1>6. toks[tokit] \in Token /\ currtype = toks[tokit].type
  BY <1>2, TokenAt DEF currtype
<1> QED BY <1>4, <1>5, <1>6 DEF Reads

LEMMA ReadsCurrent ==
  ASSUME ParserInv, outcome = "parsing", Keep, Consume(1), currtype # "NONE"
  PROVE  /\ Reads(LiteralOf(toks[tokit]), TokenWeight[toks[tokit]])
         /\ toks[tokit] \in Token /\ toks[tokit].type = currtype
<1>1. TypeIn(0) # "NONE" /\ 0 \in Nat
  BY DEF currtype
<1>2. tokit + 0 <= Len(toks) /\ tokit \in Nat
  BY <1>1, TypeInside, Ready
<1>3. tokit <= Len(toks)
  BY <1>2
<1> QED BY <1>3, ReadsOne

\* An operator, a keyword or a separator.
Quiet == {"BANG", "MINUS", "PRINT", "RET", "VAR", "IF", "ELSE", "COMMA",
          "SEMICOLON", "FN", "FOR", "COLON"} \cup BinaryTypes

LEMMA ReadsQuiet ==
  ASSUME ParserInv, outcome = "parsing", Keep, Consume(1), currtype \in Quiet
  PROVE  Reads(<< >>, 0)
<1>1. /\ currtype # "NONE" /\ currtype \notin DOMAIN LeafKind
      /\ currtype \notin DOMAIN Closer \cup Range(Closer)
  BY Closers DEF Quiet, BinaryTypes, LeafKind
<1>2. /\ Reads(LiteralOf(toks[tokit]), TokenWeight[toks[tokit]])
      /\ toks[tokit] \in Token /\ toks[tokit].type = currtype
  BY <1>1, ReadsCurrent
<1>3. LiteralOf(toks[tokit]) = << >> /\ TokenWeight[toks[tokit]] = 0
  BY <1>1, <1>2, TokenKinds
<1> QED BY <1>2, <1>3

\* A bracket.
LEMMA ReadsBracket ==
  ASSUME ParserInv, outcome = "parsing", Keep, Consume(1),
         currtype \in {"LEFT_PAREN", "LEFT_BRACKET", "RIGHT_BRACE"}
  PROVE  Reads(<< >>, 1)
<1>1. currtype # "NONE" /\ currtype \notin DOMAIN LeafKind
  BY DEF LeafKind
<1>2. /\ Reads(LiteralOf(toks[tokit]), TokenWeight[toks[tokit]])
      /\ toks[tokit] \in Token /\ toks[tokit].type = currtype
  BY <1>1, ReadsCurrent
<1>3. LiteralOf(toks[tokit]) = << >> /\ TokenWeight[toks[tokit]] = 1
  BY <1>1, <1>2, TokenKinds
<1> QED BY <1>2, <1>3

\* A token that is not looked at.
LEMMA ReadsAny ==
  ASSUME ParserInv, outcome = "parsing", Keep, Consume(1), ~ AtEnd
  PROVE  \E l, v : /\ Reads(l, v) /\ v \in {-1, 0, 1}
                   /\ v = -1 => l = << >>
<1>1. tokit <= Len(toks)
  BY NotAtEnd
<1>2. /\ Reads(LiteralOf(toks[tokit]), TokenWeight[toks[tokit]])
      /\ toks[tokit] \in Token
  BY <1>1, ReadsOne
<1>3. /\ TokenWeight[toks[tokit]] \in {-1, 0, 1}
      /\ TokenWeight[toks[tokit]] = -1 => LiteralOf(toks[tokit]) = << >>
  BY <1>2, TokenKinds
<1> QED BY <1>2, <1>3

\* A parenthesis that closes at once.
LEMMA ReadsTwo ==
  ASSUME ParserInv, outcome = "parsing", Keep, Consume(2),
         TypeIn(0) = "LEFT_PAREN", TypeIn(1) = "RIGHT_PAREN"
  PROVE  Reads(<< >>, 0)
<1>1. tokit \in Nat \ {0} /\ Len(toks) \in Nat /\ toks \in Seq(Token)
  BY Ready
<1>2. tokit + 0 <= Len(toks) /\ tokit + 1 <= Len(toks)
  BY TypeInside
<1> DEFINE t == tokit
           a == toks[tokit]
           b == toks[tokit + 1]
           p == SubSeq(toks, 1, t - 1)
           q == SubSeq(toks, 1, t)
           r == SubSeq(toks, 1, t + 1)
<1>3. /\ t \in 1 .. Len(toks) /\ t + 1 \in 1 .. Len(toks) /\ (t + 1) - 1 = t
      /\ tokit' - 1 = t + 1 /\ toks' = toks
  BY <1>1, <1>2 DEF Consume, Keep
<1>4. Consumed = p /\ Consumed' = r
  BY <1>3 DEF Consumed
<1>5. a \in Token /\ b \in Token /\ a.type = "LEFT_PAREN" /\ b.type = "RIGHT_PAREN"
  <2>1. tokit + 0 = tokit
    BY <1>1
  <2>2. toks[tokit + 0] \in Token /\ TypeIn(0) = toks[tokit + 0].type
    BY <1>2, TokenAt
  <2>3. toks[tokit + 1] \in Token /\ TypeIn(1) = toks[tokit + 1].type
    BY <1>2, TokenAt
  <2> QED BY <2>1, <2>2, <2>3
<1>6. /\ LiteralOf(a) = << >> /\ LiteralOf(b) = << >>
      /\ TokenWeight[a] = 1 /\ TokenWeight[b] = -1
  <2> HIDE DEF a, b
  <2>1. "LEFT_PAREN" \notin DOMAIN LeafKind /\ "RIGHT_PAREN" \notin DOMAIN LeafKind
    BY DEF LeafKind
  <2> QED BY <1>5, <2>1, TokenKinds
<1>7. /\ Literals(q) = Literals(p) \o LiteralOf(a) /\ Literals(p) \in Seq(Value)
      /\ Literals(r) = Literals(q) \o LiteralOf(b) /\ Literals(q) \in Seq(Value)
  BY <1>1, <1>3, LiteralsNext
<1>8. /\ Weight(q) = Weight(p) + TokenWeight[a] /\ Weight(p) \in Int
      /\ Weight(r) = Weight(q) + TokenWeight[b]
  BY <1>1, <1>3, WeightNext
<1> HIDE DEF p, q, r, a, b
<1>9. Literals(r) = Literals(p) \o << >>
  BY <1>6, <1>7, ConcatEmptySeq
<1>10. Weight(r) = Weight(p) + 0
  BY <1>6, <1>8
<1>11. << >> \in Seq(Value) /\ 0 \in Int
  OBVIOUS
<1> QED BY <1>4, <1>9, <1>10, <1>11 DEF Reads

\* A keyword, a name and a third token.
LEMMA ReadsThree ==
  ASSUME ParserInv, outcome = "parsing", Keep, Consume(3),
         TypeIn(0) \in {"FN", "FOR"}, TypeIn(1) = "ID",
         TypeIn(2) \in {"COLON", "LEFT_PAREN"}
  PROVE  /\ Reads(<<toks[tokit + 1].lit>>, IF TypeIn(2) = "COLON" THEN 0 ELSE 1)
         /\ toks[tokit + 1].lit \in Value
<1>1. tokit \in Nat \ {0} /\ Len(toks) \in Nat /\ toks \in Seq(Token)
  BY Ready
<1>2. tokit + 0 <= Len(toks) /\ tokit + 1 <= Len(toks) /\ tokit + 2 <= Len(toks)
      /\ toks[tokit + 1].lit \in Value
  BY TypeInside
<1> DEFINE t == tokit
           a == toks[tokit]
           b == toks[tokit + 1]
           c == toks[tokit + 2]
           p == SubSeq(toks, 1, t - 1)
           q == SubSeq(toks, 1, t)
           r == SubSeq(toks, 1, t + 1)
           s == SubSeq(toks, 1, t + 2)
           w == IF TypeIn(2) = "COLON" THEN 0 ELSE 1
<1>3. /\ t \in 1 .. Len(toks) /\ t + 1 \in 1 .. Len(toks) /\ (t + 1) - 1 = t
      /\ t + 2 \in 1 .. Len(toks) /\ (t + 2) - 1 = t + 1
      /\ tokit' - 1 = t + 2 /\ toks' = toks
  BY <1>1, <1>2 DEF Consume, Keep
<1>4. Consumed = p /\ Consumed' = s
  BY <1>3 DEF Consumed
<1>5. /\ a \in Token /\ b \in Token /\ c \in Token
      /\ a.type \in {"FN", "FOR"} /\ b.type = "ID"
      /\ c.type = TypeIn(2)
  <2>1. tokit + 0 = tokit
    BY <1>1
  <2>2. toks[tokit + 0] \in Token /\ TypeIn(0) = toks[tokit + 0].type
    BY <1>2, TokenAt
  <2>3. toks[tokit + 1] \in Token /\ TypeIn(1) = toks[tokit + 1].type
    BY <1>2, TokenAt
  <2>4. toks[tokit + 2] \in Token /\ TypeIn(2) = toks[tokit + 2].type
    BY <1>2, TokenAt
  <2> QED BY <2>1, <2>2, <2>3, <2>4
<1>6. /\ LiteralOf(a) = << >> /\ LiteralOf(b) = <<b.lit>> /\ LiteralOf(c) = << >>
      /\ TokenWeight[a] = 0 /\ TokenWeight[b] = 0 /\ TokenWeight[c] = w
  <2> HIDE DEF a, b, c
  <2>1. DOMAIN LeafKind = {"ID", "NUM", "STRING", "TRUE", "FALSE"}
    BY DEF LeafKind
  <2>2. LiteralOf(a) = << >> /\ TokenWeight[a] = 0
    BY <1>5, <2>1, Closers, TokenKinds
  <2>3. LiteralOf(b) = <<b.lit>> /\ TokenWeight[b] = 0
    BY <1>5, <2>1, TokenKinds
  <2>4. LiteralOf(c) = << >> /\ TokenWeight[c] = w
    BY <1>5, <2>1, Closers, TokenKinds
  <2> QED BY <2>2, <2>3, <2>4
<1>7. /\ Literals(q) = Literals(p) \o LiteralOf(a) /\ Literals(p) \in Seq(Value)
      /\ Literals(r) = Literals(q) \o LiteralOf(b) /\ Literals(q) \in Seq(Value)
      /\ Literals(s) = Literals(r) \o LiteralOf(c) /\ Literals(r) \in Seq(Value)
  BY <1>1, <1>3, LiteralsNext
<1>8. /\ Weight(q) = Weight(p) + TokenWeight[a] /\ Weight(p) \in Int
      /\ Weight(r) = Weight(q) + TokenWeight[b]
      /\ Weight(s) = Weight(r) + TokenWeight[c]
  BY <1>1, <1>3, WeightNext
<1>9. <<b.lit>> \in Seq(Value)
  BY <1>2
<1> HIDE DEF p, q, r, s, a, b, c
<1>10. Literals(s) = Literals(p) \o <<b.lit>>
  BY <1>6, <1>7, <1>9, ConcatEmptySeq
<1>11. w \in Int
  OBVIOUS
<1> HIDE DEF w
<1>12. Weight(s) = Weight(p) + w
  BY <1>6, <1>8, <1>11
<1> QED BY <1>2, <1>4, <1>9, <1>10, <1>11, <1>12 DEF Reads, b, w

-----------------------------------------------------------------------------
\* What becomes of the trees.

LEMMA GrownSame ==
  ASSUME ParserInv, UNCHANGED nodes
  PROVE  Grown(nodes, nodes')
BY DEF ParserInv, TypeOK, Grown

LEMMA GrownNode ==
  ASSUME ParserInv, ParserInv', NEW m, New(<<m>>), m.kids \in Seq(DOMAIN nodes)
  PROVE  /\ Grown(nodes, nodes') /\ NewAt \in DOMAIN nodes'
         /\ m.kind \in LeafKinds => YieldOf(nodes', <<NewAt>>) = <<m.lit>>
         /\ m.kind \notin LeafKinds =>
              YieldOf(nodes', <<NewAt>>) = YieldOf(nodes, m.kids)
<1>1. Heap(nodes) /\ Heap(nodes') /\ nodes' = nodes \o <<m>>
  BY DEF ParserInv, TypeOK, New
<1>2. PICK ns, ms : ns = nodes /\ ms = nodes'
  OBVIOUS
<1>3. Heap(ns) /\ Heap(ns \o <<m>>) /\ m.kids \in Seq(DOMAIN ns) /\ ms = ns \o <<m>>
  BY <1>1, <1>2
<1>4. /\ Grown(ns, ms) /\ Len(ns) + 1 \in DOMAIN ms
      /\ m.kind \in LeafKinds => YieldOf(ms, <<Len(ns) + 1>>) = <<m.lit>>
      /\ m.kind \notin LeafKinds =>
           YieldOf(ms, <<Len(ns) + 1>>) = YieldOf(ns, m.kids)
  BY <1>3, YieldNode
<1> QED BY <1>2, <1>4 DEF NewAt

LEMMA TellsMore ==
  ASSUME ParserInv, outcome = "parsing", Grown(nodes, nodes'),
         NEW js \in Seq(DOMAIN nodes'), NEW l, YieldOf(nodes', js) = l
  PROVE  Tells(Top.kids \o js, l)
<1> DEFINE ks == Top.kids
<1>1. ks \in Seq(DOMAIN nodes) /\ DOMAIN nodes \subseteq DOMAIN nodes' /\ Heap(nodes')
  BY Ready DEF Frames, Grown
<1> HIDE DEF ks
<1>2. ks \in Seq(DOMAIN nodes')
  BY <1>1, SeqGrows
<1>3. YieldOf(nodes', ks \o js) = YieldOf(nodes', ks) \o YieldOf(nodes', js)
  BY <1>1, <1>2, YieldOfIs
<1>4. YieldOf(nodes', ks) = YieldOf(nodes, ks)
  BY <1>1, YieldOfGrows
<1> QED BY <1>3, <1>4 DEF Tells, ks

LEMMA TellsSame ==
  ASSUME ParserInv, outcome = "parsing", Grown(nodes, nodes')
  PROVE  Tells(Top.kids, << >>) /\ Top.kids \in Seq(DOMAIN nodes')
<1> DEFINE ks == Top.kids
<1>1. /\ ks \in Seq(DOMAIN nodes) /\ DOMAIN nodes \subseteq DOMAIN nodes'
      /\ Heap(nodes')
  BY Ready DEF Frames, Grown
<1> HIDE DEF ks
<1>2. << >> \in Seq(DOMAIN nodes') /\ YieldOf(nodes', << >>) = << >>
  <2>1. << >> \in Seq(DOMAIN nodes')
    OBVIOUS
  <2> QED BY <1>1, <2>1, YieldOfIs
<1>3. Tells(ks \o << >>, << >>)
  BY <1>2, TellsMore DEF ks
<1>4. ks \o << >> = ks /\ ks \in Seq(DOMAIN nodes')
  BY <1>1, ConcatEmptySeq, SeqGrows
<1> QED BY <1>3, <1>4 DEF ks

LEMMA StopsYield ==
  ASSUME NEW how \in Stopped, Stop(how)
  PROVE  YieldInv'
BY DEF Stop, Stopped, YieldInv

\* The innermost function returns the node it makes of its nodes.
LEMMA ReturnsYield ==
  ASSUME ParserInv, ParserInv', YieldInv, outcome = "parsing", Keep,
         Top.fn \notin Loops, NEW kind, kind \notin LeafKinds, NEW type,
         ReturnNew(kind, type, Top.kids), NEW l, NEW v, Reads(l, v),
         v + FrameWeight(Top, 2) >= 0,
         v + FrameWeight(Top, 2) = 0 => l = << >>
  PROVE  YieldInv'
<1> DEFINE m == Inner(kind, type, Top.kids)
           js == <<NewAt>>
<1>1. /\ New(<<m>>) /\ calls' = Deliver(Below, js) /\ m.kids = Top.kids
      /\ m.kind = kind
  BY DEF ReturnNew, Inner
<1>2. Len(calls) >= 2 /\ Top.kids \in Seq(DOMAIN nodes)
  BY Ready DEF Frames
<1> HIDE DEF m
<1>3. /\ Grown(nodes, nodes') /\ NewAt \in DOMAIN nodes'
      /\ YieldOf(nodes', <<NewAt>>) = YieldOf(nodes, Top.kids)
  BY <1>1, <1>2, GrownNode
<1>4. js \in Seq(DOMAIN nodes') /\ Len(js) = 1 /\ DOMAIN nodes \subseteq DOMAIN nodes'
  BY <1>3 DEF Grown
<1>5. YieldOf(nodes', js) = YieldOf(nodes, Top.kids)
  BY <1>3
<1> HIDE DEF js
<1>6. Shifts(js, 0)
  BY <1>1, <1>2, <1>4, ReturnShifts
<1>7. Tells(js, << >>)
  <2>1. Heap(nodes)
    BY Ready
  <2>2. YieldOf(nodes, Top.kids) \in Seq(Value)
    BY <1>2, <2>1, YieldOfIs
  <2> QED BY <1>5, <2>2, ConcatEmptySeq DEF Tells
<1>8. v \in Int /\ FrameWeight(Top, 2) \in Int
  BY FrameWeights DEF Reads
<1>9. v - 0 + FrameWeight(Top, 2) = v + FrameWeight(Top, 2)
  BY <1>8
<1> QED BY <1>3, <1>6, <1>7, <1>9, Carries

\* ... or just its nodes.
LEMMA GivesYield ==
  ASSUME ParserInv, ParserInv', YieldInv, outcome = "parsing", Keep,
         UNCHANGED nodes, calls' = Deliver(Below, Top.kids), Len(calls) >= 2,
         Top.fn \notin Loops => Len(Top.kids) = 1, NEW l, NEW v, Reads(l, v),
         v + FrameWeight(Top, 2) >= 0,
         v + FrameWeight(Top, 2) = 0 => l = << >>
  PROVE  YieldInv'
<1>1. Grown(nodes, nodes') /\ DOMAIN nodes \subseteq DOMAIN nodes'
  BY GrownSame DEF Grown
<1>2. Tells(Top.kids, << >>) /\ Top.kids \in Seq(DOMAIN nodes')
  BY <1>1, TellsSame
<1>3. Shifts(Top.kids, 0)
  BY <1>1, <1>2, ReturnShifts
<1>4. v \in Int /\ FrameWeight(Top, 2) \in Int
  BY FrameWeights DEF Reads
<1>5. v - 0 + FrameWeight(Top, 2) = v + FrameWeight(Top, 2)
  BY <1>4
<1> QED BY <1>1, <1>2, <1>3, <1>5, Carries

\* A function is called and calls ParseExpr.
LEMMA CallsYield ==
  ASSUME ParserInv, ParserInv', YieldInv, outcome = "parsing", Keep,
         Top.fn \in {"ParseExpr", "InfixLoop"}, Grown(nodes, nodes'),
         NEW fn, NEW type, NEW kids, NEW prec, NEW p,
         Become(<<InfixLoop(p, << >>)>> \o <<Typed(fn, type, kids), ParseExpr(prec)>>),
         NEW l, NEW v, Reads(l, v), v = FrameWeight(Typed(fn, type, kids), 1),
         Tells(kids, l)
  PROVE  YieldInv'
<1>1. DOMAIN nodes \subseteq DOMAIN nodes'
  BY DEF Grown
<1>2. Shifts(kids, v)
  BY <1>1, CallsShift
<1>3. FrameWeight(Top, 2) = 0
  BY FrameWeights
<1>4. v \in Int
  BY DEF Reads
<1>5. v - v + FrameWeight(Top, 2) = 0
  BY <1>3, <1>4
<1> QED BY <1>2, <1>5, Carries

\* ParseExpr's loop starts with a node that the prefix function returns.
LEMMA LeavesYield ==
  ASSUME ParserInv, ParserInv', OwnerInv, YieldInv, outcome = "parsing", Keep,
         Top.fn = "ParseExpr", NEW m, New(<<m>>), m.kids = << >>,
         NEW p, Become(<<InfixLoop(p, <<NewAt>>)>>),
         NEW l, Reads(l, 0),
         IF m.kind \in LeafKinds THEN l = <<m.lit>> ELSE l = << >>
  PROVE  YieldInv'
<1> DEFINE f == InfixLoop(p, <<NewAt>>)
           js == <<NewAt>>
<1>1. f.kids = js /\ f.fn = "InfixLoop"
  BY DEF InfixLoop, Frame
<1>2. Top.kids = << >> /\ Heap(nodes)
  BY OwnerReady DEF Bare
<1>3. m.kids \in Seq(DOMAIN nodes)
  OBVIOUS
<1>4. /\ Grown(nodes, nodes') /\ NewAt \in DOMAIN nodes'
      /\ m.kind \in LeafKinds => YieldOf(nodes', <<NewAt>>) = <<m.lit>>
      /\ m.kind \notin LeafKinds =>
           YieldOf(nodes', <<NewAt>>) = YieldOf(nodes, m.kids)
  BY <1>3, GrownNode
<1>5. YieldOf(nodes, << >>) = << >>
  BY <1>2, <1>3, YieldOfIs
<1>6. YieldOf(nodes', js) = l
  BY <1>4, <1>5
<1>7. js \in Seq(DOMAIN nodes')
  BY <1>4
<1>8. Become(<<f>>)
  OBVIOUS
<1> HIDE DEF f, js
<1>9. Tells(js, l)
  <2>1. Tells(Top.kids \o js, l)
    BY <1>4, <1>6, <1>7, TellsMore
  <2>2. << >> \o js = js
    BY <1>7, ConcatEmptySeq
  <2> QED BY <1>2, <2>1, <2>2
<1>10. FrameWeight(f, 2) = 0 /\ FrameWeight(Top, 2) = 0
  BY <1>1, FrameWeights
<1>11. Shifts(js, 0)
  <2>1. DOMAIN nodes \subseteq DOMAIN nodes'
    BY <1>4 DEF Grown
  <2>2. Shifts(f.kids, FrameWeight(f, 2))
    BY <1>8, <2>1, BecomesOne
  <2> QED BY <1>1, <1>10, <2>2
<1>12. 0 - 0 + FrameWeight(Top, 2) = 0
  BY <1>10
<1> QED BY <1>4, <1>9, <1>11, <1>12, Carries

\* The innermost function calls another.
LEMMA PushesYield ==
  ASSUME ParserInv, ParserInv', YieldInv, outcome = "parsing", Keep,
         UNCHANGED nodes, NEW g, calls' = Append(calls, g), g.kids = << >>,
         FrameWeight(g, 2) = 0, NEW l, NEW v, Reads(l, v),
         v - FrameWeight(Top, 1) + FrameWeight(Top, 2) >= 0,
         v - FrameWeight(Top, 1) + FrameWeight(Top, 2) = 0 => l = << >>
  PROVE  YieldInv'
<1>1. Grown(nodes, nodes') /\ DOMAIN nodes \subseteq DOMAIN nodes'
  BY GrownSame DEF Grown
<1>2. Become(<<Top, g>>)
  <2>1. PICK S : S = Frames(nodes) \cup {g}
    OBVIOUS
  <2>2. calls \in Seq(Frames(nodes)) /\ calls # << >>
    BY Ready
  <2>3. Frames(nodes) \subseteq S /\ g \in S
    BY <2>1
  <2>4. calls \in Seq(S)
    BY <2>2, <2>3, SeqGrows
  <2>5. Append(calls, g) = Front(calls) \o <<Last(calls), g>>
    BY <2>2, <2>3, <2>4, AppendIsBecome
  <2> QED BY <2>5 DEF Become, Below, Top
<1>3. Shifts(Top.kids \o g.kids, FrameWeight(Top, 1) + FrameWeight(g, 2))
  BY <1>1, <1>2, BecomesTwo
<1>4. Tells(Top.kids, << >>) /\ Top.kids \in Seq(DOMAIN nodes')
  BY <1>1, TellsSame
<1>5. Top.kids \o g.kids = Top.kids
  BY <1>4, ConcatEmptySeq
<1>6. FrameWeight(Top, 1) + FrameWeight(g, 2) = FrameWeight(Top, 1)
  <2>1. FrameWeight(Top, 1) \in Int
    BY FrameWeights
  <2> QED BY <2>1
<1>7. Shifts(Top.kids, FrameWeight(Top, 1))
  BY <1>3, <1>5, <1>6
<1> QED BY <1>1, <1>4, <1>7, Carries

\* One or two frames take the innermost one's place.
LEMMA OneYields ==
  ASSUME ParserInv, ParserInv', YieldInv, outcome = "parsing", Keep,
         Grown(nodes, nodes'), NEW f, Become(<<f>>), NEW l, NEW v, Reads(l, v),
         v - FrameWeight(f, 2) + FrameWeight(Top, 2) >= 0,
         v - FrameWeight(f, 2) + FrameWeight(Top, 2) = 0 => Tells(f.kids, l)
  PROVE  YieldInv'
<1>1. DOMAIN nodes \subseteq DOMAIN nodes'
  BY DEF Grown
<1>2. Shifts(f.kids, FrameWeight(f, 2))
  BY <1>1, BecomesOne
<1> QED BY <1>2, Carries

LEMMA TwoYield ==
  ASSUME ParserInv, ParserInv', YieldInv, outcome = "parsing", Keep,
         Grown(nodes, nodes'), NEW f, NEW g,
         Become(<<f, g>>) \/ Become(<<f>> \o <<g>>),
         NEW w, w = FrameWeight(f, 1) + FrameWeight(g, 2),
         NEW l, NEW v, Reads(l, v), v - w + FrameWeight(Top, 2) >= 0,
         v - w + FrameWeight(Top, 2) = 0 => Tells(f.kids \o g.kids, l)
  PROVE  YieldInv'
<1>1. DOMAIN nodes \subseteq DOMAIN nodes'
  BY DEF Grown
<1>2. Shifts(f.kids \o g.kids, w)
  BY <1>1, BecomesTwo
<1> QED BY <1>2, Carries

\* The frames of functions that close no bracket, or none any more.
LEMMA NoWeight ==
  /\ \A p, ks, n : FrameWeight(InfixLoop(p, ks), n) = 0
  /\ \A p, n : FrameWeight(ParseExpr(p), n) = 0
  /\ \A fn, ks, n :
       fn \notin {"Grouping", "Call", "Subscript", "FnDef", "EndBlock"} =>
         FrameWeight(Fn(fn, ks), n) = 0
  /\ \A fn, type, ks, n :
       fn \notin {"Grouping", "Call", "Subscript", "FnDef", "EndBlock"} =>
         FrameWeight(Typed(fn, type, ks), n) = 0
  /\ \A fn, type, ks, n : fn \in {"Grouping", "Call", "Subscript"} =>
         /\ FrameWeight(Typed(fn, type, ks), n) = 1
         /\ FrameWeight(Fn(fn, ks), n) = 1
  /\ Top.fn \in {"ParseExpr", "InfixLoop"} => FrameWeight(Top, 2) = 0
<1>1. /\ \A p, ks : InfixLoop(p, ks).fn = "InfixLoop"
      /\ \A p : ParseExpr(p).fn = "ParseExpr"
      /\ \A fn, ks : Fn(fn, ks).fn = fn
      /\ \A fn, type, ks : Typed(fn, type, ks).fn = fn
  BY DEF InfixLoop, ParseExpr, Fn, Typed, Frame
<1>2. /\ \A fn, ks, n :
           fn \notin {"Grouping", "Call", "Subscript", "FnDef", "EndBlock"} =>
             FrameWeight(Fn(fn, ks), n) = 0
      /\ \A fn, type, ks, n :
           fn \notin {"Grouping", "Call", "Subscript", "FnDef", "EndBlock"} =>
             FrameWeight(Typed(fn, type, ks), n) = 0
  BY <1>1, FrameWeights
<1>3. \A fn, type, ks, n : fn \in {"Grouping", "Call", "Subscript"} =>
         /\ FrameWeight(Typed(fn, type, ks), n) = 1
         /\ FrameWeight(Fn(fn, ks), n) = 1
  BY <1>1, FrameWeights
<1>4. /\ \A p, ks, n : FrameWeight(InfixLoop(p, ks), n) = 0
      /\ \A p, n : FrameWeight(ParseExpr(p), n) = 0
  BY <1>1, FrameWeights
<1>5. Top.fn \in {"ParseExpr", "InfixLoop"} => FrameWeight(Top, 2) = 0
  BY FrameWeights
<1> QED BY <1>2, <1>3, <1>4, <1>5

-----------------------------------------------------------------------------
\* Every action of the parser keeps YieldInv.

LEMMA ParseNothingYield ==
  ParserInv /\ ParserInv' /\ OwnerInv /\ YieldInv /\ ParseNothing => YieldInv'
<1> SUFFICES ASSUME ParserInv, ParserInv', OwnerInv, YieldInv, ParseNothing
             PROVE  YieldInv'
  OBVIOUS
<1>1. /\ outcome = "parsing" /\ Top.fn = "ParseExpr" /\ Top.fn \in Bare
      /\ Top.fn \notin Loops /\ Keep /\ UNCHANGED tokit
      /\ ReturnNew("Empty", "NONE", << >>) /\ "Empty" \notin LeafKinds
  BY DEF ParseNothing, Running, Bare, Loops, LeafKinds
<1>2. ReturnNew("Empty", "NONE", Top.kids)
  BY <1>1, StartsWith
<1>3. Reads(<< >>, 0)
  BY <1>1, ReadsNone DEF Keep
<1>4. FrameWeight(Top, 2) = 0
  BY <1>1, NoWeight
<1>5. 0 + FrameWeight(Top, 2) >= 0
  BY <1>4
<1> QED BY <1>1, <1>2, <1>3, <1>5, ReturnsYield

LEMMA ParseLeafYield ==
  ParserInv /\ ParserInv' /\ OwnerInv /\ YieldInv /\ ParseLeaf => YieldInv'
<1> SUFFICES ASSUME ParserInv, ParserInv', OwnerInv, YieldInv, ParseLeaf
             PROVE  YieldInv'
  OBVIOUS
<1> DEFINE m == Leaf(LeafKind[currtype], toks[tokit].lit)
<1>1. /\ outcome = "parsing" /\ Top.fn = "ParseExpr" /\ Keep /\ Consume(1)
      /\ currtype \in DOMAIN LeafKind
      /\ New(<<m>>) /\ Become(<<InfixLoop(Top.prec, <<NewAt>>)>>)
  BY DEF ParseLeaf, LeafTypes, Prefix, Running
<1>2. /\ m.kids = << >> /\ m.lit = toks[tokit].lit /\ m.kind = LeafKind[currtype]
  BY DEF Leaf
<1>3. m.kind \in LeafKinds /\ currtype # "NONE"
  BY <1>1, <1>2 DEF LeafKind, LeafKinds
<1>4. /\ Reads(LiteralOf(toks[tokit]), TokenWeight[toks[tokit]])
      /\ toks[tokit] \in Token /\ toks[tokit].type = currtype
  BY <1>1, <1>3, ReadsCurrent
<1>5. LiteralOf(toks[tokit]) = <<toks[tokit].lit>> /\ TokenWeight[toks[tokit]] = 0
  BY <1>1, <1>4, TokenKinds
<1> HIDE DEF m
<1>6. Reads(<<m.lit>>, 0)
  BY <1>2, <1>4, <1>5
<1> QED BY <1>1, <1>2, <1>3, <1>6, LeavesYield

LEMMA ParseUnaryOpYield ==
  ParserInv /\ ParserInv' /\ OwnerInv /\ YieldInv /\ ParseUnaryOp => YieldInv'
<1> SUFFICES ASSUME ParserInv, ParserInv', OwnerInv, YieldInv, ParseUnaryOp
             PROVE  YieldInv'
  OBVIOUS
<1>1. /\ outcome = "parsing" /\ Top.fn = "ParseExpr" /\ Top.fn \in Bare
      /\ UNCHANGED nodes /\ Keep /\ Consume(1) /\ currtype \in {"BANG", "MINUS"}
      /\ Become(<<InfixLoop(Top.prec, << >>)>>
                  \o <<Typed("UnaryOp", currtype, << >>),
                       ParseExpr(PrefixPrec(currtype))>>)
  BY DEF ParseUnaryOp, Prefix, Running, CallPrefix, Bare
<1>2. Reads(<< >>, 0)
  BY <1>1, ReadsQuiet DEF Quiet
<1>3. Grown(nodes, nodes')
  BY <1>1, GrownSame
<1>4. Tells(<< >>, << >>)
  BY <1>1, <1>3, StartsWith, TellsSame
<1>5. 0 = FrameWeight(Typed("UnaryOp", currtype, << >>), 1)
  BY NoWeight
<1> QED BY <1>1, <1>2, <1>3, <1>4, <1>5, CallsYield

LEMMA ParseGroupingYield ==
  ParserInv /\ ParserInv' /\ OwnerInv /\ YieldInv /\ ParseGrouping => YieldInv'
<1> SUFFICES ASSUME ParserInv, ParserInv', OwnerInv, YieldInv, ParseGrouping
             PROVE  YieldInv'
  OBVIOUS
<1>1. /\ outcome = "parsing" /\ Top.fn = "ParseExpr" /\ Top.fn \in Bare /\ Keep
      /\ TypeIn(0) = "LEFT_PAREN" /\ currtype = "LEFT_PAREN"
  BY DEF ParseGrouping, Prefix, Running, Bare, currtype
<1>2. CASE TypeIn(1) = "RIGHT_PAREN"
  <2> DEFINE m == Inner("Empty", "NONE", << >>)
  <2>1. New(<<m>>) /\ Become(<<InfixLoop(Top.prec, <<NewAt>>)>>) /\ Consume(2)
    BY <1>2 DEF ParseGrouping
  <2>2. m.kids = << >> /\ m.kind \notin LeafKinds
    BY DEF Inner, LeafKinds
  <2> HIDE DEF m
  <2>3. Reads(<< >>, 0)
    BY <1>1, <1>2, <2>1, ReadsTwo
  <2> QED BY <1>1, <2>1, <2>2, <2>3, LeavesYield
<1>3. CASE TypeIn(1) # "RIGHT_PAREN"
  <2>1. /\ UNCHANGED nodes /\ Consume(1)
        /\ Become(<<InfixLoop(Top.prec, << >>)>>
                    \o <<Typed("Grouping", "NONE", << >>),
                         ParseExpr(PrefixPrec("LEFT_PAREN"))>>)
    BY <1>3 DEF ParseGrouping, CallPrefix, Fn, Typed
  <2>2. Reads(<< >>, 1)
    BY <1>1, <2>1, ReadsBracket
  <2>3. Grown(nodes, nodes')
    BY <2>1, GrownSame
  <2>4. Tells(<< >>, << >>)
    BY <1>1, <2>3, StartsWith, TellsSame
  <2>5. 1 = FrameWeight(Typed("Grouping", "NONE", << >>), 1)
    BY NoWeight
  <2> QED BY <1>1, <2>1, <2>2, <2>3, <2>4, <2>5, CallsYield
<1> QED BY <1>2, <1>3

LEMMA ParseKeywordYield ==
  ParserInv /\ ParserInv' /\ OwnerInv /\ YieldInv /\ ParseKeyword => YieldInv'
<1> SUFFICES ASSUME ParserInv, ParserInv', OwnerInv, YieldInv, ParseKeyword
             PROVE  YieldInv'
  OBVIOUS
<1>1. /\ outcome = "parsing" /\ Top.fn = "ParseExpr" /\ Top.fn \in Bare
      /\ currtype \in {"PRINT", "RET", "VAR", "IF"}
      /\ UNCHANGED nodes /\ Keep /\ Consume(1)
  BY DEF ParseKeyword, Prefix, Running, Bare
<1>2. PICK fn \in {"Print", "Return", "Var", "If"}, prec \in {0, 1} :
        Become(<<InfixLoop(Top.prec, << >>)>>
                 \o <<Typed(fn, "NONE", << >>), ParseExpr(prec)>>)
  <2>1. CASE currtype = "PRINT"
    BY <2>1 DEF ParseKeyword, CallPrefix, Fn, Typed
  <2>2. CASE currtype = "VAR"
    BY <2>2 DEF ParseKeyword, CallPrefix, Fn, Typed
  <2>3. CASE currtype = "IF"
    BY <2>3 DEF ParseKeyword, CallPrefix, Fn, Typed
  <2>4. CASE currtype = "RET"
    BY <2>4, Precedences DEF ParseKeyword, CallPrefix, Fn, Typed
  <2> QED BY <1>1, <2>1, <2>2, <2>3, <2>4
<1>3. Reads(<< >>, 0)
  BY <1>1, ReadsQuiet DEF Quiet
<1>4. Grown(nodes, nodes')
  BY <1>1, GrownSame
<1>5. Tells(<< >>, << >>)
  BY <1>1, <1>4, StartsWith, TellsSame
<1>6. 0 = FrameWeight(Typed(fn, "NONE", << >>), 1)
  BY NoWeight
<1> QED BY <1>1, <1>2, <1>3, <1>4, <1>5, <1>6, CallsYield

LEMMA ParseForYield ==
  ParserInv /\ ParserInv' /\ OwnerInv /\ YieldInv /\ ParseFor => YieldInv'
<1> SUFFICES ASSUME ParserInv, ParserInv', OwnerInv, YieldInv, ParseFor
             PROVE  YieldInv'
  OBVIOUS
<1>1. /\ outcome = "parsing" /\ Top.fn = "ParseExpr" /\ Top.fn \in Bare
      /\ TypeIn(0) = "FOR"
  BY DEF ParseFor, Prefix, Running, Bare, currtype
<1>2. CASE TypeIn(1) # "ID" \/ TypeIn(2) # "COLON"
  BY <1>2, StopsYield DEF ParseFor, Stopped
<1>3. CASE ~ (TypeIn(1) # "ID" \/ TypeIn(2) # "COLON")
  <2> DEFINE m == Leaf("Name", toks[tokit + 1].lit)
             js == <<NewAt>>
  <2>1. /\ New(<<m>>) /\ Keep /\ Consume(3)
        /\ Become(<<InfixLoop(Top.prec, << >>)>>
                    \o <<Typed("For", "NONE", js), ParseExpr(0)>>)
    BY <1>3 DEF ParseFor, CallPrefix, Fn, Typed
  <2>2. m.kids = << >> /\ m.kind \in LeafKinds /\ m.lit = toks[tokit + 1].lit
    BY DEF Leaf, LeafKinds
  <2>3. << >> \in Seq(DOMAIN nodes)
    OBVIOUS
  <2>4. TypeIn(2) = "COLON" /\ TypeIn(1) = "ID"
    BY <1>3
  <2>5. Reads(<<m.lit>>, 0)
    BY <1>1, <2>1, <2>2, <2>4, ReadsThree
  <2> HIDE DEF m
  <2>6. /\ Grown(nodes, nodes') /\ NewAt \in DOMAIN nodes'
        /\ YieldOf(nodes', <<NewAt>>) = <<m.lit>>
    <3>1. m.kids \in Seq(DOMAIN nodes)
      BY <2>2, <2>3
    <3> QED BY <2>1, <2>2, <3>1, GrownNode
  <2>7. Tells(js, <<m.lit>>)
    <3>1. js \in Seq(DOMAIN nodes')
      BY <2>6
    <3>2. Tells(Top.kids \o js, <<m.lit>>)
      BY <1>1, <2>6, <3>1, TellsMore
    <3> QED BY <1>1, <3>2, StartsWith
  <2>8. 0 = FrameWeight(Typed("For", "NONE", js), 1)
    BY NoWeight
  <2> HIDE DEF js
  <2> QED BY <1>1, <2>1, <2>5, <2>6, <2>7, <2>8, CallsYield
<1> QED BY <1>2, <1>3

LEMMA ParseBlockExprYield ==
  ParserInv /\ ParserInv' /\ OwnerInv /\ YieldInv /\ ParseBlockExpr => YieldInv'
<1> SUFFICES ASSUME ParserInv, ParserInv', OwnerInv, YieldInv, ParseBlockExpr
             PROVE  YieldInv'
  OBVIOUS
<1> DEFINE e == InfixLoop(Top.prec, << >>)
           f == Fn("Block", << >>)
<1>1. /\ outcome = "parsing" /\ Top.fn = "ParseExpr" /\ Top.fn \in Bare
      /\ UNCHANGED nodes /\ UNCHANGED tokit /\ Keep /\ Become(<<e>> \o <<f>>)
  BY DEF ParseBlockExpr, Prefix, Running, CallPrefix, Bare
<1>2. /\ FrameWeight(e, 1) = 0 /\ FrameWeight(f, 2) = 0 /\ FrameWeight(Top, 2) = 0
  BY <1>1, NoWeight
<1>3. e.kids \o f.kids = << >>
  <2>1. e.kids = << >> /\ f.kids = << >>
    BY FrameKids
  <2>2. << >> \in Seq(Nat)
    OBVIOUS
  <2> QED BY <2>1, <2>2, ConcatEmptySeq
<1> HIDE DEF e, f
<1>4. Grown(nodes, nodes') /\ Reads(<< >>, 0)
  BY <1>1, GrownSame, ReadsNone DEF Keep
<1>5. Tells(e.kids \o f.kids, << >>)
  BY <1>1, <1>3, <1>4, StartsWith, TellsSame
<1>6. /\ 0 = FrameWeight(e, 1) + FrameWeight(f, 2) /\ 0 - 0 + FrameWeight(Top, 2) >= 0
      /\ Become(<<e, f>>) \/ Become(<<e>> \o <<f>>)
  BY <1>1, <1>2
<1> QED BY <1>1, <1>4, <1>5, <1>6, TwoYield

LEMMA PrefixBoomYield ==
  ParserInv /\ ParserInv' /\ OwnerInv /\ YieldInv /\ PrefixBoom => YieldInv'
BY StopsYield DEF PrefixBoom, Stopped

\* An EmptyExpr says nothing.
LEMMA EmptyTells ==
  ASSUME ParserInv, ParserInv', OwnerInv, outcome = "parsing",
         New(<<Inner("Empty", "NONE", << >>)>>)
  PROVE  /\ Grown(nodes, nodes')
         /\ Append(Top.kids, NewAt) = Top.kids \o <<NewAt>>
         /\ Tells(Append(Top.kids, NewAt), << >>) /\ Tells(Top.kids, << >>)
<1> DEFINE m == Inner("Empty", "NONE", << >>)
<1>1. New(<<m>>) /\ m.kids = << >> /\ m.kind \notin LeafKinds
  BY DEF Inner, LeafKinds
<1> HIDE DEF m
<1>2. << >> \in Seq(DOMAIN nodes) /\ Heap(nodes)
  <2>1. << >> \in Seq(DOMAIN nodes)
    OBVIOUS
  <2> QED BY <2>1, Ready
<1>3. /\ Grown(nodes, nodes') /\ NewAt \in DOMAIN nodes'
      /\ YieldOf(nodes', <<NewAt>>) = YieldOf(nodes, << >>)
  <2>1. m.kids \in Seq(DOMAIN nodes)
    BY <1>1, <1>2
  <2>2. /\ Grown(nodes, nodes') /\ NewAt \in DOMAIN nodes'
        /\ m.kind \notin LeafKinds =>
             YieldOf(nodes', <<NewAt>>) = YieldOf(nodes, m.kids)
    BY <1>1, <2>1, GrownNode
  <2> QED BY <1>1, <2>2
<1>4. YieldOf(nodes', <<NewAt>>) = << >>
  BY <1>2, <1>3, YieldOfIs
<1>5. <<NewAt>> \in Seq(DOMAIN nodes')
  BY <1>3
<1>6. Tells(Top.kids \o <<NewAt>>, << >>)
  BY <1>3, <1>4, <1>5, TellsMore
<1>7. NewAt \in Nat
  BY LenProperties DEF NewAt, ParserInv, TypeOK, Heap
<1>8. Append(Top.kids, NewAt) = Top.kids \o <<NewAt>>
  BY <1>7, NothingMore
<1> QED BY <1>3, <1>6, <1>8, TellsSame

\* A name, and an EmptyExpr after it.
LEMMA NameTells ==
  ASSUME ParserInv, ParserInv', OwnerInv, outcome = "parsing", Top.fn = "ParseExpr",
         NEW val \in Value, isString(val),
         New(<<Leaf("Name", val), Inner("Empty", "NONE", << >>)>>)
  PROVE  Grown(nodes, nodes') /\ Tells(<<NewAt, NewAt + 1>>, <<val>>)
<1> DEFINE name  == Leaf("Name", val)
           empty == Inner("Empty", "NONE", << >>)
           ns == nodes
           ms == nodes \o <<name>>
           i == Len(ns) + 1
           j == i + 1
<1>1. /\ name.kids = << >> /\ name.kind \in LeafKinds /\ name.lit = val
      /\ empty.kids = << >> /\ empty.kind \notin LeafKinds
  BY DEF Inner, Leaf, LeafKinds
<1>2. Heap(ns) /\ Heap(nodes') /\ ns \in Seq(Node)
  BY DEF ParserInv, TypeOK, Heap
<1>3. NodeFits(name, ns)
  BY LeafFits DEF LeafKinds
<1>4. New(<<name, empty>>)
  OBVIOUS
<1> HIDE DEF name, empty
<1>5. Heap(ms) /\ Len(ns) \in Nat /\ Len(ms) = i
  BY <1>2, <1>3, HeapGrows
<1>6. nodes' = ms \o <<empty>>
  <2>1. <<name>> \o <<empty>> = <<name, empty>>
    BY TupleConcat
  <2>2. PICK S : S = Node \cup {name, empty}
    OBVIOUS
  <2>3. ns \in Seq(S) /\ <<name>> \in Seq(S) /\ <<empty>> \in Seq(S)
    <3>1. Node \subseteq S /\ name \in S /\ empty \in S
      BY <2>2
    <3>2. ns \in Seq(S)
      BY <1>2, <3>1, SeqGrows
    <3> QED BY <3>1, <3>2
  <2>4. (ns \o <<name>>) \o <<empty>> = ns \o (<<name>> \o <<empty>>)
    BY <2>3, ConcatAssociative
  <2> QED BY <1>4, <2>1, <2>4 DEF New
<1> HIDE DEF ns, ms
<1>7. << >> \in Seq(DOMAIN ns) /\ << >> \in Seq(DOMAIN ms)
  OBVIOUS
<1>8. /\ Grown(ns, ms) /\ i \in DOMAIN ms /\ YieldOf(ms, <<i>>) = <<val>>
  <2>1. name.kids \in Seq(DOMAIN ns) /\ Heap(ns \o <<name>>) /\ ms = ns \o <<name>>
    BY <1>1, <1>5, <1>7 DEF ms, ns
  <2> QED BY <1>1, <1>2, <2>1, YieldNode
<1> DEFINE os == ms \o <<empty>>
<1>9. Heap(os) /\ nodes' = os
  BY <1>2, <1>6
<1>10. /\ Grown(ms, os) /\ j \in DOMAIN os /\ YieldOf(os, <<j>>) = YieldOf(ms, << >>)
  <2>1. empty.kids \in Seq(DOMAIN ms)
    BY <1>1, <1>7
  <2>2. YieldOf(os, <<Len(ms) + 1>>) = YieldOf(ms, empty.kids)
    BY <1>1, <1>5, <1>9, <2>1, YieldNode
  <2>3. Grown(ms, os) /\ Len(ms) + 1 \in DOMAIN os
    BY <1>5, <1>9, <2>1, YieldNode
  <2> QED BY <1>1, <1>5, <2>2, <2>3
<1> HIDE DEF os
<1>11. YieldOf(os, <<j>>) = << >>
  BY <1>5, <1>7, <1>10, YieldOfIs
<1>12. YieldOf(os, <<i>>) = <<val>>
  <2>1. <<i>> \in Seq(DOMAIN ms)
    BY <1>8
  <2> QED BY <1>8, <1>10, <2>1, YieldOfGrows
<1>13. Grown(ns, os)
  BY <1>8, <1>10 DEF Grown
<1> HIDE DEF j, i
<1>14. YieldOf(os, <<i>> \o <<j>>) = <<val>> \o << >>
  <2>1. <<i>> \in Seq(DOMAIN os) /\ <<j>> \in Seq(DOMAIN os)
    BY <1>8, <1>10 DEF Grown
  <2> QED BY <1>9, <1>2, <1>11, <1>12, <2>1, YieldOfIs
<1>15. <<i, j>> = <<i>> \o <<j>> /\ <<val>> \o << >> = <<val>>
  <2>1. <<val>> \in Seq(Value)
    OBVIOUS
  <2> QED BY <2>1, TupleConcat, ConcatEmptySeq
<1>16. <<NewAt, NewAt + 1>> = <<i, j>>
  BY DEF NewAt, i, j, ns
<1>17. YieldOf(nodes', <<NewAt, NewAt + 1>>) = <<val>>
  BY <1>9, <1>14, <1>15, <1>16
<1>18. Tells(Top.kids \o <<NewAt, NewAt + 1>>, <<val>>)
  <2>1. <<i, j>> \in Seq(DOMAIN os)
    BY <1>8, <1>10 DEF Grown
  <2>2. <<NewAt, NewAt + 1>> \in Seq(DOMAIN nodes')
    BY <1>9, <1>16, <2>1
  <2>3. Grown(nodes, nodes')
    BY <1>9, <1>13 DEF ns
  <2> HIDE DEF os
  <2> QED BY <1>17, <2>2, <2>3, TellsMore
<1>19. <<NewAt, NewAt + 1>> = Top.kids \o <<NewAt, NewAt + 1>>
  BY StartsWith DEF Bare
<1> QED BY <1>9, <1>13, <1>18, <1>19 DEF ns

LEMMA ParseFnDefYield ==
  ParserInv /\ ParserInv' /\ OwnerInv /\ YieldInv /\ ParseFnDef => YieldInv'
<1> SUFFICES ASSUME ParserInv, ParserInv', OwnerInv, YieldInv, ParseFnDef
             PROVE  YieldInv'
  OBVIOUS
<1>1. /\ outcome = "parsing" /\ Top.fn = "ParseExpr" /\ Top.fn \in Bare
      /\ TypeIn(0) = "FN" /\ tokit \in Nat /\ Len(toks) \in Nat
  BY Ready DEF ParseFnDef, Prefix, Running, Bare, currtype
<1>2. ASSUME NEW how \in {"ABORT", "EXIT", "UNDEFINED"}, Stop(how)
      PROVE  YieldInv'
  BY <1>2, StopsYield DEF Stopped
<1>3. CASE TypeIn(1) # "ID"
  BY <1>2, <1>3 DEF ParseFnDef
<1>4. CASE TypeIn(1) = "ID" /\ tokit + 2 > Len(toks)
  BY <1>2, <1>4 DEF ParseFnDef
<1>5. CASE TypeIn(1) = "ID" /\ ~ (tokit + 2 > Len(toks)) /\ TypeIn(2) # "LEFT_PAREN"
  <2>1. tokit + 2 <= Len(toks)
    BY <1>1, <1>5
  <2> QED BY <1>2, <1>5, <2>1 DEF ParseFnDef
<1>6. CASE TypeIn(1) = "ID" /\ ~ (tokit + 2 > Len(toks)) /\ TypeIn(2) = "LEFT_PAREN"
  <2> DEFINE val   == toks[tokit + 1].lit
             name  == Leaf("Name", val)
             empty == Inner("Empty", "NONE", << >>)
  <2>1. /\ IF TypeIn(3) = "RIGHT_PAREN"
           THEN /\ New(<<name, empty>>)
                /\ CallPrefix(<<Fn("FnDef", <<NewAt, NewAt + 1>>)>>)
           ELSE /\ New(<<name>>)
                /\ CallPrefix(<<Fn("FnDef", <<NewAt>>), ParseExpr(0)>>)
        /\ Keep /\ Consume(3)
    BY <1>6 DEF ParseFnDef
  <2>2. Reads(<<val>>, 1)
    BY <1>1, <1>6, <2>1, ReadsThree
  <2>3. val \in Value /\ isString(val)
    BY <1>1, <1>6, TypeInside
  <2> HIDE DEF val
  <2>4. CASE TypeIn(3) = "RIGHT_PAREN"
    <3> DEFINE js == <<NewAt, NewAt + 1>>
               e == InfixLoop(Top.prec, << >>)
               f == Fn("FnDef", js)
    <3>1. New(<<name, empty>>) /\ Become(<<e>> \o <<f>>)
      BY <2>1, <2>4 DEF CallPrefix
    <3>2. Grown(nodes, nodes') /\ Tells(js, <<val>>)
      BY <1>1, <2>3, <3>1, NameTells
    <3>3. e.kids = << >> /\ f.kids = js /\ f.fn = "FnDef"
      BY FrameKids
    <3>4. Len(js) = 2 /\ js \in Seq(Nat \cup {NewAt, NewAt + 1})
      OBVIOUS
    <3>5. << >> \o js = js
      BY <3>4, ConcatEmptySeq
    <3>6. FrameWeight(e, 1) = 0 /\ FrameWeight(Top, 2) = 0
      BY <1>1, NoWeight
    <3> HIDE DEF e, f, js
    <3>7. FrameWeight(f, 2) = 1
      BY <3>3, <3>4, FrameWeights
    <3>8. /\ 1 = FrameWeight(e, 1) + FrameWeight(f, 2)
          /\ 1 - 1 + FrameWeight(Top, 2) >= 0
          /\ Become(<<e, f>>) \/ Become(<<e>> \o <<f>>)
      BY <3>1, <3>6, <3>7
    <3>9. Tells(e.kids \o f.kids, <<val>>)
      BY <3>2, <3>3, <3>5
    <3> QED BY <1>1, <2>1, <2>2, <3>2, <3>8, <3>9, TwoYield
  <2>5. CASE TypeIn(3) # "RIGHT_PAREN"
    <3> DEFINE js == <<NewAt>>
    <3>1. /\ New(<<name>>)
          /\ Become(<<InfixLoop(Top.prec, << >>)>>
                      \o <<Typed("FnDef", "NONE", js), ParseExpr(0)>>)
      BY <2>1, <2>5 DEF CallPrefix, Fn, Typed
    <3>2. name.kids = << >> /\ name.kind \in LeafKinds /\ name.lit = val
      BY DEF Leaf, LeafKinds
    <3>3. << >> \in Seq(DOMAIN nodes)
      OBVIOUS
    <3> HIDE DEF name
    <3>4. /\ Grown(nodes, nodes') /\ NewAt \in DOMAIN nodes'
          /\ YieldOf(nodes', <<NewAt>>) = <<val>>
      <4>1. name.kids \in Seq(DOMAIN nodes)
        BY <3>2, <3>3
      <4> QED BY <3>1, <3>2, <4>1, GrownNode
    <3>5. Tells(js, <<val>>)
      <4>1. js \in Seq(DOMAIN nodes')
        BY <3>4
      <4>2. Tells(Top.kids \o js, <<val>>)
        BY <1>1, <3>4, <4>1, TellsMore
      <4> QED BY <1>1, <4>2, StartsWith
    <3>6. 1 = FrameWeight(Typed("FnDef", "NONE", js), 1)
      <4>1. Typed("FnDef", "NONE", js).fn = "FnDef" /\ Typed("FnDef", "NONE", js).kids = js
        BY FrameKids
      <4>2. Len(js) = 1
        OBVIOUS
      <4> HIDE DEF js
      <4> QED BY <4>1, <4>2, FrameWeights
    <3> HIDE DEF js
    <3> QED BY <1>1, <2>1, <2>2, <3>1, <3>4, <3>5, <3>6, CallsYield
  <2> QED BY <2>4, <2>5
<1> QED BY <1>3, <1>4, <1>5, <1>6

-----------------------------------------------------------------------------
\* The infix functions.

LEMMA EndInfixYield ==
  ParserInv /\ ParserInv' /\ OwnerInv /\ YieldInv /\ EndInfix => YieldInv'
<1> SUFFICES ASSUME ParserInv, ParserInv', OwnerInv, YieldInv, EndInfix
             PROVE  YieldInv'
  OBVIOUS
<1>1. /\ outcome = "parsing" /\ Top.fn = "InfixLoop" /\ Top.fn \notin Loops
      /\ UNCHANGED nodes /\ UNCHANGED tokit /\ Keep
      /\ calls' = Deliver(Below, Top.kids)
  BY DEF EndInfix, Running, Loops
<1>2. Len(calls) >= 2 /\ Len(Top.kids) = 1
  BY <1>1, Ready DEF Counted, Arity
<1>3. Reads(<< >>, 0)
  BY <1>1, ReadsNone DEF Keep
<1>4. 0 + FrameWeight(Top, 2) >= 0
  BY <1>1, NoWeight
<1> QED BY <1>1, <1>2, <1>3, <1>4, GivesYield

LEMMA ParseBinaryOpYield ==
  ParserInv /\ ParserInv' /\ OwnerInv /\ YieldInv /\ ParseBinaryOp => YieldInv'
<1> SUFFICES ASSUME ParserInv, ParserInv', OwnerInv, YieldInv, ParseBinaryOp
             PROVE  YieldInv'
  OBVIOUS
<1>1. /\ outcome = "parsing" /\ Top.fn = "InfixLoop"
      /\ UNCHANGED nodes /\ Keep /\ Consume(1) /\ currtype \in BinaryTypes
      /\ Become(<<InfixLoop(Top.prec, << >>)>>
                  \o <<Typed("BinaryOp", currtype, Top.kids), ParseExpr(InfixPrec(currtype))>>)
  BY DEF ParseBinaryOp, Infix, Running, CallInfix
<1>2. Reads(<< >>, 0)
  BY <1>1, ReadsQuiet DEF Quiet
<1>3. Grown(nodes, nodes')
  BY <1>1, GrownSame
<1>4. Tells(Top.kids, << >>)
  BY <1>1, <1>3, TellsSame
<1>5. 0 = FrameWeight(Typed("BinaryOp", currtype, Top.kids), 1)
  BY NoWeight
<1> QED BY <1>1, <1>2, <1>3, <1>4, <1>5, CallsYield

LEMMA ParseCommaListYield ==
  ParserInv /\ ParserInv' /\ OwnerInv /\ YieldInv /\ ParseCommaList => YieldInv'
<1> SUFFICES ASSUME ParserInv, ParserInv', OwnerInv, YieldInv, ParseCommaList
             PROVE  YieldInv'
  OBVIOUS
<1>1. /\ outcome = "parsing" /\ Top.fn = "InfixLoop"
      /\ UNCHANGED nodes /\ Keep /\ Consume(1) /\ currtype = "COMMA"
      /\ Become(<<InfixLoop(Top.prec, << >>)>>
                  \o <<Typed("CommaList", "NONE", Top.kids), ParseExpr(InfixPrec("COMMA"))>>)
  BY DEF ParseCommaList, Infix, Running, CallInfix, Fn, Typed
<1>2. Reads(<< >>, 0)
  BY <1>1, ReadsQuiet DEF Quiet
<1>3. Grown(nodes, nodes')
  BY <1>1, GrownSame
<1>4. Tells(Top.kids, << >>)
  BY <1>1, <1>3, TellsSame
<1>5. 0 = FrameWeight(Typed("CommaList", "NONE", Top.kids), 1)
  BY NoWeight
<1> QED BY <1>1, <1>2, <1>3, <1>4, <1>5, CallsYield

LEMMA ParseSubscriptYield ==
  ParserInv /\ ParserInv' /\ OwnerInv /\ YieldInv /\ ParseSubscript => YieldInv'
<1> SUFFICES ASSUME ParserInv, ParserInv', OwnerInv, YieldInv, ParseSubscript
             PROVE  YieldInv'
  OBVIOUS
<1>1. outcome = "parsing" /\ Top.fn = "InfixLoop" /\ currtype = "LEFT_BRACKET"
  BY DEF ParseSubscript, Infix, Running
<1>2. CASE TypeIn(1) = "RIGHT_BRACKET"
  BY <1>2, StopsYield DEF ParseSubscript, Stopped
<1>3. CASE TypeIn(1) # "RIGHT_BRACKET"
  <2>1. /\ UNCHANGED nodes /\ Keep /\ Consume(1)
        /\ Become(<<InfixLoop(Top.prec, << >>)>>
                    \o <<Typed("Subscript", "NONE", Top.kids), ParseExpr(0)>>)
    BY <1>3 DEF ParseSubscript, CallInfix, Fn, Typed
  <2>2. Reads(<< >>, 1)
    BY <1>1, <2>1, ReadsBracket
  <2>3. Grown(nodes, nodes')
    BY <2>1, GrownSame
  <2>4. Tells(Top.kids, << >>)
    BY <1>1, <2>3, TellsSame
  <2>5. 1 = FrameWeight(Typed("Subscript", "NONE", Top.kids), 1)
    BY NoWeight
  <2> QED BY <1>1, <2>1, <2>2, <2>3, <2>4, <2>5, CallsYield
<1> QED BY <1>2, <1>3

LEMMA ParseCallYield ==
  ParserInv /\ ParserInv' /\ OwnerInv /\ YieldInv /\ ParseCall => YieldInv'
<1> SUFFICES ASSUME ParserInv, ParserInv', OwnerInv, YieldInv, ParseCall
             PROVE  YieldInv'
  OBVIOUS
<1>1. outcome = "parsing" /\ Top.fn = "InfixLoop" /\ currtype = "LEFT_PAREN"
  BY DEF ParseCall, Infix, Running
<1>2. CASE nodes[Top.kids[1]].kind # "Name"
  BY <1>2, StopsYield DEF ParseCall, Stopped
<1>3. CASE nodes[Top.kids[1]].kind = "Name" /\ TypeIn(1) = "RIGHT_PAREN"
  <2> DEFINE e == InfixLoop(Top.prec, << >>)
             js == Append(Top.kids, NewAt)
             f == Fn("Call", js)
  <2>1. /\ New(<<Inner("Empty", "NONE", << >>)>>) /\ Keep /\ Consume(1)
        /\ Become(<<e>> \o <<f>>)
    BY <1>3 DEF ParseCall, CallInfix
  <2>2. Reads(<< >>, 1)
    BY <1>1, <2>1, ReadsBracket
  <2>3. Grown(nodes, nodes') /\ Tells(js, << >>)
    BY <1>1, <2>1, EmptyTells
  <2>4. e.kids = << >> /\ f.kids = js
    BY FrameKids
  <2>5. << >> \o js = js
    <3>1. Top.kids \in Seq(DOMAIN nodes)
      BY <1>1, OwnerReady
    <3>2. Top.kids \in Seq(DOMAIN nodes \cup {NewAt})
      BY <3>1, SeqGrows
    <3>3. js \in Seq(DOMAIN nodes \cup {NewAt})
      BY <3>2
    <3> HIDE DEF js
    <3> QED BY <3>3, ConcatEmptySeq
  <2>6. FrameWeight(e, 1) = 0 /\ FrameWeight(f, 2) = 1 /\ FrameWeight(Top, 2) = 0
    BY <1>1, NoWeight
  <2> HIDE DEF e, f, js
  <2>7. /\ 1 = FrameWeight(e, 1) + FrameWeight(f, 2)
        /\ 1 - 1 + FrameWeight(Top, 2) >= 0
        /\ Become(<<e, f>>) \/ Become(<<e>> \o <<f>>)
    BY <2>1, <2>6
  <2>8. Tells(e.kids \o f.kids, << >>)
    BY <2>3, <2>4, <2>5
  <2> QED BY <1>1, <2>1, <2>2, <2>3, <2>7, <2>8, TwoYield
<1>4. CASE nodes[Top.kids[1]].kind = "Name" /\ TypeIn(1) # "RIGHT_PAREN"
  <2>1. /\ UNCHANGED nodes /\ Keep /\ Consume(1)
        /\ Become(<<InfixLoop(Top.prec, << >>)>>
                    \o <<Typed("Call", "NONE", Top.kids), ParseExpr(0)>>)
    BY <1>4 DEF ParseCall, CallInfix, Fn, Typed
  <2>2. Reads(<< >>, 1)
    BY <1>1, <2>1, ReadsBracket
  <2>3. Grown(nodes, nodes')
    BY <2>1, GrownSame
  <2>4. Tells(Top.kids, << >>)
    BY <1>1, <2>3, TellsSame
  <2>5. 1 = FrameWeight(Typed("Call", "NONE", Top.kids), 1)
    BY NoWeight
  <2> QED BY <1>1, <2>1, <2>2, <2>3, <2>4, <2>5, CallsYield
<1> QED BY <1>2, <1>3, <1>4

-----------------------------------------------------------------------------
\* The functions go on.

LEMMA EndUnaryOpYield ==
  ParserInv /\ ParserInv' /\ OwnerInv /\ YieldInv /\ EndUnaryOp => YieldInv'
<1> SUFFICES ASSUME ParserInv, ParserInv', OwnerInv, YieldInv, EndUnaryOp
             PROVE  YieldInv'
  OBVIOUS
<1>1. outcome = "parsing" /\ Top.fn = "UnaryOp" /\ Top.fn \notin Loops
      /\ "UnaryOp" \notin LeafKinds
  BY DEF EndUnaryOp, Running, Loops, LeafKinds
<1>2. CASE nodes[Top.kids[1]].kind = "Name"
  BY <1>2, StopsYield DEF EndUnaryOp, Stopped
<1>3. CASE nodes[Top.kids[1]].kind # "Name"
  <2>1. ReturnNew("UnaryOp", Top.type, Top.kids) /\ UNCHANGED tokit /\ Keep
    BY <1>3 DEF EndUnaryOp
  <2>2. Reads(<< >>, 0)
    BY <2>1, ReadsNone DEF Keep
  <2>3. 0 + FrameWeight(Top, 2) >= 0
    BY <1>1, FrameWeights
  <2> QED BY <1>1, <2>1, <2>2, <2>3, ReturnsYield
<1> QED BY <1>2, <1>3

LEMMA EndSimpleYield ==
  ParserInv /\ ParserInv' /\ OwnerInv /\ YieldInv /\ EndSimple => YieldInv'
<1> SUFFICES ASSUME ParserInv, ParserInv', OwnerInv, YieldInv, EndSimple
             PROVE  YieldInv'
  OBVIOUS
<1>1. /\ outcome = "parsing" /\ Top.fn \notin Loops /\ Top.fn \notin LeafKinds
      /\ ReturnNew(Top.fn, Top.type, Top.kids) /\ UNCHANGED tokit /\ Keep
      /\ Top.fn \notin {"Grouping", "Call", "Subscript", "EndBlock"}
      /\ Top.fn = "FnDef" => Len(Top.kids) = 3
  BY DEF EndSimple, Loops, LeafKinds
<1>2. Reads(<< >>, 0)
  BY <1>1, ReadsNone DEF Keep
<1>3. FrameWeight(Top, 2) = 0
  <2>1. CASE Top.fn = "FnDef"
    BY <1>1, <2>1, FrameWeights
  <2>2. CASE Top.fn # "FnDef"
    BY <1>1, <2>2, FrameWeights
  <2> QED BY <2>1, <2>2
<1>4. 0 + FrameWeight(Top, 2) >= 0
  BY <1>3
<1> QED BY <1>1, <1>2, <1>4, ReturnsYield

\* A token is consumed for a bracket that the function has to close.
LEMMA ReadsCloser ==
  ASSUME ParserInv, outcome = "parsing", Keep, Consume(1), ~ AtEnd,
         NEW x, x = 1
  PROVE  \E l, v : /\ Reads(l, v) /\ v + x >= 0
                   /\ v + x = 0 => l = << >>
<1>1. PICK l, v : /\ Reads(l, v) /\ v \in {-1, 0, 1}
                  /\ v = -1 => l = << >>
  BY ReadsAny
<1>2. v + x >= 0 /\ (v + x = 0 => v = -1)
  BY <1>1
<1> QED BY <1>1, <1>2

LEMMA EndGroupingYield ==
  ParserInv /\ ParserInv' /\ OwnerInv /\ YieldInv /\ EndGrouping => YieldInv'
<1> SUFFICES ASSUME ParserInv, ParserInv', OwnerInv, YieldInv, EndGrouping
             PROVE  YieldInv'
  OBVIOUS
<1>1. outcome = "parsing" /\ Top.fn = "Grouping" /\ Top.fn \notin Loops
      /\ Len(Top.kids) = 1
  BY Ready DEF EndGrouping, Running, Loops, Counted, Arity
<1>2. CASE AtEnd
  BY <1>2, StopsYield DEF EndGrouping, Closing, Stopped
<1>3. CASE ~ AtEnd /\ currtype = "ID"
  BY <1>3, StopsYield DEF EndGrouping, Closing, Stopped
<1>4. CASE ~ AtEnd /\ currtype # "ID"
  <2>1. /\ calls' = Deliver(Below, Top.kids) /\ UNCHANGED nodes /\ Keep /\ Consume(1)
    BY <1>4 DEF EndGrouping, Closing
  <2>2. Len(calls) >= 2
    BY <1>1, Ready
  <2>3. FrameWeight(Top, 2) = 1
    BY <1>1, FrameWeights
  <2>4. PICK l, v : /\ Reads(l, v) /\ v + FrameWeight(Top, 2) >= 0
                    /\ v + FrameWeight(Top, 2) = 0 => l = << >>
    BY <1>1, <1>4, <2>1, <2>3, ReadsCloser
  <2> QED BY <1>1, <2>1, <2>2, <2>4, GivesYield
<1> QED BY <1>2, <1>3, <1>4

LEMMA EndCallYield ==
  ParserInv /\ ParserInv' /\ OwnerInv /\ YieldInv /\ EndCall => YieldInv'
<1> SUFFICES ASSUME ParserInv, ParserInv', OwnerInv, YieldInv, EndCall
             PROVE  YieldInv'
  OBVIOUS
<1>1. outcome = "parsing" /\ Top.fn \in {"Call", "Subscript"} /\ Top.fn \notin Loops
      /\ Top.fn \notin LeafKinds
  BY DEF EndCall, Running, Loops, LeafKinds
<1>2. CASE AtEnd
  BY <1>2, StopsYield DEF EndCall, Closing, Stopped
<1>3. CASE ~ AtEnd /\ currtype = "ID"
  BY <1>3, StopsYield DEF EndCall, Closing, Stopped
<1>4. CASE ~ AtEnd /\ currtype # "ID"
  <2>1. ReturnNew(Top.fn, "NONE", Top.kids) /\ Keep /\ Consume(1)
    BY <1>4 DEF EndCall, Closing
  <2>2. FrameWeight(Top, 2) = 1
    BY <1>1, FrameWeights
  <2>3. PICK l, v : /\ Reads(l, v) /\ v + FrameWeight(Top, 2) >= 0
                    /\ v + FrameWeight(Top, 2) = 0 => l = << >>
    BY <1>1, <1>4, <2>1, <2>2, ReadsCloser
  <2> QED BY <1>1, <2>1, <2>3, ReturnsYield
<1> QED BY <1>2, <1>3, <1>4

LEMMA ForBodyYield ==
  ParserInv /\ ParserInv' /\ OwnerInv /\ YieldInv /\ ForBody => YieldInv'
<1> SUFFICES ASSUME ParserInv, ParserInv', OwnerInv, YieldInv, ForBody
             PROVE  YieldInv'
  OBVIOUS
<1> DEFINE g == ParseExpr(0)
<1>1. /\ outcome = "parsing" /\ Top.fn = "For" /\ calls' = Append(calls, g)
      /\ UNCHANGED nodes /\ UNCHANGED tokit /\ Keep
  BY DEF ForBody, Running
<1>2. g.kids = << >> /\ FrameWeight(g, 2) = 0
  BY FrameKids, NoWeight
<1> HIDE DEF g
<1>3. Reads(<< >>, 0)
  BY <1>1, ReadsNone DEF Keep
<1>4. 0 - FrameWeight(Top, 1) + FrameWeight(Top, 2) = 0
  BY <1>1, FrameWeights
<1> QED BY <1>1, <1>2, <1>3, <1>4, PushesYield

LEMMA IfBodyYield ==
  ParserInv /\ ParserInv' /\ OwnerInv /\ YieldInv /\ IfBody => YieldInv'
<1> SUFFICES ASSUME ParserInv, ParserInv', OwnerInv, YieldInv, IfBody
             PROVE  YieldInv'
  OBVIOUS
<1> DEFINE g == Fn("Block", << >>)
<1>1. /\ outcome = "parsing" /\ Top.fn = "If" /\ calls' = Append(calls, g)
      /\ UNCHANGED nodes /\ UNCHANGED tokit /\ Keep
  BY DEF IfBody, Running
<1>2. g.kids = << >> /\ FrameWeight(g, 2) = 0
  BY FrameKids, NoWeight
<1> HIDE DEF g
<1>3. Reads(<< >>, 0)
  BY <1>1, ReadsNone DEF Keep
<1>4. 0 - FrameWeight(Top, 1) + FrameWeight(Top, 2) = 0
  BY <1>1, FrameWeights
<1> QED BY <1>1, <1>2, <1>3, <1>4, PushesYield

LEMMA FnDefBodyYield ==
  ParserInv /\ ParserInv' /\ OwnerInv /\ YieldInv /\ FnDefBody => YieldInv'
<1> SUFFICES ASSUME ParserInv, ParserInv', OwnerInv, YieldInv, FnDefBody
             PROVE  YieldInv'
  OBVIOUS
<1>1. outcome = "parsing" /\ Top.fn = "FnDef" /\ Len(Top.kids) = 2
  BY DEF FnDefBody, Running
<1>2. ASSUME NEW how \in {"ABORT", "EXIT", "UNDEFINED"}, Stop(how)
      PROVE  YieldInv'
  BY <1>2, StopsYield DEF Stopped
<1>3. CASE AtEnd \/ TypeIn(1) = "ID" \/ currtype = "ID"
  BY <1>2, <1>3 DEF FnDefBody, Closing
<1>4. CASE ~ AtEnd /\ TypeIn(1) # "ID" /\ currtype # "ID"
  <2> DEFINE g == ParseExpr(0)
             x == FrameWeight(Top, 2) - FrameWeight(Top, 1)
  <2>1. calls' = Append(calls, g) /\ UNCHANGED nodes /\ Keep /\ Consume(1)
    BY <1>4 DEF FnDefBody, Closing
  <2>2. g.kids = << >> /\ FrameWeight(g, 2) = 0
    BY FrameKids, NoWeight
  <2> HIDE DEF g
  <2>3. FrameWeight(Top, 2) = 1 /\ FrameWeight(Top, 1) = 0
    <3>1. \A n : FrameWeight(Top, n) = IF Len(Top.kids) = n THEN 1 ELSE 0
      BY <1>1, FrameWeights
    <3> QED BY <1>1, <3>1
  <2>4. x = 1
    BY <2>3
  <2>5. PICK l, v : /\ Reads(l, v) /\ v + x >= 0
                    /\ v + x = 0 => l = << >>
    BY <1>1, <1>4, <2>1, <2>4, ReadsCloser
  <2>6. v - FrameWeight(Top, 1) + FrameWeight(Top, 2) = v + x
    <3>1. v \in Int
      BY <2>5 DEF Reads
    <3> QED BY <2>3, <3>1
  <2> HIDE DEF x
  <2> QED BY <1>1, <2>1, <2>2, <2>5, <2>6, PushesYield
<1> QED BY <1>3, <1>4

LEMMA IfElseYield ==
  ParserInv /\ ParserInv' /\ OwnerInv /\ YieldInv /\ IfElse => YieldInv'
<1> SUFFICES ASSUME ParserInv, ParserInv', OwnerInv, YieldInv, IfElse
             PROVE  YieldInv'
  OBVIOUS
<1>1. /\ outcome = "parsing" /\ Top.fn = "If" /\ Keep
      /\ New(<<Inner("Empty", "NONE", << >>)>>)
  BY DEF IfElse, Running
<1>2. /\ Grown(nodes, nodes') /\ Tells(Append(Top.kids, NewAt), << >>)
      /\ Tells(Top.kids, << >>)
  BY <1>1, EmptyTells
<1>3. FrameWeight(Top, 2) = 0
  BY <1>1, FrameWeights
<1>4. CASE currtype = "ELSE"
  <2> DEFINE f == Typed("If", "ELSE", Top.kids)
             g == Fn("Block", << >>)
  <2>1. Become(<<f, g>>) /\ Consume(1)
    BY <1>4 DEF IfElse
  <2>2. f.kids = Top.kids /\ g.kids = << >>
    BY FrameKids
  <2>3. FrameWeight(f, 1) = 0 /\ FrameWeight(g, 2) = 0
    BY NoWeight
  <2> HIDE DEF f, g
  <2>4. Reads(<< >>, 0)
    BY <1>1, <1>4, <2>1, ReadsQuiet DEF Quiet
  <2>5. Tells(f.kids \o g.kids, << >>)
    BY <1>1, <1>2, <2>2, NothingMore
  <2>6. /\ 0 = FrameWeight(f, 1) + FrameWeight(g, 2)
        /\ 0 - 0 + FrameWeight(Top, 2) >= 0
        /\ Become(<<f, g>>) \/ Become(<<f>> \o <<g>>)
    BY <1>3, <2>1, <2>3
  <2> QED BY <1>1, <1>2, <2>4, <2>5, <2>6, TwoYield
<1>5. CASE currtype # "ELSE"
  <2> DEFINE js == Append(Top.kids, NewAt)
             f == Fn("If", js)
  <2>1. Become(<<f>>) /\ UNCHANGED tokit
    BY <1>5 DEF IfElse
  <2>2. f.kids = js /\ FrameWeight(f, 2) = 0
    <3>1. f.kids = js
      BY FrameKids
    <3> HIDE DEF js
    <3>2. FrameWeight(f, 2) = 0
      BY NoWeight
    <3> QED BY <3>1, <3>2
  <2>3. Reads(<< >>, 0)
    BY <1>1, <2>1, ReadsNone DEF Keep
  <2>4. Tells(js, << >>)
    BY <1>2
  <2> HIDE DEF f, js
  <2>5. 0 - FrameWeight(f, 2) + FrameWeight(Top, 2) >= 0
    BY <1>3, <2>2
  <2> QED BY <1>1, <1>2, <2>1, <2>2, <2>3, <2>4, <2>5, OneYields
<1> QED BY <1>4, <1>5

LEMMA CommaListNextYield ==
  ParserInv /\ ParserInv' /\ OwnerInv /\ YieldInv /\ CommaListNext => YieldInv'
<1> SUFFICES ASSUME ParserInv, ParserInv', OwnerInv, YieldInv, CommaListNext
             PROVE  YieldInv'
  OBVIOUS
<1>1. /\ outcome = "parsing" /\ Top.fn = "CommaList" /\ Top.fn \notin Loops /\ Keep
      /\ "CommaList" \notin LeafKinds
  BY DEF CommaListNext, Running, Loops, LeafKinds
<1>2. FrameWeight(Top, 1) = 0 /\ FrameWeight(Top, 2) = 0
  BY <1>1, FrameWeights
<1>3. CASE currtype = "COMMA"
  <2> DEFINE g == ParseExpr(0)
  <2>1. calls' = Append(calls, g) /\ UNCHANGED nodes /\ Consume(1)
    BY <1>3 DEF CommaListNext
  <2>2. g.kids = << >> /\ FrameWeight(g, 2) = 0
    BY FrameKids, NoWeight
  <2> HIDE DEF g
  <2>3. Reads(<< >>, 0)
    BY <1>1, <1>3, <2>1, ReadsQuiet DEF Quiet
  <2>4. 0 - FrameWeight(Top, 1) + FrameWeight(Top, 2) = 0
    BY <1>2
  <2> QED BY <1>1, <2>1, <2>2, <2>3, <2>4, PushesYield
<1>4. CASE currtype # "COMMA"
  <2>1. ReturnNew("CommaList", "NONE", Top.kids) /\ UNCHANGED tokit
    BY <1>4 DEF CommaListNext
  <2>2. Reads(<< >>, 0)
    BY <1>1, <2>1, ReadsNone DEF Keep
  <2>3. 0 + FrameWeight(Top, 2) >= 0
    BY <1>2
  <2> QED BY <1>1, <2>1, <2>2, <2>3, ReturnsYield
<1> QED BY <1>3, <1>4

LEMMA ParseBlockYield ==
  ParserInv /\ ParserInv' /\ OwnerInv /\ YieldInv /\ ParseBlock => YieldInv'
<1> SUFFICES ASSUME ParserInv, ParserInv', OwnerInv, YieldInv, ParseBlock
             PROVE  YieldInv'
  OBVIOUS
<1> DEFINE f == Fn("EndBlock", << >>)
           g == Fn("Statements", << >>)
<1>1. outcome = "parsing" /\ Top.fn = "Block" /\ Top.fn \in Bare
  BY DEF ParseBlock, Running, Bare
<1>2. CASE AtEnd
  BY <1>2, StopsYield DEF ParseBlock, Stopped
<1>3. CASE ~ AtEnd
  <2>1. /\ Become(IF TypeIn(1) = "RIGHT_BRACE" THEN <<f>> ELSE <<f, g>>)
        /\ UNCHANGED nodes /\ Keep /\ Consume(1)
    BY <1>3 DEF ParseBlock
  <2>2. f.kids = << >> /\ g.kids = << >> /\ f.fn = "EndBlock"
    BY FrameKids
  <2>3. FrameWeight(g, 2) = 0
    BY NoWeight
  <2>4. FrameWeight(Top, 2) = 0
    BY <1>1, FrameWeights
  <2> HIDE DEF f, g
  <2>5. \A n : FrameWeight(f, n) = -1
    BY <2>2, FrameWeights
  <2>6. PICK l, v : /\ Reads(l, v) /\ v + 1 >= 0
                    /\ v + 1 = 0 => l = << >>
    BY <1>1, <1>3, <2>1, ReadsCloser
  <2>7. Grown(nodes, nodes')
    BY <2>1, GrownSame
  <2>8. Tells(<< >>, << >>)
    BY <1>1, <2>7, StartsWith, TellsSame
  <2>9. v - (-1) + FrameWeight(Top, 2) = v + 1
    <3>1. v \in Int
      BY <2>6 DEF Reads
    <3> QED BY <2>4, <3>1
  <2>10. CASE TypeIn(1) = "RIGHT_BRACE"
    <3>1. Become(<<f>>)
      BY <2>1, <2>10
    <3>2. v - FrameWeight(f, 2) + FrameWeight(Top, 2) = v + 1
      BY <2>5, <2>9
    <3> QED BY <1>1, <2>1, <2>2, <2>6, <2>7, <2>8, <3>1, <3>2, OneYields
  <2>11. CASE TypeIn(1) # "RIGHT_BRACE"
    <3>1. Become(<<f, g>>) \/ Become(<<f>> \o <<g>>)
      BY <2>1, <2>11
    <3>2. f.kids \o g.kids = << >>
      <4>1. << >> \in Seq(Nat)
        OBVIOUS
      <4> QED BY <2>2, <4>1, ConcatEmptySeq
    <3>3. PICK w : w = FrameWeight(f, 1) + FrameWeight(g, 2)
      OBVIOUS
    <3>4. w = -1
      BY <2>3, <2>5, <3>3
    <3>5. v - w + FrameWeight(Top, 2) = v + 1
      BY <2>9, <3>4
    <3>6. v - w + FrameWeight(Top, 2) = 0 => Tells(f.kids \o g.kids, l)
      BY <2>6, <2>8, <3>2, <3>5
    <3>7. v - w + FrameWeight(Top, 2) >= 0
      BY <2>6, <3>5
    <3> QED BY <1>1, <2>1, <2>6, <2>7, <3>1, <3>3, <3>6, <3>7, TwoYield
  <2> QED BY <2>10, <2>11
<1> QED BY <1>2, <1>3

LEMMA EndBlockYield ==
  ParserInv /\ ParserInv' /\ OwnerInv /\ YieldInv /\ EndBlock => YieldInv'
<1> SUFFICES ASSUME ParserInv, ParserInv', OwnerInv, YieldInv, EndBlock
             PROVE  YieldInv'
  OBVIOUS
<1>1. outcome = "parsing" /\ Top.fn = "EndBlock" /\ Top.fn \notin Loops
      /\ "Block" \notin LeafKinds
  BY DEF EndBlock, Running, Loops, LeafKinds
<1>2. CASE AtEnd
  <2>1. currtype # "RIGHT_BRACE"
    <3>1. ~ (tokit + 0 <= Len(toks))
      BY <1>1, <1>2, Ready DEF AtEnd
    <3> QED BY <3>1 DEF currtype, TypeIn
  <2>2. Stop("UNDEFINED")
    BY <1>2, <2>1 DEF EndBlock
  <2> QED BY <2>2, StopsYield DEF Stopped
<1>3. CASE ~ AtEnd /\ currtype = "RIGHT_BRACE"
  <2>1. ReturnNew("Block", "NONE", Top.kids) /\ Consume(1) /\ Keep
    BY <1>3 DEF EndBlock
  <2>2. Reads(<< >>, 1)
    BY <1>1, <1>3, <2>1, ReadsBracket
  <2>3. 1 + FrameWeight(Top, 2) = 0
    BY <1>1, FrameWeights
  <2> QED BY <1>1, <2>1, <2>2, <2>3, ReturnsYield
<1>4. CASE ~ AtEnd /\ currtype # "RIGHT_BRACE"
  BY <1>4, StopsYield DEF EndBlock, Stopped
<1> QED BY <1>2, <1>3, <1>4

-----------------------------------------------------------------------------
\* ParseStatements.

LEMMA NextStatementYield ==
  ParserInv /\ ParserInv' /\ OwnerInv /\ YieldInv /\ NextStatement => YieldInv'
<1> SUFFICES ASSUME ParserInv, ParserInv', OwnerInv, YieldInv, NextStatement
             PROVE  YieldInv'
  OBVIOUS
<1> DEFINE f == Fn("Terminator", Top.kids)
           g == ParseExpr(0)
<1>1. /\ outcome = "parsing" /\ Top.fn = "Statements" /\ Become(<<f, g>>)
      /\ UNCHANGED nodes /\ UNCHANGED tokit /\ Keep
  BY DEF NextStatement, Running
<1>2. f.kids = Top.kids /\ g.kids = << >>
  BY FrameKids
<1>3. FrameWeight(f, 1) = 0 /\ FrameWeight(g, 2) = 0
  BY NoWeight
<1>4. FrameWeight(Top, 2) = 0
  BY <1>1, FrameWeights
<1> HIDE DEF f, g
<1>5. Grown(nodes, nodes') /\ Reads(<< >>, 0)
  BY <1>1, GrownSame, ReadsNone DEF Keep
<1>6. Tells(f.kids \o g.kids, << >>)
  BY <1>1, <1>2, <1>5, TellsSame, NothingMore
<1>7. /\ 0 = FrameWeight(f, 1) + FrameWeight(g, 2)
      /\ 0 - 0 + FrameWeight(Top, 2) >= 0
      /\ Become(<<f, g>>) \/ Become(<<f>> \o <<g>>)
  BY <1>1, <1>3, <1>4
<1> QED BY <1>1, <1>5, <1>6, <1>7, TwoYield

LEMMA TerminatorYield ==
  ParserInv /\ ParserInv' /\ OwnerInv /\ YieldInv /\ Terminator => YieldInv'
<1> SUFFICES ASSUME ParserInv, ParserInv', OwnerInv, YieldInv, Terminator
             PROVE  YieldInv'
  OBVIOUS
<1>1. outcome = "parsing" /\ Top.fn = "Terminator"
  BY DEF Terminator, Running
<1>2. CASE currtype # "SEMICOLON" /\ lasttype # "RIGHT_BRACE"
  BY <1>2, StopsYield DEF Terminator, Stopped
<1>3. CASE ~ (currtype # "SEMICOLON" /\ lasttype # "RIGHT_BRACE")
  <2> DEFINE f == Fn("Statements", Top.kids)
  <2>1. /\ Become(<<f>>) /\ UNCHANGED nodes /\ Keep /\ outcome = "parsing"
        /\ Top.fn = "Terminator"
        /\ tokit' = IF currtype = "SEMICOLON" THEN tokit + 1 ELSE tokit
    BY <1>3 DEF Terminator, Running
  <2>2. f.kids = Top.kids
    BY FrameKids
  <2>3. FrameWeight(f, 2) = 0
    BY NoWeight
  <2>4. FrameWeight(Top, 2) = 0
    BY <2>1, FrameWeights
  <2> HIDE DEF f
  <2>5. Reads(<< >>, 0)
    <3>1. CASE currtype = "SEMICOLON"
      <4>1. Consume(1)
        BY <2>1, <3>1 DEF Consume
      <4> QED BY <2>1, <3>1, <4>1, ReadsQuiet DEF Quiet
    <3>2. CASE currtype # "SEMICOLON"
      BY <2>1, <3>2, ReadsNone DEF Keep
    <3> QED BY <3>1, <3>2
  <2>6. Grown(nodes, nodes')
    BY <2>1, GrownSame
  <2>7. Tells(f.kids, << >>)
    BY <2>1, <2>2, <2>6, TellsSame
  <2>8. 0 - FrameWeight(f, 2) + FrameWeight(Top, 2) >= 0
    BY <2>3, <2>4
  <2> QED BY <2>1, <2>5, <2>6, <2>7, <2>8, OneYields
<1> QED BY <1>2, <1>3

LEMMA EndStatementsYield ==
  ParserInv /\ ParserInv' /\ OwnerInv /\ YieldInv /\ EndStatements => YieldInv'
<1> SUFFICES ASSUME ParserInv, ParserInv', OwnerInv, YieldInv, EndStatements
             PROVE  YieldInv'
  OBVIOUS
<1>1. /\ outcome = "parsing" /\ Top.fn = "Statements" /\ Top.fn \in Loops
      /\ UNCHANGED <<toks, tokit, nodes>>
  BY DEF EndStatements, Running, Loops
<1>2. FrameWeight(Top, 2) = 0
  BY <1>1, FrameWeights
<1>3. CASE Len(calls) = 1
  <2>1. stmts' = Top.kids /\ outcome' = "DONE"
    BY <1>3 DEF EndStatements
  <2>2. calls \in Seq(Frames(nodes)) /\ calls # << >>
    BY <1>1, Ready
  <2>3. Front(calls) = << >>
    <3>1. Front(calls) \in Seq(Frames(nodes)) /\ Len(Front(calls)) = 0
      BY <1>3, <2>2, FrontLast
    <3> QED BY <3>1, EmptySeq
  <2>4. /\ Carried(calls) = Carried(<< >>) \o Top.kids
        /\ Top.kids \in Seq(DOMAIN nodes)
    BY <2>2, <2>3, StackSplits DEF Top
  <2>5. Carried(<< >>) = << >> /\ Outer(<< >>) = 0
    <3>1. CarriesOver(calls, calls, nodes)
      BY <2>2, CarriedIs
    <3> QED BY <3>1 DEF CarriesOver
  <2>6. Carried(calls) = Top.kids
    BY <2>4, <2>5, ConcatEmptySeq
  <2>7. Load(calls) = 0
    BY <1>2, <2>3, <2>5 DEF Load, Top
  <2>8. Consumed' = Consumed /\ nodes' = nodes
    BY <1>1 DEF Consumed
  <2>9. Slack' = Slack /\ Built' = Built
    BY <1>1, <2>1, <2>6, <2>7, <2>8 DEF Slack, Built
  <2> QED BY <1>1, <2>8, <2>9 DEF YieldInv
<1>4. CASE Len(calls) # 1
  <2>1. calls' = Deliver(Below, Top.kids) /\ Keep /\ UNCHANGED nodes
    BY <1>1, <1>4 DEF EndStatements, Keep
  <2>2. Len(calls) >= 2
    <3>1. \A n \in Nat \ {0} : n # 1 => n >= 2
      OBVIOUS
    <3>2. Len(calls) \in Nat \ {0}
      BY <1>1, Ready
    <3> QED BY <1>4, <3>1, <3>2
  <2>3. Reads(<< >>, 0)
    BY <1>1, ReadsNone
  <2>4. 0 + FrameWeight(Top, 2) >= 0
    BY <1>2
  <2> QED BY <1>1, <2>1, <2>2, <2>3, <2>4, GivesYield
<1> QED BY <1>3, <1>4

-----------------------------------------------------------------------------

LEMMA InitYield == Init => YieldInv
<1> SUFFICES ASSUME Init
             PROVE  YieldInv
  OBVIOUS
<1> DEFINE f == Fn("Statements", << >>)
<1>1. /\ nodes = << >> /\ calls = <<f>> /\ outcome = "parsing" /\ tokit = 1
      /\ toks \in Seq(Token)
  BY InputsAssumption DEF Init
<1>2. f.kids = << >> /\ FrameWeight(f, 2) = 0
  BY FrameKids, NoWeight
<1> HIDE DEF f
<1>3. ParserInv
  BY InitInv
<1>4. calls \in Seq(Frames(nodes)) /\ calls # << >> /\ Heap(nodes)
  BY <1>1, <1>3, Ready
<1>5. Last(calls) = f /\ Front(calls) = << >>
  <2>1. Len(calls) = 1 /\ calls[1] = f
    BY <1>1
  <2>2. Len(Front(calls)) = 1 - 1 /\ Front(calls) \in Seq(Frames(nodes))
        /\ Last(calls) = calls[1]
    BY <1>4, <2>1, FrontLast
  <2> QED BY <2>1, <2>2, EmptySeq
<1>6. Carried(<< >>) = << >> /\ Outer(<< >>) = 0
  <2>1. CarriesOver(calls, calls, nodes)
    BY <1>4, CarriedIs
  <2> QED BY <2>1 DEF CarriesOver
<1>7. Load(calls) = 0
  BY <1>2, <1>5, <1>6 DEF Load
<1>8. << >> \in Seq(DOMAIN nodes)
  OBVIOUS
<1>9. Carried(calls) = << >>
  <2>1. Carried(calls) = Carried(Front(calls)) \o Last(calls).kids
    BY <1>4, StackSplits
  <2> QED BY <1>2, <1>5, <1>6, <1>8, <2>1, ConcatEmptySeq
<1>10. Consumed = << >>
  <2>1. tokit - 1 = 0
    BY <1>1
  <2> QED BY <1>1, <2>1, EmptySeq DEF Consumed
<1>11. Slack = 0
  BY <1>1, <1>7, <1>10, WeightNone DEF Slack
<1>12. YieldOf(nodes, << >>) = << >> /\ Literals(<< >>) = << >>
  BY <1>4, <1>8, YieldOfIs, LiteralsNone
<1> QED BY <1>1, <1>9, <1>10, <1>11, <1>12 DEF YieldInv, Built

LEMMA YieldStep ==
  ParserInv /\ ParserInv' /\ OwnerInv /\ YieldInv /\ [Next]_vars => YieldInv'
<1> SUFFICES ASSUME ParserInv, ParserInv', OwnerInv, YieldInv, [Next]_vars
             PROVE  YieldInv'
  OBVIOUS
<1>1. CASE ParseNothing \/ ParseLeaf \/ ParseUnaryOp \/ ParseGrouping
  BY <1>1, ParseNothingYield, ParseLeafYield, ParseUnaryOpYield,
     ParseGroupingYield
<1>2. CASE ParseKeyword \/ ParseFor \/ ParseFnDef \/ ParseBlockExpr
           \/ PrefixBoom
  BY <1>2, ParseKeywordYield, ParseForYield, ParseFnDefYield,
     ParseBlockExprYield, PrefixBoomYield
<1>3. CASE EndInfix \/ ParseBinaryOp \/ ParseCall \/ ParseSubscript
           \/ ParseCommaList
  BY <1>3, EndInfixYield, ParseBinaryOpYield, ParseCallYield,
     ParseSubscriptYield, ParseCommaListYield
<1>4. CASE EndUnaryOp \/ EndGrouping \/ EndSimple \/ EndCall
  BY <1>4, EndUnaryOpYield, EndGroupingYield, EndSimpleYield, EndCallYield
<1>5. CASE ForBody \/ FnDefBody \/ IfBody \/ IfElse \/ CommaListNext
  BY <1>5, ForBodyYield, FnDefBodyYield, IfBodyYield, IfElseYield,
     CommaListNextYield
<1>6. CASE ParseBlock \/ EndBlock \/ NextStatement \/ Terminator
           \/ EndStatements
  BY <1>6, ParseBlockYield, EndBlockYield, NextStatementYield,
     TerminatorYield, EndStatementsYield
<1>7. CASE UNCHANGED vars
  <2>1. Slack' = Slack /\ Built' = Built /\ Consumed' = Consumed
    BY <1>7 DEF vars, Slack, Built, Consumed
  <2> QED BY <1>7, <2>1 DEF vars, YieldInv
<1> QED BY <1>1, <1>2, <1>3, <1>4, <1>5, <1>6, <1>7 DEF Next

LEMMA YieldHolds == ParserInv /\ YieldInv => YieldIsSource
<1> SUFFICES ASSUME ParserInv, YieldInv, outcome = "DONE", Balanced(Consumed)
             PROVE  YieldOf(nodes, stmts) = Literals(Consumed)
  BY DEF YieldIsSource
<1>1. Weight(Consumed) = 0
  BY ConsumedIs, BalancedWeighs
<1>2. Slack = 0 /\ Built = stmts
  BY <1>1 DEF Slack, Built
<1> QED BY <1>2 DEF YieldInv

\* A parse that succeeds, of any source whose consumed tokens have matching
\* brackets, loses, repeats and reorders no literal and no name.
THEOREM ParserYields == Spec => []YieldIsSource
<1>1. Init => OwnerInv /\ YieldInv
  BY InitOwner, InitYield
<1>2. ParserInv /\ ParserInv' /\ OwnerInv /\ [Next]_vars => OwnerInv'
  BY OwnerStep
<1>3. ParserInv /\ ParserInv' /\ OwnerInv /\ YieldInv /\ [Next]_vars => YieldInv'
  BY YieldStep
<1>4. ParserInv /\ YieldInv => YieldIsSource
  BY YieldHolds
<1>5. Spec => []ParserInv
  BY ParserInvariant
<1> QED BY <1>1, <1>2, <1>3, <1>4, <1>5, PTL DEF Spec

\* What the frames of the parser are at while it parses the statement s .. e.

\* The left operand of the operator at m.
LeftOf(ns, w, k, type, p, m) ==
  /\ m \in 1 .. Len(w) /\ w[m].type = type /\ type \in BinaryTypes
  /\ Spans(ns, w, k, p, m - 1) /\ AtLeast(w, p, m - 1, InfixPrec(type))

\* The function fn was called at p, has the nodes ks and calls ParseExpr(prec)
\* at q.
Awaits(ns, w, s, fn, type, ks, p, prec, q) ==
  \/ fn = "Terminator" /\ Laid(ns, w, ks, s) /\ p = s /\ q = s /\ prec = 0
  \/ /\ fn = "Print" /\ ks = << >> /\ w[s].type = "PRINT"
     /\ p = s /\ q = s + 1 /\ prec = 0
  \/ /\ fn = "UnaryOp" /\ ks = << >> /\ Prefixed(w, p) /\ type = w[p].type
     /\ q = p + 1 /\ prec = 100
  \/ /\ fn = "Grouping" /\ ks = << >>
     /\ w[p].type = "LEFT_PAREN" /\ ~ AfterOperand(w, p)
     /\ q = p + 1 /\ prec = 1
  \/ /\ fn = "BinaryOp" /\ prec = InfixPrec(type)
     /\ \E k \in DOMAIN ns : ks = <<k>> /\ LeftOf(ns, w, k, type, p, q - 1)

Loop == {"ParseExpr", "InfixLoop"}

\* The frame f at p has called g, which is at q.
Link(ns, w, s, f, p, g, q) ==
  \/ /\ f.fn = "InfixLoop" /\ f.kids = << >> /\ q = p
     /\ g.fn \in {"UnaryOp", "Grouping", "BinaryOp", "Print"}
     /\ g.fn = "BinaryOp" => f.prec < InfixPrec(g.type)
     /\ g.fn = "Print" => f.prec = 0
  \/ /\ g.fn \in Loop
     /\ Awaits(ns, w, s, f.fn, f.type, f.kids, p, g.prec, q)

Linked(ns, w, s, c, at) ==
  /\ c[1].fn = "Terminator" /\ at[1] = s
  /\ \A i \in 1 .. Len(c) - 1 : Link(ns, w, s, c[i], at[i], c[i + 1], at[i + 1])

\* What ParseExpr has when it looks for an infix at t.
Holding(ns, w, s, e, k, p, prec, t) ==
  \/ /\ Spans(ns, w, k, p, t - 1)
     /\ Above(w, p, t - 1, prec)
     /\ AtLeast(w, p, t - 1, InfixPrec(TypeAt(w, t)))
  \/ PrintOf(ns, w, k, s, e) /\ p = s /\ prec = 0 /\ t = e + 1

\* What it returns.
Result(ns, w, s, e, k, q, prec, t) ==
  \/ /\ Spans(ns, w, k, q, t - 1)
     /\ Above(w, q, t - 1, prec)
     /\ InfixPrec(TypeAt(w, t)) <= prec
  \/ PrintOf(ns, w, k, s, e) /\ q = s /\ prec = 0 /\ t = e + 1

\* What the innermost frame f, called at p, is doing at t.
Continues(ns, w, s, e, f, p, t) ==
  /\ f.fn = "InfixLoop"
  /\ \E k \in DOMAIN ns : f.kids = <<k>> /\ Holding(ns, w, s, e, k, p, f.prec, t)

Resumes(ns, w, s, e, f, p, t) ==
  \E ks \in Seq(DOMAIN ns), k \in DOMAIN ns, prec \in Int, q \in s .. e :
    /\ f.kids = ks \o <<k>>
    /\ Awaits(ns, w, s, f.fn, f.type, ks, p, prec, q)
    /\ Result(ns, w, s, e, k, q, prec, t)

Doing(ns, w, s, e, f, p, t) ==
  \/ f.fn = "ParseExpr" /\ t = p
  \/ Continues(ns, w, s, e, f, p, t)
  \/ Resumes(ns, w, s, e, f, p, t)

Within(ns, w, s, e, c, at, t) ==
  /\ PlainAt(w, s, e)
  /\ at \in [Nat -> s .. e]
  /\ Linked(ns, w, s, c, at)
  /\ Doing(ns, w, s, e, c[Len(c)], at[Len(c)], t)

Inside(ns, w, c, t) == \E s, e, at : Within(ns, w, s, e, c, at, t)

Between(ns, w, c, t) ==
  \E ks \in Seq(DOMAIN ns) :
    c = <<Fn("Statements", ks)>> /\ Reached(w, t) /\ Laid(ns, w, ks, t)

PrecInv ==
  Plainly(toks) =>
    \/ /\ outcome = "parsing"
       /\ Between(nodes, toks, calls, tokit) \/ Inside(nodes, toks, calls, tokit)
    \/ /\ outcome = "DONE"
       /\ \E s : /\ Reached(toks, s) /\ ~ StartsAt(toks, s)
                 /\ Laid(nodes, toks, stmts, s)
    \/ /\ outcome = "ABORT"
       /\ \E p, r \in 1 .. Len(toks) : Prefixed(toks, p) /\ Wraps(toks, p + 1, r)
    \/ /\ outcome = "EXIT"
       /\ \E s : PlainAt(toks, s, Len(toks))

-----------------------------------------------------------------------------
\* New nodes make no difference.

LEMMA AwaitsGrows ==
  ASSUME NEW ns, NEW ms, Grown(ns, ms), NEW w, NEW s
  PROVE  /\ \A fn, type, ks, p, prec, q :
              Awaits(ns, w, s, fn, type, ks, p, prec, q) =>
                Awaits(ms, w, s, fn, type, ks, p, prec, q)
         /\ \A c, at : Linked(ns, w, s, c, at) => Linked(ms, w, s, c, at)
<1>1. ASSUME NEW fn, NEW type, NEW ks, NEW p, NEW prec, NEW q,
             Awaits(ns, w, s, fn, type, ks, p, prec, q)
      PROVE  Awaits(ms, w, s, fn, type, ks, p, prec, q)
  <2>1. \A k : LeftOf(ns, w, k, type, p, q - 1) => LeftOf(ms, w, k, type, p, q - 1)
    BY SpansGrows DEF Grown, Keeps, LeftOf
  <2>2. Laid(ns, w, ks, s) => Laid(ms, w, ks, s)
    BY SpansGrows DEF Grown, Keeps
  <2>3. DOMAIN ns \subseteq DOMAIN ms
    BY SpansGrows DEF Grown, Keeps
  <2> QED BY <1>1, <2>1, <2>2, <2>3 DEF Awaits
<1>2. \A f, p, g, q : Link(ns, w, s, f, p, g, q) => Link(ms, w, s, f, p, g, q)
  BY <1>1 DEF Link
<1> QED BY <1>1, <1>2 DEF Linked

-----------------------------------------------------------------------------
\* The stack.

LEMMA LinkedReplace ==
  ASSUME NEW ns, NEW w, NEW s, NEW c, NEW d, NEW at, Linked(ns, w, s, c, at),
         Len(c) \in Nat, Len(c) >= 2, Len(d) = Len(c),
         \A i \in 1 .. Len(c) - 1 : d[i] = c[i],
         c[Len(c)].fn \in Loop, d[Len(c)].fn \in Loop,
         d[Len(c)].prec = c[Len(c)].prec
  PROVE  Linked(ns, w, s, d, at)
<1> DEFINE n == Len(c)
<1>1. n \in Nat /\ n >= 2 /\ d[1] = c[1] /\ c[n].fn \in Loop /\ d[n].fn \in Loop
      /\ Len(d) = n /\ d[n].prec = c[n].prec
  OBVIOUS
<1>2. \A i \in 1 .. n - 1 : Link(ns, w, s, c[i], at[i], c[i + 1], at[i + 1]) /\ d[i] = c[i]
  BY DEF Linked
<1> HIDE DEF n
<1>3. ASSUME NEW i \in 1 .. n - 1
      PROVE  Link(ns, w, s, d[i], at[i], d[i + 1], at[i + 1])
  <2>1. CASE i + 1 = n
    <3>1. Link(ns, w, s, c[i], at[i], c[n], at[n]) /\ d[i] = c[i]
      BY <1>2, <2>1
    <3>2. c[n].fn \notin {"UnaryOp", "Grouping", "BinaryOp", "Print"}
      BY <1>1 DEF Loop
    <3>3. Link(ns, w, s, d[i], at[i], d[n], at[n])
      BY <1>1, <3>1, <3>2 DEF Link
    <3> QED BY <2>1, <3>3
  <2>2. CASE i + 1 # n
    <3>1. i + 1 \in 1 .. n - 1
      BY <1>1, <2>2
    <3> QED BY <1>2, <3>1
  <2> QED BY <2>1, <2>2
<1> QED BY <1>1, <1>3 DEF Linked, n

LEMMA LinkedPop ==
  ASSUME NEW ns, NEW w, NEW s, NEW c, NEW d, NEW at, Linked(ns, w, s, c, at),
         Len(c) \in Nat, Len(c) >= 2, Len(d) = Len(c) - 1,
         \A i \in 1 .. Len(c) - 2 : d[i] = c[i],
         d[Len(d)].fn = c[Len(d)].fn, d[Len(d)].prec = c[Len(d)].prec,
         d[Len(d)].type = c[Len(d)].type
  PROVE  Linked(ns, w, s, d, at)
<1> DEFINE n == Len(d)
<1>1. /\ n \in Nat /\ n >= 1 /\ Len(c) = n + 1
      /\ d[n].fn = c[n].fn /\ d[n].prec = c[n].prec /\ d[n].type = c[n].type
      /\ \A i \in 1 .. n - 1 : d[i] = c[i]
  OBVIOUS
<1>2. /\ \A i \in 1 .. n : Link(ns, w, s, c[i], at[i], c[i + 1], at[i + 1])
      /\ c[1].fn = "Terminator" /\ at[1] = s
  BY <1>1 DEF Linked
<1> HIDE DEF n
<1>3. ASSUME NEW i \in 1 .. n - 1
      PROVE  Link(ns, w, s, d[i], at[i], d[i + 1], at[i + 1])
  <2>0. Link(ns, w, s, c[i], at[i], c[i + 1], at[i + 1]) /\ d[i] = c[i]
    BY <1>1, <1>2
  <2>1. CASE i + 1 = n
    <3>1. Link(ns, w, s, c[i], at[i], c[n], at[n])
      BY <2>0, <2>1
    <3>2. Link(ns, w, s, d[i], at[i], d[n], at[n])
      BY <1>1, <2>0, <3>1 DEF Link
    <3> QED BY <2>1, <3>2
  <2>2. CASE i + 1 # n
    <3>1. i + 1 \in 1 .. n - 1
      BY <1>1, <2>2
    <3> QED BY <1>1, <2>0, <3>1
  <2> QED BY <2>1, <2>2
<1>4. d[1].fn = "Terminator"
  <2>1. n = 1 \/ 1 \in 1 .. n - 1
    BY <1>1
  <2> QED BY <1>1, <1>2, <2>1
<1> QED BY <1>1, <1>2, <1>3, <1>4 DEF Linked, n

\* The innermost frame of c has become f, g and h.
Pushed(c, d, f, g, h) ==
  LET n == Len(c)
  IN /\ n \in Nat /\ n >= 2 /\ Len(d) = n + 2
     /\ d[n] = f /\ d[n + 1] = g /\ d[n + 2] = h
     /\ \A i \in 1 .. n - 1 : d[i] = c[i]

\* The calls in c lead to one at q.
Leads(ns, w, s, e, c, q) ==
  \E at \in [Nat -> s .. e] : Linked(ns, w, s, c, at) /\ at[Len(c)] = q

LEMMA LinkedPush ==
  ASSUME NEW ns, NEW w, NEW s, NEW e, NEW c, NEW d, NEW at \in [Nat -> s .. e],
         Linked(ns, w, s, c, at),
         NEW f, NEW g, NEW h, Pushed(c, d, f, g, h),
         c[Len(c)].fn \in Loop, f.fn \in Loop, f.prec = c[Len(c)].prec,
         NEW q \in s .. e,
         Link(ns, w, s, f, at[Len(c)], g, at[Len(c)]),
         Link(ns, w, s, g, at[Len(c)], h, q)
  PROVE  Leads(ns, w, s, e, d, q)
<1> DEFINE n == Len(c)
           at2 == [at EXCEPT ![n + 1] = at[n], ![n + 2] = q]
<1>1. /\ n \in Nat /\ n >= 2 /\ Len(d) = n + 2
      /\ c[n].fn \in Loop /\ d[n].fn \in Loop /\ d[n].prec = c[n].prec
      /\ \A i \in 1 .. n - 1 : d[i] = c[i]
      /\ Link(ns, w, s, d[n], at[n], d[n + 1], at[n])
      /\ Link(ns, w, s, d[n + 1], at[n], d[n + 2], q)
  BY DEF Pushed
<1>2. /\ \A i \in 1 .. n - 1 : Link(ns, w, s, c[i], at[i], c[i + 1], at[i + 1])
      /\ c[1].fn = "Terminator" /\ at[1] = s
  BY DEF Linked
<1>3. /\ at2 \in [Nat -> s .. e]
      /\ \A i \in 1 .. n : at2[i] = at[i]
      /\ at2[n + 1] = at[n] /\ at2[n + 2] = q
  <2> HIDE DEF n
  <2>1. at[n] \in s .. e
    BY <1>1
  <2>2. n + 1 \in Nat /\ n + 2 \in Nat /\ n + 1 # n + 2 /\ \A i \in 1 .. n : i \in Nat /\ i # n + 1 /\ i # n + 2
    BY <1>1
  <2> QED BY <2>1, <2>2
<1> HIDE DEF n, at2
<1>4. ASSUME NEW i \in 1 .. n + 1
      PROVE  Link(ns, w, s, d[i], at2[i], d[i + 1], at2[i + 1])
  <2>1. CASE i = n + 1
    <3>1. i + 1 = n + 2
      BY <1>1, <2>1
    <3> QED BY <1>1, <1>3, <2>1, <3>1
  <2>2. CASE i = n
    <3>1. n \in 1 .. n
      BY <1>1
    <3> QED BY <1>1, <1>3, <2>2, <3>1
  <2>3. CASE i + 1 = n
    <3>1. i \in 1 .. n - 1 /\ i \in 1 .. n /\ n \in 1 .. n
      BY <1>1, <2>3
    <3>2. Link(ns, w, s, c[i], at[i], c[n], at[n]) /\ d[i] = c[i]
      BY <1>1, <1>2, <2>3, <3>1
    <3>3. c[n].fn \notin {"UnaryOp", "Grouping", "BinaryOp", "Print"}
      BY <1>1 DEF Loop
    <3>4. Link(ns, w, s, d[i], at[i], d[n], at[n])
      BY <1>1, <3>2, <3>3 DEF Link
    <3> QED BY <1>3, <2>3, <3>1, <3>4
  <2>4. CASE i + 1 < n
    <3>1. i \in 1 .. n - 1 /\ i + 1 \in 1 .. n - 1 /\ i \in 1 .. n /\ i + 1 \in 1 .. n
      BY <1>1, <2>4
    <3> QED BY <1>1, <1>2, <1>3, <3>1
  <2> QED BY <1>1, <2>1, <2>2, <2>3, <2>4
<1>5. d[1].fn = "Terminator" /\ at2[1] = s
  <2>1. 1 \in 1 .. n - 1 /\ 1 \in 1 .. n
    BY <1>1
  <2> QED BY <1>1, <1>2, <1>3, <2>1
<1>6. Len(d) - 1 = n + 1
  BY <1>1
<1>7. Linked(ns, w, s, d, at2)
  BY <1>4, <1>5, <1>6 DEF Linked
<1>8. at2[Len(d)] = q
  BY <1>1, <1>3
<1> QED BY <1>3, <1>7, <1>8 DEF Leads

-----------------------------------------------------------------------------
\* Where the parser is.

\* Where an operand is expected there is one, or the statement is a print.
LEMMA AtPrefix ==
  ASSUME NEW ns, NEW w \in Seq(Token), NEW s, NEW e, PlainAt(w, s, e),
         NEW p \in s .. e, NEW q \in s .. e, NEW f, NEW g, g.fn = "ParseExpr",
         Link(ns, w, s, f, p, g, q)
  PROVE  /\ ~ AfterOperand(w, q) /\ q \in 1 .. Len(w)
         /\ \/ w[q].type \in LeafTypes \cup {"BANG", "MINUS", "LEFT_PAREN"}
            \/ q = s /\ w[q].type = "PRINT" /\ g.prec = 0
<1>1. Awaits(ns, w, s, f.fn, f.type, f.kids, p, g.prec, q)
  BY DEF Link
<1>2. /\ Len(w) \in Nat /\ s \in 1 .. Len(w) /\ e \in s .. Len(w)
      /\ ~ AfterOperand(w, s) /\ \A r \in s + 1 .. e : Regular(w, r)
      /\ w[s].type = "PRINT" \/ Regular(w, s)
  BY PlainFacts
<1>3. q = s => g.prec = 0
  <2>1. ASSUME NEW k, LeftOf(ns, w, k, f.type, p, q - 1)
        PROVE  q # s
    BY <1>2, <2>1 DEF LeftOf, Spans, Expression
  <2> QED BY <1>1, <1>2, <2>1 DEF Awaits
<1>4. ~ AfterOperand(w, q)
  <2>1. CASE q = s
    BY <1>2, <2>1
  <2>2. CASE q # s
    <3>1. ASSUME NEW k, LeftOf(ns, w, k, f.type, p, q - 1)
          PROVE  w[q - 1].type \in BinaryTypes
      BY <3>1 DEF LeftOf
    <3>2. q - 1 = p \/ q - 1 = s \/ w[q - 1].type \in BinaryTypes
      BY <1>1, <1>2, <2>2, <3>1 DEF Awaits
    <3>3. w[q - 1].type \in BinaryTypes \cup {"PRINT", "BANG", "MINUS", "LEFT_PAREN"}
      <4>1. \A x \in s .. e : q = x + 1 => q - 1 = x
        BY <1>2
      <4>2. s \in s .. e
        BY <1>2
      <4> QED BY <1>1, <2>2, <3>1, <4>1, <4>2 DEF Awaits, Prefixed
    <3> QED BY <3>3, TypeSets DEF AfterOperand, EndsOperand
  <2> QED BY <2>1, <2>2
<1>5. Regular(w, q) \/ (q = s /\ w[q].type = "PRINT")
  <2>1. q = s \/ q \in s + 1 .. e
    BY <1>2
  <2> QED BY <1>2, <2>1
<1>6. q \in 1 .. Len(w)
  BY <1>2
<1> QED BY <1>3, <1>4, <1>5, <1>6 DEF Regular

\* The same for what ParseExpr holds and returns.
LEMMA AtHolding ==
  ASSUME NEW ns, NEW w \in Seq(Token), NEW s, NEW e, PlainAt(w, s, e),
         NEW p \in s .. e, NEW k, NEW prec, NEW t, t \in Int,
         Holding(ns, w, s, e, k, p, prec, t) \/ Result(ns, w, s, e, k, p, prec, t)
  PROVE  /\ t \in p + 1 .. e + 1
         /\ TypeAt(w, t) \in BinaryTypes \cup {"RIGHT_PAREN", "SEMICOLON", "NONE"}
         /\ t <= e <=> TypeAt(w, t) \in BinaryTypes \cup {"RIGHT_PAREN"}
         /\ t <= e => TypeAt(w, t) = w[t].type /\ Spans(ns, w, k, p, t - 1)
         /\ t = e + 1 => TypeAt(w, t) \in {"SEMICOLON", "NONE"}
<1>1. /\ Len(w) \in Nat /\ s \in 1 .. Len(w) /\ e \in s .. Len(w)
      /\ TypeAt(w, e + 1) \in {"SEMICOLON", "NONE"}
  BY PlainFacts
<1>2. Spans(ns, w, k, p, t - 1) \/ (p = s /\ t = e + 1)
  BY DEF Holding, Result
<1>3. /\ t \in p + 1 .. e + 1
      /\ t <= e => TypeAt(w, t) = w[t].type /\ w[t].type \in BinaryTypes \cup {"RIGHT_PAREN"}
      /\ t = e + 1 => TypeAt(w, t) \in {"SEMICOLON", "NONE"}
  <2>1. CASE Spans(ns, w, k, p, t - 1)
    BY <2>1, AtInfix
  <2>2. CASE p = s /\ t = e + 1
    BY <1>1, <2>2
  <2> QED BY <1>2, <2>1, <2>2
<1>4. t <= e \/ t = e + 1
  BY <1>1, <1>3
<1>5. t <= e => Spans(ns, w, k, p, t - 1)
  BY <1>1, <1>2
<1> QED BY <1>3, <1>4, <1>5, TypeSets

\* The frames that can be innermost, and how the one below is linked to it.
LEMMA AtTop ==
  ASSUME NEW ns, NEW w, NEW s, NEW e, NEW c \in Seq(Frames(ns)), c # << >>,
         NEW at, NEW t, Within(ns, w, s, e, c, at, t)
  PROVE  LET n == Len(c)
             f == c[n]
         IN /\ n \in Nat \ {0} /\ Last(c) = f
            /\ f.fn \in {"ParseExpr", "InfixLoop", "Terminator", "Print",
                         "UnaryOp", "Grouping", "BinaryOp"}
            /\ f.fn = "Terminator" <=> n = 1
            /\ n >= 2 => /\ n - 1 \in Nat
                         /\ Link(ns, w, s, c[n - 1], at[n - 1], f, at[n])
                         /\ at[n - 1] \in s .. e
            /\ at[n] \in s .. e /\ at[1] = s
<1> DEFINE n == Len(c)
           f == c[n]
<1>1. n \in Nat \ {0} /\ Last(c) = f
  BY EmptySeq, LenProperties, FrontLast
<1>2. /\ c[1].fn = "Terminator" /\ at[1] = s /\ at \in [Nat -> s .. e]
      /\ \A i \in 1 .. n - 1 : Link(ns, w, s, c[i], at[i], c[i + 1], at[i + 1])
      /\ Doing(ns, w, s, e, f, at[n], t)
  BY DEF Within, Linked
<1> HIDE DEF n
<1>3. f.fn \in {"ParseExpr", "InfixLoop", "Terminator", "Print",
                "UnaryOp", "Grouping", "BinaryOp"}
  BY <1>2 DEF Doing, Continues, Resumes, Awaits
<1>4. ASSUME n >= 2
      PROVE  /\ n - 1 \in Nat /\ at[n - 1] \in s .. e
             /\ Link(ns, w, s, c[n - 1], at[n - 1], f, at[n])
  <2>1. n - 1 \in 1 .. n - 1 /\ (n - 1) + 1 = n /\ n - 1 \in Nat
    BY <1>1, <1>4
  <2> QED BY <1>2, <2>1
<1>5. f.fn = "Terminator" <=> n = 1
  <2>1. n = 1 => f.fn = "Terminator"
    BY <1>2
  <2>2. n # 1 => n >= 2
    BY <1>1
  <2>3. n >= 2 => f.fn # "Terminator"
    BY <1>4 DEF Link, Loop
  <2> QED BY <2>1, <2>2, <2>3
<1> QED BY <1>1, <1>2, <1>3, <1>4, <1>5 DEF n

-----------------------------------------------------------------------------
\* What a step makes of the call stack.

\* Three frames instead of the innermost one.
LEMMA ThreeFrames ==
  ASSUME NEW S, NEW c \in Seq(S), c # << >>, NEW fs \in Seq(S)
  PROVE  Len(c) >= 2 /\ Len(fs) = 3 => Pushed(c, Front(c) \o fs, fs[1], fs[2], fs[3])
<1> DEFINE d == Front(c) \o fs
           n == Len(c)
<1>1. /\ n \in Nat \ {0} /\ Len(d) = n - 1 + Len(fs)
      /\ \A i \in 1 .. n - 1 : d[i] = c[i]
      /\ \A j \in 1 .. Len(fs) : d[n - 1 + j] = fs[j]
  BY BecomeSeq
<1> SUFFICES ASSUME n >= 2, Len(fs) = 3
             PROVE  Pushed(c, d, fs[1], fs[2], fs[3])
  OBVIOUS
<1> HIDE DEF d, n
<1>2. 1 \in 1 .. Len(fs) /\ 2 \in 1 .. Len(fs) /\ 3 \in 1 .. Len(fs)
  OBVIOUS
<1>3. d[n - 1 + 1] = fs[1] /\ d[n - 1 + 2] = fs[2] /\ d[n - 1 + 3] = fs[3]
  BY <1>1, <1>2
<1>4. n - 1 + 1 = n /\ n - 1 + 2 = n + 1 /\ n - 1 + 3 = n + 2
  BY <1>1
<1>5. /\ n \in Nat /\ n >= 2 /\ Len(d) = n + 2
      /\ d[n] = fs[1] /\ d[n + 1] = fs[2] /\ d[n + 2] = fs[3]
      /\ \A i \in 1 .. n - 1 : d[i] = c[i]
  BY <1>1, <1>3, <1>4
<1> QED BY <1>5 DEF Pushed, n

\* The caller of the innermost frame.
LEMMA CallerOf ==
  ASSUME NEW ns, NEW c \in Seq(Frames(ns)), Len(c) >= 2, NEW k \in DOMAIN ns
  PROVE  LET d == Deliver(Front(c), <<k>>)
             m == Len(c) - 1
         IN /\ m \in Nat \ {0} /\ Len(d) = m /\ \A i \in 1 .. m - 1 : d[i] = c[i]
            /\ d[m].fn = c[m].fn /\ d[m].type = c[m].type /\ d[m].prec = c[m].prec
            /\ d[m].kids = c[m].kids \o <<k>> /\ c[m].kids \in Seq(DOMAIN ns)
<1> DEFINE b == Front(c)
           ks == <<k>>
           m == Len(c) - 1
           d == Deliver(b, ks)
<1>1. ks \in Seq(DOMAIN ns)
  OBVIOUS
<1> HIDE DEF ks
<1>2. /\ m \in Nat \ {0} /\ Len(d) = m /\ \A i \in 1 .. m - 1 : d[i] = c[i]
      /\ d[m].fn = c[m].fn /\ d[m].type = c[m].type
      /\ d[m].kids = c[m].kids \o ks
  BY <1>1, DeliverSeq
<1>3. /\ b \in Seq(Frames(ns)) /\ Len(b) = m /\ b[m] = c[m]
  <2>1. c # << >> /\ m \in 1 .. Len(c) - 1
    BY <1>2, EmptySeq
  <2> QED BY <2>1, FrontLast
<1>4. b[m] \in Frames(ns) /\ m \in DOMAIN b
  <2>1. m \in 1 .. Len(b)
    BY <1>2, <1>3
  <2> QED BY <1>3, <2>1, ElementOfSeq, LenProperties
<1>5. d = [b EXCEPT ![m].kids = @ \o ks]
  BY <1>3 DEF Deliver
<1> HIDE DEF b, m, d
<1>6. d[m].prec = c[m].prec
  BY <1>3, <1>4, <1>5 DEF Frames
<1>7. c[m].kids \in Seq(DOMAIN ns)
  BY <1>3, <1>4 DEF Frames
<1> QED BY <1>2, <1>6, <1>7 DEF b, ks, m, d

\* The innermost loop goes on.
LEMMA LoopGoesOn ==
  ASSUME NEW ns, NEW ms, Grown(ns, ms), NEW w, NEW s, NEW e,
         NEW c \in Seq(Frames(ns)), c # << >>, NEW at, NEW t,
         Within(ns, w, s, e, c, at, t), Last(c).fn \in Loop,
         NEW f, f.fn \in Loop, f.prec = Last(c).prec,
         NEW u, Doing(ms, w, s, e, f, at[Len(c)], u)
  PROVE  Inside(ms, w, Front(c) \o <<f>>, u)
<1> DEFINE S == Frames(ns) \cup {f}
           d == Front(c) \o <<f>>
           n == Len(c)
<1>1. /\ n \in Nat \ {0} /\ Last(c) = c[n]
      /\ c[n].fn = "Terminator" <=> n = 1
  BY AtTop
<1>2. n >= 2
  <2>1. c[n].fn # "Terminator"
    BY <1>1 DEF Loop
  <2> HIDE DEF n
  <2> QED BY <1>1, <2>1
<1>3. c \in Seq(S) /\ <<f>> \in Seq(S) /\ Len(<<f>>) = 1 /\ <<f>>[1] = f
  <2>1. \A x \in Frames(ns) : x \in S
    OBVIOUS
  <2>2. f \in S
    OBVIOUS
  <2> HIDE DEF S
  <2>3. c \in Seq(S)
    BY <2>1, SeqGrows
  <2> QED BY <2>2, <2>3
<1> HIDE DEF S
<1>4. /\ Len(d) = n - 1 + 1 /\ \A i \in 1 .. n - 1 : d[i] = c[i]
      /\ \A j \in 1 .. 1 : d[n - 1 + j] = <<f>>[j]
  BY <1>3, BecomeSeq
<1>5. Len(d) = n /\ d[n] = f /\ \A i \in 1 .. n - 1 : d[i] = c[i]
  <2>1. d[n - 1 + 1] = <<f>>[1] /\ n - 1 + 1 = n
    BY <1>1, <1>4
  <2> QED BY <1>3, <1>4, <2>1
<1> HIDE DEF d, n
<1>6. /\ PlainAt(w, s, e) /\ at \in [Nat -> s .. e] /\ Linked(ns, w, s, c, at)
  BY DEF Within
<1>7. Linked(ms, w, s, c, at)
  BY <1>6, AwaitsGrows
<1>8. Linked(ms, w, s, d, at)
  BY <1>1, <1>2, <1>5, <1>7, LinkedReplace DEF n
<1>9. Within(ms, w, s, e, d, at, u)
  BY <1>5, <1>6, <1>8 DEF Within, n
<1> QED BY <1>9 DEF Inside, d

\* The innermost loop calls g, and g calls ParseExpr.
LEMMA LoopCalls ==
  ASSUME NEW ns, NEW ms, Grown(ns, ms), NEW w, NEW s, NEW e,
         NEW c \in Seq(Frames(ns)), c # << >>, NEW at, NEW t,
         Within(ns, w, s, e, c, at, t), Last(c).fn \in Loop,
         NEW f, f.fn = "InfixLoop", f.prec = Last(c).prec,
         NEW g, NEW h, h.fn = "ParseExpr", NEW q \in s .. e,
         Link(ms, w, s, f, at[Len(c)], g, at[Len(c)]),
         Link(ms, w, s, g, at[Len(c)], h, q)
  PROVE  Inside(ms, w, Front(c) \o <<f, g, h>>, q)
<1> DEFINE S == Frames(ns) \cup {f, g, h}
           fs == <<f, g, h>>
           d == Front(c) \o fs
           n == Len(c)
<1>1. /\ n \in Nat \ {0} /\ Last(c) = c[n]
      /\ c[n].fn = "Terminator" <=> n = 1
  BY AtTop
<1>2. n >= 2
  <2>1. c[n].fn # "Terminator"
    BY <1>1 DEF Loop
  <2> HIDE DEF n
  <2> QED BY <1>1, <2>1
<1>3. c \in Seq(S) /\ fs \in Seq(S)
  <2>1. \A x \in Frames(ns) : x \in S
    OBVIOUS
  <2>2. f \in S /\ g \in S /\ h \in S
    OBVIOUS
  <2> HIDE DEF S
  <2>3. c \in Seq(S)
    BY <2>1, SeqGrows
  <2> QED BY <2>2, <2>3
<1> HIDE DEF S
<1>4. fs[1] = f /\ fs[2] = g /\ fs[3] = h /\ Len(fs) = 3
  OBVIOUS
<1> HIDE DEF fs
<1>5. Pushed(c, d, f, g, h)
  <2>1. Len(c) >= 2 /\ Len(fs) = 3 => Pushed(c, d, fs[1], fs[2], fs[3])
    BY <1>3, ThreeFrames
  <2> QED BY <1>2, <1>4, <2>1
<1> HIDE DEF d
<1>6. /\ PlainAt(w, s, e) /\ at \in [Nat -> s .. e] /\ Linked(ns, w, s, c, at)
  BY DEF Within
<1>7. Linked(ms, w, s, c, at)
  BY <1>6, AwaitsGrows
<1>8. f.fn \in Loop /\ c[Len(c)].fn \in Loop /\ f.prec = c[Len(c)].prec
  BY <1>1 DEF Loop
<1>9. Leads(ms, w, s, e, d, q)
  BY <1>5, <1>6, <1>7, <1>8, LinkedPush
<1>10. PICK at2 \in [Nat -> s .. e] : Linked(ms, w, s, d, at2) /\ at2[Len(d)] = q
  BY <1>9 DEF Leads
<1>11. Doing(ms, w, s, e, d[Len(d)], at2[Len(d)], q)
  <2>1. d[Len(d)] = h
    BY <1>5 DEF Pushed
  <2> QED BY <1>10, <2>1 DEF Doing
<1>12. Within(ms, w, s, e, d, at2, q)
  BY <1>6, <1>10, <1>11 DEF Within
<1> QED BY <1>12 DEF Inside, d, fs

\* The innermost function returns k to its caller.
LEMMA CallReturns ==
  ASSUME NEW ns, NEW ms, Grown(ns, ms), NEW w, NEW s, NEW e,
         NEW c \in Seq(Frames(ns)), c # << >>, Last(c).fn # "Terminator", NEW at, NEW t,
         Within(ns, w, s, e, c, at, t), NEW k \in DOMAIN ms, NEW u,
         Last(c).fn \in Loop =>
           Result(ms, w, s, e, k, at[Len(c)], Last(c).prec, u),
         Last(c).fn \notin Loop =>
           Holding(ms, w, s, e, k, at[Len(c)], c[Len(c) - 1].prec, u)
  PROVE  Inside(ms, w, Deliver(Front(c), <<k>>), u)
<1> DEFINE m == Len(c) - 1
           d == Deliver(Front(c), <<k>>)
           n == Len(c)
           g == Last(c)
<1>1. /\ n \in Nat \ {0} /\ g = c[n]
      /\ c[n].fn = "Terminator" <=> n = 1
      /\ n >= 2 => /\ n - 1 \in Nat
                   /\ Link(ns, w, s, c[n - 1], at[n - 1], c[n], at[n])
                   /\ at[n - 1] \in s .. e
      /\ at[n] \in s .. e
  BY AtTop
<1>2. n >= 2
  <2> HIDE DEF n
  <2> QED BY <1>1
<1>3. DOMAIN ns \subseteq DOMAIN ms
  BY SpansGrows DEF Grown, Keeps
<1>4. c \in Seq(Frames(ms))
  BY <1>3, FramesGrow
<1>5. <<k>> \in Seq(DOMAIN ms)
  OBVIOUS
<1>6. /\ m \in Nat \ {0} /\ Len(d) = m /\ \A i \in 1 .. m - 1 : d[i] = c[i]
      /\ d[m].fn = c[m].fn /\ d[m].type = c[m].type /\ d[m].prec = c[m].prec
      /\ d[m].kids = c[m].kids \o <<k>> /\ c[m].kids \in Seq(DOMAIN ms)
  <2>1. Len(c) >= 2
    BY <1>2
  <2> QED BY <1>4, <2>1, CallerOf
<1>7. c[m].kids \in Seq(DOMAIN ms)
  BY <1>6
<1> HIDE DEF d
<1>8. /\ PlainAt(w, s, e) /\ at \in [Nat -> s .. e] /\ Linked(ns, w, s, c, at)
  BY DEF Within
<1>9. Linked(ms, w, s, c, at)
  BY <1>8, AwaitsGrows
<1>10. \A i \in 1 .. Len(c) - 2 : d[i] = c[i]
  BY <1>1, <1>6
<1>11. Linked(ms, w, s, d, at)
  BY <1>1, <1>2, <1>6, <1>9, <1>10, LinkedPop
<1>12. Link(ms, w, s, c[m], at[m], g, at[n])
  <2>1. m \in 1 .. n - 1 /\ m + 1 = n
    BY <1>1, <1>2
  <2> QED BY <1>1, <1>9, <2>1 DEF Linked
<1>13. CASE g.fn \in Loop
  <2>1. Awaits(ms, w, s, c[m].fn, c[m].type, c[m].kids, at[m], g.prec, at[n])
    BY <1>12, <1>13 DEF Link, Loop
  <2>2. Awaits(ms, w, s, d[m].fn, d[m].type, c[m].kids, at[m], g.prec, at[n])
    BY <1>6, <2>1
  <2>3. Result(ms, w, s, e, k, at[n], g.prec, u)
    BY <1>13
  <2>4. g.prec \in Int
    <3>1. g \in Frames(ns)
      BY FrontLast
    <3> HIDE DEF g
    <3>2. g.prec \in 0 .. 100
      BY <3>1 DEF Frames
    <3>3. \A x \in 0 .. 100 : x \in Int
      OBVIOUS
    <3> QED BY <3>2, <3>3, Zenon
  <2>5. Resumes(ms, w, s, e, d[m], at[m], u)
    BY <1>1, <1>6, <1>7, <2>2, <2>3, <2>4 DEF Resumes
  <2> QED BY <1>6, <1>8, <1>11, <2>5 DEF Within, Inside, Doing, d
<1>14. CASE g.fn \notin Loop
  <2>1. c[m].fn = "InfixLoop" /\ c[m].kids = << >> /\ at[n] = at[m]
    BY <1>12, <1>14 DEF Link
  <2>2. d[m].kids = <<k>>
    BY <1>5, <1>6, <2>1, ConcatEmptySeq
  <2>3. Holding(ms, w, s, e, k, at[m], d[m].prec, u)
    BY <1>6, <1>14, <2>1
  <2>4. Continues(ms, w, s, e, d[m], at[m], u)
    BY <1>6, <2>1, <2>2, <2>3 DEF Continues
  <2> QED BY <1>6, <1>8, <1>11, <2>4 DEF Within, Inside, Doing, d
<1> QED BY <1>13, <1>14

-----------------------------------------------------------------------------
\* What the parser sees in the states within a statement.

LEMMA Parsing ==
  ASSUME NEW ns, NEW w \in Seq(Token), NEW s, NEW e,
         NEW c \in Seq(Frames(ns)), c # << >>, NEW at, NEW t,
         Within(ns, w, s, e, c, at, t), Last(c).fn = "ParseExpr"
  PROVE  /\ t = at[Len(c)] /\ t \in s .. e /\ t \in 1 .. Len(w)
         /\ ~ AfterOperand(w, t) /\ TypeAt(w, t) = w[t].type
         /\ \/ w[t].type \in LeafTypes \cup {"BANG", "MINUS", "LEFT_PAREN"}
            \/ t = s /\ w[t].type = "PRINT" /\ Last(c).prec = 0
<1> DEFINE n == Len(c)
           f == c[n]
<1>1. /\ n \in Nat \ {0} /\ Last(c) = f
      /\ f.fn = "Terminator" <=> n = 1
      /\ n >= 2 => /\ n - 1 \in Nat
                   /\ Link(ns, w, s, c[n - 1], at[n - 1], f, at[n])
                   /\ at[n - 1] \in s .. e
      /\ at[n] \in s .. e
  BY AtTop
<1>2. n >= 2
  <2> HIDE DEF n
  <2> QED BY <1>1
<1>3. PlainAt(w, s, e) /\ Doing(ns, w, s, e, f, at[n], t)
  BY DEF Within
<1> HIDE DEF n, f
<1>4. t = at[n]
  BY <1>1, <1>3 DEF Doing, Continues, Resumes, Awaits
<1>5. /\ ~ AfterOperand(w, t) /\ t \in 1 .. Len(w)
      /\ \/ w[t].type \in LeafTypes \cup {"BANG", "MINUS", "LEFT_PAREN"}
         \/ t = s /\ w[t].type = "PRINT" /\ f.prec = 0
  BY <1>1, <1>2, <1>3, <1>4, AtPrefix
<1>6. TypeAt(w, t) = w[t].type
  BY <1>5 DEF TypeAt
<1> QED BY <1>1, <1>4, <1>5, <1>6 DEF n

LEMMA Looping ==
  ASSUME NEW ns, NEW w \in Seq(Token), NEW s, NEW e,
         NEW c \in Seq(Frames(ns)), c # << >>, NEW at, NEW t \in Int,
         Within(ns, w, s, e, c, at, t), Last(c).fn = "InfixLoop"
  PROVE  /\ \E k \in DOMAIN ns :
              /\ Last(c).kids = <<k>>
              /\ Holding(ns, w, s, e, k, at[Len(c)], Last(c).prec, t)
         /\ TypeAt(w, t) \in BinaryTypes \cup {"RIGHT_PAREN", "SEMICOLON", "NONE"}
<1> DEFINE n == Len(c)
           f == c[n]
<1>1. /\ n \in Nat \ {0} /\ Last(c) = f /\ at[n] \in s .. e
  BY AtTop
<1>2. PlainAt(w, s, e) /\ Doing(ns, w, s, e, f, at[n], t)
  BY DEF Within
<1> HIDE DEF n, f
<1>3. Continues(ns, w, s, e, f, at[n], t)
  BY <1>1, <1>2 DEF Doing, Resumes, Awaits
<1>4. PICK k \in DOMAIN ns :
        f.kids = <<k>> /\ Holding(ns, w, s, e, k, at[n], f.prec, t)
  BY <1>3 DEF Continues
<1>5. TypeAt(w, t) \in BinaryTypes \cup {"RIGHT_PAREN", "SEMICOLON", "NONE"}
  BY <1>1, <1>2, <1>4, AtHolding
<1> QED BY <1>1, <1>4, <1>5 DEF n

LEMMA Resuming ==
  ASSUME NEW ns, NEW w, NEW s, NEW e,
         NEW c \in Seq(Frames(ns)), c # << >>, NEW at, NEW t,
         Within(ns, w, s, e, c, at, t), Last(c).fn \notin Loop
  PROVE  Resumes(ns, w, s, e, Last(c), at[Len(c)], t)
<1>1. Last(c) = c[Len(c)]
  BY AtTop
<1>2. Doing(ns, w, s, e, Last(c), at[Len(c)], t)
  BY <1>1 DEF Within
<1> QED BY <1>2 DEF Doing, Continues, Loop

LEMMA SeesType ==
  ASSUME ParserInv, outcome = "parsing"
  PROVE  /\ currtype = TypeAt(toks, tokit) /\ tokit \in Int
         /\ AtEnd <=> tokit = Len(toks) + 1
         /\ toks \in Seq(Token) /\ calls \in Seq(Frames(nodes)) /\ calls # << >>
         /\ Top = Last(calls)
<1>1. /\ tokit \in Nat \ {0} /\ toks \in Seq(Token)
      /\ calls \in Seq(Frames(nodes)) /\ calls # << >>
  BY Ready
<1>2. tokit + 0 = tokit /\ tokit \in Int
  BY <1>1
<1> QED BY <1>1, <1>2 DEF currtype, TypeIn, TypeAt, AtEnd, Top

\* Of the rest of the language, nothing happens.
LEMMA NothingElse ==
  ASSUME ParserInv, outcome = "parsing", NEW s, NEW e, NEW at,
         Within(nodes, toks, s, e, calls, at, tokit)
  PROVE  /\ ~ ParseNothing /\ ~ ParseFor /\ ~ ParseFnDef /\ ~ ParseBlockExpr
         /\ ~ PrefixBoom /\ ~ ParseCall /\ ~ ParseSubscript /\ ~ ParseCommaList
         /\ ~ EndCall /\ ~ ForBody /\ ~ FnDefBody /\ ~ IfBody /\ ~ IfElse
         /\ ~ CommaListNext /\ ~ ParseBlock /\ ~ EndBlock
         /\ ~ NextStatement /\ ~ EndStatements
<1>1. /\ currtype = TypeAt(toks, tokit) /\ tokit \in Int
      /\ AtEnd <=> tokit = Len(toks) + 1
      /\ toks \in Seq(Token) /\ calls \in Seq(Frames(nodes)) /\ calls # << >>
      /\ Top = Last(calls)
  BY SeesType
<1>2. Top.fn \in {"ParseExpr", "InfixLoop", "Terminator", "Print",
                  "UnaryOp", "Grouping", "BinaryOp"}
  BY <1>1, AtTop
<1>3. Top.fn = "ParseExpr" =>
        ~ AtEnd /\ currtype \in LeafTypes \cup {"BANG", "MINUS", "LEFT_PAREN", "PRINT"}
  <2> SUFFICES ASSUME Top.fn = "ParseExpr"
               PROVE  ~ AtEnd /\ currtype \in LeafTypes \cup {"BANG", "MINUS", "LEFT_PAREN", "PRINT"}
    OBVIOUS
  <2>1. /\ tokit \in 1 .. Len(toks) /\ TypeAt(toks, tokit) = toks[tokit].type
        /\ toks[tokit].type \in LeafTypes \cup {"BANG", "MINUS", "LEFT_PAREN", "PRINT"}
    BY <1>1, Parsing
  <2>2. Len(toks) \in Nat
    BY <1>1, LenProperties
  <2> QED BY <1>1, <2>1, <2>2
<1>4. Top.fn = "InfixLoop" =>
        currtype \in BinaryTypes \cup {"RIGHT_PAREN", "SEMICOLON", "NONE"}
  BY <1>1, Looping
<1>5. /\ ~ ParseNothing /\ ~ ParseFor /\ ~ ParseFnDef /\ ~ ParseBlockExpr
  BY <1>3, TypeSets DEF ParseNothing, ParseFor, ParseFnDef, ParseBlockExpr, Prefix, Running
<1>6. ~ PrefixBoom
  <2>1. \A type \in LeafTypes \cup {"BANG", "MINUS", "LEFT_PAREN", "PRINT"} :
          PrefixPrec(type) > 0
    BY TypeSets DEF PrefixPrec
  <2> QED BY <1>3, <2>1 DEF PrefixBoom, Running, PREC_NONE
<1>7. ~ ParseCall /\ ~ ParseSubscript /\ ~ ParseCommaList
  BY <1>4 DEF ParseCall, ParseSubscript, ParseCommaList, Infix, Running, BinaryTypes
<1>8. /\ ~ EndCall /\ ~ ForBody /\ ~ FnDefBody /\ ~ IfBody /\ ~ IfElse
      /\ ~ CommaListNext /\ ~ ParseBlock /\ ~ EndBlock
      /\ ~ NextStatement /\ ~ EndStatements
  BY <1>2 DEF EndCall, ForBody, FnDefBody, IfBody, IfElse, CommaListNext,
              ParseBlock, EndBlock, NextStatement, EndStatements, Running
<1> QED BY <1>5, <1>6, <1>7, <1>8

-----------------------------------------------------------------------------
\* What the parsing functions make of what ParseExpr returns to them.

\* A statement begins before any operand.
LEMMA OperandAfter ==
  ASSUME NEW ns, NEW w \in Seq(Token), NEW s, NEW e, PlainAt(w, s, e),
         NEW p \in s .. e, NEW k, NEW prec, NEW t,
         Result(ns, w, s, e, k, p + 1, prec, t)
  PROVE  /\ Spans(ns, w, k, p + 1, t - 1) /\ Above(w, p + 1, t - 1, prec)
         /\ InfixPrec(TypeAt(w, t)) <= prec
<1>1. s \in Int /\ e \in Int
  BY PlainFacts, LenProperties
<1>2. p + 1 # s
  BY <1>1
<1> QED BY <1>2 DEF Result

LEMMA HoldsLeaf ==
  ASSUME NEW ns, NEW w \in Seq(Token), NEW s, NEW e, NEW k \in DOMAIN ns,
         NEW p \in 1 .. Len(w), LeafAt(ns, w, k, p), NEW prec
  PROVE  Holding(ns, w, s, e, k, p, prec, p + 1)
<1>1. Expression(w, p, p) /\ Operators(w, p, p) = {}
  BY LeafExpression DEF LeafAt
<1>2. TreeOf(ns, w, k, p, p)
  BY TreeLeaf
<1>3. (p + 1) - 1 = p
  BY LenProperties
<1>4. Spans(ns, w, k, p, p) /\ Above(w, p, p, prec)
      /\ AtLeast(w, p, p, InfixPrec(TypeAt(w, p + 1)))
  BY <1>1, <1>2 DEF Spans, Above, AtLeast
<1> QED BY <1>3, <1>4 DEF Holding

LEMMA HoldsUnary ==
  ASSUME NEW ns, NEW w \in Seq(Token), NEW s, NEW e, PlainAt(w, s, e),
         NEW p \in s .. e, Prefixed(w, p),
         NEW k \in DOMAIN ns, NEW j \in DOMAIN ns, NEW t \in Int,
         Result(ns, w, s, e, j, p + 1, 100, t),
         ns[k].kind = "UnaryOp", ns[k].type = w[p].type, ns[k].kids = <<j>>,
         ns[j].kind # "Name", NEW prec
  PROVE  Holding(ns, w, s, e, k, p, prec, t)
<1> DEFINE hi == t - 1
<1>1. Spans(ns, w, j, p + 1, hi) /\ Above(w, p + 1, hi, 100)
  BY OperandAfter
<1> HIDE DEF hi
<1>2. Operators(w, p + 1, hi) = {}
  BY <1>1, NoOperators
<1>3. p \in 1 .. Len(w)
  BY PlainFacts
<1>4. Expression(w, p + 1, hi) /\ TreeOf(ns, w, j, p + 1, hi)
  BY <1>1 DEF Spans
<1>5. Expression(w, p, hi) /\ Operators(w, p, hi) = {}
  BY <1>2, <1>3, <1>4, UnaryExpression
<1>6. hi \in 1 .. Len(w)
  BY <1>3, <1>5, LenProperties DEF Expression
<1>7. UnaryAt(ns, w, k, j, p, hi)
  BY <1>2, <1>4 DEF UnaryAt
<1>8. TreeOf(ns, w, k, p, hi)
  BY <1>3, <1>4, <1>6, <1>7, TreeUnary
<1>9. /\ Spans(ns, w, k, p, hi) /\ Above(w, p, hi, prec)
      /\ AtLeast(w, p, hi, InfixPrec(TypeAt(w, t)))
  BY <1>5, <1>8 DEF Spans, Above, AtLeast
<1> QED BY <1>9 DEF Holding, hi

\* The parenthesis that was opened is the one that follows.
LEMMA ClosesGroup ==
  ASSUME NEW ns, NEW w \in Seq(Token), NEW s, NEW e, PlainAt(w, s, e),
         NEW p \in s .. e, w[p].type = "LEFT_PAREN",
         NEW k, NEW t \in Int, Result(ns, w, s, e, k, p + 1, 1, t)
  PROVE  t \in s .. e /\ t \in 1 .. Len(w) /\ w[t].type = "RIGHT_PAREN"
<1> DEFINE hi == t - 1
           f == First(w, s)
<1>1. Spans(ns, w, k, p + 1, hi) /\ InfixPrec(TypeAt(w, t)) <= 1
  BY OperandAfter
<1>2. /\ Len(w) \in Nat /\ s \in 1 .. Len(w) /\ e \in s .. Len(w)
      /\ f \in {s, s + 1} /\ Expression(w, f, e)
      /\ f = s + 1 => w[s].type = "PRINT"
  BY PlainFacts DEF First
<1>3. /\ p \in 1 .. Len(w) /\ p + 1 \in 1 .. Len(w) /\ hi \in p + 1 .. Len(w)
      /\ DueIn(w, p + 1, hi) = << >>
  BY <1>1, <1>2 DEF Spans, Expression
<1>3a. p # s => p - 1 \in s .. e /\ (p - 1) + 1 = p
  BY <1>2
<1>4. p + 1 \in s .. e
  <2>1. EndsOperand(w, e)
    BY <1>2 DEF Expression
  <2>2. p # e
    BY <2>1, TypeSets DEF EndsOperand
  <2> QED BY <1>2, <2>2
<1> HIDE DEF hi, f
<1>5. /\ t \in p + 2 .. e + 1
      /\ t <= e => TypeAt(w, t) = w[t].type
                   /\ w[t].type \in BinaryTypes \cup {"RIGHT_PAREN"}
  <2> DEFINE p1 == p + 1
  <2>1. p1 \in s .. e /\ Spans(ns, w, k, p1, t - 1)
    BY <1>1, <1>4 DEF hi
  <2> HIDE DEF p1
  <2>2. /\ t \in p1 + 1 .. e + 1
        /\ t <= e => TypeAt(w, t) = w[t].type
                     /\ w[t].type \in BinaryTypes \cup {"RIGHT_PAREN"}
    BY <2>1, AtInfix
  <2> QED BY <1>2, <2>2 DEF p1
<1>6. t <= e => w[t].type = "RIGHT_PAREN"
  <2> SUFFICES ASSUME t <= e, w[t].type \in BinaryTypes
               PROVE  FALSE
    BY <1>5
  <2>1. InfixPrec(w[t].type) \in 10 .. 80 /\ InfixPrec(w[t].type) <= 1
    BY <1>1, <1>5, InfixWeights
  <2>2. \A x \in 10 .. 80 : ~ x <= 1
    OBVIOUS
  <2> QED BY <2>1, <2>2, Zenon
<1>7. t # e + 1
  <2> SUFFICES ASSUME t = e + 1
               PROVE  FALSE
    OBVIOUS
  <2>1. hi = e
    BY <1>2 DEF hi
  <2>2. f \in 1 .. Len(w) /\ p \in f .. Len(w) /\ e \in p .. Len(w) /\ e \in f .. Len(w)
    BY <1>2, <1>4
  <2>3. DueIn(w, p + 1, e) = << >>
    BY <1>3, <2>1
  <2>4. ~ Spoiled(<< >>)
    BY DEF Spoiled
  <2>5. ~ Spoiled(DueIn(w, p + 1, e)) =>
          DueIn(w, f, e) = DueIn(w, f, p) \o DueIn(w, p + 1, e)
    BY <2>2, DueAfter
  <2>6. /\ DueIn(w, f, p - 1) \in Seq(Marks) /\ DueIn(w, f, p) \in Seq(Marks)
        /\ DueIn(w, f, p) = DueIn(w, f, p - 1) \o <<"RIGHT_PAREN">>
    BY <2>2, DueNext
  <2>7. DueIn(w, f, e) = << >>
    BY <1>2 DEF Expression
  <2>8. DueIn(w, f, p) = << >>
    BY <2>3, <2>4, <2>5, <2>6, <2>7, ConcatEmptySeq
  <2>9. <<"RIGHT_PAREN">> \in Seq(Marks) /\ Len(<<"RIGHT_PAREN">>) = 1
    BY DEF Marks
  <2>10. Len(DueIn(w, f, p)) = Len(DueIn(w, f, p - 1)) + 1 /\ Len(DueIn(w, f, p - 1)) \in Nat
    BY <2>6, <2>9, ConcatProperties, LenProperties
  <2> QED BY <2>8, <2>10, EmptySeq
<1> QED BY <1>2, <1>5, <1>6, <1>7

LEMMA HoldsGroup ==
  ASSUME NEW ns, NEW w \in Seq(Token), NEW s, NEW e, PlainAt(w, s, e),
         NEW p \in s .. e, w[p].type = "LEFT_PAREN", ~ AfterOperand(w, p),
         NEW k \in DOMAIN ns, NEW t \in Int, Result(ns, w, s, e, k, p + 1, 1, t),
         NEW prec
  PROVE  Holding(ns, w, s, e, k, p, prec, t + 1)
<1>1. t \in s .. e /\ t \in 1 .. Len(w) /\ w[t].type = "RIGHT_PAREN"
  BY ClosesGroup
<1>2. Spans(ns, w, k, p + 1, t - 1)
  BY OperandAfter
<1>3. p \in 1 .. Len(w)
  BY PlainFacts
<1>4. Expression(w, p, t) /\ Operators(w, p, t) = {}
  BY <1>1, <1>2, <1>3, GroupExpression DEF Spans
<1>5. GroupAt(w, p, t)
  BY <1>1, <1>2 DEF GroupAt, Spans
<1>6. TreeOf(ns, w, k, p, t)
  BY <1>1, <1>2, <1>3, <1>5, TreeGroup DEF Spans
<1>7. (t + 1) - 1 = t
  OBVIOUS
<1>8. /\ Spans(ns, w, k, p, t) /\ Above(w, p, t, prec)
      /\ AtLeast(w, p, t, InfixPrec(TypeAt(w, t + 1)))
  BY <1>4, <1>6 DEF Spans, Above, AtLeast
<1> QED BY <1>7, <1>8 DEF Holding

LEMMA HoldsBinary ==
  ASSUME NEW ns, NEW w \in Seq(Token), NEW s, NEW e, PlainAt(w, s, e),
         NEW p \in s .. e, NEW k \in DOMAIN ns, NEW i \in DOMAIN ns, NEW j \in DOMAIN ns,
         NEW type, NEW m \in s .. e, LeftOf(ns, w, i, type, p, m), NEW t \in Int,
         Result(ns, w, s, e, j, m + 1, InfixPrec(type), t),
         ns[k].kind = "BinaryOp", ns[k].type = type, ns[k].kids = <<i, j>>,
         NEW prec \in Int, prec < InfixPrec(type)
  PROVE  Holding(ns, w, s, e, k, p, prec, t)
<1> DEFINE hi == t - 1
           a == InfixPrec(type)
           b == InfixPrec(TypeAt(w, t))
<1>1. /\ Spans(ns, w, j, m + 1, hi) /\ Above(w, m + 1, hi, a)
      /\ b <= a
  BY OperandAfter
<1>2. /\ m \in 1 .. Len(w) /\ w[m].type = type /\ type \in BinaryTypes
      /\ Spans(ns, w, i, p, m - 1) /\ AtLeast(w, p, m - 1, a)
  BY DEF LeftOf
<1>3. a \in Int
  BY DEF InfixPrec, PREC_NONE
<1>4. b \in Int
  BY DEF InfixPrec, PREC_NONE
<1> HIDE DEF hi, a, b
<1>5. /\ Expression(w, p, hi)
      /\ \A x \in Operators(w, p, hi) :
           x \in Operators(w, p, m - 1) \cup {m} \cup Operators(w, m + 1, hi)
  <2>1. JoinedAt(w, p, m, hi)
    BY <1>1, <1>2 DEF JoinedAt, Spans
  <2> QED BY <2>1, BinaryExpression
<1>6. BinaryAt(ns, w, k, i, j, p, m, hi)
  BY <1>1, <1>2 DEF BinaryAt, Spans, a
<1>7. p \in 1 .. Len(w) /\ hi \in 1 .. Len(w)
  BY <1>1, <1>2, <1>5, LenProperties DEF Expression
<1>8. TreeOf(ns, w, k, p, hi)
  BY <1>1, <1>2, <1>6, <1>7, TreeBinary DEF Spans
<1>9. ASSUME NEW x \in Operators(w, p, hi)
      PROVE  prec < InfixPrec(w[x].type) /\ b <= InfixPrec(w[x].type)
  <2>1. InfixPrec(w[x].type) \in Int
    BY DEF InfixPrec, PREC_NONE
  <2>2. a <= InfixPrec(w[x].type)
    <3>1. x \in Operators(w, p, m - 1) => a <= InfixPrec(w[x].type)
      BY <1>2 DEF AtLeast
    <3>2. x \in Operators(w, m + 1, hi) => a < InfixPrec(w[x].type)
      BY <1>1 DEF Above
    <3>3. x = m => a = InfixPrec(w[x].type)
      BY <1>2 DEF a
    <3> QED BY <1>3, <1>5, <2>1, <3>1, <3>2, <3>3
  <2>3. prec < a
    BY DEF a
  <2> QED BY <1>1, <1>3, <1>4, <2>1, <2>2, <2>3
<1>10. Spans(ns, w, k, p, hi) /\ Above(w, p, hi, prec) /\ AtLeast(w, p, hi, b)
  BY <1>5, <1>8, <1>9 DEF Spans, Above, AtLeast
<1> QED BY <1>10 DEF Holding, hi, b

LEMMA HoldsPrint ==
  ASSUME NEW ns, NEW w \in Seq(Token), NEW s, NEW e, PlainAt(w, s, e),
         w[s].type = "PRINT", NEW k \in DOMAIN ns, NEW j \in DOMAIN ns, NEW t \in Int,
         Result(ns, w, s, e, j, s + 1, 0, t),
         ns[k].kind = "Print", ns[k].kids = <<j>>
  PROVE  Holding(ns, w, s, e, k, s, 0, t)
<1>1. s \in s .. e
  BY PlainFacts
<1>2. Spans(ns, w, j, s + 1, t - 1) /\ InfixPrec(TypeAt(w, t)) <= 0
  BY <1>1, OperandAfter
<1>3. First(w, s) = s + 1
  BY DEF First
<1>4. t = e + 1
  BY <1>2, <1>3, StatementEnds
<1>5. t - 1 = e
  BY <1>4, PlainFacts, LenProperties
<1>6. PrintOf(ns, w, k, s, e)
  BY <1>2, <1>5 DEF PrintOf
<1> QED BY <1>4, <1>6 DEF Holding

LEMMA StatementIs ==
  ASSUME NEW ns, NEW w \in Seq(Token), NEW s, NEW e, PlainAt(w, s, e),
         NEW k, NEW t \in Int, Result(ns, w, s, e, k, s, 0, t)
  PROVE  t = e + 1 /\ StmtOf(ns, w, k, s, e)
<1>1. e \in Int
  BY PlainFacts, LenProperties
<1>2. CASE PrintOf(ns, w, k, s, e) /\ t = e + 1
  BY <1>2 DEF StmtOf
<1>3. CASE Spans(ns, w, k, s, t - 1) /\ InfixPrec(TypeAt(w, t)) <= 0
  <2>1. Regular(w, s) /\ ~ AfterOperand(w, s)
    BY <1>3, PlainFacts DEF Spans, Expression
  <2>2. First(w, s) = s
    BY <2>1, TypeSets DEF First, Regular
  <2>3. t = e + 1
    BY <1>3, <2>2, StatementEnds
  <2>4. t - 1 = e
    BY <1>1, <2>3
  <2> QED BY <1>3, <2>2, <2>3, <2>4 DEF StmtOf
<1> QED BY <1>2, <1>3 DEF Result

-----------------------------------------------------------------------------
\* The steps within a statement.

LEMMA FrameFields ==
  /\ \A prec, ks : /\ InfixLoop(prec, ks).fn = "InfixLoop"
                   /\ InfixLoop(prec, ks).prec = prec
                   /\ InfixLoop(prec, ks).kids = ks
  /\ \A prec : ParseExpr(prec).fn = "ParseExpr" /\ ParseExpr(prec).prec = prec
  /\ \A fn, ks : Fn(fn, ks).fn = fn /\ Fn(fn, ks).kids = ks
  /\ \A fn, type, ks : /\ Typed(fn, type, ks).fn = fn
                       /\ Typed(fn, type, ks).type = type
                       /\ Typed(fn, type, ks).kids = ks
BY DEF InfixLoop, ParseExpr, Fn, Typed, Frame

LEMMA NodeIs ==
  ASSUME ParserInv, ParserInv', NEW m, New(<<m>>), m.kids \in Seq(DOMAIN nodes)
  PROVE  /\ Grown(nodes, nodes') /\ NewAt \in DOMAIN nodes'
         /\ nodes'[NewAt] = m
         /\ \A j \in DOMAIN nodes : j \in DOMAIN nodes' /\ nodes'[j] = nodes[j]
<1>1. Grown(nodes, nodes') /\ NewAt \in DOMAIN nodes'
  BY GrownNode
<1>2. nodes' = nodes \o <<m>> /\ nodes \in Seq(Node)
  BY DEF New, ParserInv, TypeOK, Heap
<1>3. PICK ns : ns = nodes
  OBVIOUS
<1>4. (ns \o <<m>>)[Len(ns) + 1] = m
  <2> DEFINE S == Node \cup {m}
  <2>1. \A x \in Node : x \in S
    OBVIOUS
  <2>2. m \in S
    OBVIOUS
  <2> HIDE DEF S
  <2>3. ns \in Seq(S) /\ <<m>> \in Seq(S) /\ Len(<<m>>) = 1 /\ <<m>>[1] = m
    BY <1>2, <1>3, <2>1, <2>2, SeqGrows
  <2>4. Len(ns) \in Nat
    BY <2>3, LenProperties
  <2> QED BY <2>3, <2>4, ConcatProperties
<1>5. nodes'[NewAt] = m
  BY <1>2, <1>3, <1>4 DEF NewAt
<1>6. \A j \in DOMAIN nodes : j \in DOMAIN nodes' /\ nodes'[j] = nodes[j]
  BY <1>1, SpansGrows DEF Grown
<1> QED BY <1>1, <1>5, <1>6

\* A function is called at the current token, and calls ParseExpr at the next.
LEMMA CallsAt ==
  ASSUME ParserInv, outcome = "parsing", NEW s, NEW e, NEW at,
         Within(nodes, toks, s, e, calls, at, tokit), Top.fn \in Loop,
         NEW g, NEW prec, NEW q \in s .. e,
         Become(<<InfixLoop(Top.prec, << >>)>> \o <<g, ParseExpr(prec)>>),
         Link(nodes, toks, s, InfixLoop(Top.prec, << >>), at[Len(calls)],
              g, at[Len(calls)]),
         Link(nodes, toks, s, g, at[Len(calls)], ParseExpr(prec), q),
         UNCHANGED nodes, tokit' = q
  PROVE  Inside(nodes', toks, calls', tokit')
<1> DEFINE f == InfixLoop(Top.prec, << >>)
           h == ParseExpr(prec)
<1>1. /\ calls \in Seq(Frames(nodes)) /\ calls # << >> /\ Top = Last(calls)
  BY SeesType
<1>2. Grown(nodes, nodes)
  BY DEF ParserInv, TypeOK, Grown
<1>3. f.fn = "InfixLoop" /\ f.prec = Last(calls).prec /\ h.fn = "ParseExpr"
  BY <1>1, FrameFields
<1>4. calls' = Front(calls) \o <<f, g, h>>
  <2>1. <<f>> \o <<g, h>> = <<f, g, h>>
    BY TupleConcat
  <2> QED BY <2>1 DEF Become, Below
<1> HIDE DEF f, h
<1>5. /\ Link(nodes, toks, s, f, at[Len(calls)], g, at[Len(calls)])
      /\ Link(nodes, toks, s, g, at[Len(calls)], h, q)
      /\ Last(calls).fn \in Loop
  BY <1>1 DEF f, h
<1>6. Inside(nodes, toks, Front(calls) \o <<f, g, h>>, q)
  BY <1>1, <1>2, <1>3, <1>5, LoopCalls
<1> QED BY <1>4, <1>6

LEMMA ParseLeafPrec ==
  ASSUME ParserInv, ParserInv', outcome = "parsing", NEW s, NEW e, NEW at,
         Within(nodes, toks, s, e, calls, at, tokit), ParseLeaf
  PROVE  Inside(nodes', toks, calls', tokit')
<1> DEFINE m == Leaf(LeafKind[currtype], toks[tokit].lit)
           f == InfixLoop(Top.prec, <<NewAt>>)
           p == at[Len(calls)]
<1>1. /\ currtype = TypeAt(toks, tokit) /\ tokit \in Int
      /\ toks \in Seq(Token) /\ calls \in Seq(Frames(nodes)) /\ calls # << >>
      /\ Top = Last(calls)
  BY SeesType
<1>2. Top.fn = "ParseExpr" /\ currtype \in LeafTypes
  BY DEF ParseLeaf, Prefix, Running, LeafTypes
<1>3. /\ tokit = p /\ tokit \in 1 .. Len(toks) /\ ~ AfterOperand(toks, tokit)
      /\ TypeAt(toks, tokit) = toks[tokit].type
  BY <1>1, <1>2, Parsing
<1>4. /\ m.kids = << >> /\ m.kind = LeafKind[toks[tokit].type]
      /\ m.lit = toks[tokit].lit
  BY <1>1, <1>3 DEF Leaf
<1>5. New(<<m>>) /\ calls' = Front(calls) \o <<f>> /\ tokit' = tokit + 1
  BY DEF ParseLeaf, Become, Below, Consume
<1>6. f.fn = "InfixLoop" /\ f.prec = Top.prec /\ f.kids = <<NewAt>>
  BY FrameFields
<1> HIDE DEF m, f, p
<1>7. /\ Grown(nodes, nodes') /\ NewAt \in DOMAIN nodes' /\ nodes'[NewAt] = m
  <2>1. m.kids \in Seq(DOMAIN nodes)
    BY <1>4
  <2> QED BY <1>5, <2>1, NodeIs
<1>8. LeafAt(nodes', toks, NewAt, tokit)
  BY <1>1, <1>2, <1>3, <1>4, <1>7 DEF LeafAt
<1>9. Holding(nodes', toks, s, e, NewAt, tokit, f.prec, tokit + 1)
  BY <1>1, <1>3, <1>7, <1>8, HoldsLeaf
<1>10. Doing(nodes', toks, s, e, f, p, tokit + 1)
  BY <1>3, <1>6, <1>7, <1>9 DEF Doing, Continues
<1>11. Inside(nodes', toks, Front(calls) \o <<f>>, tokit + 1)
  <2>1. /\ Last(calls).fn \in Loop /\ f.fn \in Loop /\ f.prec = Last(calls).prec
        /\ Doing(nodes', toks, s, e, f, at[Len(calls)], tokit + 1)
    BY <1>1, <1>2, <1>6, <1>10 DEF Loop, p
  <2> QED BY <1>1, <1>7, <2>1, LoopGoesOn
<1> QED BY <1>5, <1>11

LEMMA ParseUnaryOpPrec ==
  ASSUME ParserInv, ParserInv', outcome = "parsing", NEW s, NEW e, NEW at,
         Within(nodes, toks, s, e, calls, at, tokit), ParseUnaryOp
  PROVE  Inside(nodes', toks, calls', tokit')
<1> DEFINE f == InfixLoop(Top.prec, << >>)
           g == Typed("UnaryOp", currtype, << >>)
           h == ParseExpr(100)
           p == at[Len(calls)]
<1>1. /\ currtype = TypeAt(toks, tokit) /\ tokit \in Int
      /\ toks \in Seq(Token) /\ calls \in Seq(Frames(nodes)) /\ calls # << >>
      /\ Top = Last(calls)
  BY SeesType
<1>2. Top.fn = "ParseExpr" /\ currtype \in {"BANG", "MINUS"}
  BY DEF ParseUnaryOp, Prefix, Running
<1>3. /\ tokit = p /\ tokit \in s .. e /\ ~ AfterOperand(toks, tokit)
      /\ TypeAt(toks, tokit) = toks[tokit].type
  BY <1>1, <1>2, Parsing
<1>4. PlainAt(toks, s, e)
  BY DEF Within
<1>5. tokit + 1 \in s .. e
  BY <1>1, <1>2, <1>3, <1>4, NotLast
<1>6. PrefixPrec(currtype) = 100
  BY <1>2 DEF PrefixPrec
<1>7. /\ Become(<<f>> \o <<g, h>>)
      /\ UNCHANGED nodes /\ tokit' = tokit + 1
  BY <1>6 DEF ParseUnaryOp, CallPrefix, Consume
<1>8. /\ f.fn = "InfixLoop" /\ f.kids = << >>
      /\ g.fn = "UnaryOp" /\ g.kids = << >> /\ g.type = toks[tokit].type
      /\ h.fn = "ParseExpr" /\ h.prec = 100
  BY <1>1, <1>3, FrameFields
<1> HIDE DEF f, g, h, p
<1>9. Link(nodes, toks, s, f, p, g, p)
  BY <1>8 DEF Link
<1>10. Prefixed(toks, p)
  BY <1>1, <1>2, <1>3 DEF Prefixed
<1>11. Link(nodes, toks, s, g, p, h, tokit + 1)
  BY <1>3, <1>8, <1>10 DEF Link, Loop, Awaits
<1>12. Top.fn \in Loop
  BY <1>2 DEF Loop
<1> QED BY <1>5, <1>7, <1>9, <1>11, <1>12, CallsAt DEF f, h, p

LEMMA ParseGroupingPrec ==
  ASSUME ParserInv, ParserInv', outcome = "parsing", NEW s, NEW e, NEW at,
         Within(nodes, toks, s, e, calls, at, tokit), ParseGrouping
  PROVE  Inside(nodes', toks, calls', tokit')
<1> DEFINE f == InfixLoop(Top.prec, << >>)
           g == Fn("Grouping", << >>)
           h == ParseExpr(1)
           p == at[Len(calls)]
<1>1. /\ currtype = TypeAt(toks, tokit) /\ tokit \in Int
      /\ toks \in Seq(Token) /\ calls \in Seq(Frames(nodes)) /\ calls # << >>
      /\ Top = Last(calls)
  BY SeesType
<1>2. Top.fn = "ParseExpr" /\ currtype \in {"LEFT_PAREN"}
  BY DEF ParseGrouping, Prefix, Running
<1>3. /\ tokit = p /\ tokit \in s .. e /\ ~ AfterOperand(toks, tokit)
      /\ TypeAt(toks, tokit) = toks[tokit].type
  BY <1>1, <1>2, Parsing
<1>4. PlainAt(toks, s, e)
  BY DEF Within
<1>5. /\ tokit + 1 \in s .. e /\ tokit + 1 \in s + 1 .. e
      /\ tokit + 1 <= Len(toks) /\ ~ AfterOperand(toks, tokit + 1)
  BY <1>1, <1>2, <1>3, <1>4, NotLast
<1>6. TypeIn(1) # "RIGHT_PAREN"
  <2>1. Regular(toks, tokit + 1)
    BY <1>1, <1>4, <1>5, PlainFacts
  <2>2. toks[tokit + 1].type # "RIGHT_PAREN"
    BY <1>5, <2>1, TypeSets DEF Regular
  <2> QED BY <1>5, <2>2 DEF TypeIn
<1>7. /\ Become(<<f>> \o <<g, h>>)
      /\ UNCHANGED nodes /\ tokit' = tokit + 1
  <2>1. PrefixPrec("LEFT_PAREN") = 1
    BY DEF PrefixPrec
  <2> QED BY <1>6, <2>1 DEF ParseGrouping, CallPrefix, Consume
<1>8. /\ f.fn = "InfixLoop" /\ f.kids = << >>
      /\ g.fn = "Grouping" /\ g.kids = << >>
      /\ h.fn = "ParseExpr" /\ h.prec = 1
  BY FrameFields
<1> HIDE DEF f, g, h, p
<1>9. Link(nodes, toks, s, f, p, g, p)
  BY <1>8 DEF Link
<1>10. Link(nodes, toks, s, g, p, h, tokit + 1)
  BY <1>1, <1>2, <1>3, <1>8 DEF Link, Loop, Awaits
<1>11. Top.fn \in Loop
  BY <1>2 DEF Loop
<1> QED BY <1>5, <1>7, <1>9, <1>10, <1>11, CallsAt DEF f, h, p

LEMMA ParseKeywordPrec ==
  ASSUME ParserInv, ParserInv', outcome = "parsing", NEW s, NEW e, NEW at,
         Within(nodes, toks, s, e, calls, at, tokit), ParseKeyword
  PROVE  Inside(nodes', toks, calls', tokit')
<1> DEFINE f == InfixLoop(Top.prec, << >>)
           g == Fn("Print", << >>)
           h == ParseExpr(0)
           p == at[Len(calls)]
<1>1. /\ currtype = TypeAt(toks, tokit) /\ tokit \in Int
      /\ toks \in Seq(Token) /\ calls \in Seq(Frames(nodes)) /\ calls # << >>
      /\ Top = Last(calls)
  BY SeesType
<1>2. Top.fn = "ParseExpr" /\ currtype \in {"PRINT", "RET", "VAR", "IF"}
  BY DEF ParseKeyword, Prefix, Running
<1>3. /\ tokit = p /\ tokit \in s .. e
      /\ TypeAt(toks, tokit) = toks[tokit].type
      /\ \/ toks[tokit].type \in LeafTypes \cup {"BANG", "MINUS", "LEFT_PAREN"}
         \/ tokit = s /\ toks[tokit].type = "PRINT" /\ Top.prec = 0
  BY <1>1, <1>2, Parsing
<1>4. tokit = s /\ currtype = "PRINT" /\ Top.prec = 0
  BY <1>1, <1>2, <1>3, TypeSets
<1>5. PlainAt(toks, s, e)
  BY DEF Within
<1>6. tokit + 1 \in s .. e
  BY <1>1, <1>3, <1>4, <1>5, NotLast
<1>7. /\ Become(<<f>> \o <<g, h>>)
      /\ UNCHANGED nodes /\ tokit' = tokit + 1
  BY <1>4 DEF ParseKeyword, CallPrefix, Consume
<1>8. /\ f.fn = "InfixLoop" /\ f.kids = << >> /\ f.prec = 0
      /\ g.fn = "Print" /\ g.kids = << >>
      /\ h.fn = "ParseExpr" /\ h.prec = 0
  BY <1>4, FrameFields
<1> HIDE DEF f, g, h, p
<1>9. Link(nodes, toks, s, f, p, g, p)
  BY <1>8 DEF Link
<1>10. Link(nodes, toks, s, g, p, h, tokit + 1)
  BY <1>1, <1>3, <1>4, <1>8 DEF Link, Loop, Awaits
<1>11. Top.fn \in Loop
  BY <1>2 DEF Loop
<1> QED BY <1>6, <1>7, <1>9, <1>10, <1>11, CallsAt DEF f, h, p

LEMMA ParseBinaryOpPrec ==
  ASSUME ParserInv, ParserInv', outcome = "parsing", NEW s, NEW e, NEW at,
         Within(nodes, toks, s, e, calls, at, tokit), ParseBinaryOp
  PROVE  Inside(nodes', toks, calls', tokit')
<1> DEFINE f == InfixLoop(Top.prec, << >>)
           g == Typed("BinaryOp", currtype, Top.kids)
           h == ParseExpr(InfixPrec(currtype))
           p == at[Len(calls)]
<1>1. /\ currtype = TypeAt(toks, tokit) /\ tokit \in Int
      /\ toks \in Seq(Token) /\ calls \in Seq(Frames(nodes)) /\ calls # << >>
      /\ Top = Last(calls)
  BY SeesType
<1>2. /\ Top.fn = "InfixLoop" /\ currtype \in BinaryTypes
      /\ Top.prec < InfixPrec(currtype)
  BY DEF ParseBinaryOp, Infix, Running
<1>3. \E k \in DOMAIN nodes :
        /\ Top.kids = <<k>>
        /\ Holding(nodes, toks, s, e, k, p, Top.prec, tokit)
  BY <1>1, <1>2, Looping
<1>4. PICK k \in DOMAIN nodes :
        /\ Top.kids = <<k>>
        /\ Holding(nodes, toks, s, e, k, p, Top.prec, tokit)
  BY <1>3
<1>5. PlainAt(toks, s, e) /\ p \in s .. e
  BY <1>1, AtTop DEF Within
<1>6. /\ tokit \in p + 1 .. e + 1
      /\ tokit <= e <=> TypeAt(toks, tokit) \in BinaryTypes \cup {"RIGHT_PAREN"}
      /\ tokit <= e => /\ TypeAt(toks, tokit) = toks[tokit].type
                       /\ Spans(nodes, toks, k, p, tokit - 1)
  BY <1>1, <1>4, <1>5, AtHolding
<1>7. tokit \in s .. e /\ tokit \in 1 .. Len(toks) /\ tokit # e + 1
  <2>1. s \in 1 .. Len(toks) /\ e \in s .. Len(toks) /\ Len(toks) \in Nat
    BY <1>1, <1>5, PlainFacts
  <2> QED BY <1>1, <1>2, <1>5, <1>6, <2>1
<1>8. tokit + 1 \in s .. e /\ (tokit + 1) - 1 = tokit
  BY <1>1, <1>2, <1>5, <1>6, <1>7, NotLast
<1>9. LeftOf(nodes, toks, k, currtype, p, tokit)
  <2>1. AtLeast(toks, p, tokit - 1, InfixPrec(TypeAt(toks, tokit)))
    BY <1>4, <1>7 DEF Holding
  <2> QED BY <1>1, <1>2, <1>6, <1>7, <2>1 DEF LeftOf
<1>10. /\ Become(<<f>> \o <<g, h>>)
       /\ UNCHANGED nodes /\ tokit' = tokit + 1
  BY DEF ParseBinaryOp, CallInfix, Consume
<1>11. /\ f.fn = "InfixLoop" /\ f.kids = << >> /\ f.prec = Top.prec
       /\ g.fn = "BinaryOp" /\ g.kids = <<k>> /\ g.type = currtype
       /\ h.fn = "ParseExpr" /\ h.prec = InfixPrec(currtype)
  BY <1>4, FrameFields
<1> HIDE DEF f, g, h, p
<1>12. Link(nodes, toks, s, f, p, g, p)
  BY <1>2, <1>11 DEF Link
<1>13. Awaits(nodes, toks, s, "BinaryOp", currtype, <<k>>, p, InfixPrec(currtype), tokit + 1)
  BY <1>8, <1>9 DEF Awaits
<1>14. Link(nodes, toks, s, g, p, h, tokit + 1)
  BY <1>11, <1>13 DEF Link, Loop
<1>15. Top.fn \in Loop
  BY <1>2 DEF Loop
<1> QED BY <1>8, <1>10, <1>12, <1>14, <1>15, CallsAt DEF f, h, p

-----------------------------------------------------------------------------
\* The returns.

LEMMA ResultGrows ==
  ASSUME NEW ns, NEW ms, Grown(ns, ms), NEW w, NEW s, NEW e, NEW k, NEW q,
         NEW prec, NEW t, Result(ns, w, s, e, k, q, prec, t)
  PROVE  Result(ms, w, s, e, k, q, prec, t)
BY SpansGrows DEF Grown, Keeps, Result

\* The innermost call gives back the node k, with the tokens read up to u.
LEMMA GivesBack ==
  ASSUME ParserInv, outcome = "parsing", NEW s, NEW e, NEW at,
         Within(nodes, toks, s, e, calls, at, tokit), Top.fn # "Terminator",
         Grown(nodes, nodes'), NEW k \in DOMAIN nodes', NEW u,
         calls' = Deliver(Below, <<k>>), tokit' = u,
         Top.fn \in Loop => Result(nodes', toks, s, e, k, at[Len(calls)], Top.prec, u),
         Top.fn \notin Loop =>
           Holding(nodes', toks, s, e, k, at[Len(calls)], calls[Len(calls) - 1].prec, u)
  PROVE  Inside(nodes', toks, calls', tokit')
<1>1. /\ calls \in Seq(Frames(nodes)) /\ calls # << >> /\ Top = Last(calls)
  BY SeesType
<1>2. /\ Last(calls).fn # "Terminator"
      /\ Last(calls).fn \in Loop =>
           Result(nodes', toks, s, e, k, at[Len(calls)], Last(calls).prec, u)
      /\ Last(calls).fn \notin Loop =>
           Holding(nodes', toks, s, e, k, at[Len(calls)], calls[Len(calls) - 1].prec, u)
  BY <1>1
<1>3. Inside(nodes', toks, Deliver(Front(calls), <<k>>), u)
  BY <1>1, <1>2, CallReturns
<1> QED BY <1>3 DEF Below

LEMMA EndInfixPrec ==
  ASSUME ParserInv, ParserInv', outcome = "parsing", NEW s, NEW e, NEW at,
         Within(nodes, toks, s, e, calls, at, tokit), EndInfix
  PROVE  Inside(nodes', toks, calls', tokit')
<1> DEFINE p == at[Len(calls)]
<1>1. /\ currtype = TypeAt(toks, tokit) /\ tokit \in Int
      /\ toks \in Seq(Token) /\ calls \in Seq(Frames(nodes)) /\ calls # << >>
      /\ Top = Last(calls)
  BY SeesType
<1>2. /\ Top.fn = "InfixLoop" /\ Top.prec >= InfixPrec(currtype)
      /\ calls' = Deliver(Below, Top.kids) /\ UNCHANGED <<tokit, nodes>>
  BY DEF EndInfix, Running
<1>3. \E k \in DOMAIN nodes :
        /\ Top.kids = <<k>>
        /\ Holding(nodes, toks, s, e, k, p, Top.prec, tokit)
  BY <1>1, <1>2, Looping
<1>4. PICK k \in DOMAIN nodes :
        /\ Top.kids = <<k>>
        /\ Holding(nodes, toks, s, e, k, p, Top.prec, tokit)
  BY <1>3
<1>5. InfixPrec(TypeAt(toks, tokit)) <= Top.prec
  <2>1. InfixPrec(currtype) \in Int
    BY DEF InfixPrec, PREC_NONE
  <2>2. Top.prec \in Int
    <3>1. Top \in Frames(nodes)
      BY Ready
    <3>2. Top.prec \in 0 .. 100
      BY <3>1 DEF Frames
    <3>3. \A x \in 0 .. 100 : x \in Int
      OBVIOUS
    <3> QED BY <3>2, <3>3, Zenon
  <2> QED BY <1>1, <1>2, <2>1, <2>2
<1>6. Result(nodes, toks, s, e, k, p, Top.prec, tokit)
  BY <1>4, <1>5 DEF Holding, Result
<1>7. Grown(nodes, nodes')
  BY <1>2, GrownSame
<1>8. Top.fn # "Terminator" /\ Top.fn \in Loop
  BY <1>2 DEF Loop
<1>9. Inside(nodes', toks, calls', tokit')
  BY <1>2, <1>4, <1>6, <1>7, <1>8, GivesBack
<1> QED BY <1>9

\* What the innermost call had when it called ParseExpr, and what it got.
LEMMA Got ==
  ASSUME ParserInv, outcome = "parsing", NEW s, NEW e, NEW at,
         Within(nodes, toks, s, e, calls, at, tokit), Top.fn \notin Loop
  PROVE  \E ks \in Seq(DOMAIN nodes), k \in DOMAIN nodes, prec \in Int, q \in s .. e :
           /\ Top.kids = ks \o <<k>>
           /\ Awaits(nodes, toks, s, Top.fn, Top.type, ks, at[Len(calls)], prec, q)
           /\ Result(nodes, toks, s, e, k, q, prec, tokit)
<1>1. /\ calls \in Seq(Frames(nodes)) /\ calls # << >> /\ Top = Last(calls)
  BY SeesType
<1>2. Resumes(nodes, toks, s, e, Top, at[Len(calls)], tokit)
  BY <1>1, Resuming
<1> QED BY <1>2 DEF Resumes

LEMMA EndUnaryOpPrec ==
  ASSUME ParserInv, ParserInv', outcome = "parsing", NEW s, NEW e, NEW at,
         Within(nodes, toks, s, e, calls, at, tokit), EndUnaryOp
  PROVE  \/ outcome' = outcome /\ Inside(nodes', toks, calls', tokit')
         \/ /\ outcome' = "ABORT"
            /\ \E p, r \in 1 .. Len(toks) : Prefixed(toks, p) /\ Wraps(toks, p + 1, r)
<1> DEFINE p == at[Len(calls)]
<1>1. /\ tokit \in Int /\ toks \in Seq(Token)
      /\ calls \in Seq(Frames(nodes)) /\ calls # << >> /\ Top = Last(calls)
  BY SeesType
<1>2. Top.fn = "UnaryOp"
  BY DEF EndUnaryOp, Running
<1>3. PlainAt(toks, s, e) /\ p \in s .. e
  BY <1>1, AtTop DEF Within
<1>4. Top.fn \notin Loop /\ Top.fn # "Terminator"
  BY <1>2 DEF Loop
<1>5. \E ks \in Seq(DOMAIN nodes), k \in DOMAIN nodes, prec \in Int, q \in s .. e :
        /\ Top.kids = ks \o <<k>>
        /\ Awaits(nodes, toks, s, Top.fn, Top.type, ks, p, prec, q)
        /\ Result(nodes, toks, s, e, k, q, prec, tokit)
  BY <1>4, Got
<1>6. PICK ks \in Seq(DOMAIN nodes), k \in DOMAIN nodes, prec \in Int, q \in s .. e :
        /\ Top.kids = ks \o <<k>>
        /\ Awaits(nodes, toks, s, Top.fn, Top.type, ks, p, prec, q)
        /\ Result(nodes, toks, s, e, k, q, prec, tokit)
  BY <1>5
<1> HIDE DEF p
<1>7. /\ ks = << >> /\ Prefixed(toks, p) /\ Top.type = toks[p].type
      /\ q = p + 1 /\ prec = 100
  BY <1>2, <1>6 DEF Awaits
<1>8. Top.kids = <<k>> /\ Top.kids[1] = k
  BY <1>6, <1>7, ConcatEmptySeq
<1>9. Result(nodes, toks, s, e, k, p + 1, 100, tokit)
  BY <1>6, <1>7
<1>10. Spans(nodes, toks, k, p + 1, tokit - 1)
  BY <1>1, <1>3, <1>9, OperandAfter
<1>11. CASE nodes[k].kind = "Name"
  <2>1. outcome' = "ABORT"
    BY <1>8, <1>11 DEF EndUnaryOp, Stop
  <2>2. Len(toks) \in Nat
    BY <1>1, LenProperties
  <2>3. TreeOf(nodes, toks, k, p + 1, tokit - 1)
    BY <1>10 DEF Spans
  <2>4. Named(nodes, toks, k, p + 1, tokit - 1)
    BY <1>1, <2>2, <2>3, TreeNamed
  <2>5. Wraps(toks, p + 1, tokit - 1)
    BY <1>11, <2>4 DEF Named
  <2>6. p \in 1 .. Len(toks) /\ tokit - 1 \in 1 .. Len(toks)
    BY <1>1, <1>3, <1>10, <2>2, PlainFacts DEF Spans, Expression
  <2> QED BY <1>7, <2>1, <2>5, <2>6
<1>12. CASE nodes[k].kind # "Name"
  <2> DEFINE m == Inner("UnaryOp", Top.type, Top.kids)
  <2>1. /\ New(<<m>>) /\ calls' = Deliver(Below, <<NewAt>>)
        /\ tokit' = tokit /\ outcome' = outcome
    BY <1>8, <1>12 DEF EndUnaryOp, ReturnNew, Keep
  <2>2. m.kind = "UnaryOp" /\ m.type = toks[p].type /\ m.kids = <<k>>
    BY <1>7, <1>8 DEF Inner
  <2> HIDE DEF m
  <2>3. /\ Grown(nodes, nodes') /\ NewAt \in DOMAIN nodes' /\ nodes'[NewAt] = m
        /\ k \in DOMAIN nodes' /\ nodes'[k] = nodes[k]
    <3>1. m.kids \in Seq(DOMAIN nodes)
      BY <2>2
    <3> QED BY <2>1, <3>1, NodeIs
  <2>4. Result(nodes', toks, s, e, k, p + 1, 100, tokit)
    BY <1>9, <2>3, ResultGrows
  <2>5. \A v : Holding(nodes', toks, s, e, NewAt, p, v, tokit)
    BY <1>1, <1>3, <1>7, <1>12, <2>2, <2>3, <2>4, HoldsUnary
  <2>6. Inside(nodes', toks, calls', tokit')
    BY <1>4, <2>1, <2>3, <2>5, GivesBack DEF p
  <2> QED BY <2>1, <2>6
<1> QED BY <1>11, <1>12

LEMMA EndGroupingPrec ==
  ASSUME ParserInv, ParserInv', outcome = "parsing", NEW s, NEW e, NEW at,
         Within(nodes, toks, s, e, calls, at, tokit), EndGrouping
  PROVE  outcome' = outcome /\ Inside(nodes', toks, calls', tokit')
<1> DEFINE p == at[Len(calls)]
<1>1. /\ currtype = TypeAt(toks, tokit) /\ tokit \in Int /\ toks \in Seq(Token)
      /\ AtEnd <=> tokit = Len(toks) + 1
      /\ calls \in Seq(Frames(nodes)) /\ calls # << >> /\ Top = Last(calls)
  BY SeesType
<1>2. Top.fn = "Grouping"
  BY DEF EndGrouping, Running
<1>3. PlainAt(toks, s, e) /\ p \in s .. e
  BY <1>1, AtTop DEF Within
<1>4. Top.fn \notin Loop /\ Top.fn # "Terminator"
  BY <1>2 DEF Loop
<1>5. \E ks \in Seq(DOMAIN nodes), k \in DOMAIN nodes, prec \in Int, q \in s .. e :
        /\ Top.kids = ks \o <<k>>
        /\ Awaits(nodes, toks, s, Top.fn, Top.type, ks, p, prec, q)
        /\ Result(nodes, toks, s, e, k, q, prec, tokit)
  BY <1>4, Got
<1>6. PICK ks \in Seq(DOMAIN nodes), k \in DOMAIN nodes, prec \in Int, q \in s .. e :
        /\ Top.kids = ks \o <<k>>
        /\ Awaits(nodes, toks, s, Top.fn, Top.type, ks, p, prec, q)
        /\ Result(nodes, toks, s, e, k, q, prec, tokit)
  BY <1>5
<1> HIDE DEF p
<1>7. /\ ks = << >> /\ toks[p].type = "LEFT_PAREN" /\ ~ AfterOperand(toks, p)
      /\ q = p + 1 /\ prec = 1
  BY <1>2, <1>6 DEF Awaits
<1>8. Top.kids = <<k>>
  BY <1>6, <1>7, ConcatEmptySeq
<1>9. Result(nodes, toks, s, e, k, p + 1, 1, tokit)
  BY <1>6, <1>7
<1>10. tokit \in 1 .. Len(toks) /\ toks[tokit].type = "RIGHT_PAREN"
  BY <1>1, <1>3, <1>7, <1>9, ClosesGroup
<1>11. ~ AtEnd /\ currtype # "ID"
  <2>1. Len(toks) \in Nat
    BY <1>1, LenProperties
  <2>2. TypeAt(toks, tokit) = "RIGHT_PAREN"
    BY <1>10, <2>1 DEF TypeAt
  <2> QED BY <1>1, <1>10, <2>1, <2>2
<1>12. /\ calls' = Deliver(Below, <<k>>) /\ UNCHANGED <<nodes, outcome>>
       /\ tokit' = tokit + 1
  BY <1>8, <1>11 DEF EndGrouping, Closing, Consume, Keep
<1>13. Grown(nodes, nodes') /\ k \in DOMAIN nodes'
  BY <1>12, GrownSame
<1>14. \A v : Holding(nodes', toks, s, e, k, p, v, tokit + 1)
  BY <1>1, <1>3, <1>7, <1>9, <1>12, HoldsGroup
<1>15. Inside(nodes', toks, calls', tokit')
  BY <1>4, <1>12, <1>13, <1>14, GivesBack DEF p
<1> QED BY <1>12, <1>15

LEMMA EndSimplePrec ==
  ASSUME ParserInv, ParserInv', outcome = "parsing", NEW s, NEW e, NEW at,
         Within(nodes, toks, s, e, calls, at, tokit), EndSimple
  PROVE  outcome' = outcome /\ Inside(nodes', toks, calls', tokit')
<1> DEFINE p == at[Len(calls)]
           m == Inner(Top.fn, Top.type, Top.kids)
<1>1. /\ tokit \in Int /\ toks \in Seq(Token)
      /\ calls \in Seq(Frames(nodes)) /\ calls # << >> /\ Top = Last(calls)
  BY SeesType
<1>2. Top.fn \in {"Print", "BinaryOp"}
  <2>1. Top.fn \in {"ParseExpr", "InfixLoop", "Terminator", "Print",
                    "UnaryOp", "Grouping", "BinaryOp"}
    BY <1>1, AtTop
  <2> QED BY <2>1 DEF EndSimple
<1>3. /\ PlainAt(toks, s, e) /\ p \in s .. e /\ Linked(nodes, toks, s, calls, at)
      /\ Link(nodes, toks, s, calls[Len(calls) - 1], at[Len(calls) - 1], Top, p)
      /\ Len(calls) - 1 \in 1 .. Len(calls)
  <2>1. /\ Len(calls) \in Nat \ {0} /\ calls[Len(calls)] = Top
        /\ Top.fn = "Terminator" <=> Len(calls) = 1
        /\ Len(calls) >= 2 =>
             Link(nodes, toks, s, calls[Len(calls) - 1], at[Len(calls) - 1], Top, p)
        /\ p \in s .. e
    BY <1>1, AtTop
  <2>2. Len(calls) >= 2
    <3>1. Len(calls) # 1
      BY <1>2, <2>1, Zenon
    <3>2. \A n \in Nat \ {0} : n # 1 => n >= 2
      OBVIOUS
    <3> QED BY <2>1, <3>1, <3>2, Zenon
  <2> QED BY <2>1, <2>2 DEF Within
<1>4. Top.fn \notin Loop /\ Top.fn # "Terminator"
  BY <1>2 DEF Loop
<1>5. \E ks \in Seq(DOMAIN nodes), k \in DOMAIN nodes, prec \in Int, q \in s .. e :
        /\ Top.kids = ks \o <<k>>
        /\ Awaits(nodes, toks, s, Top.fn, Top.type, ks, p, prec, q)
        /\ Result(nodes, toks, s, e, k, q, prec, tokit)
  BY <1>4, Got
<1>6. PICK ks \in Seq(DOMAIN nodes), j \in DOMAIN nodes, prec \in Int, q \in s .. e :
        /\ Top.kids = ks \o <<j>>
        /\ Awaits(nodes, toks, s, Top.fn, Top.type, ks, p, prec, q)
        /\ Result(nodes, toks, s, e, j, q, prec, tokit)
  BY <1>5
<1>7. /\ New(<<m>>) /\ calls' = Deliver(Below, <<NewAt>>)
      /\ tokit' = tokit /\ outcome' = outcome
  BY DEF EndSimple, ReturnNew, Keep
<1>8. m.kind = Top.fn /\ m.type = Top.type /\ m.kids = Top.kids
  BY DEF Inner
<1> HIDE DEF p, m
<1>9. Top.kids \in Seq(DOMAIN nodes)
  <2>1. Top \in Frames(nodes)
    BY Ready
  <2> QED BY <2>1 DEF Frames
<1>10. /\ Grown(nodes, nodes') /\ NewAt \in DOMAIN nodes' /\ nodes'[NewAt] = m
       /\ \A i \in DOMAIN nodes : i \in DOMAIN nodes' /\ nodes'[i] = nodes[i]
  BY <1>7, <1>8, <1>9, NodeIs
<1>11. Result(nodes', toks, s, e, j, q, prec, tokit)
  BY <1>6, <1>10, ResultGrows
<1> DEFINE v == calls[Len(calls) - 1].prec
<1>12. v \in Int
  <2>1. calls[Len(calls) - 1] \in Frames(nodes)
    BY <1>1, <1>3, ElementOfSeq
  <2>2. v \in 0 .. 100
    BY <2>1 DEF Frames
  <2>3. \A x \in 0 .. 100 : x \in Int
    OBVIOUS
  <2> QED BY <2>2, <2>3, Zenon
<1>13. ASSUME Top.fn = "Print"
       PROVE  Holding(nodes', toks, s, e, NewAt, p, v, tokit)
  <2>1. /\ ks = << >> /\ toks[s].type = "PRINT" /\ p = s /\ q = s + 1 /\ prec = 0
    BY <1>6, <1>13 DEF Awaits
  <2>2. v = 0
    BY <1>3, <1>13 DEF Link, Loop
  <2>3. Top.kids = <<j>>
    BY <1>6, <2>1, ConcatEmptySeq
  <2>4. Result(nodes', toks, s, e, j, s + 1, 0, tokit)
    BY <1>11, <2>1
  <2>5. nodes'[NewAt].kind = "Print" /\ nodes'[NewAt].kids = <<j>> /\ j \in DOMAIN nodes'
    BY <1>8, <1>10, <1>13, <2>3
  <2>6. Holding(nodes', toks, s, e, NewAt, s, 0, tokit)
    BY <1>1, <1>3, <1>10, <2>1, <2>4, <2>5, HoldsPrint
  <2> QED BY <2>1, <2>2, <2>6
<1>14. ASSUME Top.fn = "BinaryOp"
       PROVE  Holding(nodes', toks, s, e, NewAt, p, v, tokit)
  <2>1. prec = InfixPrec(Top.type) /\ \E k \in DOMAIN nodes :
           ks = <<k>> /\ LeftOf(nodes, toks, k, Top.type, p, q - 1)
    BY <1>6, <1>14 DEF Awaits
  <2>2. PICK i \in DOMAIN nodes : ks = <<i>> /\ LeftOf(nodes, toks, i, Top.type, p, q - 1)
    BY <2>1
  <2>3. Top.kids = <<i, j>>
    BY <1>6, <2>2, TupleConcat
  <2>4. v < InfixPrec(Top.type)
    BY <1>3, <1>14 DEF Link, Loop
  <2> DEFINE mid == q - 1
  <2>5. LeftOf(nodes', toks, i, Top.type, p, mid)
    BY <1>10, <2>2, SpansGrows DEF Grown, Keeps, LeftOf
  <2>6. mid + 1 = q
    OBVIOUS
  <2>7. mid \in s .. e
    <3>1. Spans(nodes, toks, i, p, mid - 1)
      BY <2>2 DEF LeftOf
    <3>2. mid - 1 >= p
      BY <3>1, <1>1, <1>3, PlainFacts, LenProperties DEF Spans, Expression
    <3>3. p \in s .. e /\ q \in s .. e /\ s \in Int /\ e \in Int
      BY <1>1, <1>3, PlainFacts, LenProperties
    <3> QED BY <3>2, <3>3
  <2>8. Result(nodes', toks, s, e, j, mid + 1, InfixPrec(Top.type), tokit)
    BY <1>11, <2>1, <2>6
  <2> HIDE DEF mid
  <2>9. /\ nodes'[NewAt].kind = "BinaryOp" /\ nodes'[NewAt].type = Top.type
        /\ nodes'[NewAt].kids = <<i, j>> /\ i \in DOMAIN nodes' /\ j \in DOMAIN nodes'
    BY <1>8, <1>10, <1>14, <2>3
  <2> HIDE DEF v
  <2> QED BY <1>1, <1>3, <1>10, <1>12, <2>4, <2>5, <2>7, <2>8, <2>9, HoldsBinary
<1>15. Holding(nodes', toks, s, e, NewAt, p, v, tokit)
  BY <1>2, <1>13, <1>14
<1>16. Inside(nodes', toks, calls', tokit')
  BY <1>4, <1>7, <1>10, <1>15, GivesBack DEF p
<1> QED BY <1>7, <1>16

\* The loop over statements.
LEMMA NextStatementPrec ==
  ASSUME ParserInv, ParserInv', outcome = "parsing", Plainly(toks),
         Between(nodes, toks, calls, tokit), NextStatement
  PROVE  outcome' = outcome /\ Inside(nodes', toks, calls', tokit')
<1>1. /\ currtype = TypeAt(toks, tokit) /\ tokit \in Int /\ toks \in Seq(Token)
      /\ AtEnd <=> tokit = Len(toks) + 1
  BY SeesType
<1>2. PICK ks \in Seq(DOMAIN nodes) :
        calls = <<Fn("Statements", ks)>> /\ Reached(toks, tokit) /\ Laid(nodes, toks, ks, tokit)
  BY DEF Between
<1>3. Top.kids = ks /\ Below = << >>
  BY <1>2, FrameFields DEF Top, Below, Last, Front
<1> DEFINE f == Fn("Terminator", ks)
           h == ParseExpr(0)
           c == <<f, h>>
           s == tokit
<1>4. /\ calls' = c /\ tokit' = s /\ nodes' = nodes /\ outcome' = outcome
  <2>1. calls' = << >> \o <<f, h>>
    BY <1>3 DEF NextStatement, Become
  <2> DEFINE S == {f, h}
             fs == <<f, h>>
  <2>2. fs \in Seq(S)
    OBVIOUS
  <2> HIDE DEF fs
  <2>3. << >> \o fs = fs
    BY <2>2, ConcatEmptySeq
  <2> QED BY <2>1, <2>3 DEF NextStatement, Keep, fs
<1>5. StartsAt(toks, s)
  <2>1. tokit # Len(toks) + 1 /\ 0 < PrefixPrec(currtype)
    BY <1>1 DEF NextStatement, StartsStatement
  <2>2. tokit <= Len(toks)
    BY <2>1, Ready
  <2> QED BY <1>1, <2>1, <2>2 DEF StartsAt, TypeAt
<1>6. s \in 1 .. Len(toks)
  BY <1>5, Ready DEF StartsAt
<1>7. PICK e \in s .. Len(toks) : SimpleAt(toks, s, e)
  BY <1>2, <1>5, <1>6 DEF Plainly
<1>8. PlainAt(toks, s, e)
  BY <1>2, <1>5, <1>7 DEF PlainAt
<1> DEFINE at == [i \in Nat |-> s]
<1>9. at \in [Nat -> s .. e] /\ at[1] = s /\ at[2] = s
  <2>1. s \in s .. e
    BY <1>6, <1>7
  <2> QED BY <2>1
<1>10. /\ f.fn = "Terminator" /\ f.kids = ks /\ h.fn = "ParseExpr" /\ h.prec = 0
  BY FrameFields
<1>11. Len(c) = 2 /\ c[1] = f /\ c[2] = h
  OBVIOUS
<1> HIDE DEF f, h, c, at
<1>12. Link(nodes, toks, s, f, s, h, s)
  BY <1>2, <1>10 DEF Link, Loop, Awaits
<1>13. Linked(nodes, toks, s, c, at)
  <2>1. \A i \in 1 .. Len(c) - 1 : i = 1
    BY <1>11
  <2> QED BY <1>9, <1>10, <1>11, <1>12, <2>1 DEF Linked
<1>14. Doing(nodes, toks, s, e, c[Len(c)], at[Len(c)], s)
  BY <1>9, <1>10, <1>11 DEF Doing
<1>15. Within(nodes, toks, s, e, c, at, s)
  BY <1>8, <1>9, <1>13, <1>14 DEF Within
<1> QED BY <1>4, <1>15 DEF Inside

LEMMA EndStatementsPrec ==
  ASSUME ParserInv, outcome = "parsing",
         Between(nodes, toks, calls, tokit), EndStatements
  PROVE  /\ outcome' = "DONE"
         /\ \E s : /\ Reached(toks, s) /\ ~ StartsAt(toks, s)
                   /\ Laid(nodes', toks, stmts', s)
<1>1. /\ currtype = TypeAt(toks, tokit) /\ tokit \in Int /\ toks \in Seq(Token)
      /\ AtEnd <=> tokit = Len(toks) + 1
  BY SeesType
<1>2. PICK ks \in Seq(DOMAIN nodes) :
        calls = <<Fn("Statements", ks)>> /\ Reached(toks, tokit) /\ Laid(nodes, toks, ks, tokit)
  BY DEF Between
<1>3. Top.kids = ks /\ Len(calls) = 1
  BY <1>2, FrameFields DEF Top, Last
<1>4. stmts' = ks /\ outcome' = "DONE" /\ nodes' = nodes
  BY <1>3 DEF EndStatements
<1>5. ~ StartsAt(toks, tokit)
  <2>1. Len(toks) \in Nat
    BY <1>1, LenProperties
  <2> QED BY <1>1, <2>1 DEF EndStatements, StartsStatement, StartsAt, TypeAt
<1> QED BY <1>2, <1>4, <1>5

LEMMA TerminatorPrec ==
  ASSUME ParserInv, ParserInv', outcome = "parsing", NEW s, NEW e, NEW at,
         Within(nodes, toks, s, e, calls, at, tokit), Terminator
  PROVE  \/ outcome' = outcome /\ Between(nodes', toks, calls', tokit')
         \/ outcome' = "EXIT" /\ PlainAt(toks, s, Len(toks))
<1> DEFINE p == at[Len(calls)]
<1>1. /\ currtype = TypeAt(toks, tokit) /\ tokit \in Int /\ toks \in Seq(Token)
      /\ calls \in Seq(Frames(nodes)) /\ calls # << >> /\ Top = Last(calls)
  BY SeesType
<1>2. Top.fn = "Terminator"
  BY DEF Terminator, Running
<1>3. PlainAt(toks, s, e) /\ Len(calls) = 1
  <2>1. /\ Last(calls) = calls[Len(calls)]
        /\ calls[Len(calls)].fn = "Terminator" <=> Len(calls) = 1
    BY <1>1, AtTop
  <2> QED BY <1>1, <1>2, <2>1 DEF Within
<1>4. Top.fn \notin Loop
  BY <1>2 DEF Loop
<1>5. \E ks \in Seq(DOMAIN nodes), k \in DOMAIN nodes, prec \in Int, q \in s .. e :
        /\ Top.kids = ks \o <<k>>
        /\ Awaits(nodes, toks, s, Top.fn, Top.type, ks, p, prec, q)
        /\ Result(nodes, toks, s, e, k, q, prec, tokit)
  BY <1>4, Got
<1>6. PICK ks \in Seq(DOMAIN nodes), k \in DOMAIN nodes, prec \in Int, q \in s .. e :
        /\ Top.kids = ks \o <<k>>
        /\ Awaits(nodes, toks, s, Top.fn, Top.type, ks, p, prec, q)
        /\ Result(nodes, toks, s, e, k, q, prec, tokit)
  BY <1>5
<1>7. Laid(nodes, toks, ks, s) /\ q = s /\ prec = 0
  BY <1>2, <1>6 DEF Awaits
<1>8. tokit = e + 1 /\ StmtOf(nodes, toks, k, s, e)
  <2>1. Result(nodes, toks, s, e, k, s, 0, tokit)
    BY <1>6, <1>7
  <2> QED BY <1>1, <1>3, <2>1, StatementIs
<1>9. /\ Len(toks) \in Nat /\ s \in 1 .. Len(toks) /\ e \in s .. Len(toks)
      /\ EndsOperand(toks, e) /\ TypeAt(toks, e + 1) \in {"SEMICOLON", "NONE"}
  BY <1>1, <1>3, PlainFacts
<1>10. lasttype # "RIGHT_BRACE"
  <2>1. tokit - 1 = e
    BY <1>8, <1>9
  <2>2. toks[e].type # "RIGHT_BRACE"
    BY <1>9, TypeSets DEF EndsOperand
  <2> QED BY <2>1, <2>2 DEF lasttype
<1>11. CASE currtype # "SEMICOLON"
  <2>1. outcome' = "EXIT"
    BY <1>10, <1>11 DEF Terminator, Stop
  <2>2. e < Len(toks) => TypeAt(toks, e + 1) = "SEMICOLON"
    BY <1>3, <1>9 DEF PlainAt, SimpleAt, TypeAt
  <2>3. e = Len(toks)
    BY <1>1, <1>8, <1>9, <1>11, <2>2
  <2> QED BY <1>3, <2>1, <2>3
<1>12. CASE currtype = "SEMICOLON"
  <2>1. /\ Become(<<Fn("Statements", Top.kids)>>) /\ tokit' = tokit + 1
        /\ nodes' = nodes /\ outcome' = outcome
    BY <1>12 DEF Terminator, Keep
  <2>2. e < Len(toks)
    <3>1. TypeAt(toks, e + 1) = "SEMICOLON"
      BY <1>1, <1>8, <1>12
    <3>2. e + 1 <= Len(toks)
      BY <3>1 DEF TypeAt
    <3> QED BY <1>9, <3>2
  <2>3. Reached(toks, e + 2)
    BY <1>1, <1>3, <2>2, ReachedNext
  <2>4. Laid(nodes, toks, ks \o <<k>>, e + 2)
    BY <1>1, <1>3, <1>7, <1>8, <2>2, LaysOne
  <2>5. calls' = <<Fn("Statements", Top.kids)>>
    <3> DEFINE fs == <<Fn("Statements", Top.kids)>>
               S == {Fn("Statements", Top.kids)}
    <3>1. fs \in Seq(S)
      OBVIOUS
    <3>2. calls' = Front(calls) \o fs
      BY <2>1 DEF Become, Below
    <3>3. Front(calls) = << >>
      <4>1. Front(calls) \in Seq(Frames(nodes)) /\ Len(Front(calls)) = 0
        BY <1>1, <1>3, FrontLast
      <4> QED BY <4>1, EmptySeq
    <3> HIDE DEF fs
    <3>4. << >> \o fs = fs
      BY <3>1, ConcatEmptySeq
    <3> QED BY <3>2, <3>3, <3>4 DEF fs
  <2>6. tokit' = e + 2
    BY <1>8, <1>9, <2>1
  <2>7. Top.kids \in Seq(DOMAIN nodes)
    <3>1. Top \in Frames(nodes)
      BY Ready
    <3> QED BY <3>1 DEF Frames
  <2>8. Between(nodes', toks, calls', tokit')
    BY <1>6, <2>1, <2>3, <2>4, <2>5, <2>6, <2>7 DEF Between
  <2> QED BY <2>1, <2>8
<1> QED BY <1>11, <1>12

LEMMA NextKeeps ==
  ASSUME Next
  PROVE  outcome = "parsing" /\ toks' = toks
<1>1. CASE ParseNothing \/ ParseLeaf \/ ParseUnaryOp \/ ParseGrouping \/ ParseKeyword
  BY <1>1 DEF ParseNothing, ParseLeaf, ParseUnaryOp, ParseGrouping, ParseKeyword,
              Prefix, Running, Keep
<1>2. CASE ParseFor \/ ParseFnDef \/ ParseBlockExpr \/ PrefixBoom
  BY <1>2 DEF ParseFor, ParseFnDef, ParseBlockExpr, PrefixBoom, Prefix, Running,
              Keep, Stop
<1>3. CASE EndInfix \/ ParseBinaryOp \/ ParseCall \/ ParseSubscript \/ ParseCommaList
  BY <1>3 DEF EndInfix, ParseBinaryOp, ParseCall, ParseSubscript, ParseCommaList,
              Infix, Running, Keep, Stop
<1>4. CASE EndUnaryOp \/ EndGrouping \/ EndSimple \/ EndCall
  BY <1>4 DEF EndUnaryOp, EndGrouping, EndSimple, EndCall, Closing, Running, Keep, Stop
<1>5. CASE ForBody \/ FnDefBody \/ IfBody \/ IfElse \/ CommaListNext
  BY <1>5 DEF ForBody, FnDefBody, IfBody, IfElse, CommaListNext, Closing, Running,
              Keep, Stop
<1>6. CASE ParseBlock \/ EndBlock \/ NextStatement \/ Terminator \/ EndStatements
  BY <1>6 DEF ParseBlock, EndBlock, NextStatement, Terminator, EndStatements, Running,
              Keep, Stop
<1> QED BY <1>1, <1>2, <1>3, <1>4, <1>5, <1>6 DEF Next

\* Between statements, only ParseStatements goes on.
LEMMA OnlyStatements ==
  ASSUME Between(nodes, toks, calls, tokit), Next
  PROVE  NextStatement \/ EndStatements
<1>1. PICK ks \in Seq(DOMAIN nodes) : calls = <<Fn("Statements", ks)>>
  BY DEF Between
<1>2. Top.fn = "Statements"
  BY <1>1, FrameFields DEF Top, Last
<1>3. /\ ~ ParseNothing /\ ~ ParseLeaf /\ ~ ParseUnaryOp /\ ~ ParseGrouping
      /\ ~ ParseKeyword /\ ~ ParseFor /\ ~ ParseFnDef /\ ~ ParseBlockExpr /\ ~ PrefixBoom
      /\ ~ EndInfix /\ ~ ParseBinaryOp /\ ~ ParseCall /\ ~ ParseSubscript /\ ~ ParseCommaList
  BY <1>2 DEF ParseNothing, ParseLeaf, ParseUnaryOp, ParseGrouping, ParseKeyword, ParseFor,
              ParseFnDef, ParseBlockExpr, PrefixBoom, EndInfix, ParseBinaryOp, ParseCall,
              ParseSubscript, ParseCommaList, Prefix, Infix, Running
<1>4. /\ ~ EndUnaryOp /\ ~ EndGrouping /\ ~ EndSimple /\ ~ EndCall
      /\ ~ ForBody /\ ~ FnDefBody /\ ~ IfBody /\ ~ IfElse /\ ~ CommaListNext
      /\ ~ ParseBlock /\ ~ EndBlock /\ ~ Terminator
  BY <1>2 DEF EndUnaryOp, EndGrouping, EndSimple, EndCall, ForBody, FnDefBody, IfBody,
              IfElse, CommaListNext, ParseBlock, EndBlock, Terminator, Running
<1> QED BY <1>3, <1>4 DEF Next

LEMMA InitPrec == Init => PrecInv
<1> SUFFICES ASSUME Init
             PROVE  PrecInv
  OBVIOUS
<1>1. /\ outcome = "parsing" /\ tokit = 1 /\ calls = <<Fn("Statements", << >>)>>
      /\ toks \in Seq(Token)
  BY InputsAssumption DEF Init
<1>2. Len(toks) \in Nat
  BY <1>1, LenProperties
<1>3. Reached(toks, 1)
  BY <1>2 DEF Reached, BeginsAt
<1>4. Laid(nodes, toks, << >>, 1)
  <2> DEFINE bs == <<1>>
             P == 1 .. Len(toks) + 1
  <2>1. 1 \in P
    BY <1>2
  <2> HIDE DEF P
  <2>2. bs \in Seq(P) /\ Len(bs) = 1 /\ bs[1] = 1
    BY <2>1
  <2>3. Len(<< >>) = 0 /\ \A i \in 1 .. 0 : FALSE
    OBVIOUS
  <2> HIDE DEF bs
  <2> QED BY <2>2, <2>3 DEF Laid, P
<1>5. << >> \in Seq(DOMAIN nodes)
  OBVIOUS
<1>6. Between(nodes, toks, calls, tokit)
  BY <1>1, <1>3, <1>4, <1>5 DEF Between
<1> QED BY <1>1, <1>6 DEF PrecInv

LEMMA PrecStep == ParserInv /\ ParserInv' /\ PrecInv /\ [Next]_vars => PrecInv'
<1> SUFFICES ASSUME ParserInv, ParserInv', PrecInv, [Next]_vars
             PROVE  PrecInv'
  OBVIOUS
<1>1. CASE UNCHANGED vars
  <2>1. /\ toks' = toks /\ outcome' = outcome /\ nodes' = nodes
        /\ calls' = calls /\ tokit' = tokit /\ stmts' = stmts
    BY <1>1 DEF vars
  <2> QED BY <2>1 DEF PrecInv
<1>2. CASE Next
  <2>1. outcome = "parsing" /\ toks' = toks
    BY <1>2, NextKeeps
  <2> SUFFICES ASSUME Plainly(toks)
               PROVE  \/ /\ outcome' = "parsing"
                         /\ \/ Between(nodes', toks, calls', tokit')
                            \/ Inside(nodes', toks, calls', tokit')
                      \/ /\ outcome' = "DONE"
                         /\ \E s : /\ Reached(toks, s) /\ ~ StartsAt(toks, s)
                                   /\ Laid(nodes', toks, stmts', s)
                      \/ /\ outcome' = "ABORT"
                         /\ \E p, r \in 1 .. Len(toks) :
                              Prefixed(toks, p) /\ Wraps(toks, p + 1, r)
                      \/ /\ outcome' = "EXIT"
                         /\ \E s : PlainAt(toks, s, Len(toks))
    BY <2>1 DEF PrecInv
  <2>2. Between(nodes, toks, calls, tokit) \/ Inside(nodes, toks, calls, tokit)
    BY <2>1 DEF PrecInv
  <2>3. CASE Between(nodes, toks, calls, tokit)
    <3>1. NextStatement \/ EndStatements
      BY <1>2, <2>3, OnlyStatements
    <3>2. CASE NextStatement
      BY <2>1, <2>3, <3>2, NextStatementPrec
    <3>3. CASE EndStatements
      BY <2>1, <2>3, <3>3, EndStatementsPrec
    <3> QED BY <3>1, <3>2, <3>3
  <2>4. CASE Inside(nodes, toks, calls, tokit)
    <3>1. PICK s, e, at : Within(nodes, toks, s, e, calls, at, tokit)
      BY <2>4 DEF Inside
    <3>2. /\ ~ ParseNothing /\ ~ ParseFor /\ ~ ParseFnDef /\ ~ ParseBlockExpr
          /\ ~ PrefixBoom /\ ~ ParseCall /\ ~ ParseSubscript /\ ~ ParseCommaList
          /\ ~ EndCall /\ ~ ForBody /\ ~ FnDefBody /\ ~ IfBody /\ ~ IfElse
          /\ ~ CommaListNext /\ ~ ParseBlock /\ ~ EndBlock
          /\ ~ NextStatement /\ ~ EndStatements
      BY <2>1, <3>1, NothingElse
    <3>3. CASE ParseLeaf
      <4>1. outcome' = outcome
        BY <3>3 DEF ParseLeaf, Keep
      <4>2. Inside(nodes', toks, calls', tokit')
        BY <2>1, <3>1, <3>3, ParseLeafPrec
      <4> QED BY <2>1, <4>1, <4>2
    <3>4. CASE ParseUnaryOp
      <4>1. outcome' = outcome
        BY <3>4 DEF ParseUnaryOp, Keep
      <4>2. Inside(nodes', toks, calls', tokit')
        BY <2>1, <3>1, <3>4, ParseUnaryOpPrec
      <4> QED BY <2>1, <4>1, <4>2
    <3>5. CASE ParseGrouping
      <4>1. outcome' = outcome
        BY <3>5 DEF ParseGrouping, Keep
      <4>2. Inside(nodes', toks, calls', tokit')
        BY <2>1, <3>1, <3>5, ParseGroupingPrec
      <4> QED BY <2>1, <4>1, <4>2
    <3>6. CASE ParseKeyword
      <4>1. outcome' = outcome
        BY <3>6 DEF ParseKeyword, Keep
      <4>2. Inside(nodes', toks, calls', tokit')
        BY <2>1, <3>1, <3>6, ParseKeywordPrec
      <4> QED BY <2>1, <4>1, <4>2
    <3>7. CASE ParseBinaryOp
      <4>1. outcome' = outcome
        BY <3>7 DEF ParseBinaryOp, Keep
      <4>2. Inside(nodes', toks, calls', tokit')
        BY <2>1, <3>1, <3>7, ParseBinaryOpPrec
      <4> QED BY <2>1, <4>1, <4>2
    <3>8. CASE EndInfix
      <4>1. outcome' = outcome
        BY <3>8 DEF EndInfix, Keep
      <4>2. Inside(nodes', toks, calls', tokit')
        BY <2>1, <3>1, <3>8, EndInfixPrec
      <4> QED BY <2>1, <4>1, <4>2
    <3>9. CASE EndUnaryOp
      BY <2>1, <3>1, <3>9, EndUnaryOpPrec
    <3>10. CASE EndGrouping
      <4>1. outcome' = outcome /\ Inside(nodes', toks, calls', tokit')
        BY <2>1, <3>1, <3>10, EndGroupingPrec
      <4> QED BY <2>1, <4>1
    <3>11. CASE EndSimple
      <4>1. outcome' = outcome /\ Inside(nodes', toks, calls', tokit')
        BY <2>1, <3>1, <3>11, EndSimplePrec
      <4> QED BY <2>1, <4>1
    <3>12. CASE Terminator
      <4>1. \/ outcome' = outcome /\ Between(nodes', toks, calls', tokit')
            \/ outcome' = "EXIT" /\ PlainAt(toks, s, Len(toks))
        BY <2>1, <3>1, <3>12, TerminatorPrec
      <4> QED BY <2>1, <4>1
    <3> QED BY <1>2, <3>2, <3>3, <3>4, <3>5, <3>6, <3>7, <3>8, <3>9, <3>10,
               <3>11, <3>12 DEF Next
  <2> QED BY <2>2, <2>3, <2>4
<1> QED BY <1>1, <1>2

\* Over source of plain statements, the frames of the C++ stack always hold
\* what the table of precedences gives the tokens they have read.
THEOREM ParserPrecInvariant == Spec => [](ParserInv /\ PrecInv)
<1>1. Init => ParserInv /\ PrecInv
  BY InitInv, InitPrec
<1>2. ParserInv /\ PrecInv /\ [Next]_vars => (ParserInv /\ PrecInv)'
  BY ParserStep, PrecStep
<1> QED BY <1>1, <1>2, PTL DEF Spec

-----------------------------------------------------------------------------
\* Texts: fully parenthesised expressions.

Text == Seq([tag : TokenType \cup {"(", ")"}] \cup Value)

BinaryText(type, a, b) ==
  <<Mark("(")>> \o a \o <<Mark(type)>> \o b \o <<Mark(")")>>

UnaryText(type, a) == <<Mark("("), Mark(type)>> \o a \o <<Mark(")")>>

LEMMA TextOf ==
  /\ << >> \in Text
  /\ \A v \in Value : <<v>> \in Text
  /\ \A type \in TokenType, a \in Text, b \in Text :
       BinaryText(type, a, b) \in Text /\ UnaryText(type, a) \in Text
<1> DEFINE I == [tag : TokenType \cup {"(", ")"}] \cup Value
<1>1. \A type \in TokenType : Mark(type) \in I
  BY DEF Mark
<1>2. Mark("(") \in I /\ Mark(")") \in I
  BY DEF Mark
<1>3. \A v \in Value : v \in I
  OBVIOUS
<1> HIDE DEF I
<1>4. /\ << >> \in Seq(I) /\ \A i \in I : <<i>> \in Seq(I)
      /\ \A i, j \in I : <<i, j>> \in Seq(I)
  OBVIOUS
<1>5. \A a, b \in Seq(I) : a \o b \in Seq(I)
  BY ConcatProperties
<1>6. ASSUME NEW type \in TokenType, NEW a \in Seq(I), NEW b \in Seq(I)
      PROVE  BinaryText(type, a, b) \in Seq(I) /\ UnaryText(type, a) \in Seq(I)
  <2>1. /\ <<Mark("(")>> \in Seq(I) /\ <<Mark(type)>> \in Seq(I)
        /\ <<Mark(")")>> \in Seq(I) /\ <<Mark("("), Mark(type)>> \in Seq(I)
    BY <1>1, <1>2, <1>4
  <2>2. <<Mark("(")>> \o a \in Seq(I)
    BY <1>5, <2>1
  <2>3. (<<Mark("(")>> \o a) \o <<Mark(type)>> \in Seq(I)
    BY <1>5, <2>1, <2>2
  <2>4. ((<<Mark("(")>> \o a) \o <<Mark(type)>>) \o b \in Seq(I)
    BY <1>5, <2>3
  <2>5. BinaryText(type, a, b) \in Seq(I)
    BY <1>5, <2>1, <2>4 DEF BinaryText
  <2>6. <<Mark("("), Mark(type)>> \o a \in Seq(I)
    BY <1>5, <2>1
  <2>7. UnaryText(type, a) \in Seq(I)
    BY <1>5, <2>1, <2>6 DEF UnaryText
  <2> QED BY <2>5, <2>7
<1> QED BY <1>3, <1>4, <1>6 DEF Text, I

-----------------------------------------------------------------------------
\* PrecedenceTree is defined at every stretch of the tokens.

Stretches == (DOMAIN toks) \X (DOMAIN toks)

TreeAt(tree, s) ==
  LET lo   == s[1]
      hi   == s[2]
      root == Root(toks, lo, hi)
      type == toks[lo].type
  IN CASE OuterOps(toks, lo, hi) # {} ->
            BinaryText(toks[root].type, tree[<<lo, root - 1>>], tree[<<root + 1, hi>>])
       [] OuterOps(toks, lo, hi) = {} /\ lo < hi /\ type \in {"BANG", "MINUS"} ->
            UnaryText(type, tree[<<lo + 1, hi>>])
       [] OuterOps(toks, lo, hi) = {} /\ lo < hi /\ type = "LEFT_PAREN" ->
            tree[<<lo + 1, hi - 1>>]
       [] OTHER -> <<toks[lo].lit>>

\* The shorter stretches.
Shorter == [s \in Stretches |-> {r \in Stretches : r[2] - r[1] < s[2] - s[1]}]

LEMMA ShorterAre ==
  ASSUME toks \in Seq(Token), NEW lo \in 1 .. Len(toks), NEW hi \in 1 .. Len(toks)
  PROVE  /\ Len(toks) \in Nat /\ <<lo, hi>> \in Stretches
         /\ toks[lo].type \in TokenType /\ toks[lo].lit \in Value
         /\ lo < hi => /\ <<lo + 1, hi>> \in Shorter[<<lo, hi>>]
                       /\ <<lo + 1, hi - 1>> \in Shorter[<<lo, hi>>]
         /\ LET root == Root(toks, lo, hi)
            IN OuterOps(toks, lo, hi) # {} =>
                 /\ root \in lo + 1 .. hi - 1 /\ root \in OuterOps(toks, lo, hi)
                 /\ toks[root].type \in TokenType
                 /\ <<lo, root - 1>> \in Shorter[<<lo, hi>>]
                 /\ <<root + 1, hi>> \in Shorter[<<lo, hi>>]
<1>1. /\ Len(toks) \in Nat /\ DOMAIN toks = 1 .. Len(toks)
      /\ \A i \in 1 .. Len(toks) : toks[i] \in Token
  BY LenProperties, ElementOfSeq
<1>2. \A a, b \in 1 .. Len(toks) : <<a, b>> \in Stretches
  BY <1>1 DEF Stretches
<1>3. \A a, b, c, d \in 1 .. Len(toks) :
        d - c < b - a => <<c, d>> \in Shorter[<<a, b>>]
  BY <1>2 DEF Shorter
<1>4. ASSUME OuterOps(toks, lo, hi) # {}
      PROVE  /\ Root(toks, lo, hi) \in OuterOps(toks, lo, hi)
             /\ Root(toks, lo, hi) \in lo + 1 .. hi - 1
  <2>1. Infixes(toks, Len(toks), OuterOps(toks, lo, hi))
    <3>1. lo + 1 .. hi - 1 \subseteq 1 .. Len(toks)
      BY <1>1
    <3> QED BY <3>1 DEF Infixes, OuterOps, Operator
  <2>2. Root(toks, lo, hi) = RootOf(toks, OuterOps(toks, lo, hi))
    BY DEF Root
  <2>3. Root(toks, lo, hi) \in OuterOps(toks, lo, hi)
    BY <1>1, <1>4, <2>1, <2>2, RootAmong
  <2> QED BY <2>3 DEF OuterOps
<1>5. ASSUME lo < hi
      PROVE  /\ <<lo + 1, hi>> \in Shorter[<<lo, hi>>]
             /\ <<lo + 1, hi - 1>> \in Shorter[<<lo, hi>>]
  <2>1. /\ lo + 1 \in 1 .. Len(toks) /\ hi - 1 \in 1 .. Len(toks)
        /\ hi - (lo + 1) < hi - lo /\ (hi - 1) - (lo + 1) < hi - lo
    BY <1>1, <1>5
  <2> QED BY <1>3, <2>1
<1>6. ASSUME NEW root \in lo + 1 .. hi - 1
      PROVE  /\ toks[root].type \in TokenType
             /\ <<lo, root - 1>> \in Shorter[<<lo, hi>>]
             /\ <<root + 1, hi>> \in Shorter[<<lo, hi>>]
  <2>1. /\ root \in 1 .. Len(toks) /\ root - 1 \in 1 .. Len(toks)
        /\ root + 1 \in 1 .. Len(toks)
        /\ (root - 1) - lo < hi - lo /\ hi - (root + 1) < hi - lo
    BY <1>1
  <2> QED BY <1>1, <1>3, <2>1 DEF Token
<1> QED BY <1>1, <1>2, <1>4, <1>5, <1>6 DEF Token

LEMMA TreeAtAgrees ==
  ASSUME toks \in Seq(Token), NEW s \in Stretches, NEW g, NEW h,
         \A r \in Shorter[s] : g[r] = h[r]
  PROVE  /\ TreeAt(g, s) = TreeAt(h, s)
         /\ (\A r \in Shorter[s] : g[r] \in Text) => TreeAt(g, s) \in Text
<1>1. PICK lo \in 1 .. Len(toks), hi \in 1 .. Len(toks) : s = <<lo, hi>>
  <2>1. DOMAIN toks = 1 .. Len(toks)
    BY LenProperties
  <2> QED BY <2>1 DEF Stretches
<1>2. s[1] = lo /\ s[2] = hi
  BY <1>1
<1> DEFINE root == Root(toks, lo, hi)
           type == toks[lo].type
<1>3. CASE OuterOps(toks, lo, hi) # {}
  <2>1. /\ <<lo, root - 1>> \in Shorter[s] /\ <<root + 1, hi>> \in Shorter[s]
        /\ toks[root].type \in TokenType
    BY <1>1, <1>3, ShorterAre
  <2>2. \A f : TreeAt(f, s) = BinaryText(toks[root].type, f[<<lo, root - 1>>],
                                         f[<<root + 1, hi>>])
    BY <1>2, <1>3 DEF TreeAt
  <2> HIDE DEF root
  <2> QED BY <2>1, <2>2, TextOf
<1>4. CASE OuterOps(toks, lo, hi) = {} /\ lo < hi /\ type \in {"BANG", "MINUS"}
  <2>1. <<lo + 1, hi>> \in Shorter[s] /\ type \in TokenType
    BY <1>1, <1>4, ShorterAre
  <2>2. \A f : TreeAt(f, s) = UnaryText(type, f[<<lo + 1, hi>>])
    BY <1>2, <1>4 DEF TreeAt
  <2> HIDE DEF type
  <2> QED BY <2>1, <2>2, TextOf
<1>5. CASE OuterOps(toks, lo, hi) = {} /\ lo < hi /\ type = "LEFT_PAREN"
  <2>1. <<lo + 1, hi - 1>> \in Shorter[s]
    BY <1>1, <1>5, ShorterAre
  <2>2. \A f : TreeAt(f, s) = f[<<lo + 1, hi - 1>>]
    BY <1>2, <1>5 DEF TreeAt
  <2> QED BY <2>1, <2>2
<1>6. CASE /\ OuterOps(toks, lo, hi) = {}
           /\ ~ (lo < hi /\ type \in {"BANG", "MINUS", "LEFT_PAREN"})
  <2>1. toks[lo].lit \in Value
    BY <1>1, ShorterAre
  <2>2. \A f : TreeAt(f, s) = <<toks[lo].lit>>
    BY <1>2, <1>6 DEF TreeAt
  <2> QED BY <2>1, <2>2, TextOf
<1> QED BY <1>3, <1>4, <1>5, <1>6

LEMMA PrecedenceTreeIs ==
  ASSUME toks \in Seq(Token)
  PROVE  \A s \in Stretches : PrecedenceTree[s] = TreeAt(PrecedenceTree, s)
<1> DEFINE D == Stretches
           F == [s \in D |-> [g \in [D -> Text] |-> TreeAt(g, s)]]
           Q(f) == f = [s \in D |-> TreeAt(f, s)]
           y == PrecedenceTree
           rank == [s \in D |-> Len(toks) + (s[2] - s[1])]
<1>1. Len(toks) \in Nat /\ DOMAIN toks = 1 .. Len(toks)
  BY LenProperties
<1>2. \A s \in D : \A g \in [D -> Text] : F[s][g] = TreeAt(g, s)
  OBVIOUS
<1>3. \A s \in D : \A i \in Shorter[s] : i \in D
  BY DEF Shorter
<1>4. Ranked(rank, 2 * Len(toks), D, Shorter)
  <2>1. \A s \in D : s[1] \in 1 .. Len(toks) /\ s[2] \in 1 .. Len(toks)
    BY <1>1 DEF Stretches
  <2>2. \A s \in D : Len(toks) + (s[2] - s[1]) \in 1 .. 2 * Len(toks)
    BY <1>1, <2>1
  <2>3. \A s \in D : \A r \in Shorter[s] : r \in D /\ r[2] - r[1] < s[2] - s[1]
    BY DEF Shorter
  <2>4. \A s \in D : \A r \in D :
          r[2] - r[1] < s[2] - s[1] =>
            Len(toks) + (r[2] - r[1]) < Len(toks) + (s[2] - s[1])
    BY <1>1, <2>1
  <2> HIDE DEF D
  <2>5. rank \in [D -> 1 .. 2 * Len(toks)]
    BY <2>2
  <2> QED BY <2>3, <2>4, <2>5 DEF Ranked
<1> HIDE DEF F, D, rank
<1>5. Recurses(F, Shorter, D, Text)
  <2>1. ASSUME NEW s \in D, NEW g \in [D -> Text]
        PROVE  TreeAt(g, s) \in Text
    <3>1. \A r \in Shorter[s] : g[r] = g[r] /\ g[r] \in Text
      BY <1>3
    <3> QED BY <3>1, TreeAtAgrees DEF D
  <2>2. \A s \in D : \A g, h \in [D -> Text] :
          (\A i \in Shorter[s] : g[i] = h[i]) => TreeAt(g, s) = TreeAt(h, s)
    BY TreeAtAgrees DEF D
  <2> QED BY <1>2, <2>1, <2>2 DEF Recurses
<1>6. Solvable(F, D, Text)
  <2>1. 2 * Len(toks) \in Nat
    BY <1>1
  <2> QED BY <1>4, <1>5, <2>1, RankedRecursion, TextOf
<1>7. PICK f \in [D -> Text] : \A s \in D : f[s] = F[s][f]
  BY <1>6 DEF Solvable
<1>8. Q(f)
  BY <1>2, <1>7
<1>9. y = CHOOSE g : Q(g)
  BY DEF PrecedenceTree, TreeAt, BinaryText, UnaryText, D, Stretches
<1> HIDE DEF y, Q
<1>10. Q(y)
  BY <1>8, <1>9
<1>11. \A s \in D : y[s] = TreeAt(y, s)
  BY <1>10 DEF Q
<1> QED BY <1>11 DEF y, D

-----------------------------------------------------------------------------
\* Parenthesised is defined at every node.

TextAt(ns, text, k) ==
  LET n == ns[k] IN
  CASE n.kind = "BinaryOp" -> BinaryText(n.type, text[n.kids[1]], text[n.kids[2]])
    [] n.kind = "UnaryOp"  -> UnaryText(n.type, text[n.kids[1]])
    [] OTHER -> <<n.lit>>

LEMMA TextAtAgrees ==
  ASSUME NEW ns, Heap(ns), NEW k \in DOMAIN ns, NEW g, NEW h,
         \A i \in Children(ns)[k] : g[i] = h[i]
  PROVE  /\ TextAt(ns, g, k) = TextAt(ns, h, k)
         /\ (\A i \in Children(ns)[k] : g[i] \in Text) => TextAt(ns, g, k) \in Text
<1> DEFINE n == ns[k]
<1>1. n.type \in TokenType /\ n.lit \in Value
  <2>1. n \in Node
    BY ElementOfSeq, LenProperties DEF Heap
  <2> QED BY <2>1 DEF Node
<1>2. \A i \in DOMAIN n.kids : n.kids[i] \in Children(ns)[k]
  BY ChildrenBelow
<1>3. n.kids \in Seq(DOMAIN ns)
  BY ChildrenBelow
<1>4. CASE n.kind = "BinaryOp"
  <2>1. Len(n.kids) = 2
    BY <1>4 DEF Heap
  <2>2. n.kids[1] \in Children(ns)[k] /\ n.kids[2] \in Children(ns)[k]
    BY <1>2, <1>3, <2>1, LenProperties
  <2>3. \A f : TextAt(ns, f, k) = BinaryText(n.type, f[n.kids[1]], f[n.kids[2]])
    BY <1>4 DEF TextAt
  <2> HIDE DEF n
  <2> QED BY <1>1, <2>2, <2>3, TextOf
<1>5. CASE n.kind = "UnaryOp"
  <2>1. Len(n.kids) = 1
    BY <1>5 DEF Heap
  <2>2. n.kids[1] \in Children(ns)[k]
    BY <1>2, <1>3, <2>1, LenProperties
  <2>3. \A f : TextAt(ns, f, k) = UnaryText(n.type, f[n.kids[1]])
    BY <1>5 DEF TextAt
  <2> HIDE DEF n
  <2> QED BY <1>1, <2>2, <2>3, TextOf
<1>6. CASE n.kind \notin {"BinaryOp", "UnaryOp"}
  <2>1. \A f : TextAt(ns, f, k) = <<n.lit>>
    BY <1>6 DEF TextAt
  <2> HIDE DEF n
  <2> QED BY <1>1, <2>1, TextOf
<1> QED BY <1>4, <1>5, <1>6

LEMMA ParenthesisedIs ==
  ASSUME NEW ns, Heap(ns)
  PROVE  \A k \in DOMAIN ns : Parenthesised(ns)[k] = TextAt(ns, Parenthesised(ns), k)
<1> DEFINE D == DOMAIN ns
           F == [k \in D |-> [g \in [D -> Text] |-> TextAt(ns, g, k)]]
           Q(f) == f = [k \in D |-> TextAt(ns, f, k)]
           y == Parenthesised(ns)
<1>1. Len(ns) \in Nat /\ D = 1 .. Len(ns)
  BY LenProperties DEF Heap
<1>2. \A k \in D : \A g \in [D -> Text] : F[k][g] = TextAt(ns, g, k)
  OBVIOUS
<1>3. \A k \in D : Children(ns)[k] \subseteq 1 .. k - 1
  BY ChildrenBelow
<1>4. \A k \in D : \A i \in Children(ns)[k] : i \in D
  BY <1>1, <1>3
<1> HIDE DEF F, D
<1>5. Recurses(F, Children(ns), D, Text)
  <2>1. ASSUME NEW k \in D, NEW g \in [D -> Text]
        PROVE  TextAt(ns, g, k) \in Text
    <3>1. \A i \in Children(ns)[k] : g[i] = g[i] /\ g[i] \in Text
      BY <1>4
    <3> QED BY <3>1, TextAtAgrees DEF D
  <2>2. \A k \in D : \A g, h \in [D -> Text] :
          (\A i \in Children(ns)[k] : g[i] = h[i]) => TextAt(ns, g, k) = TextAt(ns, h, k)
    BY TextAtAgrees DEF D
  <2> QED BY <1>2, <2>1, <2>2 DEF Recurses
<1>6. Solvable(F, D, Text)
  BY <1>1, <1>3, <1>5, Recursion, TextOf
<1>7. PICK f \in [D -> Text] : \A k \in D : f[k] = F[k][f]
  BY <1>6 DEF Solvable
<1>8. Q(f)
  BY <1>2, <1>7
<1>9. y = CHOOSE g : Q(g)
  BY DEF Parenthesised, TextAt, BinaryText, UnaryText, D
<1> HIDE DEF y, Q
<1>10. Q(y)
  BY <1>8, <1>9
<1>11. \A k \in D : y[k] = TextAt(ns, y, k)
  BY <1>10 DEF Q
<1> QED BY <1>11 DEF y, D

-----------------------------------------------------------------------------
\* A node that stands for a stretch of tokens is its tree.

LEMMA TreeText ==
  ASSUME toks \in Seq(Token), NEW ns, Heap(ns), NEW k, NEW lo, NEW hi,
         TreeOf(ns, toks, k, lo, hi)
  PROVE  Parenthesised(ns)[k] = PrecedenceTree[<<lo, hi>>]
<1> DEFINE text == Parenthesised(ns)
           tree == PrecedenceTree
           w == toks
           Same(i, a, b) == text[i] = tree[<<a, b>>]
           R == {r \in Triples(ns, w) : Same(r[1], r[2], r[3])}
<1>0. w \in Seq(Token)
  OBVIOUS
<1>1. \A i \in DOMAIN ns, a \in 1 .. Len(w), b \in 1 .. Len(w) :
        <<i, a, b>> \in R <=> Same(i, a, b)
  BY DEF Triples
<1>2. \A r \in R : r \in Triples(ns, w)
  OBVIOUS
<1>3. \A i, a, b : <<i, a, b>> \in R => Same(i, a, b)
  OBVIOUS
<1> HIDE DEF R
<1>4. Len(w) \in Nat /\ DOMAIN w = 1 .. Len(w)
  BY LenProperties
<1>5. \A i \in DOMAIN ns : text[i] = TextAt(ns, text, i)
  BY ParenthesisedIs
<1>6. \A a, b \in 1 .. Len(w) :
        /\ tree[<<a, b>>] = TreeAt(tree, <<a, b>>)
        /\ Root(w, a, b) = RootOf(w, OuterOps(w, a, b))
  <2>1. \A a, b \in 1 .. Len(w) : <<a, b>> \in Stretches /\ a \in Int /\ b \in Int
    BY <1>4 DEF Stretches
  <2> QED BY <2>1, PrecedenceTreeIs DEF Root
<1> HIDE DEF text, tree, w
<1>7. ASSUME NEW i \in DOMAIN ns, NEW a \in 1 .. Len(w), LeafAt(ns, w, i, a)
      PROVE  Same(i, a, a)
  <2>1. OuterOps(w, a, a) = {} /\ ~ (a < a) /\ ns[i].kind \in LeafKinds
    BY <1>0, <1>7, LeafOuter DEF LeafAt, LeafKind, LeafKinds, LeafTypes
  <2>2. TextAt(ns, text, i) = <<ns[i].lit>>
    BY <2>1 DEF TextAt, LeafKinds
  <2>3. TreeAt(tree, <<a, a>>) = <<w[a].lit>>
    BY <1>6, <2>1 DEF TreeAt, w
  <2> QED BY <1>5, <1>6, <1>7, <2>2, <2>3 DEF LeafAt
<1>8. ASSUME NEW i \in DOMAIN ns, NEW j \in DOMAIN ns, NEW a \in 1 .. Len(w),
             NEW b \in 1 .. Len(w), UnaryAt(ns, w, i, j, a, b),
             Same(j, a + 1, b)
      PROVE  Same(i, a, b)
  <2>1. OuterOps(w, a, b) = {} /\ a < b /\ w[a].type \in {"BANG", "MINUS"}
    BY <1>0, <1>8, UnaryOuter
  <2>2. ns[i].kind = "UnaryOp" /\ ns[i].type = w[a].type /\ ns[i].kids = <<j>>
    BY <1>8 DEF UnaryAt
  <2>3. TextAt(ns, text, i) = UnaryText(w[a].type, text[j])
    BY <2>2 DEF TextAt
  <2>4. TreeAt(tree, <<a, b>>) = UnaryText(w[a].type, tree[<<a + 1, b>>])
    BY <1>6, <2>1 DEF TreeAt, w
  <2> QED BY <1>5, <1>6, <1>8, <2>3, <2>4
<1>9. ASSUME NEW i \in DOMAIN ns, NEW a \in 1 .. Len(w), NEW b \in 1 .. Len(w),
             GroupAt(w, a, b), Same(i, a + 1, b - 1)
      PROVE  Same(i, a, b)
  <2>1. OuterOps(w, a, b) = {} /\ a < b /\ w[a].type = "LEFT_PAREN"
    BY <1>0, <1>9, GroupOuter
  <2>2. TreeAt(tree, <<a, b>>) = tree[<<a + 1, b - 1>>]
    BY <1>6, <2>1 DEF TreeAt, w
  <2> QED BY <1>6, <1>9, <2>2
<1>10. ASSUME NEW g \in DOMAIN ns, NEW i \in DOMAIN ns, NEW j \in DOMAIN ns,
              NEW a \in 1 .. Len(w), NEW m \in 1 .. Len(w), NEW b \in 1 .. Len(w),
              BinaryAt(ns, w, g, i, j, a, m, b),
              Same(i, a, m - 1), Same(j, m + 1, b)
       PROVE  Same(g, a, b)
  <2>1. OuterOps(w, a, b) # {} /\ RootOf(w, OuterOps(w, a, b)) = m
    BY <1>0, <1>10, BinaryOuter
  <2>2. ns[g].kind = "BinaryOp" /\ ns[g].type = w[m].type /\ ns[g].kids = <<i, j>>
    BY <1>10 DEF BinaryAt
  <2>3. TextAt(ns, text, g) = BinaryText(w[m].type, text[i], text[j])
    BY <2>2 DEF TextAt
  <2>4. TreeAt(tree, <<a, b>>)
          = BinaryText(w[m].type, tree[<<a, m - 1>>], tree[<<m + 1, b>>])
    BY <1>6, <2>1 DEF TreeAt, w
  <2> QED BY <1>5, <1>6, <1>10, <2>3, <2>4
<1> HIDE DEF Same
<1>11. Rules(ns, w, R)
  BY <1>1, <1>3, <1>7, <1>8, <1>9, <1>10 DEF Rules
<1>12. R \in SUBSET Triples(ns, w)
  BY <1>2
<1>13. <<k, lo, hi>> \in R
  BY <1>11, <1>12 DEF TreeOf, w
<1> QED BY <1>3, <1>13 DEF Same, text, tree

-----------------------------------------------------------------------------
LEMMA PrecIsPrecedence == ParserInv /\ PrecInv => ParsesByPrecedence
<1> SUFFICES ASSUME ParserInv, PrecInv, outcome # "parsing", IsExprStatement(toks)
             PROVE  \/ NegatesName(toks) /\ outcome = "ABORT"
                    \/ /\ ~ NegatesName(toks) /\ outcome = "DONE"
                       /\ Len(stmts) = 1
                       /\ Parenthesised(nodes)[stmts[1]] = ByPrecedence
  BY DEF ParsesByPrecedence
<1>1. toks \in Seq(Token) /\ Heap(nodes) /\ Len(stmts) \in Nat
  BY LenProperties DEF ParserInv, TypeOK
<1>2. PICK n : n = Len(toks) - 1
  OBVIOUS
<1>3. /\ n \in Nat /\ n >= 1 /\ Len(toks) = n + 1
      /\ toks[Len(toks)].type = "SEMICOLON"
      /\ StartsAt(toks, 1)
      /\ \A s : Reached(toks, s) => s = 1 \/ s = n + 2
      /\ \A s, e : PlainAt(toks, s, e) => s = 1 /\ e = n
      /\ Plainly(toks)
  BY <1>1, <1>2, OneStatement
<1>4. NegatesName(toks) <=>
        \E p, r \in 1 .. Len(toks) : Prefixed(toks, p) /\ Wraps(toks, p + 1, r)
  <2>1. Len(toks) >= 1
    BY <1>3
  <2> QED BY <1>1, <1>3, <2>1, NegatesIs
<1>5. outcome # "EXIT" \/ ~ \E s : PlainAt(toks, s, Len(toks))
  BY <1>3
<1>6. CASE /\ outcome = "ABORT"
           /\ \E p, r \in 1 .. Len(toks) : Prefixed(toks, p) /\ Wraps(toks, p + 1, r)
  BY <1>4, <1>6
<1>7. CASE /\ outcome = "DONE"
           /\ \E s : /\ Reached(toks, s) /\ ~ StartsAt(toks, s)
                     /\ Laid(nodes, toks, stmts, s)
  <2>1. Laid(nodes, toks, stmts, n + 2)
    BY <1>3, <1>7
  <2>2. Len(stmts) = 1 /\ TreeOf(nodes, toks, stmts[1], 1, n)
    BY <1>1, <1>2, <2>1, LaidOne
  <2>3. Parenthesised(nodes)[stmts[1]] = ByPrecedence
    BY <1>1, <1>2, <2>2, TreeText DEF ByPrecedence
  <2>4. ~ NegatesName(toks)
    <3> SUFFICES ASSUME NEW p \in 1 .. Len(toks), NEW r \in 1 .. Len(toks),
                        Prefixed(toks, p), Wraps(toks, p + 1, r)
                 PROVE  FALSE
      BY <1>4
    <3>1. Named(nodes, toks, stmts[1], 1, n)
      BY <1>1, <2>2, TreeNamed
    <3>2. p # n + 1
      BY <1>3 DEF Prefixed
    <3>3. p \in 1 .. n
      BY <1>3, <3>2
    <3> QED BY <3>1, <3>3 DEF Named
  <2> QED BY <1>7, <2>2, <2>3, <2>4
<1> QED BY <1>3, <1>5, <1>6, <1>7 DEF PrecInv

\* The recursion of parse_expr with its precedence argument builds the tree
\* that the table of infix precedences defines, for every expression of
\* literals, operators and parentheses, however long and however nested; it
\* stops the process where a prefix operator is applied to a name, bare or in
\* parentheses, and nowhere else.
THEOREM ParserByPrecedence == Spec => []ParsesByPrecedence
<1>1. ParserInv /\ PrecInv => ParsesByPrecedence
  BY PrecIsPrecedence
<1> QED BY <1>1, ParserPrecInvariant, PTL
=============================================================================
