--------------------------- MODULE ScannerProofs ----------------------------
(***************************************************************************)
(* Theorems about the scanner, for arrays of any length and content.       *)
(***************************************************************************)
EXTENDS ScannerProps, DataLemmas, FiniteSetTheorems

Singles == DOMAIN SINGLE_CHAR_TOKEN
Quote   == "\""

\* The kinds of characters that the switch distinguishes.
LEMMA Kinds ==
  /\ Letters \cap Digits = {} /\ Letters \cap Blanks = {}
  /\ Letters \cap Singles = {} /\ Digits \cap Blanks = {}
  /\ Digits \cap Singles = {} /\ Blanks \cap Singles = {}
  /\ {NUL, Quote, "#"} \cap (Letters \cup Digits \cup Blanks \cup Singles) = {}
  /\ "\n" \in Blanks /\ NUL # Quote /\ NUL # "#" /\ Quote # "#"
  /\ "^" \notin Letters /\ "$" \notin Letters
<1>1. Singles = {"+", "-", "/", "*", "=", "!", ",", ":", ";", "(", ")",
                 "{", "}", "[", "]"}
  BY DEF Singles, SINGLE_CHAR_TOKEN
<1>2. /\ Letters \cap Digits = {} /\ Letters \cap Blanks = {}
      /\ "^" \notin Letters /\ "$" \notin Letters
  BY DEF Letters, Digits, Blanks
<1>3. Letters \cap Singles = {}
  BY <1>1 DEF Letters
<1>4. Digits \cap Blanks = {} /\ Digits \cap Singles = {} /\ Blanks \cap Singles = {}
  BY <1>1 DEF Digits, Blanks
<1>5. {NUL, Quote, "#"} \cap (Letters \cup Digits \cup Blanks \cup Singles) = {}
  BY <1>1 DEF NUL, Quote, Letters, Digits, Blanks
<1>6. "\n" \in Blanks /\ NUL # Quote /\ NUL # "#" /\ Quote # "#"
  BY DEF NUL, Quote, Blanks
<1> QED BY <1>2, <1>3, <1>4, <1>5, <1>6

-----------------------------------------------------------------------------
\* Keywords.

Pattern(kw) == <<"^">> \o kw \o <<"$">>

LEMMA PatternIs ==
  ASSUME NEW kw \in Seq(Letters)
  PROVE  /\ Len(kw) \in Nat
         /\ Len(Pattern(kw)) = Len(kw) + 2
         /\ Pattern(kw)[1] = "^" /\ Pattern(kw)[Len(kw) + 2] = "$"
         /\ \A i \in 1 .. Len(kw) : /\ Pattern(kw)[i + 1] = kw[i]
                                   /\ kw[i] # "^" /\ kw[i] # "$"
<1> DEFINE S == Letters \cup {"^", "$"}
<1>1. kw \in Seq(S) /\ Len(kw) \in Nat /\ <<"^">> \in Seq(S)
      /\ <<"$">> \in Seq(S) /\ Len(<<"^">>) = 1 /\ Len(<<"$">>) = 1
  <2>1. Len(kw) \in Nat /\ \A i \in 1 .. Len(kw) : kw[i] \in Letters
    BY LenProperties, ElementOfSeq
  <2>2. kw \in Seq(S)
    BY <2>1
  <2> QED BY <2>1, <2>2
<1>0. \A i \in 1 .. Len(kw) : kw[i] \in Letters
  BY LenProperties, ElementOfSeq
<1> HIDE DEF S
<1> DEFINE a == <<"^">> \o kw
<1>2. /\ a \in Seq(S) /\ Len(a) = 1 + Len(kw)
      /\ \A i \in 1 .. 1 + Len(kw) : a[i] = IF i <= 1 THEN <<"^">>[i] ELSE kw[i - 1]
  BY <1>1, ConcatProperties
<1> HIDE DEF a
<1>3. /\ a \o <<"$">> \in Seq(S) /\ Len(a \o <<"$">>) = Len(a) + 1
      /\ \A i \in 1 .. Len(a) + 1 : (a \o <<"$">>)[i] = IF i <= Len(a) THEN a[i] ELSE <<"$">>[i - Len(a)]
  BY <1>1, <1>2, ConcatProperties
<1>4. Pattern(kw) = a \o <<"$">>
  BY DEF Pattern, a
<1>5. \A i \in 1 .. Len(kw) : kw[i] # "^" /\ kw[i] # "$"
  BY <1>0, Kinds
<1>6. /\ Pattern(kw)[1] = "^" /\ Pattern(kw)[Len(kw) + 2] = "$"
      /\ \A i \in 1 .. Len(kw) : Pattern(kw)[i + 1] = kw[i]
  BY <1>1, <1>2, <1>3, <1>4
<1> QED BY <1>1, <1>2, <1>3, <1>4, <1>5, <1>6

\* The first p characters of kw and of s are the same.
Agree(kw, s, p) == p <= Len(s) /\ \A k \in 1 .. p : kw[k] = s[k]

LEMMA TakenOf ==
  ASSUME NEW kw \in Seq(Letters), NEW i \in 1 .. Len(kw) + 3
  PROVE  taken(Pattern(kw), i) = CASE i = 1 -> 0
                                   [] i = Len(kw) + 3 -> Len(kw)
                                   [] OTHER -> i - 2
<1> DEFINE re == Pattern(kw)
           m  == Len(kw)
           S  == {k \in 1 .. i - 1 : re[k] \notin {"^", "$"}}
<1>1. /\ m \in Nat /\ Len(re) = m + 2 /\ re[1] = "^" /\ re[m + 2] = "$"
      /\ \A k \in 1 .. m : re[k + 1] = kw[k] /\ kw[k] # "^" /\ kw[k] # "$"
  BY PatternIs
<1> HIDE DEF re, m
<1>2. \A k \in 2 .. m + 1 : re[k] \notin {"^", "$"}
  <2> TAKE k \in 2 .. m + 1
  <2>1. k - 1 \in 1 .. m /\ (k - 1) + 1 = k
    BY <1>1
  <2>2. re[k] = kw[k - 1] /\ kw[k - 1] # "^" /\ kw[k - 1] # "$"
    BY <1>1, <2>1
  <2> QED BY <2>2
<1>3. i \in 1 .. m + 3
  BY DEF m
<1>4. CASE i = m + 3
  <2>1. S = 2 .. m + 1
    BY <1>1, <1>2, <1>4
  <2>2. Cardinality(2 .. m + 1) = IF 2 > m + 1 THEN 0 ELSE (m + 1) - 2 + 1
    BY <1>1, FS_Interval
  <2>3. Cardinality(S) = m
    <3> HIDE DEF S
    <3>1. m = 0 \/ ~ (2 > m + 1)
      BY <1>1
    <3>2. 2 > 0 + 1 /\ (m + 1) - 2 + 1 = m
      BY <1>1
    <3> QED BY <2>1, <2>2, <3>1, <3>2
  <2>4. i # 1
    BY <1>1, <1>4
  <2> QED BY <1>4, <2>3, <2>4 DEF taken, re, m
<1>5. CASE i # m + 3
  <2>1. S = 2 .. i - 1
    BY <1>1, <1>2, <1>3, <1>5
  <2>2. Cardinality(2 .. i - 1) = IF 2 > i - 1 THEN 0 ELSE (i - 1) - 2 + 1
    BY <1>1, <1>3, FS_Interval
  <2>3. Cardinality(S) = IF i = 1 THEN 0 ELSE i - 2
    <3> HIDE DEF S
    <3>1. i \in Int /\ i > 0
      BY <1>1, <1>3
    <3>2. i \in {1, 2} \/ ~ (2 > i - 1)
      BY <3>1
    <3>3. (i - 1) - 2 + 1 = i - 2
      BY <3>1
    <3> QED BY <2>1, <2>2, <3>1, <3>2, <3>3
  <2> QED BY <1>5, <2>3 DEF taken, re, m
<1> QED BY <1>4, <1>5

LEMMA BarMatches ==
  ASSUME NEW kw \in Seq(Letters), NEW s, Len(s) \in Nat
  PROVE  bar(Pattern(kw), s) >= 0 <=> Len(s) = Len(kw) /\ Agree(kw, s, Len(kw))
<1> DEFINE re == Pattern(kw)
           m  == Len(kw)
<1>1. /\ m \in Nat /\ Len(re) = m + 2 /\ re[1] = "^" /\ re[m + 2] = "$"
      /\ \A k \in 1 .. m : re[k + 1] = kw[k] /\ kw[k] # "^" /\ kw[k] # "$"
      /\ DOMAIN re = 1 .. m + 2
  <2>1. re \in Seq(Letters \cup {"^", "$"})
    <3>1. \A k \in 1 .. Len(kw) : kw[k] \in Letters
      BY ElementOfSeq
    <3> QED BY <3>1 DEF Pattern
  <2> QED BY <2>1, PatternIs, LenProperties
<1>2. /\ taken(re, 1) = 0 /\ taken(re, m + 2) = m /\ taken(re, m + 3) = m
      /\ \A k \in 1 .. m : taken(re, k + 1) = k - 1
  <2>1. \A i \in 1 .. m + 3 :
          taken(re, i) = CASE i = 1 -> 0 [] i = m + 3 -> m [] OTHER -> i - 2
    BY TakenOf
  <2> HIDE DEF re, m
  <2>2. /\ taken(re, 1) = 0 /\ taken(re, m + 3) = m
    BY <1>1, <2>1
  <2>3. taken(re, m + 2) = m
    <3>1. PICK i : i = m + 2
      OBVIOUS
    <3>2. i \in 1 .. m + 3 /\ i # 1 /\ i # m + 3 /\ i - 2 = m
      BY <1>1, <3>1
    <3> QED BY <2>1, <3>1, <3>2
  <2>4. ASSUME NEW k \in 1 .. m
        PROVE  taken(re, k + 1) = k - 1
    <3>1. PICK i : i = k + 1
      OBVIOUS
    <3>2. i \in 1 .. m + 3 /\ i # 1 /\ i # m + 3 /\ i - 2 = k - 1
      BY <1>1, <3>1
    <3> QED BY <2>1, <3>1, <3>2
  <2> QED BY <2>2, <2>3, <2>4
<1>3. bar(re, s) = IF \A i \in DOMAIN re : fits(re, s, i)
                   THEN taken(re, Len(re) + 1) ELSE SLRE_NO_MATCH
  <2> HIDE DEF re
  <2> QED BY DEF bar, fits, taken
<1> HIDE DEF re, m
<1>4. bar(re, s) >= 0 <=> \A i \in 1 .. m + 2 : fits(re, s, i)
  <2>1. Len(re) + 1 = m + 3
    BY <1>1
  <2> QED BY <1>1, <1>2, <1>3, <2>1 DEF SLRE_NO_MATCH
<1>5. fits(re, s, 1)
  BY <1>1, <1>2 DEF fits
<1>6. fits(re, s, m + 2) <=> m = Len(s)
  <2>1. re[m + 2] = "$" /\ re[m + 2] # "^"
    BY <1>1
  <2> QED BY <1>2, <2>1 DEF fits
<1>7. ASSUME NEW k \in 1 .. m
      PROVE  fits(re, s, k + 1) <=> k <= Len(s) /\ kw[k] = s[k]
  <2>1. re[k + 1] = kw[k] /\ re[k + 1] # "^" /\ re[k + 1] # "$"
    BY <1>1
  <2>2. taken(re, k + 1) = k - 1 /\ (k - 1) + 1 = k
        /\ (k - 1 < Len(s) <=> k <= Len(s))
    BY <1>1, <1>2
  <2> QED BY <2>1, <2>2 DEF fits
<1>8. (\A i \in 1 .. m + 2 : fits(re, s, i)) <=>
        m = Len(s) /\ \A k \in 1 .. m : k <= Len(s) /\ kw[k] = s[k]
  <2>1. ASSUME \A i \in 1 .. m + 2 : fits(re, s, i)
        PROVE  m = Len(s) /\ \A k \in 1 .. m : k <= Len(s) /\ kw[k] = s[k]
    <3>1. m + 2 \in 1 .. m + 2 /\ \A k \in 1 .. m : k + 1 \in 1 .. m + 2
      BY <1>1
    <3>2. fits(re, s, m + 2) /\ \A k \in 1 .. m : fits(re, s, k + 1)
      BY <2>1, <3>1
    <3> QED BY <1>6, <1>7, <3>2
  <2>2. ASSUME m = Len(s), \A k \in 1 .. m : k <= Len(s) /\ kw[k] = s[k],
               NEW i \in 1 .. m + 2
        PROVE  fits(re, s, i)
    <3>1. CASE i = 1
      BY <1>5, <3>1
    <3>2. CASE i = m + 2
      BY <1>6, <2>2, <3>2
    <3>3. CASE i # 1 /\ i # m + 2
      <4>1. PICK k : k = i - 1
        OBVIOUS
      <4>2. k \in 1 .. m /\ k + 1 = i
        BY <1>1, <3>3, <4>1
      <4> QED BY <1>7, <2>2, <4>2
    <3> QED BY <3>1, <3>2, <3>3
  <2> QED BY <2>1, <2>2
<1>9. (\A k \in 1 .. m : k <= Len(s) /\ kw[k] = s[k]) <=> Agree(kw, s, m) \/ m = 0
  <2>1. (\A k \in 1 .. m : k <= Len(s)) <=> m <= Len(s)
    BY <1>1
  <2> QED BY <1>1, <2>1 DEF Agree
<1>10. m = 0 /\ m = Len(s) => Agree(kw, s, m)
  BY <1>1 DEF Agree
<1> QED BY <1>4, <1>8, <1>9, <1>10 DEF re, m

\* A keyword's pattern matches the keyword and nothing else.
LEMMA MatchIsEqual ==
  ASSUME NEW S, NEW kw \in Seq(Letters), NEW w \in Seq(S)
  PROVE  re_match(w, Pattern(kw)) <=> w = kw
<1>1. Len(kw) \in Nat /\ Len(w) \in Nat /\ Pattern(kw)[1] = "^"
  BY PatternIs, LenProperties
<1>2. SubSeq(w, 1, Len(w)) = w
  <2>1. /\ SubSeq(w, 1, Len(w)) \in Seq(S)
        /\ Len(SubSeq(w, 1, Len(w))) = IF 1 <= Len(w) THEN Len(w) - 1 + 1 ELSE 0
        /\ \A i \in 1 .. Len(w) - 1 + 1 : SubSeq(w, 1, Len(w))[i] = w[1 + i - 1]
    <3>1. \A i \in 1 .. Len(w) : w[i] \in S
      BY ElementOfSeq
    <3> QED BY <1>1, <3>1, SubSeqProperties
  <2> QED BY <1>1, <2>1, SeqEqual
<1>3. re_match(w, Pattern(kw)) <=> bar(Pattern(kw), w) >= 0
  <2>1. Tries(Pattern(kw), w) = {0}
    BY <1>1 DEF Tries
  <2>2. re_match(w, Pattern(kw)) <=> bar(Pattern(kw), SubSeq(w, 1, Len(w))) >= 0
    BY <2>1 DEF re_match
  <2> QED BY <1>2, <2>2
<1>4. bar(Pattern(kw), w) >= 0 <=> Len(w) = Len(kw) /\ Agree(kw, w, Len(kw))
  BY <1>1, BarMatches
<1>5. Len(w) = Len(kw) /\ Agree(kw, w, Len(kw)) <=> w = kw
  <2>1. ASSUME Len(w) = Len(kw), Agree(kw, w, Len(kw))
        PROVE  w = kw
    <3>1. \A k \in 1 .. Len(kw) : w[k] = kw[k]
      BY <2>1 DEF Agree
    <3>2. w \in Seq(S \cup Letters) /\ kw \in Seq(S \cup Letters)
      <4>1. \A k \in 1 .. Len(w) : w[k] \in S \cup Letters
        BY ElementOfSeq
      <4>2. \A k \in 1 .. Len(kw) : kw[k] \in S \cup Letters
        BY ElementOfSeq
      <4>3. w \in Seq(S \cup Letters)
        BY <4>1
      <4>4. kw \in Seq(S \cup Letters)
        BY <4>2
      <4> QED BY <4>3, <4>4
    <3> QED BY <2>1, <3>1, <3>2, SeqEqual
  <2>2. kw = w => Len(w) = Len(kw) /\ Agree(kw, w, Len(kw))
    BY <1>1 DEF Agree
  <2> QED BY <2>1, <2>2
<1> QED BY <1>3, <1>4, <1>5

LEMMA KwWords ==
  /\ DOMAIN KW_MATCH = 1 .. 13
  /\ \A k \in 1 .. 13 : KW_MATCH[k][2] \in Seq(Letters)
<1>1. DOMAIN KW_MATCH = 1 .. 13
  BY DEF KW_MATCH
<1>2. {"a", "c", "d", "e", "f", "i", "l", "m", "n", "o", "p", "r", "s", "t",
       "u", "v", "T", "F"} \subseteq Letters
  BY DEF Letters
<1>3. ASSUME NEW k \in 1 .. 13
      PROVE  KW_MATCH[k][2] \in Seq(Letters)
  <2>1. CASE k = 1
    BY <1>2, <2>1 DEF KW_MATCH
  <2>2. CASE k = 2
    BY <1>2, <2>2 DEF KW_MATCH
  <2>3. CASE k = 3
    BY <1>2, <2>3 DEF KW_MATCH
  <2>4. CASE k = 4
    BY <1>2, <2>4 DEF KW_MATCH
  <2>5. CASE k = 5
    BY <1>2, <2>5 DEF KW_MATCH
  <2>6. CASE k = 6
    BY <1>2, <2>6 DEF KW_MATCH
  <2>7. CASE k = 7
    BY <1>2, <2>7 DEF KW_MATCH
  <2>8. CASE k = 8
    BY <1>2, <2>8 DEF KW_MATCH
  <2>9. CASE k = 9
    BY <1>2, <2>9 DEF KW_MATCH
  <2>10. CASE k = 10
    BY <1>2, <2>10 DEF KW_MATCH
  <2>11. CASE k = 11
    BY <1>2, <2>11 DEF KW_MATCH
  <2>12. CASE k = 12
    BY <1>2, <2>12 DEF KW_MATCH
  <2>13. CASE k = 13
    BY <1>2, <2>13 DEF KW_MATCH
  <2>14. k = 1 \/ k = 2 \/ k = 3 \/ k = 4 \/ k = 5 \/ k = 6 \/ k = 7
         \/ k = 8 \/ k = 9 \/ k = 10 \/ k = 11 \/ k = 12 \/ k = 13
    OBVIOUS
  <2> QED BY <2>1, <2>2, <2>3, <2>4, <2>5, <2>6, <2>7, <2>8, <2>9, <2>10, <2>11, <2>12, <2>13, <2>14
<1> QED BY <1>1, <1>3

\* No word is two keywords.
LEMMA KwDistinct ==
  \A i, j \in 1 .. 13 : KW_MATCH[i][2] = KW_MATCH[j][2] => i = j
<1> DEFINE L == <<3, 4, 3, 2, 3, 3, 2, 2, 5, 3, 2, 4, 5>>
           A == <<"a", "e", "c", "f", "f", "v", "i", "o", "p", "r", "t", "T", "F">>
<1>1. \A k \in 1 .. 13 :
        Len(KW_MATCH[k][2]) = L[k] /\ KW_MATCH[k][2][1] = A[k]
  <2> TAKE k \in 1 .. 13
  <2>1. CASE k = 1
    BY <2>1 DEF KW_MATCH
  <2>2. CASE k = 2
    BY <2>2 DEF KW_MATCH
  <2>3. CASE k = 3
    BY <2>3 DEF KW_MATCH
  <2>4. CASE k = 4
    BY <2>4 DEF KW_MATCH
  <2>5. CASE k = 5
    BY <2>5 DEF KW_MATCH
  <2>6. CASE k = 6
    BY <2>6 DEF KW_MATCH
  <2>7. CASE k = 7
    BY <2>7 DEF KW_MATCH
  <2>8. CASE k = 8
    BY <2>8 DEF KW_MATCH
  <2>9. CASE k = 9
    BY <2>9 DEF KW_MATCH
  <2>10. CASE k = 10
    BY <2>10 DEF KW_MATCH
  <2>11. CASE k = 11
    BY <2>11 DEF KW_MATCH
  <2>12. CASE k = 12
    BY <2>12 DEF KW_MATCH
  <2>13. CASE k = 13
    BY <2>13 DEF KW_MATCH
  <2>14. k = 1 \/ k = 2 \/ k = 3 \/ k = 4 \/ k = 5 \/ k = 6 \/ k = 7
         \/ k = 8 \/ k = 9 \/ k = 10 \/ k = 11 \/ k = 12 \/ k = 13
    OBVIOUS
  <2> QED BY <2>1, <2>2, <2>3, <2>4, <2>5, <2>6, <2>7, <2>8, <2>9, <2>10, <2>11, <2>12, <2>13, <2>14
<1>2. \A i, j \in 1 .. 13 : L[i] = L[j] /\ A[i] = A[j] => i = j
  <2> TAKE i, j \in 1 .. 13
  <2>1. \/ i = 1 \/ i = 2 \/ i = 3 \/ i = 4 \/ i = 5 \/ i = 6 \/ i = 7
        \/ i = 8 \/ i = 9 \/ i = 10 \/ i = 11 \/ i = 12 \/ i = 13
    OBVIOUS
  <2>2. \/ j = 1 \/ j = 2 \/ j = 3 \/ j = 4 \/ j = 5 \/ j = 6 \/ j = 7
        \/ j = 8 \/ j = 9 \/ j = 10 \/ j = 11 \/ j = 12 \/ j = 13
    OBVIOUS
  <2> QED BY <2>1, <2>2
<1> HIDE DEF L, A
<1>3. ASSUME NEW i \in 1 .. 13, NEW j \in 1 .. 13,
             KW_MATCH[i][2] = KW_MATCH[j][2]
      PROVE  i = j
  <2>1. /\ Len(KW_MATCH[i][2]) = L[i] /\ Len(KW_MATCH[j][2]) = L[j]
        /\ KW_MATCH[i][2][1] = A[i] /\ KW_MATCH[j][2][1] = A[j]
    BY <1>1
  <2>2. L[i] = L[j] /\ A[i] = A[j]
    BY <1>3, <2>1
  <2> QED BY <1>2, <2>2
<1> QED BY <1>3

\* A word is given the type of the keyword it is, or that of a name.
LEMMA KeywordType ==
  ASSUME NEW S, NEW w \in Seq(S)
  PROVE  getKeywordTokenType(w) = WordType(w)
<1> DEFINE hits == {k \in DOMAIN KW_MATCH : re_match(w, Pattern(KW_MATCH[k][2]))}
           first == CHOOSE k \in hits : \A h \in hits : k <= h
<1>1. hits = {k \in 1 .. 13 : w = KW_MATCH[k][2]}
  <2>1. \A k \in 1 .. 13 : re_match(w, Pattern(KW_MATCH[k][2])) <=> w = KW_MATCH[k][2]
    BY KwWords, MatchIsEqual
  <2> QED BY <2>1, KwWords
<1>2. getKeywordTokenType(w) = IF hits = {} THEN "ID" ELSE KW_MATCH[first][1]
  BY DEF getKeywordTokenType, Pattern
<1>3. CASE hits = {}
  <2>1. ~ \E k \in DOMAIN KW_MATCH : KW_MATCH[k][2] = w
    BY <1>1, <1>3, KwWords
  <2> QED BY <1>2, <1>3, <2>1 DEF WordType
<1>4. CASE hits # {}
  <2>1. PICK k \in hits : \A h \in hits : k <= h
    <3>1. hits \subseteq Nat
      BY <1>1
    <3> HIDE DEF hits
    <3> QED BY <1>4, <3>1, LeastNumber
  <2>2. first \in hits
    <3> HIDE DEF hits
    <3> QED BY <2>1
  <2> DEFINE kw == CHOOSE x \in Range(KW_MATCH) : x[2] = w
  <2>3. KW_MATCH[first] \in Range(KW_MATCH) /\ KW_MATCH[first][2] = w
        /\ first \in 1 .. 13
    <3> HIDE DEF first
    <3> QED BY <1>1, <2>2, KwWords DEF Range
  <2>4. kw \in Range(KW_MATCH) /\ kw[2] = w
    <3> HIDE DEF first
    <3> QED BY <2>3
  <2> HIDE DEF kw
  <2>5. PICK n \in 1 .. 13 : kw = KW_MATCH[n]
    BY <2>4, KwWords DEF Range
  <2>6. n = first
    <3> HIDE DEF first
    <3> QED BY <2>3, <2>4, <2>5, KwDistinct
  <2>7. WordType(w) = kw[1]
    <3>1. \E i \in DOMAIN KW_MATCH : KW_MATCH[i][2] = w
      <4> HIDE DEF first
      <4> QED BY <2>3, KwWords
    <3> QED BY <3>1 DEF WordType, kw
  <2> QED BY <1>2, <1>4, <2>5, <2>6, <2>7
<1> QED BY <1>3, <1>4

LEMMA TypesOfTokens ==
  /\ "NUM" \in ScanTypes /\ "STRING" \in ScanTypes
  /\ \A c \in Singles : SINGLE_CHAR_TOKEN[c] \in ScanTypes
  /\ \A w \in Seq(STRING) : getKeywordTokenType(w) \in ScanTypes
<1>1. \A c \in Singles : SINGLE_CHAR_TOKEN[c] \in ScanTypes
  BY DEF ScanTypes, Range, Singles
<1>2. ASSUME NEW w \in Seq(STRING)
      PROVE  getKeywordTokenType(w) \in ScanTypes
  <2>1. getKeywordTokenType(w) = WordType(w)
    BY KeywordType
  <2>2. CASE \E k \in DOMAIN KW_MATCH : KW_MATCH[k][2] = w
    <3> DEFINE kw == CHOOSE x \in Range(KW_MATCH) : x[2] = w
    <3>1. \E x \in Range(KW_MATCH) : x[2] = w
      BY <2>2 DEF Range
    <3>2. kw \in Range(KW_MATCH)
      BY <3>1
    <3>3. WordType(w) = kw[1]
      BY <2>2 DEF WordType
    <3> HIDE DEF kw
    <3>4. PICK n \in DOMAIN KW_MATCH : kw = KW_MATCH[n]
      BY <3>2 DEF Range
    <3> QED BY <2>1, <3>3, <3>4 DEF ScanTypes
  <2>3. CASE ~ \E k \in DOMAIN KW_MATCH : KW_MATCH[k][2] = w
    BY <2>1, <2>3 DEF WordType, ScanTypes
  <2> QED BY <2>2, <2>3
<1> QED BY <1>1, <1>2 DEF ScanTypes

-----------------------------------------------------------------------------
(***************************************************************************)
(* TypeOK is not inductive: that a token's position is not negative rests  *)
(* on the letters of its word, which linepos has counted, and that a word  *)
(* has one on the letter that BeginWord saw.                               *)
(***************************************************************************)

TokenRecord ==
  [type : ScanTypes, str : Seq(STRING), lineno : Nat, linepos : Nat]

TypeInv ==
  /\ buf \in Seq(STRING)
  /\ TypeOK
  /\ tokens \in Seq(TokenRecord)
  /\ word \in Seq(STRING)
  /\ in \in {"id", "num"} =>
       /\ Len(word) <= linepos
       /\ word = << >> => srcbuf <= Len(buf) /\ ch \in WordChars[in]

LEMMA TokAppended ==
  ASSUME TypeInv, NEW type \in ScanTypes, NEW str \in Seq(STRING),
         NEW pos \in 0 .. Len(buf), tok(type, str, pos),
         lineno' \in Nat, lineno <= lineno', buf' = buf
  PROVE  /\ tokens' \in Seq(TokenRecord)
         /\ \A i \in DOMAIN tokens' :
              /\ tokens'[i].type \in ScanTypes
              /\ tokens'[i].lineno \in 0 .. lineno'
              /\ tokens'[i].linepos \in 0 .. Len(buf')
<1> DEFINE t == [type |-> type, str |-> str, lineno |-> lineno, linepos |-> pos]
<1>1. lineno \in Nat /\ Len(buf) \in Nat /\ tokens \in Seq(TokenRecord)
  BY LenProperties DEF TypeInv, TypeOK
<1>2. t \in TokenRecord
  BY <1>1 DEF TokenRecord
<1>3. /\ tokens' = Append(tokens, t)
      /\ t.type = type /\ t.lineno = lineno /\ t.linepos = pos
  BY DEF tok
<1> HIDE DEF t
<1>4. /\ tokens' \in Seq(TokenRecord) /\ Len(tokens) \in Nat
      /\ DOMAIN tokens' = 1 .. Len(tokens) + 1 /\ DOMAIN tokens = 1 .. Len(tokens)
      /\ \A i \in 1 .. Len(tokens) : tokens'[i] = tokens[i]
      /\ tokens'[Len(tokens) + 1] = t
  <2>1. Append(tokens, t) \in Seq(TokenRecord)
    BY <1>1, <1>2
  <2> QED BY <1>1, <1>2, <1>3, <2>1, AppendProperties, LenProperties
<1>5. ASSUME NEW i \in DOMAIN tokens'
      PROVE  /\ tokens'[i].type \in ScanTypes
             /\ tokens'[i].lineno \in 0 .. lineno'
             /\ tokens'[i].linepos \in 0 .. Len(buf')
  <2>1. CASE i = Len(tokens) + 1
    BY <1>1, <1>3, <1>4, <2>1
  <2>2. CASE i \in DOMAIN tokens
    <3>1. /\ tokens[i].type \in ScanTypes /\ tokens[i].lineno \in 0 .. lineno
          /\ tokens[i].linepos \in 0 .. Len(buf)
      BY <2>2 DEF TypeInv, TypeOK
    <3> QED BY <1>1, <1>4, <2>2, <3>1
  <2> QED BY <1>4, <1>5, <2>1, <2>2
<1> QED BY <1>4, <1>5

LEMMA TypeInvInit == Init => TypeInv
<1> SUFFICES ASSUME Init PROVE TypeInv
  OBVIOUS
<1>1. buf \in Seq(STRING) /\ Len(buf) \in Nat
  BY BuffersAssumption, LenProperties DEF Init
<1>2. << >> \in Seq(TokenRecord) /\ << >> \in Seq(STRING) /\ Len(<< >>) = 0
      /\ DOMAIN << >> = {}
  OBVIOUS
<1> QED BY <1>1, <1>2 DEF Init, TypeInv, TypeOK

\* The character at the pointer.
LEMMA Char ==
  ASSUME TypeInv, NEW loop, Reading(loop)
  PROVE  /\ srcbuf \in 1 .. Len(buf) /\ Len(buf) \in Nat
         /\ ch \in STRING /\ <<ch>> \in Seq(STRING)
         /\ in = loop /\ scan = "scanning"
         /\ Append(word, ch) \in Seq(STRING)
         /\ Append(word, ch) # << >>
         /\ Len(Append(word, ch)) = Len(word) + 1 /\ Len(word) \in Nat
<1>1. srcbuf \in 1 .. Len(buf) /\ Len(buf) \in Nat /\ buf \in Seq(STRING)
  BY LenProperties DEF TypeInv, TypeOK, Reading
<1>2. ch \in STRING
  BY <1>1, ElementOfSeq DEF ch
<1>3. <<ch>> \in Seq(STRING)
  BY <1>2, Tuples
<1>4. /\ Append(word, ch) \in Seq(STRING) /\ Append(word, ch) # << >>
      /\ Len(Append(word, ch)) = Len(word) + 1 /\ Len(word) \in Nat
  BY <1>2, AppendProperties, LenProperties DEF TypeInv
<1> QED BY <1>1, <1>2, <1>3, <1>4 DEF Reading

LEMMA TypeInvStep == TypeInv /\ [Next]_scanVars => TypeInv'
<1> SUFFICES ASSUME TypeInv, [Next]_scanVars PROVE TypeInv'
  OBVIOUS
<1> USE DEF Keep, Continue, Push, advance
<1>1. CASE EndScan \/ Unimplemented \/ ReadOutside \/ UNCHANGED scanVars
  BY <1>1 DEF EndScan, Unimplemented, ReadOutside, scanVars, TypeInv, TypeOK, ch
<1>2. CASE BeginString \/ BeginComment \/ InComment
  <2>1. srcbuf \in 1 .. Len(buf) /\ Len(buf) \in Nat
    BY <1>2, Char DEF BeginString, BeginComment, InComment
  <2>2. /\ buf' = buf /\ scan' = scan /\ tokens' = tokens /\ lineno' = lineno
        /\ word' = word /\ in \in {"switch", "comment"}
        /\ in' \in {"string", "comment"}
        /\ \/ srcbuf' = srcbuf + 1 /\ linepos' = linepos + 1
           \/ srcbuf' = srcbuf /\ linepos' = linepos
    BY <1>2 DEF BeginString, BeginComment, InComment, Reading
  <2>3. word = << >> /\ Len(word) = 0
    BY <2>2 DEF TypeInv, TypeOK
  <2> QED BY <2>1, <2>2, <2>3 DEF TypeInv, TypeOK
<1>3. CASE InString
  <2>1. /\ srcbuf \in 1 .. Len(buf) /\ Len(buf) \in Nat
        /\ Append(word, ch) \in Seq(STRING)
        /\ Len(Append(word, ch)) = Len(word) + 1 /\ Len(word) \in Nat
    BY <1>3, Char DEF InString
  <2>2. /\ buf' = buf /\ scan' = scan /\ in' = in /\ tokens' = tokens
        /\ in = "string" /\ srcbuf' = srcbuf + 1 /\ linepos' = linepos + 1
        /\ lineno' \in {lineno, lineno + 1} /\ word' = Append(word, ch)
    BY <1>3 DEF InString, Reading
  <2> QED BY <2>1, <2>2 DEF TypeInv, TypeOK
<1>4. CASE EndString
  <2>1. srcbuf \in 1 .. Len(buf) /\ Len(buf) \in Nat
    BY <1>4, Char DEF EndString
  <2>5. /\ tok("STRING", word, linepos) /\ lineno' = lineno /\ buf' = buf
        /\ srcbuf' = srcbuf + 1 /\ linepos' = linepos + 1 /\ in' = "switch"
        /\ word' = << >> /\ scan' = scan
    BY <1>4 DEF EndString
  <2>2. linepos \in 0 .. Len(buf) /\ lineno' \in Nat /\ lineno <= lineno'
    BY <2>1, <2>5 DEF TypeInv, TypeOK
  <2>3. /\ tokens' \in Seq(TokenRecord)
        /\ \A i \in DOMAIN tokens' :
             /\ tokens'[i].type \in ScanTypes
             /\ tokens'[i].lineno \in 0 .. lineno'
             /\ tokens'[i].linepos \in 0 .. Len(buf')
    BY <2>2, <2>5, TypesOfTokens, TokAppended DEF TypeInv
  <2>4. << >> \in Seq(STRING) /\ Len(<< >>) = 0
    OBVIOUS
  <2> QED BY <2>1, <2>2, <2>3, <2>4, <2>5 DEF TypeInv, TypeOK
<1>5. CASE EndComment \/ Blank
  <2>1. srcbuf \in 1 .. Len(buf) /\ Len(buf) \in Nat
    BY <1>5, Char DEF EndComment, Blank
  <2>2. /\ buf' = buf /\ scan' = scan /\ in' = "switch" /\ tokens' = tokens
        /\ srcbuf' = srcbuf + 1 /\ linepos' \in {linepos + 1, 1}
        /\ lineno' \in {lineno, lineno + 1} /\ word' \in {word, << >>}
        /\ in \in {"switch", "comment"}
    BY <1>5 DEF EndComment, Blank, Reading
  <2>3. << >> \in Seq(STRING) /\ Len(<< >>) = 0 /\ word' = << >>
    BY <2>2 DEF TypeInv, TypeOK
  <2> QED BY <2>1, <2>2, <2>3 DEF TypeInv, TypeOK
<1>6. CASE BeginWord
  <2>1. srcbuf \in 1 .. Len(buf) /\ Len(buf) \in Nat /\ in = "switch"
    BY <1>6, Char DEF BeginWord
  <2>2. in' \in {"id", "num"} /\ ch \in WordChars[in']
    BY <1>6 DEF BeginWord, WordChars
  <2>3. word = << >> /\ Len(<< >>) = 0
    BY <2>1 DEF TypeInv, TypeOK
  <2>4. /\ buf' = buf /\ scan' = scan /\ tokens' = tokens /\ srcbuf' = srcbuf
        /\ linepos' = linepos /\ lineno' = lineno /\ word' = word
    BY <1>6 DEF BeginWord
  <2>5. ch' = ch
    BY <2>4 DEF ch
  <2>6. TypeOK'
    BY <2>1, <2>2, <2>3, <2>4 DEF TypeInv, TypeOK
  <2> QED BY <2>1, <2>2, <2>3, <2>4, <2>5, <2>6 DEF TypeInv, TypeOK
<1>7. CASE InWord
  <2>1. PICK loop \in {"id", "num"} : Reading(loop) /\ ch \in WordChars[loop]
    BY <1>7 DEF InWord
  <2>2. /\ srcbuf \in 1 .. Len(buf) /\ Len(buf) \in Nat /\ in = loop
        /\ Append(word, ch) \in Seq(STRING) /\ Append(word, ch) # << >>
        /\ Len(Append(word, ch)) = Len(word) + 1 /\ Len(word) \in Nat
    BY <2>1, Char
  <2>3. /\ buf' = buf /\ scan' = scan /\ in' = in /\ tokens' = tokens
        /\ srcbuf' = srcbuf + 1 /\ linepos' = linepos + 1
        /\ lineno' = lineno /\ word' = Append(word, ch)
    BY <1>7 DEF InWord
  <2> QED BY <2>2, <2>3 DEF TypeInv, TypeOK
<1>8. CASE EndWord
  <2>1. PICK loop \in {"id", "num"} : Reading(loop) /\ ch \notin WordChars[loop]
    BY <1>8 DEF EndWord
  <2>2. srcbuf \in 1 .. Len(buf) /\ Len(buf) \in Nat /\ in = loop
    BY <2>1, Char
  <2>3. word # << >> /\ Len(word) <= linepos /\ linepos \in Nat /\ linepos < srcbuf
    BY <2>1, <2>2 DEF TypeInv, TypeOK
  <2>4. linepos - 1 \in 0 .. Len(buf)
    <3>1. Len(word) \in Nat \ {0}
      BY <2>3, EmptySeq, LenProperties DEF TypeInv
    <3> QED BY <2>2, <2>3, <3>1
  <2>5. PICK type \in ScanTypes : tok(type, word, linepos - 1)
    <3>1. getKeywordTokenType(word) \in ScanTypes
      BY TypesOfTokens DEF TypeInv
    <3> QED BY <1>8, <3>1, TypesOfTokens DEF EndWord
  <2>6. /\ buf' = buf /\ scan' = scan /\ in' = "switch" /\ srcbuf' = srcbuf
        /\ linepos' = linepos /\ lineno' = lineno /\ word' = << >>
    BY <1>8 DEF EndWord
  <2>7. /\ tokens' \in Seq(TokenRecord)
        /\ \A i \in DOMAIN tokens' :
             /\ tokens'[i].type \in ScanTypes
             /\ tokens'[i].lineno \in 0 .. lineno'
             /\ tokens'[i].linepos \in 0 .. Len(buf')
    <3>1. lineno' \in Nat /\ lineno <= lineno'
      BY <2>6 DEF TypeInv, TypeOK
    <3> QED BY <2>4, <2>5, <2>6, <3>1, TokAppended DEF TypeInv
  <2>8. << >> \in Seq(STRING) /\ Len(<< >>) = 0
    OBVIOUS
  <2> QED BY <2>2, <2>6, <2>7, <2>8 DEF TypeInv, TypeOK
<1>9. CASE SingleChar
  <2>1. srcbuf \in 1 .. Len(buf) /\ Len(buf) \in Nat /\ <<ch>> \in Seq(STRING)
    BY <1>9, Char DEF SingleChar
  <2>2. /\ buf' = buf /\ scan' = scan /\ in' = in /\ srcbuf' = srcbuf + 1
        /\ linepos' = linepos + 1 /\ lineno' = lineno /\ word' = word
        /\ in = "switch"
    BY <1>9 DEF SingleChar, Reading
  <2>3. PICK type \in ScanTypes : tok(type, <<ch>>, linepos)
    BY <1>9, TypesOfTokens DEF SingleChar, Singles
  <2>4. linepos \in 0 .. Len(buf) /\ lineno' \in Nat /\ lineno <= lineno'
    BY <2>1, <2>2 DEF TypeInv, TypeOK
  <2>5. /\ tokens' \in Seq(TokenRecord)
        /\ \A i \in DOMAIN tokens' :
             /\ tokens'[i].type \in ScanTypes
             /\ tokens'[i].lineno \in 0 .. lineno'
             /\ tokens'[i].linepos \in 0 .. Len(buf')
    BY <2>1, <2>2, <2>3, <2>4, TokAppended
  <2> QED BY <2>1, <2>2, <2>5 DEF TypeInv, TypeOK
<1> QED BY <1>1, <1>2, <1>3, <1>4, <1>5, <1>6, <1>7, <1>8, <1>9 DEF Next

(***************************************************************************)
(* The type invariant of the scanner, for arrays of any size: the pointer  *)
(* never passes the end of the array by more than one, and every token has *)
(* a type of the parser's and a position that is not negative, although    *)
(* the words step back before they take theirs (scan.hpp:182 and 193).     *)
(***************************************************************************)
THEOREM ScannerTypeOK == Spec => []TypeOK
<1>1. Init => TypeInv
  BY TypeInvInit
<1>2. TypeInv /\ [Next]_scanVars => TypeInv'
  BY TypeInvStep
<1>3. TypeInv => TypeOK
  BY DEF TypeInv
<1> QED BY <1>1, <1>2, <1>3, PTL DEF Spec

-----------------------------------------------------------------------------
(***************************************************************************)
(* The source.  ScannerProps says what its tokens are by functions of the  *)
(* array; here they are without arguments, because the array, and so each  *)
(* of them, stays as it is.                                                *)
(***************************************************************************)

Source == buf \in Seq(STRING) /\ NUL \in Range(buf)

Up    == StartsUpTo(Role)
Lex   == [p \in DOMAIN Role |-> LexemeAt(Role, p)]
Lines == [q \in 1 .. Len(buf) + 1 |-> Cardinality(Newlines(q))]

\* The column of a character, as PositionIsColumn counts it, and that of the
\* last character of a token.
ColAt == [q \in 1 .. Len(buf) + 1 |->
            IF Newlines(q) = {} THEN q - 1 ELSE q - Max(Newlines(q))]
Cols  == [p \in DOMAIN Role |-> ColAt[LastOf(Role, p)]]

LEMMA Frozen ==
  ASSUME buf' = buf
  PROVE  /\ Null' = Null /\ Role' = Role /\ Up' = Up /\ Lex' = Lex
         /\ Lines' = Lines /\ ColAt' = ColAt /\ Cols' = Cols
<1>1. Null' = Null
  BY DEF Null
<1>2. Role' = Role
  BY <1>1 DEF Role
<1>3. Up' = Up
  BY <1>2 DEF Up, StartsUpTo
<1>4. Lines' = Lines /\ ColAt' = ColAt
  BY DEF Lines, ColAt, Newlines
<1>5. Lex' = Lex
  BY <1>1, <1>2 DEF Lex, LexemeAt, LastOf, Newlines
<1>6. Cols' = Cols
  BY <1>1, <1>2, <1>4 DEF Cols, LastOf
<1> QED BY <1>1, <1>2, <1>3, <1>4, <1>5, <1>6

LEMMA MinMaxIs ==
  ASSUME NEW S, S \subseteq Int, NEW m \in S
  PROVE  /\ (\A y \in S : m <= y) => Min(S) = m
         /\ (\A y \in S : y <= m) => Max(S) = m
<1>1. ASSUME \A y \in S : m <= y
      PROVE  Min(S) = m
  <2> DEFINE x == CHOOSE x \in S : \A y \in S : x =< y
  <2>1. x \in S /\ \A y \in S : x <= y
    BY <1>1
  <2>2. Min(S) = x
    BY DEF Min
  <2> HIDE DEF x
  <2> QED BY <1>1, <2>1, <2>2
<1>2. ASSUME \A y \in S : y <= m
      PROVE  Max(S) = m
  <2> DEFINE x == CHOOSE x \in S : \A y \in S : x >= y
  <2>1. x \in S /\ \A y \in S : x >= y
    BY <1>2
  <2>2. Max(S) = x
    BY DEF Max
  <2> HIDE DEF x
  <2> QED BY <1>2, <2>1, <2>2
<1> QED BY <1>1, <1>2

LEMMA NullIs ==
  ASSUME Source
  PROVE  /\ Len(buf) \in Nat /\ DOMAIN buf = 1 .. Len(buf)
         /\ Null \in 1 .. Len(buf) /\ buf[Null] = NUL
         /\ \A p \in 1 .. Null - 1 : buf[p] # NUL
<1> DEFINE S == {p \in DOMAIN buf : buf[p] = NUL}
<1>1. Len(buf) \in Nat /\ DOMAIN buf = 1 .. Len(buf)
  BY LenProperties DEF Source
<1>2. S \subseteq Nat /\ S \subseteq Int /\ S # {}
  BY <1>1 DEF Source, Range
<1>3. PICK m \in S : \A n \in S : m <= n
  <2> HIDE DEF S
  <2> QED BY <1>2, LeastNumber
<1>4. Null = m
  <2>1. Null = Min(S)
    BY DEF Null
  <2> HIDE DEF S
  <2> QED BY <1>2, <1>3, <2>1, MinMaxIs
<1>5. ASSUME NEW p \in 1 .. Null - 1
      PROVE  buf[p] # NUL
  <2>1. p \in DOMAIN buf /\ ~ (m <= p)
    BY <1>1, <1>4
  <2> QED BY <1>3, <2>1
<1> QED BY <1>1, <1>3, <1>4, <1>5

Roles == {"blank", "open", "text", "close", "comment", "id", "num", "single",
          "unknown"}

\* The role of a character after one of the role was.
RoleAfter(was, c) ==
  CASE was \in {"open", "text"} -> IF c = Quote THEN "close" ELSE "text"
    [] was = "comment" -> IF c = "\n" THEN "blank" ELSE "comment"
    [] OTHER ->
         CASE c = Quote -> "open"
           [] c = "#"  -> "comment"
           [] c \in Letters -> "id"
           [] c \in Digits  -> IF was = "id" THEN "id" ELSE "num"
           [] c \in Blanks  -> "blank"
           [] c \in DOMAIN SINGLE_CHAR_TOKEN -> "single"
           [] OTHER -> "unknown"

LEMMA RoleIs ==
  ASSUME Source
  PROVE  /\ Role \in [0 .. Null - 1 -> Roles] /\ Role[0] = "blank"
         /\ \A p \in 1 .. Null - 1 : Role[p] = RoleAfter(Role[p - 1], buf[p])
<1> DEFINE n == Null - 1
           G == [p \in 1 .. n |-> [r \in Roles |-> RoleAfter(r, buf[p])]]
           Q(f) == f = [p \in 0 .. n |-> IF p = 0 THEN "blank"
                                         ELSE RoleAfter(f[p - 1], buf[p])]
<1>1. n \in Nat
  BY NullIs
<1>2. \A p \in 1 .. n : \A r \in Roles : G[p][r] = RoleAfter(r, buf[p])
  OBVIOUS
<1>3. \A r, c : RoleAfter(r, c) \in Roles
  BY DEF RoleAfter, Roles
<1> HIDE DEF G, n
<1>4. Chains(G, n, Roles)
  BY <1>2, <1>3 DEF Chains
<1>5. "blank" \in Roles
  BY DEF Roles
<1>6. HasChain(G, n, Roles, "blank")
  BY <1>1, <1>4, <1>5, Chain
<1>7. PICK f \in [0 .. n -> Roles] :
        f[0] = "blank" /\ \A k \in 1 .. n : f[k] = G[k][f[k - 1]]
  BY <1>6 DEF HasChain
<1>8. \A k \in 1 .. n : f[k - 1] \in Roles
  BY <1>1
<1>9. Q(f)
  BY <1>1, <1>2, <1>7, <1>8
<1>10. Role = CHOOSE g : Q(g)
  BY DEF Role, RoleAfter, Quote, n
<1>11. Q(Role)
  <2> HIDE DEF Q
  <2> QED BY <1>9, <1>10
<1>12. /\ DOMAIN Role = 0 .. n /\ Role[0] = "blank"
       /\ \A p \in 1 .. n : Role[p] = RoleAfter(Role[p - 1], buf[p])
       /\ Role = [p \in 0 .. n |-> Role[p]]
  <2> PICK r : r = Role
    OBVIOUS
  <2>1. Q(r)
    <3> HIDE DEF Q
    <3> QED BY <1>11
  <2>2. r = [p \in 0 .. n |-> IF p = 0 THEN "blank" ELSE RoleAfter(r[p - 1], buf[p])]
    BY <2>1
  <2>3. DOMAIN r = 0 .. n /\ r = [p \in 0 .. n |-> r[p]]
    BY <2>2
  <2>4. r[0] = "blank" /\ \A p \in 1 .. n : r[p] = RoleAfter(r[p - 1], buf[p])
    BY <1>1, <2>2
  <2> QED BY <2>3, <2>4
<1>13. \A p \in 0 .. n : Role[p] \in Roles
  <2> TAKE p \in 0 .. n
  <2>1. CASE p = 0
    BY <1>5, <1>12, <2>1
  <2>2. CASE p # 0
    <3>1. p \in 1 .. n
      BY <1>1, <2>2
    <3> QED BY <1>3, <1>12, <3>1
  <2> QED BY <2>1, <2>2
<1>14. Role \in [0 .. n -> Roles]
  BY <1>12, <1>13
<1> QED BY <1>12, <1>14 DEF n

IsStart(p) == \/ Role[p] \in {"open", "single"}
              \/ Role[p] \in {"id", "num"} /\ Role[p - 1] # Role[p]

LEMMA UpIs ==
  ASSUME Source
  PROVE  /\ \A p \in 0 .. Null - 1 : Up[p] \in Seq(Nat)
         /\ Up[0] = << >>
         /\ \A p \in 1 .. Null - 1 :
              Up[p] = IF IsStart(p) THEN Append(Up[p - 1], p) ELSE Up[p - 1]
<1> DEFINE n == Null - 1
           V == Seq(Nat)
           Step(p, v) == IF IsStart(p) THEN Append(v, p) ELSE v
           G == [p \in 1 .. n |-> [v \in V |-> Step(p, v)]]
           Q(f) == f = [p \in 0 .. n |-> IF p = 0 THEN << >>
                                         ELSE Step(p, f[p - 1])]
<1>1. n \in Nat
  BY NullIs
<1>2. \A p \in 1 .. n : \A v \in V : G[p][v] = Step(p, v)
  OBVIOUS
<1>3. \A p \in 1 .. n : \A v \in V : Step(p, v) \in V
  BY <1>1
<1> HIDE DEF G, n
<1>4. Chains(G, n, V)
  <2> HIDE DEF V, Step
  <2> QED BY <1>2, <1>3 DEF Chains
<1>5. << >> \in V
  OBVIOUS
<1>6. HasChain(G, n, V, << >>)
  <2> HIDE DEF V
  <2> QED BY <1>1, <1>4, <1>5, Chain
<1>7. PICK f \in [0 .. n -> V] :
        f[0] = << >> /\ \A k \in 1 .. n : f[k] = G[k][f[k - 1]]
  BY <1>6 DEF HasChain
<1>8. \A k \in 1 .. n : f[k - 1] \in V
  BY <1>1
<1>9. Q(f)
  <2> HIDE DEF V, Step
  <2> QED BY <1>1, <1>2, <1>7, <1>8
<1>10. Up = CHOOSE g : Q(g)
  <2>1. DOMAIN Role = 0 .. n
    BY RoleIs DEF n
  <2> QED BY <2>1 DEF Up, StartsUpTo, IsStart
<1>11. Q(Up)
  <2> HIDE DEF Q
  <2> QED BY <1>9, <1>10
<1>12. Up[0] = << >> /\ \A p \in 1 .. n : Up[p] = Step(p, Up[p - 1])
  <2> HIDE DEF Step
  <2> QED BY <1>1, <1>11
<1> DEFINE S == {p \in 0 .. n : Up[p] \in V}
<1>13. 0 \in S
  BY <1>1, <1>12
<1>14. ASSUME NEW p \in 1 .. n, p - 1 \in S
       PROVE  p \in S
  <2> HIDE DEF V, Step
  <2> QED BY <1>1, <1>3, <1>12, <1>14
<1>15. \A p \in 0 .. n : p \in S
  <2> HIDE DEF S
  <2> QED BY <1>1, <1>13, <1>14, StepInduction
<1> QED BY <1>12, <1>15 DEF n

-----------------------------------------------------------------------------
\* Lines and columns, character by character.

LEMMA LinesAre ==
  ASSUME Source
  PROVE  /\ Lines[1] = 0 /\ ColAt[1] = 0
         /\ \A q \in 1 .. Len(buf) + 1 : Lines[q] \in Nat /\ ColAt[q] \in Nat
         /\ \A q \in 1 .. Len(buf) :
              IF buf[q] = "\n"
              THEN Lines[q + 1] = Lines[q] + 1 /\ ColAt[q + 1] = 1
              ELSE Lines[q + 1] = Lines[q] /\ ColAt[q + 1] = ColAt[q] + 1
<1>1. Len(buf) \in Nat
  BY NullIs
<1>2. /\ DOMAIN Lines = 1 .. Len(buf) + 1
      /\ \A q \in 1 .. Len(buf) + 1 :
           /\ Lines[q] = Cardinality(Newlines(q))
           /\ ColAt[q] = IF Newlines(q) = {} THEN q - 1 ELSE q - Max(Newlines(q))
  BY DEF Lines, ColAt
<1>3. ASSUME NEW q \in 1 .. Len(buf) + 1
      PROVE  /\ IsFiniteSet(Newlines(q)) /\ Newlines(q) \subseteq 1 .. q - 1
             /\ Lines[q] \in Nat
  <2>1. Newlines(q) \subseteq 1 .. q - 1
    BY DEF Newlines
  <2>2. IsFiniteSet(1 .. q - 1)
    <3>1. 1 \in Int /\ q - 1 \in Int
      BY <1>1
    <3> QED BY <3>1, FS_Interval
  <2>3. IsFiniteSet(Newlines(q)) /\ Cardinality(Newlines(q)) \in Nat
    BY <2>1, <2>2, FS_Subset, FS_CardinalityType
  <2> QED BY <1>2, <2>1, <2>3
<1>4. ASSUME NEW q \in 1 .. Len(buf)
      PROVE  /\ buf[q] = "\n" => Newlines(q + 1) = Newlines(q) \cup {q}
             /\ buf[q] # "\n" => Newlines(q + 1) = Newlines(q)
             /\ q \notin Newlines(q)
  <2>1. \A n \in 1 .. (q + 1) - 1 : n \in 1 .. q - 1 \/ n = q
    BY <1>1
  <2>2. \A n \in 1 .. q - 1 : n \in 1 .. (q + 1) - 1 /\ n # q
    BY <1>1
  <2>3. q \in 1 .. (q + 1) - 1
    BY <1>1
  <2> QED BY <2>1, <2>2, <2>3 DEF Newlines
<1>5. Newlines(1) = {}
  BY DEF Newlines
<1>6. Lines[1] = 0 /\ ColAt[1] = 0
  <2>1. 1 \in 1 .. Len(buf) + 1
    BY <1>1
  <2>2. Cardinality(Newlines(1)) = 0
    BY <1>5, FS_EmptySet
  <2> QED BY <1>2, <1>5, <2>1, <2>2
<1>7. ASSUME NEW q \in 1 .. Len(buf)
      PROVE  IF buf[q] = "\n"
             THEN Lines[q + 1] = Lines[q] + 1 /\ ColAt[q + 1] = 1
             ELSE Lines[q + 1] = Lines[q] /\ ColAt[q + 1] = ColAt[q] + 1
  <2>1. q \in 1 .. Len(buf) + 1 /\ q + 1 \in 1 .. Len(buf) + 1 /\ q \in Int
    BY <1>1
  <2>2. IsFiniteSet(Newlines(q)) /\ Newlines(q) \subseteq 1 .. q - 1
    BY <1>3, <2>1
  <2>3. CASE buf[q] = "\n"
    <3>1. Newlines(q + 1) = Newlines(q) \cup {q} /\ q \notin Newlines(q)
      BY <1>4, <2>3
    <3>2. Lines[q + 1] = Lines[q] + 1
      BY <1>2, <2>1, <2>2, <3>1, FS_AddElement
    <3>3. Max(Newlines(q + 1)) = q
      <4>1. /\ Newlines(q + 1) \subseteq Int /\ q \in Newlines(q + 1)
            /\ \A y \in Newlines(q + 1) : y <= q
        BY <2>1, <2>2, <3>1
      <4> QED BY <4>1, MinMaxIs
    <3>4. ColAt[q + 1] = 1
      BY <1>2, <2>1, <3>1, <3>3
    <3> QED BY <2>3, <3>2, <3>4
  <2>4. CASE buf[q] # "\n"
    <3>1. Newlines(q + 1) = Newlines(q)
      BY <1>4, <2>4
    <3>2. Lines[q + 1] = Lines[q]
      BY <1>2, <2>1, <3>1
    <3>3. CASE Newlines(q) = {}
      BY <1>2, <2>1, <2>4, <3>1, <3>2, <3>3
    <3>4. CASE Newlines(q) # {}
      <4>1. Max(Newlines(q)) \in Int
        <5>1. PICK m \in Newlines(q) : \A y \in Newlines(q) : y <= m
          <6>1. q - 1 \in Nat
            BY <1>1
          <6> QED BY <2>2, <3>4, <6>1, LargestIs
        <5>2. Newlines(q) \subseteq Int
          BY <2>2
        <5>3. Max(Newlines(q)) = m
          BY <5>1, <5>2, MinMaxIs
        <5> QED BY <5>2, <5>3
      <4>2. PICK x \in Int : x = Max(Newlines(q))
        BY <4>1
      <4>3. ColAt[q] = q - x
        BY <1>2, <2>1, <3>4, <4>2
      <4>4. PICK r \in 1 .. Len(buf) + 1 : r = q + 1
        BY <2>1
      <4>5. Newlines(r) = Newlines(q)
        BY <3>1, <4>4
      <4>6. ColAt[r] = r - x
        BY <1>2, <3>4, <4>2, <4>5
      <4> QED BY <2>1, <2>4, <3>2, <4>3, <4>4, <4>6
    <3> QED BY <3>3, <3>4
  <2> QED BY <2>3, <2>4
<1> DEFINE n == Len(buf)
           S == {k \in 0 .. n : ColAt[k + 1] \in Nat}
<1>8. 0 \in S
  BY <1>1, <1>6
<1>9. ASSUME NEW k \in 1 .. n, k - 1 \in S
      PROVE  k \in S
  <2>1. ColAt[k] \in Nat
    BY <1>1, <1>9
  <2> QED BY <1>1, <1>7, <2>1
<1>10. \A k \in 0 .. n : k \in S
  <2> HIDE DEF S
  <2> QED BY <1>1, <1>8, <1>9, StepInduction
<1>11. ASSUME NEW q \in 1 .. n + 1
       PROVE  ColAt[q] \in Nat
  <2>1. q - 1 \in 0 .. n /\ (q - 1) + 1 = q
    BY <1>1
  <2>2. q - 1 \in S
    BY <1>10, <2>1
  <2> QED BY <2>1, <2>2
<1> QED BY <1>3, <1>6, <1>7, <1>11

-----------------------------------------------------------------------------
\* The text of a token, character by character, and its end.

LEMMA TextIs ==
  ASSUME Source, NEW b \in 1 .. Len(buf) + 1, NEW p \in 1 .. Len(buf) + 1, b <= p
  PROVE  /\ SubSeq(buf, b, p - 1) \in Seq(STRING)
         /\ Len(SubSeq(buf, b, p - 1)) = p - b
         /\ p <= Len(buf) =>
              SubSeq(buf, b, p) = Append(SubSeq(buf, b, p - 1), buf[p])
<1>1. /\ Len(buf) \in Nat /\ b \in Int /\ p \in Int /\ p - 1 \in Int
      /\ \A i \in 1 .. Len(buf) : buf[i] \in STRING
  BY NullIs, ElementOfSeq DEF Source
<1> DEFINE s == SubSeq(buf, b, p - 1)
           t == SubSeq(buf, b, p)
<1>2. /\ s \in Seq(STRING) /\ Len(s) = p - b
      /\ \A i \in 1 .. p - b : s[i] = buf[b + i - 1]
  <2>1. \A i \in b .. p - 1 : buf[i] \in STRING
    BY <1>1
  <2>2. /\ s \in Seq(STRING)
        /\ Len(s) = IF b <= p - 1 THEN (p - 1) - b + 1 ELSE 0
        /\ \A i \in 1 .. (p - 1) - b + 1 : s[i] = buf[b + i - 1]
    BY <1>1, <2>1, SubSeqProperties
  <2> HIDE DEF s
  <2> QED BY <1>1, <2>2
<1>3. ASSUME p <= Len(buf)
      PROVE  t = Append(s, buf[p])
  <2>1. \A i \in b .. p : buf[i] \in STRING
    BY <1>1, <1>3
  <2>2. /\ t \in Seq(STRING)
        /\ Len(t) = IF b <= p THEN p - b + 1 ELSE 0
        /\ \A i \in 1 .. p - b + 1 : t[i] = buf[b + i - 1]
    BY <1>1, <2>1, SubSeqProperties
  <2>3. buf[p] \in STRING
    BY <1>1, <1>3
  <2> HIDE DEF s, t
  <2>4. /\ Append(s, buf[p]) \in Seq(STRING)
        /\ Len(Append(s, buf[p])) = p - b + 1
        /\ \A i \in 1 .. p - b : Append(s, buf[p])[i] = s[i]
        /\ Append(s, buf[p])[p - b + 1] = buf[p]
    BY <1>1, <1>2, <2>3, AppendProperties
  <2>5. \A i \in 1 .. p - b + 1 : t[i] = Append(s, buf[p])[i]
    <3> TAKE i \in 1 .. p - b + 1
    <3>1. CASE i = p - b + 1
      BY <1>1, <2>2, <2>4, <3>1
    <3>2. CASE i # p - b + 1
      <4>1. i \in 1 .. p - b
        BY <1>1, <3>2
      <4> QED BY <1>2, <2>2, <2>4, <4>1
    <3> QED BY <3>1, <3>2
  <2>6. Len(t) = p - b + 1
    BY <1>1, <2>2
  <2> QED BY <2>2, <2>4, <2>5, <2>6, SeqEqual
<1> QED BY <1>2, <1>3

\* A run of letters or digits from b to p - 1.
LEMMA WordLexeme ==
  ASSUME Source, NEW b \in 1 .. Null - 1, NEW p \in b + 1 .. Null,
         Role[b] \in {"id", "num"},
         \A q \in b .. p - 1 : Role[q] = Role[b],
         p < Null => Role[p] # Role[b]
  PROVE  /\ Lex[b] =
              [type |-> IF Role[b] = "num" THEN "NUM"
                        ELSE WordType(SubSeq(buf, b, p - 1)),
               str |-> SubSeq(buf, b, p - 1), lineno |-> Lines[p - 1]]
         /\ Cols[b] = ColAt[p - 1]
<1>1. /\ Null \in 1 .. Len(buf) /\ Len(buf) \in Nat
      /\ DOMAIN Role = 0 .. Null - 1 /\ b \in DOMAIN Role
  BY NullIs, RoleIs
<1>2. LastOf(Role, b) = p - 1
  <2> DEFINE S == {q \in b .. Null - 1 : \A r \in b .. q : Role[r] = Role[b]}
  <2>1. S \subseteq Int /\ p - 1 \in S
    BY <1>1
  <2>2. ASSUME NEW q \in S
        PROVE  q <= p - 1
    <3>1. CASE p = Null
      BY <1>1, <3>1
    <3>2. CASE p < Null
      <4>1. p \notin b .. q
        BY <3>2
      <4> QED BY <1>1, <4>1
    <3> QED BY <1>1, <3>1, <3>2
  <2>3. LastOf(Role, b) = Max(S)
    BY DEF LastOf
  <2> HIDE DEF S
  <2> QED BY <2>1, <2>2, <2>3, MinMaxIs
<1>3. p - 1 \in 1 .. Len(buf) + 1
  BY <1>1
<1>4. LexemeAt(Role, b) =
        [type |-> IF Role[b] = "num" THEN "NUM"
                  ELSE WordType(SubSeq(buf, b, p - 1)),
         str |-> SubSeq(buf, b, p - 1), lineno |-> Lines[p - 1]]
  <2>1. Lines[p - 1] = Cardinality(Newlines(p - 1))
    BY <1>3 DEF Lines
  <2>2. Role[b] # "single" /\ Role[b] # "open"
    OBVIOUS
  <2> QED BY <1>2, <2>1, <2>2 DEF LexemeAt
<1>5. Lex[b] = LexemeAt(Role, b) /\ Cols[b] = ColAt[LastOf(Role, b)]
  BY <1>1 DEF Lex, Cols
<1> QED BY <1>2, <1>4, <1>5

LEMMA SingleLexeme ==
  ASSUME Source, NEW b \in 1 .. Null - 1, Role[b] = "single"
  PROVE  /\ Lex[b] = [type |-> SINGLE_CHAR_TOKEN[buf[b]], str |-> <<buf[b]>>,
                      lineno |-> Lines[b]]
         /\ Cols[b] = ColAt[b]
<1>1. /\ Null \in 1 .. Len(buf) /\ Len(buf) \in Nat
      /\ DOMAIN Role = 0 .. Null - 1 /\ b \in DOMAIN Role
  BY NullIs, RoleIs
<1>2. LastOf(Role, b) = b
  BY DEF LastOf
<1>3. SubSeq(buf, b, b) = <<buf[b]>>
  <2>1. /\ b \in 1 .. Len(buf) + 1 /\ b <= Len(buf)
        /\ SubSeq(buf, b, b) = Append(SubSeq(buf, b, b - 1), buf[b])
    BY <1>1, TextIs
  <2>2. SubSeq(buf, b, b - 1) = << >>
    BY <1>1, SubSeqEmpty
  <2>3. PICK c \in STRING : c = buf[b]
    BY <1>1, ElementOfSeq DEF Source
  <2>4. Append(<< >>, c) = <<c>>
    OBVIOUS
  <2> QED BY <2>1, <2>2, <2>3, <2>4
<1>4. LexemeAt(Role, b) =
        [type |-> SINGLE_CHAR_TOKEN[buf[b]], str |-> <<buf[b]>>,
         lineno |-> Lines[b]]
  <2>1. b \in 1 .. Len(buf) + 1
    BY <1>1
  <2>2. Lines[b] = Cardinality(Newlines(b))
    BY <2>1 DEF Lines
  <2> QED BY <1>2, <1>3, <2>2 DEF LexemeAt
<1>5. Lex[b] = LexemeAt(Role, b) /\ Cols[b] = ColAt[LastOf(Role, b)]
  BY <1>1 DEF Lex, Cols
<1> QED BY <1>2, <1>4, <1>5

\* A string from the quote at b to the quote, or the null, at p.
LEMMA StringLexeme ==
  ASSUME Source, NEW b \in 1 .. Null - 1, NEW p \in b + 1 .. Null,
         Role[b] = "open", \A q \in b + 1 .. p - 1 : Role[q] # "close",
         p < Null => Role[p] = "close"
  PROVE  Lex[b] = [type |-> "STRING", str |-> SubSeq(buf, b + 1, p - 1),
                   lineno |-> Lines[p]]
<1>1. /\ Null \in 1 .. Len(buf) /\ Len(buf) \in Nat
      /\ DOMAIN Role = 0 .. Null - 1 /\ b \in DOMAIN Role
  BY NullIs, RoleIs
<1>2. LastOf(Role, b) = p
  <2> DEFINE S == {Null} \cup {q \in b + 1 .. Null - 1 : Role[q] = "close"}
  <2>1. S \subseteq Int /\ p \in S
    BY <1>1
  <2>2. ASSUME NEW q \in S
        PROVE  p <= q
    BY <1>1
  <2>3. LastOf(Role, b) = Min(S)
    BY DEF LastOf
  <2> HIDE DEF S
  <2> QED BY <2>1, <2>2, <2>3, MinMaxIs
<1>3. p \in 1 .. Len(buf) + 1
  BY <1>1
<1>4. Lines[p] = Cardinality(Newlines(p))
  BY <1>3 DEF Lines
<1>5. LexemeAt(Role, b) = [type |-> "STRING", str |-> SubSeq(buf, b + 1, p - 1),
                           lineno |-> Lines[p]]
  BY <1>2, <1>4 DEF LexemeAt
<1> QED BY <1>1, <1>5 DEF Lex

-----------------------------------------------------------------------------
\* The tokens that begin up to a character.

LEMMA UpSame ==
  ASSUME Source, NEW m \in 0 .. Null - 1, NEW n \in m .. Null - 1,
         \A q \in m + 1 .. n : ~ IsStart(q)
  PROVE  Up[n] = Up[m]
<1> DEFINE S == {k \in 0 .. n - m : Up[m + k] = Up[m]}
<1>1. m \in Nat /\ n \in Nat /\ Null \in Nat /\ n - m \in Nat
  BY NullIs
<1>2. 0 \in S
  BY <1>1
<1>3. ASSUME NEW k \in 1 .. n - m, k - 1 \in S
      PROVE  k \in S
  <2>1. m + k \in m + 1 .. n /\ m + k \in 1 .. Null - 1 /\ (m + k) - 1 = m + (k - 1)
    BY <1>1
  <2>2. Up[m + k] = Up[m + (k - 1)]
    BY <2>1, UpIs
  <2> QED BY <1>3, <2>2
<1>4. n - m \in S
  <2>1. n - m \in 0 .. n - m
    BY <1>1
  <2>2. \A k \in 0 .. n - m : k \in S
    <3> HIDE DEF S
    <3> QED BY <1>1, <1>2, <1>3, StepInduction
  <2> QED BY <2>1, <2>2
<1>5. m + (n - m) = n
  BY <1>1
<1> QED BY <1>4, <1>5

LEMMA UpGrows ==
  ASSUME Source, NEW m \in 0 .. Null - 1, NEW n \in m .. Null - 1
  PROVE  /\ Len(Up[m]) \in Nat /\ Len(Up[n]) \in Nat /\ Len(Up[m]) <= Len(Up[n])
         /\ \A i \in 1 .. Len(Up[m]) : Up[n][i] = Up[m][i]
<1> DEFINE S == {k \in 0 .. n - m :
                   /\ Len(Up[m]) <= Len(Up[m + k])
                   /\ \A i \in 1 .. Len(Up[m]) : Up[m + k][i] = Up[m][i]}
<1>1. m \in Nat /\ n \in Nat /\ Null \in Nat /\ n - m \in Nat
  BY NullIs
<1>2. \A p \in 0 .. Null - 1 : Up[p] \in Seq(Nat) /\ Len(Up[p]) \in Nat
  BY UpIs, LenProperties
<1>3. 0 \in S
  BY <1>1, <1>2
<1>4. ASSUME NEW k \in 1 .. n - m, k - 1 \in S
      PROVE  k \in S
  <2>1. m + k \in 1 .. Null - 1 /\ (m + k) - 1 = m + (k - 1)
        /\ m + (k - 1) \in 0 .. Null - 1
    BY <1>1
  <2>2. PICK u : u = Up[m + (k - 1)]
    OBVIOUS
  <2>3. u \in Seq(Nat) /\ Len(u) \in Nat /\ m + k \in Nat /\ Len(Up[m]) \in Nat
    BY <1>1, <1>2, <2>1, <2>2
  <2>4. Len(Up[m]) <= Len(u) /\ \A i \in 1 .. Len(Up[m]) : u[i] = Up[m][i]
    BY <1>4, <2>2
  <2>5. Up[m + k] = u \/ Up[m + k] = Append(u, m + k)
    BY <2>1, <2>2, UpIs
  <2>6. /\ Len(Append(u, m + k)) = Len(u) + 1
        /\ \A i \in 1 .. Len(u) : Append(u, m + k)[i] = u[i]
    BY <2>3, AppendProperties
  <2>7. Len(Up[m]) <= Len(Up[m + k])
    BY <2>3, <2>4, <2>5, <2>6
  <2>8. \A i \in 1 .. Len(Up[m]) : Up[m + k][i] = Up[m][i]
    <3> TAKE i \in 1 .. Len(Up[m])
    <3>1. i \in 1 .. Len(u)
      BY <2>3, <2>4
    <3> QED BY <2>4, <2>5, <2>6, <3>1
  <2>9. k \in 0 .. n - m
    OBVIOUS
  <2> QED BY <2>7, <2>8, <2>9
<1>5. n - m \in S
  <2>1. n - m \in 0 .. n - m
    BY <1>1
  <2>2. \A k \in 0 .. n - m : k \in S
    <3> HIDE DEF S
    <3> QED BY <1>1, <1>3, <1>4, StepInduction
  <2> QED BY <2>1, <2>2
<1>6. m + (n - m) = n
  BY <1>1
<1>7. Len(Up[m]) <= Len(Up[n]) /\ \A i \in 1 .. Len(Up[m]) : Up[n][i] = Up[m][i]
  BY <1>5, <1>6
<1>8. n \in 0 .. Null - 1
  BY <1>1
<1> QED BY <1>2, <1>7, <1>8

-----------------------------------------------------------------------------
(***************************************************************************)
(* The invariant of the scan.  As long as the pointer has not passed the   *)
(* null, the tokens are those that begin in the first characters of the    *)
(* source (Finished), and the loop that is running, with what it has       *)
(* pushed, is the one that the roles of the characters call for (Within).  *)
(* Once it has passed the null, the source ends in a comment or a string   *)
(* and all its tokens are there (Beyond).                                  *)
(***************************************************************************)

\* No character of the source begins a string or a comment.
Bare == \A p \in 1 .. Null - 1 : Role[p] \notin {"open", "comment"}

Agrees(t, p) ==
  /\ [type |-> t.type, str |-> t.str, lineno |-> t.lineno] = Lex[p]
  /\ Bare => t.linepos = Cols[p]

\* The tokens begin with those of the first n characters, ...
Covered ==
  {n \in 0 .. Null - 1 :
     /\ Len(Up[n]) <= Len(tokens)
     /\ \A i \in 1 .. Len(Up[n]) : Agrees(tokens[i], Up[n][i])}

\* ... and are no more than those.
Finished ==
  {n \in Covered : /\ Len(tokens) = Len(Up[n])
                   /\ \A q \in 1 .. n : Role[q] # "unknown"}

Counted == lineno = Lines[srcbuf] /\ (Bare => linepos = ColAt[srcbuf])

Between ==
  /\ srcbuf - 1 \in Finished
  /\ Role[srcbuf - 1] \notin {"open", "text", "comment"}
  /\ srcbuf < Null /\ Role[srcbuf - 1] \in {"id", "num"} =>
       Role[srcbuf] # Role[srcbuf - 1]

InsideString ==
  LET b == srcbuf - Len(word) - 1
  IN /\ b \in 1 .. srcbuf - 1
     /\ b - 1 \in Finished
     /\ Role[b] = "open"
     /\ \A q \in b + 1 .. srcbuf - 1 : Role[q] = "text"
     /\ word = SubSeq(buf, b + 1, srcbuf - 1)

InsideComment ==
  /\ srcbuf - 1 \in Finished
  /\ Role[srcbuf - 1] \notin {"open", "text"}
  /\ Role[srcbuf - 1] = "comment" \/ ch = "#"

InsideWord ==
  LET b == srcbuf - Len(word)
  IN /\ b \in 1 .. srcbuf /\ b < Null
     /\ b - 1 \in Finished
     /\ Role[b] = in /\ Role[b - 1] # in
     /\ \A q \in b .. srcbuf - 1 : Role[q] = in
     /\ word = SubSeq(buf, b, srcbuf - 1)

Within ==
  /\ Counted
  /\ in = "switch" => Between
  /\ in = "string" => InsideString
  /\ in = "comment" => InsideComment
  /\ in \in {"id", "num"} => InsideWord

Beyond ==
  /\ OpenEnd /\ ~ Bare
  /\ \A q \in 1 .. Null - 1 : Role[q] # "unknown"
  /\ Null - 1 \in Covered

EndsWell ==
  /\ scan = "DONE" => in = "switch" /\ ch = NUL /\ srcbuf <= Len(buf)
  /\ scan = "EXIT" => in = "switch"
                      /\ (srcbuf <= Null =>
                            srcbuf < Null /\ Role[srcbuf] = "unknown")
  /\ scan = "UNDEFINED" => srcbuf > Len(buf)

LexInv ==
  /\ Source
  /\ srcbuf <= Null => Within
  /\ srcbuf > Null => Beyond
  /\ EndsWell

-----------------------------------------------------------------------------
LEMMA Afters ==
  \A was, c :
    /\ was \in {"open", "text"} =>
         RoleAfter(was, c) = IF c = Quote THEN "close" ELSE "text"
    /\ was = "comment" =>
         RoleAfter(was, c) = IF c = "\n" THEN "blank" ELSE "comment"
    /\ was \notin {"open", "text", "comment"} =>
         /\ c = Quote => RoleAfter(was, c) = "open"
         /\ c = "#" => RoleAfter(was, c) = "comment"
         /\ c \in Letters => RoleAfter(was, c) = "id"
         /\ c \in Digits =>
              RoleAfter(was, c) = IF was = "id" THEN "id" ELSE "num"
         /\ c \in Blanks => RoleAfter(was, c) = "blank"
         /\ c \in Singles => RoleAfter(was, c) = "single"
         /\ c \notin {Quote, "#"} \cup Letters \cup Digits \cup Blanks
                     \cup Singles =>
              RoleAfter(was, c) = "unknown"
<1> TAKE was, c
<1>1. was \in {"open", "text"} =>
         RoleAfter(was, c) = IF c = Quote THEN "close" ELSE "text"
  BY DEF RoleAfter
<1>2. was = "comment" =>
         RoleAfter(was, c) = IF c = "\n" THEN "blank" ELSE "comment"
  BY DEF RoleAfter
<1>3. ASSUME was \notin {"open", "text", "comment"}
      PROVE  /\ c = Quote => RoleAfter(was, c) = "open"
             /\ c = "#" => RoleAfter(was, c) = "comment"
             /\ c \in Letters => RoleAfter(was, c) = "id"
             /\ c \in Digits =>
                  RoleAfter(was, c) = IF was = "id" THEN "id" ELSE "num"
             /\ c \in Blanks => RoleAfter(was, c) = "blank"
             /\ c \in Singles => RoleAfter(was, c) = "single"
             /\ c \notin {Quote, "#"} \cup Letters \cup Digits \cup Blanks
                         \cup Singles =>
                  RoleAfter(was, c) = "unknown"
  <2> DEFINE out == CASE c = Quote -> "open"
                      [] c = "#"  -> "comment"
                      [] c \in Letters -> "id"
                      [] c \in Digits  -> IF was = "id" THEN "id" ELSE "num"
                      [] c \in Blanks  -> "blank"
                      [] c \in Singles -> "single"
                      [] OTHER -> "unknown"
  <2>1. RoleAfter(was, c) = out
    BY <1>3 DEF RoleAfter, Singles
  <2>2. /\ c = Quote => out = "open"
        /\ c = "#" => out = "comment"
    BY Kinds
  <2>3. c \in Letters => out = "id"
    BY Kinds
  <2>4. c \in Digits => out = IF was = "id" THEN "id" ELSE "num"
    BY Kinds
  <2>5. c \in Blanks => out = "blank"
    BY Kinds
  <2>6. c \in Singles => out = "single"
    BY Kinds
  <2>7. c \notin {Quote, "#"} \cup Letters \cup Digits \cup Blanks \cup Singles =>
          out = "unknown"
    OBVIOUS
  <2> HIDE DEF out
  <2> QED BY <2>1, <2>2, <2>3, <2>4, <2>5, <2>6, <2>7
<1> QED BY <1>1, <1>2, <1>3

\* The character at the pointer and its role.
LEMMA Here ==
  ASSUME Source, srcbuf \in 1 .. Null
  PROVE  /\ Null \in 1 .. Len(buf) /\ Len(buf) \in Nat
         /\ ch = buf[srcbuf] /\ (ch = NUL <=> srcbuf = Null)
         /\ Role[srcbuf - 1] \in Roles
         /\ srcbuf < Null =>
              /\ Role[srcbuf] = RoleAfter(Role[srcbuf - 1], ch)
              /\ Role[srcbuf] \in Roles
<1>1. /\ Null \in 1 .. Len(buf) /\ Len(buf) \in Nat /\ buf[Null] = NUL
      /\ \A p \in 1 .. Null - 1 : buf[p] # NUL
  BY NullIs
<1>2. srcbuf - 1 \in 0 .. Null - 1 /\ (srcbuf < Null => srcbuf \in 1 .. Null - 1)
  BY <1>1
<1>3. /\ Role \in [0 .. Null - 1 -> Roles]
      /\ \A p \in 1 .. Null - 1 : Role[p] = RoleAfter(Role[p - 1], buf[p])
  BY RoleIs
<1>4. ch = buf[srcbuf]
  BY DEF ch
<1> QED BY <1>1, <1>2, <1>3, <1>4

\* The characters after m that begin no token add none.
LEMMA FinishedSame ==
  ASSUME Source, buf' = buf, tokens' = tokens, NEW m \in Finished,
         NEW n \in m .. Null - 1,
         \A q \in m + 1 .. n : ~ IsStart(q) /\ Role[q] # "unknown"
  PROVE  n \in Finished' /\ n \in Covered'
<1>1. Null' = Null /\ Role' = Role /\ Up' = Up /\ Lex' = Lex /\ Cols' = Cols
      /\ (Bare' <=> Bare)
  BY Frozen DEF Bare
<1>2. m \in 0 .. Null - 1 /\ Null \in Nat /\ n \in 0 .. Null - 1
  BY NullIs DEF Finished, Covered
<1>3. Up[n] = Up[m]
  BY <1>2, UpSame
<1>4. Len(Up[n]) <= Len(tokens) /\ Len(tokens) = Len(Up[n])
      /\ \A i \in 1 .. Len(Up[n]) : Agrees(tokens[i], Up[n][i])
  BY <1>3 DEF Finished, Covered
<1>5. \A q \in 1 .. n : Role[q] # "unknown"
  <2> TAKE q \in 1 .. n
  <2>1. q \in 1 .. m \/ q \in m + 1 .. n
    BY <1>2
  <2> QED BY <2>1 DEF Finished
<1>6. n \in Covered'
  BY <1>1, <1>2, <1>4 DEF Covered, Agrees
<1> QED BY <1>1, <1>4, <1>5, <1>6 DEF Finished

\* A token is added for the one that begins at b.
LEMMA FinishedMore ==
  ASSUME Source, buf' = buf, tokens \in Seq(TokenRecord), NEW t \in TokenRecord,
         tokens' = Append(tokens, t), NEW b \in 1 .. Null - 1,
         b - 1 \in Finished, IsStart(b), Agrees(t, b), Role[b] # "unknown",
         NEW n \in b .. Null - 1,
         \A q \in b + 1 .. n : ~ IsStart(q) /\ Role[q] # "unknown"
  PROVE  n \in Finished' /\ n \in Covered'
<1>1. Null' = Null /\ Role' = Role /\ Up' = Up /\ Lex' = Lex /\ Cols' = Cols
      /\ (Bare' <=> Bare)
  BY Frozen DEF Bare
<1>2. b \in 0 .. Null - 1 /\ b - 1 \in 0 .. Null - 1 /\ Null \in Nat
      /\ n \in 0 .. Null - 1 /\ b \in Nat
  BY NullIs
<1>3. PICK u : u = Up[b - 1]
  OBVIOUS
<1>4. u \in Seq(Nat) /\ Len(u) \in Nat
  BY <1>2, <1>3, UpIs, LenProperties
<1>5. Up[n] = Append(u, b)
  <2>1. Up[b] = Append(u, b)
    BY <1>3, UpIs
  <2>2. Up[n] = Up[b]
    BY <1>2, UpSame
  <2> QED BY <2>1, <2>2
<1>6. Len(tokens) = Len(u) /\ \A i \in 1 .. Len(u) : Agrees(tokens[i], u[i])
  BY <1>3 DEF Finished, Covered
<1>7. /\ Len(Append(u, b)) = Len(u) + 1 /\ Append(u, b)[Len(u) + 1] = b
      /\ \A i \in 1 .. Len(u) : Append(u, b)[i] = u[i]
  BY <1>2, <1>4, AppendProperties
<1>8. /\ Len(tokens') = Len(u) + 1 /\ tokens'[Len(u) + 1] = t
      /\ \A i \in 1 .. Len(u) : tokens'[i] = tokens[i]
  BY <1>6, AppendProperties
<1>9. \A i \in 1 .. Len(u) + 1 : Agrees(tokens'[i], Append(u, b)[i])
  <2> TAKE i \in 1 .. Len(u) + 1
  <2>1. i = Len(u) + 1 \/ i \in 1 .. Len(u)
    BY <1>4
  <2> QED BY <1>6, <1>7, <1>8, <2>1
<1>10. \A q \in 1 .. n : Role[q] # "unknown"
  <2> TAKE q \in 1 .. n
  <2>1. q \in 1 .. b - 1 \/ q = b \/ q \in b + 1 .. n
    BY <1>2
  <2> QED BY <2>1 DEF Finished
<1>11. n \in Covered'
  <2>1. PICK v : v = Up[n]
    OBVIOUS
  <2>2. Len(v) = Len(u) + 1 /\ \A i \in 1 .. Len(v) : Agrees(tokens'[i], v[i])
    BY <1>5, <1>7, <1>9, <2>1
  <2>3. PICK s : s = tokens'
    OBVIOUS
  <2>4. Len(v) <= Len(s) /\ \A i \in 1 .. Len(v) : Agrees(s[i], v[i])
    BY <1>4, <1>8, <2>2, <2>3
  <2>5. Covered' = {k \in 0 .. Null - 1 :
                     /\ Len(Up[k]) <= Len(s)
                     /\ \A i \in 1 .. Len(Up[k]) : Agrees(s[i], Up[k][i])}
    BY <1>1, <2>3 DEF Covered, Agrees
  <2> QED BY <1>2, <2>1, <2>4, <2>5
<1> QED BY <1>1, <1>5, <1>7, <1>8, <1>10, <1>11 DEF Finished

\* The token that tok appends.
LEMMA TokIs ==
  ASSUME TypeInv, NEW type \in ScanTypes, NEW str \in Seq(STRING),
         NEW pos \in Nat, tok(type, str, pos)
  PROVE  \E t \in TokenRecord :
           /\ tokens' = Append(tokens, t) /\ tokens \in Seq(TokenRecord)
           /\ [type |-> t.type, str |-> t.str, lineno |-> t.lineno]
                = [type |-> type, str |-> str, lineno |-> lineno]
           /\ t.linepos = pos
<1> DEFINE t == [type |-> type, str |-> str, lineno |-> lineno, linepos |-> pos]
<1>1. lineno \in Nat /\ tokens \in Seq(TokenRecord)
  BY DEF TypeInv, TypeOK
<1>2. t \in TokenRecord
  BY <1>1 DEF TokenRecord
<1>3. /\ t.type = type /\ t.str = str /\ t.lineno = lineno /\ t.linepos = pos
      /\ tokens' = Append(tokens, t)
  BY DEF tok
<1> HIDE DEF t
<1> WITNESS t \in TokenRecord
<1> QED BY <1>1, <1>3

\* The step that appends the token of what begins at b.
LEMMA TokenAdded ==
  ASSUME Source, TypeInv, buf' = buf, NEW type \in ScanTypes,
         NEW str \in Seq(STRING), NEW pos \in Nat, tok(type, str, pos),
         NEW b \in 1 .. Null - 1, b - 1 \in Finished, IsStart(b),
         Lex[b] = [type |-> type, str |-> str, lineno |-> lineno],
         Bare => pos = Cols[b],
         NEW n \in b .. Null - 1,
         \A q \in b + 1 .. n : ~ IsStart(q) /\ Role[q] # "unknown"
  PROVE  n \in Finished' /\ n \in Covered'
<1>1. PICK t \in TokenRecord :
        /\ tokens' = Append(tokens, t) /\ tokens \in Seq(TokenRecord)
        /\ [type |-> t.type, str |-> t.str, lineno |-> t.lineno]
             = [type |-> type, str |-> str, lineno |-> lineno]
        /\ t.linepos = pos
  BY TokIs
<1>2. Agrees(t, b)
  BY <1>1 DEF Agrees
<1>3. Role[b] # "unknown"
  BY DEF IsStart
<1> QED BY <1>1, <1>2, <1>3, FinishedMore

-----------------------------------------------------------------------------
\* The steps up to the null.

LEMMA Advanced ==
  ASSUME Source, TypeInv, srcbuf \in 1 .. Len(buf), Counted, buf' = buf,
         srcbuf' = srcbuf + 1,
         lineno' = IF ch = "\n" THEN lineno + 1 ELSE lineno,
         Bare => linepos' = IF ch = "\n" THEN 1 ELSE linepos + 1
  PROVE  Counted'
<1>1. Lines' = Lines /\ ColAt' = ColAt /\ (Bare' <=> Bare)
  BY Frozen DEF Bare
<1>2. IF ch = "\n"
      THEN Lines[srcbuf + 1] = Lines[srcbuf] + 1 /\ ColAt[srcbuf + 1] = 1
      ELSE Lines[srcbuf + 1] = Lines[srcbuf] /\ ColAt[srcbuf + 1] = ColAt[srcbuf] + 1
  BY LinesAre DEF ch
<1>3. lineno' = Lines[srcbuf + 1]
  BY <1>2 DEF Counted
<1>4. Bare => linepos' = ColAt[srcbuf + 1]
  BY <1>2 DEF Counted
<1> QED BY <1>1, <1>3, <1>4 DEF Counted

\* What is left to show of a step that does not end the scan.
LEMMA GoesOn ==
  ASSUME LexInv, TypeInv, Source', scan' = "scanning", srcbuf' \in Nat,
         srcbuf' <= Null => Within', srcbuf' > Null => Beyond', buf' = buf
  PROVE  LexInv'
<1>1. Null' = Null
  BY Frozen
<1>2. EndsWell'
  BY DEF EndsWell
<1> QED BY <1>1, <1>2 DEF LexInv

\* Where a loop is before the null.
LEMMA Passing ==
  ASSUME LexInv, TypeInv, NEW loop, Reading(loop), srcbuf <= Null, buf' = buf
  PROVE  /\ Source /\ Source' /\ Within
         /\ srcbuf \in 1 .. Null /\ srcbuf \in 1 .. Len(buf)
         /\ Null \in 1 .. Len(buf) /\ Len(buf) \in Nat
         /\ ch = buf[srcbuf] /\ (ch = NUL <=> srcbuf = Null)
         /\ Role[srcbuf - 1] \in Roles
         /\ srcbuf < Null =>
              /\ Role[srcbuf] = RoleAfter(Role[srcbuf - 1], ch)
              /\ Role[srcbuf] \in Roles
         /\ lineno \in Nat /\ linepos \in Nat /\ Len(word) \in Nat
         /\ word \in Seq(STRING)
         /\ in = loop /\ scan = "scanning" /\ Counted
         /\ srcbuf - 1 \in 0 .. Null - 1
<1>1. Source /\ Source' /\ Within /\ in = loop /\ scan = "scanning" /\ Counted
  BY DEF LexInv, Source, Within, Reading
<1>2. /\ srcbuf \in 1 .. Len(buf) + 1 /\ lineno \in 0 .. srcbuf - 1
      /\ linepos \in 0 .. srcbuf - 1 /\ word \in Seq(STRING)
  BY DEF TypeInv, TypeOK
<1>3. Null \in 1 .. Len(buf) /\ Len(buf) \in Nat /\ Len(word) \in Nat
  BY <1>1, <1>2, NullIs, LenProperties
<1>4. srcbuf \in 1 .. Null
  BY <1>2, <1>3
<1>5. srcbuf - 1 \in 0 .. Null - 1 /\ srcbuf \in 1 .. Len(buf)
      /\ lineno \in Nat /\ linepos \in Nat
  BY <1>2, <1>3, <1>4
<1>6. /\ ch = buf[srcbuf] /\ (ch = NUL <=> srcbuf = Null)
      /\ Role[srcbuf - 1] \in Roles
      /\ srcbuf < Null =>
           /\ Role[srcbuf] = RoleAfter(Role[srcbuf - 1], ch)
           /\ Role[srcbuf] \in Roles
  BY <1>1, <1>4, Here
<1> QED BY <1>1, <1>2, <1>3, <1>4, <1>5, <1>6

LEMMA BlankKeeps ==
  ASSUME LexInv, TypeInv, Blank, srcbuf <= Null
  PROVE  LexInv'
<1>1. Reading("switch") /\ ch \in Blanks /\ buf' = buf /\ scan' = scan
      /\ in' = in /\ tokens' = tokens
  BY DEF Blank, Keep
<1>2. /\ srcbuf' = srcbuf + 1
      /\ lineno' = IF ch = "\n" THEN lineno + 1 ELSE lineno
      /\ linepos' = IF ch = "\n" THEN 1 ELSE linepos + 1
  BY DEF Blank, advance
<1>3. /\ Source /\ Source' /\ Within /\ srcbuf \in 1 .. Null
      /\ srcbuf \in 1 .. Len(buf) /\ (ch = NUL <=> srcbuf = Null)
      /\ (srcbuf < Null => Role[srcbuf] = RoleAfter(Role[srcbuf - 1], ch))
      /\ Null \in 1 .. Len(buf) /\ Len(buf) \in Nat /\ Counted
      /\ in = "switch" /\ scan = "scanning"
  BY <1>1, Passing
<1>4. Between
  BY <1>3 DEF Within
<1>5. srcbuf < Null
  <2>1. ch # NUL
    BY <1>1, Kinds
  <2> QED BY <1>3, <2>1
<1>6. Role[srcbuf] = "blank"
  BY <1>1, <1>3, <1>4, <1>5, Afters DEF Between
<1>7. srcbuf \in Finished'
  <2>1. srcbuf - 1 \in Finished
    BY <1>4 DEF Between
  <2>2. srcbuf \in (srcbuf - 1) .. Null - 1
    BY <1>3, <1>5
  <2>3. \A q \in (srcbuf - 1) + 1 .. srcbuf : q = srcbuf
    BY <1>3
  <2>4. ~ IsStart(srcbuf) /\ Role[srcbuf] # "unknown"
    BY <1>6 DEF IsStart
  <2> QED BY <1>1, <1>3, <2>1, <2>2, <2>3, <2>4, FinishedSame
<1>8. Counted'
  BY <1>1, <1>2, <1>3, Advanced
<1>9. Role' = Role
  BY <1>1, Frozen
<1>10. srcbuf' - 1 = srcbuf
  BY <1>2, <1>3
<1>11. Between'
  BY <1>6, <1>7, <1>9, <1>10 DEF Between
<1>12. Within' /\ srcbuf' \in Nat /\ srcbuf' <= Null
  BY <1>1, <1>2, <1>3, <1>5, <1>8, <1>11 DEF Within
<1> QED BY <1>1, <1>3, <1>12, GoesOn

LEMMA SingleCharKeeps ==
  ASSUME LexInv, TypeInv, SingleChar, srcbuf <= Null
  PROVE  LexInv'
<1>1. Reading("switch") /\ ch \in Singles /\ buf' = buf /\ scan' = scan
      /\ in' = in /\ tok(SINGLE_CHAR_TOKEN[ch], <<ch>>, linepos)
  BY DEF SingleChar, Keep, Singles
<1>2. srcbuf' = srcbuf + 1 /\ lineno' = lineno /\ linepos' = linepos + 1
  BY DEF SingleChar, advance
<1>3. /\ Source /\ Source' /\ Within /\ srcbuf \in 1 .. Null
      /\ srcbuf \in 1 .. Len(buf) /\ (ch = NUL <=> srcbuf = Null)
      /\ (srcbuf < Null => Role[srcbuf] = RoleAfter(Role[srcbuf - 1], ch))
      /\ Null \in 1 .. Len(buf) /\ Len(buf) \in Nat /\ Counted
      /\ in = "switch" /\ scan = "scanning" /\ linepos \in Nat
      /\ ch = buf[srcbuf]
  BY <1>1, Passing
<1>4. Between
  BY <1>3 DEF Within
<1>5. ch # NUL /\ ch # "\n"
  BY <1>1, Kinds
<1>6. srcbuf < Null /\ srcbuf \in 1 .. Null - 1
  BY <1>3, <1>5
<1>7. Role[srcbuf] = "single"
  <2>1. Role[srcbuf - 1] \notin {"open", "text", "comment"}
    BY <1>4 DEF Between
  <2>2. Role[srcbuf] = RoleAfter(Role[srcbuf - 1], ch)
    BY <1>3, <1>6
  <2> QED BY <1>1, <2>1, <2>2, Afters
<1>8. srcbuf \in Finished'
  <2>1. PICK str \in Seq(STRING) : str = <<ch>>
    BY <1>1, Char
  <2>2. PICK type \in ScanTypes : type = SINGLE_CHAR_TOKEN[ch]
    BY <1>1, TypesOfTokens
  <2>3. PICK pos \in Nat : pos = linepos
    BY <1>3
  <2>4. tok(type, str, pos)
    BY <1>1, <2>1, <2>2, <2>3
  <2>5. /\ Lex[srcbuf] = [type |-> SINGLE_CHAR_TOKEN[buf[srcbuf]],
                          str |-> <<buf[srcbuf]>>, lineno |-> Lines[srcbuf]]
        /\ Cols[srcbuf] = ColAt[srcbuf]
    BY <1>3, <1>6, <1>7, SingleLexeme
  <2>6. /\ Lex[srcbuf] = [type |-> type, str |-> str, lineno |-> lineno]
        /\ Bare => pos = Cols[srcbuf]
    BY <1>3, <2>1, <2>2, <2>3, <2>5 DEF Counted
  <2>7. srcbuf - 1 \in Finished
    BY <1>4 DEF Between
  <2>8. srcbuf \in srcbuf .. Null - 1 /\ \A q \in srcbuf + 1 .. srcbuf : FALSE
    BY <1>6
  <2>9. IsStart(srcbuf)
    BY <1>7 DEF IsStart
  <2> QED BY <1>1, <1>3, <1>6, <2>4, <2>6, <2>7, <2>8, <2>9, TokenAdded
<1>9. Counted'
  BY <1>1, <1>2, <1>3, <1>5, Advanced
<1>10. Role' = Role /\ srcbuf' - 1 = srcbuf
  BY <1>1, <1>2, <1>3, Frozen
<1>11. Between'
  BY <1>7, <1>8, <1>10 DEF Between
<1>12. Within' /\ srcbuf' \in Nat /\ srcbuf' <= Null
  BY <1>1, <1>2, <1>3, <1>6, <1>9, <1>11 DEF Within
<1> QED BY <1>1, <1>3, <1>12, GoesOn

-----------------------------------------------------------------------------
\* Strings.

LEMMA BeginStringKeeps ==
  ASSUME LexInv, TypeInv, BeginString, srcbuf <= Null
  PROVE  LexInv'
<1>1. Reading("switch") /\ ch = Quote /\ buf' = buf /\ scan' = scan
      /\ in' = "string" /\ tokens' = tokens /\ word' = word
  BY DEF BeginString, Keep, Quote
<1>2. srcbuf' = srcbuf + 1 /\ lineno' = lineno /\ linepos' = linepos + 1
  BY DEF BeginString, advance
<1>3. /\ Source /\ Source' /\ Within /\ srcbuf \in 1 .. Null
      /\ srcbuf \in 1 .. Len(buf) /\ (ch = NUL <=> srcbuf = Null)
      /\ (srcbuf < Null => Role[srcbuf] = RoleAfter(Role[srcbuf - 1], ch))
      /\ Null \in 1 .. Len(buf) /\ Len(buf) \in Nat /\ Counted
      /\ in = "switch" /\ scan = "scanning"
  BY <1>1, Passing
<1>4. Between
  BY <1>3 DEF Within
<1>5. ch # NUL /\ ch # "\n"
  BY <1>1, Kinds
<1>6. srcbuf < Null /\ srcbuf \in 1 .. Null - 1
  BY <1>3, <1>5
<1>7. Role[srcbuf] = "open"
  <2>1. Role[srcbuf - 1] \notin {"open", "text", "comment"}
    BY <1>4 DEF Between
  <2>2. Role[srcbuf] = RoleAfter(Role[srcbuf - 1], ch)
    BY <1>3, <1>6
  <2> QED BY <1>1, <2>1, <2>2, Afters
<1>8. srcbuf - 1 \in Finished'
  <2>1. srcbuf - 1 \in Finished
    BY <1>4 DEF Between
  <2>2. srcbuf - 1 \in (srcbuf - 1) .. Null - 1
        /\ \A q \in (srcbuf - 1) + 1 .. srcbuf - 1 : FALSE
    BY <1>3
  <2> QED BY <1>1, <1>3, <2>1, <2>2, FinishedSame
<1>9. Counted'
  BY <1>1, <1>2, <1>3, <1>5, Advanced
<1>10. Role' = Role
  BY <1>1, Frozen
<1>11. word' = << >> /\ Len(word') = 0
  BY <1>1, <1>3 DEF TypeInv, TypeOK
<1>12. SubSeq(buf, srcbuf + 1, srcbuf' - 1) = << >>
  <2>1. srcbuf + 1 \in Int /\ srcbuf' - 1 \in Int /\ srcbuf + 1 > srcbuf' - 1
    BY <1>2, <1>3
  <2> QED BY <1>3, <2>1, SubSeqEmpty
<1>13. InsideString'
  <2>1. srcbuf' - Len(word') - 1 = srcbuf
    BY <1>2, <1>3, <1>11
  <2>2. srcbuf \in 1 .. srcbuf' - 1 /\ \A q \in srcbuf + 1 .. srcbuf' - 1 : FALSE
    BY <1>2, <1>3
  <2> QED BY <1>1, <1>7, <1>8, <1>10, <1>11, <1>12, <2>1, <2>2 DEF InsideString
<1>14. Within'
  BY <1>1, <1>9, <1>13 DEF Within
<1>15. srcbuf' \in Nat /\ srcbuf' <= Null
  BY <1>2, <1>3, <1>6
<1> QED BY <1>1, <1>3, <1>14, <1>15, GoesOn

\* A string that is being read.
LEMMA Quoted ==
  ASSUME LexInv, TypeInv, Reading("string"), srcbuf <= Null, buf' = buf
  PROVE  \E b \in 1 .. srcbuf - 1 :
           /\ b = srcbuf - Len(word) - 1
           /\ b \in 1 .. Null - 1 /\ b - 1 \in Finished
           /\ Role[b] = "open" /\ IsStart(b) /\ ~ Bare
           /\ \A q \in b + 1 .. srcbuf - 1 : Role[q] = "text"
           /\ Role[srcbuf - 1] \in {"open", "text"}
           /\ word = SubSeq(buf, b + 1, srcbuf - 1)
<1>1. /\ Within /\ srcbuf \in 1 .. Null /\ Null \in 1 .. Len(buf)
      /\ in = "string" /\ Len(word) \in Nat /\ Len(buf) \in Nat
  BY Passing
<1>2. InsideString
  BY <1>1 DEF Within
<1>3. PICK b : b = srcbuf - Len(word) - 1
  OBVIOUS
<1>4. /\ b \in 1 .. srcbuf - 1 /\ b - 1 \in Finished /\ Role[b] = "open"
      /\ \A q \in b + 1 .. srcbuf - 1 : Role[q] = "text"
      /\ word = SubSeq(buf, b + 1, srcbuf - 1)
  BY <1>2, <1>3 DEF InsideString
<1>5. b \in 1 .. Null - 1
  BY <1>1, <1>4
<1>6. IsStart(b)
  BY <1>4 DEF IsStart
<1>7. ~ Bare
  BY <1>4, <1>5 DEF Bare
<1>8. Role[srcbuf - 1] \in {"open", "text"}
  <2>1. b = srcbuf - 1 \/ srcbuf - 1 \in b + 1 .. srcbuf - 1
    BY <1>1, <1>4
  <2> QED BY <1>4, <2>1
<1> QED BY <1>3, <1>4, <1>5, <1>6, <1>7, <1>8

LEMMA InStringKeeps ==
  ASSUME LexInv, TypeInv, InString, srcbuf <= Null
  PROVE  LexInv'
<1>1. Reading("string") /\ ch # Quote /\ ch # NUL /\ buf' = buf /\ scan' = scan
      /\ in' = in /\ tokens' = tokens /\ word' = Append(word, ch)
  BY DEF InString, Keep, Push, Quote
<1>2. srcbuf' = srcbuf + 1 /\ lineno' = IF ch = "\n" THEN lineno + 1 ELSE lineno
  BY DEF InString, advance
<1>3. /\ Source /\ Source' /\ Within /\ srcbuf \in 1 .. Null
      /\ srcbuf \in 1 .. Len(buf) /\ (ch = NUL <=> srcbuf = Null)
      /\ (srcbuf < Null => Role[srcbuf] = RoleAfter(Role[srcbuf - 1], ch))
      /\ Null \in 1 .. Len(buf) /\ Len(buf) \in Nat /\ Counted
      /\ in = "string" /\ scan = "scanning" /\ ch = buf[srcbuf]
      /\ Len(word) \in Nat
  BY <1>1, Passing
<1>4. PICK b \in 1 .. srcbuf - 1 :
        /\ b = srcbuf - Len(word) - 1
        /\ b \in 1 .. Null - 1 /\ b - 1 \in Finished
        /\ Role[b] = "open" /\ IsStart(b) /\ ~ Bare
        /\ \A q \in b + 1 .. srcbuf - 1 : Role[q] = "text"
        /\ Role[srcbuf - 1] \in {"open", "text"}
        /\ word = SubSeq(buf, b + 1, srcbuf - 1)
  BY <1>1, <1>3, Quoted
<1>5. srcbuf < Null /\ srcbuf \in 1 .. Null - 1
  BY <1>1, <1>3
<1>6. Role[srcbuf] = "text"
  BY <1>1, <1>3, <1>4, <1>5, Afters
<1>7. b - 1 \in Finished'
  <2>1. b - 1 \in (b - 1) .. Null - 1 /\ \A q \in (b - 1) + 1 .. b - 1 : FALSE
    BY <1>3, <1>4
  <2> QED BY <1>1, <1>3, <1>4, <2>1, FinishedSame
<1>8. Counted'
  BY <1>1, <1>2, <1>3, <1>4, Advanced
<1>9. Role' = Role
  BY <1>1, Frozen
<1>10. word' = SubSeq(buf, b + 1, srcbuf)
  <2>1. /\ b + 1 \in 1 .. Len(buf) + 1 /\ srcbuf \in 1 .. Len(buf) + 1
        /\ b + 1 <= srcbuf /\ srcbuf <= Len(buf)
    BY <1>3, <1>4
  <2>2. SubSeq(buf, b + 1, srcbuf) = Append(SubSeq(buf, b + 1, srcbuf - 1), buf[srcbuf])
    BY <1>3, <2>1, TextIs
  <2> QED BY <1>1, <1>3, <1>4, <2>2
<1>11. Len(word') = Len(word) + 1
  BY <1>1, Char
<1>12. InsideString'
  <2>1. srcbuf' - Len(word') - 1 = b /\ srcbuf' - 1 = srcbuf
    BY <1>2, <1>3, <1>4, <1>11
  <2>2. b \in 1 .. srcbuf' - 1
    BY <1>2, <1>3, <1>4
  <2>3. \A q \in b + 1 .. srcbuf : Role[q] = "text"
    <3> TAKE q \in b + 1 .. srcbuf
    <3>1. q = srcbuf \/ q \in b + 1 .. srcbuf - 1
      BY <1>3, <1>4
    <3> QED BY <1>4, <1>6, <3>1
  <2> QED BY <1>1, <1>4, <1>7, <1>9, <1>10, <2>1, <2>2, <2>3 DEF InsideString
<1>13. Within'
  BY <1>1, <1>3, <1>8, <1>12 DEF Within
<1>14. srcbuf' \in Nat /\ srcbuf' <= Null
  BY <1>2, <1>3, <1>5
<1> QED BY <1>1, <1>3, <1>13, <1>14, GoesOn

LEMMA EndStringKeeps ==
  ASSUME LexInv, TypeInv, EndString, srcbuf <= Null
  PROVE  LexInv'
<1>1. Reading("string") /\ ch \in {Quote, NUL} /\ buf' = buf /\ scan' = scan
      /\ in' = "switch" /\ tok("STRING", word, linepos) /\ word' = << >>
  BY DEF EndString, Keep, Continue, Quote
<1>2. srcbuf' = srcbuf + 1 /\ lineno' = lineno
  BY DEF EndString, advance
<1>3. /\ Source /\ Source' /\ Within /\ srcbuf \in 1 .. Null
      /\ srcbuf \in 1 .. Len(buf) /\ (ch = NUL <=> srcbuf = Null)
      /\ (srcbuf < Null => Role[srcbuf] = RoleAfter(Role[srcbuf - 1], ch))
      /\ Null \in 1 .. Len(buf) /\ Len(buf) \in Nat /\ Counted
      /\ in = "string" /\ scan = "scanning" /\ ch = buf[srcbuf]
      /\ word \in Seq(STRING) /\ linepos \in Nat
  BY <1>1, Passing
<1>4. PICK b \in 1 .. srcbuf - 1 :
        /\ b = srcbuf - Len(word) - 1
        /\ b \in 1 .. Null - 1 /\ b - 1 \in Finished
        /\ Role[b] = "open" /\ IsStart(b) /\ ~ Bare
        /\ \A q \in b + 1 .. srcbuf - 1 : Role[q] = "text"
        /\ Role[srcbuf - 1] \in {"open", "text"}
        /\ word = SubSeq(buf, b + 1, srcbuf - 1)
  BY <1>1, <1>3, Quoted
<1>5. Null' = Null /\ Role' = Role /\ (Bare' <=> Bare)
  BY <1>1, Frozen DEF Bare
<1>6. ASSUME srcbuf < Null => Role[srcbuf] = "close"
      PROVE  Lex[b] = [type |-> "STRING", str |-> word, lineno |-> lineno]
  <2>1. srcbuf \in b + 1 .. Null /\ \A q \in b + 1 .. srcbuf - 1 : Role[q] # "close"
    BY <1>3, <1>4
  <2>2. Lex[b] = [type |-> "STRING", str |-> SubSeq(buf, b + 1, srcbuf - 1),
                  lineno |-> Lines[srcbuf]]
    BY <1>3, <1>4, <1>6, <2>1, StringLexeme
  <2> QED BY <1>3, <1>4, <2>2 DEF Counted
<1>7. "STRING" \in ScanTypes
  BY TypesOfTokens
<1>8. CASE ch = Quote
  <2>1. ch # NUL /\ ch # "\n"
    BY <1>8, Kinds
  <2>2. srcbuf < Null /\ srcbuf \in 1 .. Null - 1 /\ srcbuf \in b .. Null - 1
    BY <1>3, <1>4, <2>1
  <2>3. Role[srcbuf] = "close"
    BY <1>3, <1>4, <1>8, <2>2, Afters
  <2>4. Lex[b] = [type |-> "STRING", str |-> word, lineno |-> lineno]
    BY <1>6, <2>3
  <2>5. \A q \in b + 1 .. srcbuf : ~ IsStart(q) /\ Role[q] # "unknown"
    <3> TAKE q \in b + 1 .. srcbuf
    <3>1. q = srcbuf \/ q \in b + 1 .. srcbuf - 1
      BY <1>3, <1>4
    <3> QED BY <1>4, <2>3, <3>1 DEF IsStart
  <2>6. srcbuf \in Finished'
    <3>1. /\ linepos \in Nat /\ word \in Seq(STRING) /\ Source /\ buf' = buf
          /\ tok("STRING", word, linepos)
      BY <1>1, <1>3
    <3>2. /\ b \in 1 .. Null - 1 /\ b - 1 \in Finished /\ IsStart(b) /\ ~ Bare
      BY <1>4
    <3>3. PICK n \in b .. Null - 1 : n = srcbuf
      BY <2>2
    <3>4. \A q \in b + 1 .. n : ~ IsStart(q) /\ Role[q] # "unknown"
      BY <2>5, <3>3
    <3>5. n \in Finished'
      BY <1>7, <2>4, <3>1, <3>2, <3>4, TokenAdded
    <3> QED BY <3>3, <3>5
  <2>7. Counted'
    BY <1>1, <1>2, <1>3, <1>4, <2>1, Advanced
  <2>8. srcbuf' - 1 = srcbuf
    BY <1>2, <1>3
  <2>9. Between'
    BY <1>5, <2>3, <2>6, <2>8 DEF Between
  <2>10. Within'
    BY <1>1, <2>7, <2>9 DEF Within
  <2>11. srcbuf' \in Nat /\ srcbuf' <= Null
    BY <1>2, <1>3, <2>2
  <2> QED BY <1>1, <1>3, <2>10, <2>11, GoesOn
<1>9. CASE ch = NUL
  <2>1. srcbuf = Null
    BY <1>3, <1>9
  <2>2. Lex[b] = [type |-> "STRING", str |-> word, lineno |-> lineno]
    BY <1>3, <1>6, <2>1
  <2>3. Null - 1 \in b .. Null - 1
        /\ \A q \in b + 1 .. Null - 1 : Role[q] = "text"
    BY <1>3, <1>4, <2>1
  <2>4. \A q \in b + 1 .. Null - 1 : ~ IsStart(q) /\ Role[q] # "unknown"
    BY <2>3 DEF IsStart
  <2>5. Null - 1 \in Finished' /\ Null - 1 \in Covered'
    BY <1>1, <1>3, <1>4, <1>7, <2>2, <2>3, <2>4, TokenAdded
  <2>6. OpenEnd'
    BY <1>4, <1>5, <2>1 DEF OpenEnd
  <2>7. \A q \in 1 .. Null - 1 : Role[q] # "unknown"
    BY <1>5, <2>5 DEF Finished
  <2>8. Beyond'
    BY <1>4, <1>5, <2>5, <2>6, <2>7 DEF Beyond
  <2>9. srcbuf' \in Nat /\ srcbuf' > Null /\ ~ (srcbuf' <= Null)
    BY <1>2, <1>3, <2>1
  <2> QED BY <1>1, <1>3, <2>8, <2>9, GoesOn
<1> QED BY <1>1, <1>8, <1>9

-----------------------------------------------------------------------------
\* Comments.

LEMMA BeginCommentKeeps ==
  ASSUME LexInv, TypeInv, BeginComment, srcbuf <= Null
  PROVE  LexInv'
<1>1. Reading("switch") /\ ch = "#" /\ buf' = buf /\ scan' = scan
      /\ in' = "comment" /\ tokens' = tokens /\ srcbuf' = srcbuf
      /\ lineno' = lineno /\ linepos' = linepos
  BY DEF BeginComment, Keep
<1>2. /\ Source /\ Source' /\ Within /\ srcbuf \in 1 .. Null /\ Counted
      /\ in = "switch" /\ scan = "scanning" /\ Null \in 1 .. Len(buf)
      /\ Len(buf) \in Nat
  BY <1>1, Passing
<1>3. Between
  BY <1>2 DEF Within
<1>4. srcbuf - 1 \in Finished'
  <2>1. srcbuf - 1 \in Finished
    BY <1>3 DEF Between
  <2>2. srcbuf - 1 \in (srcbuf - 1) .. Null - 1
        /\ \A q \in (srcbuf - 1) + 1 .. srcbuf - 1 : FALSE
    BY <1>2
  <2> QED BY <1>1, <1>2, <2>1, <2>2, FinishedSame
<1>5. /\ Role' = Role /\ Lines' = Lines /\ ColAt' = ColAt /\ (Bare' <=> Bare)
  BY <1>1, Frozen DEF Bare
<1>6. Counted'
  BY <1>1, <1>2, <1>5 DEF Counted
<1>7. ch' = "#"
  BY <1>1 DEF ch
<1>8. InsideComment'
  BY <1>1, <1>3, <1>4, <1>5, <1>7 DEF InsideComment, Between
<1>9. Within'
  BY <1>1, <1>6, <1>8 DEF Within
<1>10. srcbuf' \in Nat /\ srcbuf' <= Null
  BY <1>1, <1>2
<1> QED BY <1>1, <1>2, <1>9, <1>10, GoesOn

LEMMA InCommentKeeps ==
  ASSUME LexInv, TypeInv, InComment, srcbuf <= Null
  PROVE  LexInv'
<1>1. Reading("comment") /\ ch # "\n" /\ ch # NUL /\ buf' = buf /\ scan' = scan
      /\ in' = in /\ tokens' = tokens
  BY DEF InComment, Keep
<1>2. srcbuf' = srcbuf + 1 /\ lineno' = lineno /\ linepos' = linepos + 1
  BY DEF InComment, advance
<1>3. /\ Source /\ Source' /\ Within /\ srcbuf \in 1 .. Null
      /\ srcbuf \in 1 .. Len(buf) /\ (ch = NUL <=> srcbuf = Null)
      /\ (srcbuf < Null => Role[srcbuf] = RoleAfter(Role[srcbuf - 1], ch))
      /\ Null \in 1 .. Len(buf) /\ Len(buf) \in Nat /\ Counted
      /\ in = "comment" /\ scan = "scanning"
  BY <1>1, Passing
<1>4. InsideComment
  BY <1>3 DEF Within
<1>5. srcbuf < Null /\ srcbuf \in 1 .. Null - 1
  BY <1>1, <1>3
<1>6. Role[srcbuf] = "comment"
  <2>1. Role[srcbuf] = RoleAfter(Role[srcbuf - 1], ch)
    BY <1>3, <1>5
  <2>2. CASE Role[srcbuf - 1] = "comment"
    BY <1>1, <2>1, <2>2, Afters
  <2>3. CASE Role[srcbuf - 1] # "comment"
    BY <1>4, <2>1, <2>3, Afters DEF InsideComment
  <2> QED BY <2>2, <2>3
<1>7. srcbuf \in Finished'
  <2>1. srcbuf - 1 \in Finished
    BY <1>4 DEF InsideComment
  <2>2. srcbuf \in (srcbuf - 1) .. Null - 1
    BY <1>3, <1>5
  <2>3. \A q \in (srcbuf - 1) + 1 .. srcbuf : q = srcbuf
    BY <1>3
  <2>4. ~ IsStart(srcbuf) /\ Role[srcbuf] # "unknown"
    BY <1>6 DEF IsStart
  <2> QED BY <1>1, <1>3, <2>1, <2>2, <2>3, <2>4, FinishedSame
<1>8. Counted'
  BY <1>1, <1>2, <1>3, Advanced
<1>9. Role' = Role /\ srcbuf' - 1 = srcbuf
  BY <1>1, <1>2, <1>3, Frozen
<1>10. InsideComment'
  BY <1>6, <1>7, <1>9 DEF InsideComment
<1>11. Within'
  BY <1>1, <1>3, <1>8, <1>10 DEF Within
<1>12. srcbuf' \in Nat /\ srcbuf' <= Null
  BY <1>2, <1>3, <1>5
<1> QED BY <1>1, <1>3, <1>11, <1>12, GoesOn

LEMMA EndCommentKeeps ==
  ASSUME LexInv, TypeInv, EndComment, srcbuf <= Null
  PROVE  LexInv'
<1>1. Reading("comment") /\ ch \in {"\n", NUL} /\ buf' = buf /\ scan' = scan
      /\ in' = "switch" /\ tokens' = tokens
  BY DEF EndComment, Keep, Continue
<1>2. srcbuf' = srcbuf + 1 /\ lineno' = lineno + 1
  BY DEF EndComment, advance
<1>3. /\ Source /\ Source' /\ Within /\ srcbuf \in 1 .. Null
      /\ srcbuf \in 1 .. Len(buf) /\ (ch = NUL <=> srcbuf = Null)
      /\ (srcbuf < Null => Role[srcbuf] = RoleAfter(Role[srcbuf - 1], ch))
      /\ Null \in 1 .. Len(buf) /\ Len(buf) \in Nat /\ Counted
      /\ in = "comment" /\ scan = "scanning" /\ srcbuf - 1 \in 0 .. Null - 1
  BY <1>1, Passing
<1>4. InsideComment
  BY <1>3 DEF Within
<1>5. ch # "#"
  BY <1>1, Kinds
<1>6. Role[srcbuf - 1] = "comment" /\ srcbuf - 1 \in Finished
  BY <1>4, <1>5 DEF InsideComment
<1>7. ~ Bare
  <2>1. srcbuf - 1 # 0
    BY <1>3, <1>6, RoleIs
  <2>2. srcbuf - 1 \in 1 .. Null - 1
    BY <1>3, <2>1
  <2> QED BY <1>6, <2>2 DEF Bare
<1>8. Null' = Null /\ Role' = Role /\ (Bare' <=> Bare)
  BY <1>1, Frozen DEF Bare
<1>9. CASE ch = "\n"
  <2>1. ch # NUL
    BY <1>9, Kinds
  <2>2. srcbuf < Null /\ srcbuf \in 1 .. Null - 1
    BY <1>3, <2>1
  <2>3. Role[srcbuf] = "blank"
    BY <1>3, <1>6, <1>9, <2>2, Afters
  <2>4. srcbuf \in Finished'
    <3>1. srcbuf \in (srcbuf - 1) .. Null - 1
      BY <1>3, <2>2
    <3>2. \A q \in (srcbuf - 1) + 1 .. srcbuf : q = srcbuf
      BY <1>3
    <3>3. ~ IsStart(srcbuf) /\ Role[srcbuf] # "unknown"
      BY <2>3 DEF IsStart
    <3> QED BY <1>1, <1>3, <1>6, <3>1, <3>2, <3>3, FinishedSame
  <2>5. Counted'
    BY <1>1, <1>2, <1>3, <1>7, <1>9, Advanced
  <2>6. srcbuf' - 1 = srcbuf
    BY <1>2, <1>3
  <2>7. Between'
    BY <1>8, <2>3, <2>4, <2>6 DEF Between
  <2>8. Within'
    BY <1>1, <2>5, <2>7 DEF Within
  <2>9. srcbuf' \in Nat /\ srcbuf' <= Null
    BY <1>2, <1>3, <2>2
  <2> QED BY <1>1, <1>3, <2>8, <2>9, GoesOn
<1>10. CASE ch = NUL
  <2>1. srcbuf = Null
    BY <1>3, <1>10
  <2>2. Null - 1 \in Finished /\ Role[Null - 1] = "comment"
    BY <1>6, <2>1
  <2>3. Null - 1 \in Finished' /\ Null - 1 \in Covered'
    <3>1. Null - 1 \in (Null - 1) .. Null - 1
          /\ \A q \in (Null - 1) + 1 .. Null - 1 : FALSE
      BY <1>3
    <3> QED BY <1>1, <1>3, <2>2, <3>1, FinishedSame
  <2>4. OpenEnd'
    BY <1>8, <2>2 DEF OpenEnd
  <2>5. \A q \in 1 .. Null - 1 : Role[q] # "unknown"
    BY <2>2 DEF Finished
  <2>6. Beyond'
    BY <1>7, <1>8, <2>3, <2>4, <2>5 DEF Beyond
  <2>7. srcbuf' \in Nat /\ srcbuf' > Null /\ ~ (srcbuf' <= Null)
    BY <1>2, <1>3, <2>1
  <2> QED BY <1>1, <1>3, <2>6, <2>7, GoesOn
<1> QED BY <1>1, <1>9, <1>10

-----------------------------------------------------------------------------
\* Words.

LEMMA BeginWordKeeps ==
  ASSUME LexInv, TypeInv, BeginWord, srcbuf <= Null
  PROVE  LexInv'
<1>1. Reading("switch") /\ ch \in Letters \cup Digits /\ buf' = buf /\ scan' = scan
      /\ in' = (IF ch \in Digits THEN "num" ELSE "id") /\ tokens' = tokens
      /\ srcbuf' = srcbuf /\ lineno' = lineno /\ linepos' = linepos /\ word' = word
  BY DEF BeginWord, Keep
<1>2. /\ Source /\ Source' /\ Within /\ srcbuf \in 1 .. Null /\ Counted
      /\ in = "switch" /\ scan = "scanning" /\ Null \in 1 .. Len(buf)
      /\ Len(buf) \in Nat /\ (ch = NUL <=> srcbuf = Null)
      /\ (srcbuf < Null => Role[srcbuf] = RoleAfter(Role[srcbuf - 1], ch))
  BY <1>1, Passing
<1>3. Between
  BY <1>2 DEF Within
<1>4. srcbuf < Null
  <2>1. ch # NUL
    BY <1>1, Kinds
  <2> QED BY <1>2, <2>1
<1>5. Role[srcbuf - 1] \notin {"open", "text", "comment"}
      /\ Role[srcbuf] = RoleAfter(Role[srcbuf - 1], ch)
      /\ (Role[srcbuf - 1] \in {"id", "num"} => Role[srcbuf] # Role[srcbuf - 1])
  BY <1>2, <1>3, <1>4 DEF Between
<1>6. Role[srcbuf] = in' /\ Role[srcbuf - 1] # in' /\ in' \in {"id", "num"}
  <2>1. CASE ch \in Digits
    <3>1. Role[srcbuf] = IF Role[srcbuf - 1] = "id" THEN "id" ELSE "num"
      BY <1>5, <2>1, Afters
    <3> QED BY <1>1, <1>5, <2>1, <3>1
  <2>2. CASE ch \notin Digits
    <3>1. Role[srcbuf] = "id"
      BY <1>1, <1>5, <2>2, Afters
    <3> QED BY <1>1, <1>5, <2>2, <3>1
  <2> QED BY <2>1, <2>2
<1>7. srcbuf - 1 \in Finished'
  <2>1. srcbuf - 1 \in Finished
    BY <1>3 DEF Between
  <2>2. srcbuf - 1 \in (srcbuf - 1) .. Null - 1
        /\ \A q \in (srcbuf - 1) + 1 .. srcbuf - 1 : FALSE
    BY <1>2
  <2> QED BY <1>1, <1>2, <2>1, <2>2, FinishedSame
<1>8. /\ Role' = Role /\ Lines' = Lines /\ ColAt' = ColAt /\ (Bare' <=> Bare)
      /\ Null' = Null
  BY <1>1, Frozen DEF Bare
<1>9. Counted'
  BY <1>1, <1>2, <1>8 DEF Counted
<1>10. word' = << >> /\ Len(word') = 0
  BY <1>1, <1>2 DEF TypeInv, TypeOK
<1>11. SubSeq(buf, srcbuf, srcbuf - 1) = << >>
  <2>1. srcbuf \in Int /\ srcbuf - 1 \in Int /\ srcbuf > srcbuf - 1
    BY <1>2
  <2> QED BY <1>2, <2>1, SubSeqEmpty
<1>12. InsideWord'
  <2>1. srcbuf' - Len(word') = srcbuf
    BY <1>1, <1>2, <1>10
  <2>2. srcbuf \in 1 .. srcbuf' /\ \A q \in srcbuf .. srcbuf' - 1 : FALSE
    BY <1>1, <1>2
  <2> QED BY <1>1, <1>4, <1>6, <1>7, <1>8, <1>10, <1>11, <2>1, <2>2 DEF InsideWord
<1>13. Within'
  BY <1>6, <1>9, <1>12 DEF Within
<1>14. srcbuf' \in Nat /\ srcbuf' <= Null
  BY <1>1, <1>2
<1> QED BY <1>1, <1>2, <1>13, <1>14, GoesOn

\* A word that is being read.
LEMMA Spelt ==
  ASSUME LexInv, TypeInv, NEW loop \in {"id", "num"}, Reading(loop),
         srcbuf <= Null, buf' = buf
  PROVE  \E b \in 1 .. srcbuf :
           /\ b = srcbuf - Len(word)
           /\ b \in 1 .. Null - 1 /\ b - 1 \in Finished
           /\ Role[b] = loop /\ IsStart(b) /\ Role[b - 1] # loop
           /\ \A q \in b .. srcbuf - 1 : Role[q] = loop
           /\ \A q \in b + 1 .. srcbuf - 1 : ~ IsStart(q) /\ Role[q] # "unknown"
           /\ word = SubSeq(buf, b, srcbuf - 1)
<1>1. /\ Within /\ srcbuf \in 1 .. Null /\ Null \in 1 .. Len(buf)
      /\ in = loop /\ Len(word) \in Nat /\ Len(buf) \in Nat
  BY Passing
<1>2. InsideWord
  BY <1>1 DEF Within
<1>3. PICK b : b = srcbuf - Len(word)
  OBVIOUS
<1>4. /\ b \in 1 .. srcbuf /\ b < Null /\ b - 1 \in Finished
      /\ Role[b] = loop /\ Role[b - 1] # loop
      /\ \A q \in b .. srcbuf - 1 : Role[q] = loop
      /\ word = SubSeq(buf, b, srcbuf - 1)
  BY <1>1, <1>2, <1>3 DEF InsideWord
<1>5. b \in 1 .. Null - 1
  BY <1>1, <1>4
<1>6. IsStart(b)
  BY <1>4 DEF IsStart
<1>7. \A q \in b + 1 .. srcbuf - 1 : ~ IsStart(q) /\ Role[q] # "unknown"
  <2> TAKE q \in b + 1 .. srcbuf - 1
  <2>1. q \in b .. srcbuf - 1 /\ q - 1 \in b .. srcbuf - 1
    BY <1>1, <1>4
  <2>2. Role[q] = loop /\ Role[q - 1] = loop
    BY <1>4, <2>1
  <2> QED BY <2>2 DEF IsStart
<1> QED BY <1>3, <1>4, <1>5, <1>6, <1>7

LEMMA InWordKeeps ==
  ASSUME LexInv, TypeInv, InWord, srcbuf <= Null
  PROVE  LexInv'
<1>1. PICK loop \in {"id", "num"} : Reading(loop) /\ ch \in WordChars[loop]
  BY DEF InWord
<1>2. buf' = buf /\ scan' = scan /\ in' = in /\ tokens' = tokens
      /\ word' = Append(word, ch)
      /\ srcbuf' = srcbuf + 1 /\ lineno' = lineno /\ linepos' = linepos + 1
  BY DEF InWord, Keep, Push, advance
<1>3. /\ Source /\ Source' /\ Within /\ srcbuf \in 1 .. Null
      /\ srcbuf \in 1 .. Len(buf) /\ (ch = NUL <=> srcbuf = Null)
      /\ (srcbuf < Null => Role[srcbuf] = RoleAfter(Role[srcbuf - 1], ch))
      /\ Null \in 1 .. Len(buf) /\ Len(buf) \in Nat /\ Counted
      /\ in = loop /\ scan = "scanning" /\ ch = buf[srcbuf]
      /\ Len(word) \in Nat
  BY <1>1, <1>2, Passing
<1>4. PICK b \in 1 .. srcbuf :
        /\ b = srcbuf - Len(word)
        /\ b \in 1 .. Null - 1 /\ b - 1 \in Finished
        /\ Role[b] = loop /\ IsStart(b) /\ Role[b - 1] # loop
        /\ \A q \in b .. srcbuf - 1 : Role[q] = loop
        /\ \A q \in b + 1 .. srcbuf - 1 : ~ IsStart(q) /\ Role[q] # "unknown"
        /\ word = SubSeq(buf, b, srcbuf - 1)
  BY <1>1, <1>2, <1>3, Spelt
<1>5. ch \in Letters \cup Digits /\ (loop = "num" => ch \in Digits)
  BY <1>1 DEF WordChars
<1>6. ch # NUL /\ ch # "\n"
  BY <1>5, Kinds
<1>7. srcbuf < Null /\ srcbuf \in 1 .. Null - 1
  BY <1>3, <1>6
<1>8. Role[srcbuf] = loop
  <2>1. CASE b = srcbuf
    BY <1>4, <2>1
  <2>2. CASE b # srcbuf
    <3>1. srcbuf - 1 \in b .. srcbuf - 1
      BY <1>3, <1>4, <2>2
    <3>2. Role[srcbuf - 1] = loop /\ Role[srcbuf] = RoleAfter(loop, ch)
      BY <1>3, <1>4, <1>7, <3>1
    <3>3. loop \notin {"open", "text", "comment"}
      OBVIOUS
    <3> QED BY <1>5, <3>2, <3>3, Afters
  <2> QED BY <2>1, <2>2
<1>9. b - 1 \in Finished'
  <2>1. b - 1 \in (b - 1) .. Null - 1 /\ \A q \in (b - 1) + 1 .. b - 1 : FALSE
    BY <1>3, <1>4
  <2> QED BY <1>2, <1>3, <1>4, <2>1, FinishedSame
<1>10. Counted'
  BY <1>2, <1>3, <1>6, Advanced
<1>11. Role' = Role /\ Null' = Null
  BY <1>2, Frozen
<1>12. word' = SubSeq(buf, b, srcbuf)
  <2>1. /\ b \in 1 .. Len(buf) + 1 /\ srcbuf \in 1 .. Len(buf) + 1
        /\ b <= srcbuf /\ srcbuf <= Len(buf)
    BY <1>3, <1>4
  <2>2. SubSeq(buf, b, srcbuf) = Append(SubSeq(buf, b, srcbuf - 1), buf[srcbuf])
    BY <1>3, <2>1, TextIs
  <2> QED BY <1>2, <1>3, <1>4, <2>2
<1>13. Len(word') = Len(word) + 1
  BY <1>1, <1>2, Char
<1>14. InsideWord'
  <2>1. srcbuf' - Len(word') = b /\ srcbuf' - 1 = srcbuf
    <3>1. /\ srcbuf' = srcbuf + 1 /\ Len(word') = Len(word) + 1
          /\ b = srcbuf - Len(word) /\ srcbuf \in Nat /\ Len(word) \in Nat
      BY <1>2, <1>3, <1>4, <1>13
    <3> QED BY <3>1
  <2>2. b \in 1 .. srcbuf' /\ b < Null
    BY <1>2, <1>3, <1>4
  <2>3. \A q \in b .. srcbuf : Role[q] = loop
    <3> TAKE q \in b .. srcbuf
    <3>1. q = srcbuf \/ q \in b .. srcbuf - 1
      BY <1>3, <1>4
    <3> QED BY <1>4, <1>8, <3>1
  <2>4. in' = loop
    BY <1>2, <1>3
  <2> QED BY <1>2, <1>4, <1>9, <1>11, <1>12, <2>1, <2>2, <2>3, <2>4 DEF InsideWord
<1>15. Within'
  BY <1>2, <1>3, <1>10, <1>14 DEF Within
<1>16. srcbuf' \in Nat /\ srcbuf' <= Null
  BY <1>2, <1>3, <1>7
<1> QED BY <1>2, <1>3, <1>15, <1>16, GoesOn

LEMMA EndWordKeeps ==
  ASSUME LexInv, TypeInv, EndWord, srcbuf <= Null
  PROVE  LexInv'
<1>1. PICK loop \in {"id", "num"} : Reading(loop) /\ ch \notin WordChars[loop]
  BY DEF EndWord
<1>2. buf' = buf /\ scan' = scan /\ in' = "switch" /\ word' = << >>
      /\ srcbuf' = srcbuf /\ lineno' = lineno /\ linepos' = linepos
      /\ tok(IF in = "num" THEN "NUM" ELSE getKeywordTokenType(word), word,
             linepos - 1)
  BY DEF EndWord, Keep, Continue
<1>3. /\ Source /\ Source' /\ Within /\ srcbuf \in 1 .. Null
      /\ srcbuf \in 1 .. Len(buf) /\ (ch = NUL <=> srcbuf = Null)
      /\ (srcbuf < Null => Role[srcbuf] = RoleAfter(Role[srcbuf - 1], ch))
      /\ Null \in 1 .. Len(buf) /\ Len(buf) \in Nat /\ Counted
      /\ in = loop /\ scan = "scanning" /\ ch = buf[srcbuf]
      /\ Len(word) \in Nat /\ word \in Seq(STRING) /\ linepos \in Nat
      /\ lineno \in Nat
  BY <1>1, <1>2, Passing
<1>4. PICK b \in 1 .. srcbuf :
        /\ b = srcbuf - Len(word)
        /\ b \in 1 .. Null - 1 /\ b - 1 \in Finished
        /\ Role[b] = loop /\ IsStart(b) /\ Role[b - 1] # loop
        /\ \A q \in b .. srcbuf - 1 : Role[q] = loop
        /\ \A q \in b + 1 .. srcbuf - 1 : ~ IsStart(q) /\ Role[q] # "unknown"
        /\ word = SubSeq(buf, b, srcbuf - 1)
  BY <1>1, <1>2, <1>3, Spelt
<1>5. ch \notin Digits /\ (loop = "id" => ch \notin Letters)
  BY <1>1 DEF WordChars
<1>6. Len(word) \in Nat \ {0} /\ linepos - 1 \in Nat
  <2>1. word # << >> /\ Len(word) <= linepos
    BY <1>1, <1>3 DEF TypeInv
  <2>2. Len(word) # 0
    BY <1>3, <2>1, EmptySeq
  <2> QED BY <1>3, <2>1, <2>2
<1>7. /\ b \in 1 .. srcbuf - 1 /\ srcbuf - 1 \in b .. Null - 1
      /\ srcbuf \in b + 1 .. Null /\ srcbuf - 1 \in 1 .. Null - 1
      /\ srcbuf - 1 \in 1 .. Len(buf)
  <2>1. b = srcbuf - Len(word) /\ b \in 1 .. srcbuf
    BY <1>4
  <2> QED BY <1>3, <1>6, <2>1
<1>8. Role[srcbuf - 1] = loop
  BY <1>4, <1>7
<1>9. srcbuf < Null => Role[srcbuf] # loop
  <2> SUFFICES ASSUME srcbuf < Null PROVE Role[srcbuf] # loop
    OBVIOUS
  <2>1. Role[srcbuf] = RoleAfter(loop, ch) /\ ch # NUL
    BY <1>3, <1>8
  <2>2. loop \notin {"open", "text", "comment"}
    OBVIOUS
  <2>3. CASE ch \in Letters
    BY <1>5, <2>1, <2>2, <2>3, Afters
  <2>4. CASE ch \in Blanks
    BY <2>1, <2>2, <2>4, Afters
  <2>5. CASE ch \in Singles
    BY <2>1, <2>2, <2>5, Afters
  <2>6. CASE ch = Quote \/ ch = "#"
    BY <2>1, <2>2, <2>6, Afters
  <2>7. CASE ch \notin {Quote, "#"} \cup Letters \cup Digits \cup Blanks \cup Singles
    BY <2>1, <2>2, <2>7, Afters
  <2> QED BY <1>5, <2>3, <2>4, <2>5, <2>6, <2>7
\* The last character of a word is not a newline.
<1>10. buf[srcbuf - 1] # "\n"
  <2>1. Role[srcbuf - 1] = RoleAfter(Role[(srcbuf - 1) - 1], buf[srcbuf - 1])
    BY <1>3, <1>7, RoleIs
  <2>2. PICK was : was = Role[(srcbuf - 1) - 1]
    OBVIOUS
  <2>3. ASSUME buf[srcbuf - 1] = "\n"
        PROVE  FALSE
    <3>1. loop = RoleAfter(was, "\n") /\ "\n" # Quote
      BY <1>8, <2>1, <2>2, <2>3, Kinds
    <3>2. CASE was \in {"open", "text"}
      BY <3>1, <3>2, Afters
    <3>3. CASE was = "comment"
      BY <3>1, <3>3, Afters
    <3>4. CASE was \notin {"open", "text", "comment"}
      BY <3>1, <3>4, Afters, Kinds
    <3> QED BY <3>2, <3>3, <3>4
  <2> QED BY <2>3
<1>11. Lines[srcbuf - 1] = lineno /\ (Bare => ColAt[srcbuf - 1] = linepos - 1)
  <2>1. PICK q \in 1 .. Len(buf) : q = srcbuf - 1
    BY <1>7
  <2>2. q + 1 = srcbuf
    BY <1>3, <2>1
  <2>3. /\ Lines[q + 1] = Lines[q] /\ ColAt[q + 1] = ColAt[q] + 1
        /\ ColAt[q] \in Nat
    <3>1. q \in 1 .. Len(buf) + 1
      BY <1>3
    <3> QED BY <1>3, <1>10, <2>1, <3>1, LinesAre
  <2>4. lineno = Lines[srcbuf] /\ (Bare => linepos = ColAt[srcbuf])
    BY <1>3 DEF Counted
  <2>5. Lines[q] = lineno
    BY <2>2, <2>3, <2>4
  <2>6. Bare => ColAt[q] = linepos - 1
    BY <2>2, <2>3, <2>4
  <2> QED BY <2>1, <2>5, <2>6
<1>12. srcbuf - 1 \in Finished'
  <2>1. PICK type \in ScanTypes :
          type = IF loop = "num" THEN "NUM" ELSE getKeywordTokenType(word)
    BY <1>3, TypesOfTokens
  <2>2. PICK pos \in Nat : pos = linepos - 1
    BY <1>6
  <2>3. tok(type, word, pos)
    BY <1>2, <1>3, <2>1, <2>2
  <2>4. type = IF Role[b] = "num" THEN "NUM" ELSE WordType(word)
    BY <1>3, <1>4, <2>1, KeywordType
  <2>5. Role[b] \in {"id", "num"} /\ (srcbuf < Null => Role[srcbuf] # Role[b])
        /\ \A q \in b .. srcbuf - 1 : Role[q] = Role[b]
    BY <1>4, <1>9
  <2>6. /\ Lex[b] = [type |-> IF Role[b] = "num" THEN "NUM"
                              ELSE WordType(SubSeq(buf, b, srcbuf - 1)),
                     str |-> SubSeq(buf, b, srcbuf - 1), lineno |-> Lines[srcbuf - 1]]
        /\ Cols[b] = ColAt[srcbuf - 1]
    BY <1>3, <1>4, <1>7, <2>5, WordLexeme
  <2>7. Lex[b] = [type |-> type, str |-> word, lineno |-> lineno]
    BY <1>4, <1>11, <2>4, <2>6
  <2>8. Bare => pos = Cols[b]
    BY <1>11, <2>2, <2>6
  <2>9. PICK n \in b .. Null - 1 : n = srcbuf - 1
    BY <1>7
  <2>10. \A q \in b + 1 .. n : ~ IsStart(q) /\ Role[q] # "unknown"
    BY <1>4, <2>9
  <2>11. b \in 1 .. Null - 1 /\ b - 1 \in Finished /\ IsStart(b)
         /\ Source /\ buf' = buf /\ word \in Seq(STRING)
    BY <1>2, <1>3, <1>4
  <2>12. n \in Finished'
    BY <2>3, <2>7, <2>8, <2>10, <2>11, TokenAdded
  <2> QED BY <2>9, <2>12
<1>13. /\ Role' = Role /\ Lines' = Lines /\ ColAt' = ColAt /\ (Bare' <=> Bare)
       /\ Null' = Null
  BY <1>2, Frozen DEF Bare
<1>14. Counted'
  BY <1>2, <1>3, <1>13 DEF Counted
<1>15. Between'
  <2>1. Role[srcbuf - 1] \notin {"open", "text", "comment"}
    BY <1>8
  <2>2. srcbuf < Null => Role[srcbuf] # Role[srcbuf - 1]
    BY <1>8, <1>9
  <2> QED BY <1>2, <1>12, <1>13, <2>1, <2>2 DEF Between
<1>16. Within'
  BY <1>2, <1>14, <1>15 DEF Within
<1>17. srcbuf' \in Nat /\ srcbuf' <= Null
  BY <1>2, <1>3
<1> QED BY <1>2, <1>3, <1>16, <1>17, GoesOn

-----------------------------------------------------------------------------
\* The end of the scan.

LEMMA Unmoved ==
  ASSUME UNCHANGED <<buf, srcbuf, lineno, linepos, tokens, in, word>>
  PROVE  /\ Source => Source'
         /\ (Within => Within') /\ (Beyond => Beyond')
         /\ Null' = Null /\ Role' = Role /\ ch' = ch
<1>1. /\ Null' = Null /\ Role' = Role /\ Up' = Up /\ Lex' = Lex
      /\ Lines' = Lines /\ ColAt' = ColAt /\ Cols' = Cols /\ (Bare' <=> Bare)
  BY Frozen DEF Bare
<1>2. Covered' = Covered /\ ch' = ch
  BY <1>1 DEF Covered, Agrees, ch
<1>3. Finished' = Finished
  BY <1>1, <1>2 DEF Finished
<1>4. Counted => Counted'
  BY <1>1 DEF Counted
<1>5. Between => Between'
  BY <1>1, <1>3 DEF Between
<1>6. InsideString => InsideString'
  BY <1>1, <1>3 DEF InsideString
<1>7. InsideComment => InsideComment'
  BY <1>1, <1>2, <1>3 DEF InsideComment
<1>8. InsideWord => InsideWord'
  BY <1>1, <1>3 DEF InsideWord
<1>9. Within => Within'
  BY <1>4, <1>5, <1>6, <1>7, <1>8 DEF Within
<1>10. Beyond => Beyond'
  BY <1>1, <1>2 DEF Beyond, OpenEnd
<1> QED BY <1>1, <1>2, <1>9, <1>10 DEF Source

LEMMA EndKeeps ==
  ASSUME LexInv, TypeInv, EndScan \/ Unimplemented \/ ReadOutside \/ UNCHANGED scanVars
  PROVE  LexInv'
<1>1. UNCHANGED <<buf, srcbuf, lineno, linepos, tokens, in, word>>
  BY DEF EndScan, Unimplemented, ReadOutside, scanVars
<1>2. /\ (Source => Source') /\ (Within => Within') /\ (Beyond => Beyond')
      /\ Null' = Null /\ Role' = Role /\ ch' = ch
  BY <1>1, Unmoved
<1>3. Source' /\ (srcbuf <= Null => Within') /\ (srcbuf > Null => Beyond')
      /\ EndsWell
  <2>1. /\ Source /\ (srcbuf <= Null => Within) /\ (srcbuf > Null => Beyond)
        /\ EndsWell
    BY DEF LexInv
  <2> QED BY <1>2, <2>1
<1>4. Len(buf') = Len(buf)
  BY <1>1
<1>5. CASE EndScan
  <2>1. in = "switch" /\ ch = NUL /\ srcbuf <= Len(buf) /\ scan' = "DONE"
    BY <1>5 DEF EndScan, Reading
  <2>2. EndsWell'
    BY <1>1, <1>2, <1>4, <2>1 DEF EndsWell
  <2> QED BY <1>1, <1>2, <1>3, <2>2 DEF LexInv
<1>6. CASE Unimplemented
  <2>1. /\ Reading("switch") /\ in = "switch" /\ scan' = "EXIT"
        /\ ch \notin {NUL, Quote, "#"} \cup Letters \cup Digits \cup Blanks
                     \cup Singles
    BY <1>6 DEF Unimplemented, Reading, Singles, Quote
  <2>2. ASSUME srcbuf <= Null
        PROVE  srcbuf < Null /\ Role[srcbuf] = "unknown"
    <3>1. /\ srcbuf \in 1 .. Null /\ (ch = NUL <=> srcbuf = Null) /\ Within
          /\ Null \in 1 .. Len(buf) /\ Len(buf) \in Nat
          /\ (srcbuf < Null => Role[srcbuf] = RoleAfter(Role[srcbuf - 1], ch))
      BY <1>1, <2>1, <2>2, Passing
    <3>2. ch # NUL
      BY <2>1
    <3>3. srcbuf < Null
      BY <3>1, <3>2
    <3>4. Between
      BY <2>1, <3>1 DEF Within
    <3>5. Role[srcbuf - 1] \notin {"open", "text", "comment"}
      BY <3>4 DEF Between
    <3>6. Role[srcbuf] = RoleAfter(Role[srcbuf - 1], ch)
      BY <3>1, <3>3
    <3> QED BY <2>1, <3>3, <3>5, <3>6, Afters
  <2>3. EndsWell'
    BY <1>1, <1>2, <2>1, <2>2 DEF EndsWell
  <2> QED BY <1>1, <1>2, <1>3, <2>3 DEF LexInv
<1>7. CASE ReadOutside
  <2>1. srcbuf > Len(buf) /\ scan' = "UNDEFINED"
    BY <1>7 DEF ReadOutside
  <2>2. EndsWell'
    BY <1>1, <1>4, <2>1 DEF EndsWell
  <2> QED BY <1>1, <1>2, <1>3, <2>2 DEF LexInv
<1>8. CASE UNCHANGED scanVars
  <2>1. scan' = scan
    BY <1>8 DEF scanVars
  <2>2. EndsWell'
    BY <1>1, <1>2, <1>3, <1>4, <2>1 DEF EndsWell
  <2> QED BY <1>1, <1>2, <1>3, <2>2 DEF LexInv
<1> QED BY <1>5, <1>6, <1>7, <1>8

-----------------------------------------------------------------------------
\* Beyond the null.

Moves ==
  \/ BeginString \/ InString \/ EndString
  \/ BeginComment \/ InComment \/ EndComment
  \/ BeginWord \/ InWord \/ EndWord \/ Blank \/ SingleChar

LEMMA MovesOn ==
  ASSUME TypeInv, Moves
  PROVE  /\ buf' = buf /\ scan' = "scanning"
         /\ srcbuf' = srcbuf \/ srcbuf' = srcbuf + 1
         /\ tokens' = tokens \/ \E t : tokens' = Append(tokens, t)
<1> USE DEF Keep, advance, tok, Reading
<1>1. CASE BeginString
  BY <1>1 DEF BeginString
<1>2. CASE InString
  BY <1>2 DEF InString
<1>3. CASE EndString
  BY <1>3 DEF EndString
<1>4. CASE BeginComment
  BY <1>4 DEF BeginComment
<1>5. CASE InComment
  BY <1>5 DEF InComment
<1>6. CASE EndComment
  BY <1>6 DEF EndComment
<1>7. CASE BeginWord
  BY <1>7 DEF BeginWord
<1>8. CASE InWord
  BY <1>8 DEF InWord
<1>9. CASE EndWord
  BY <1>9 DEF EndWord
<1>10. CASE Blank
  BY <1>10 DEF Blank
<1>11. CASE SingleChar
  BY <1>11 DEF SingleChar
<1> QED BY <1>1, <1>2, <1>3, <1>4, <1>5, <1>6, <1>7, <1>8, <1>9, <1>10, <1>11
        DEF Moves

LEMMA BeyondKeeps ==
  ASSUME LexInv, TypeInv, Moves, srcbuf > Null
  PROVE  LexInv'
<1>1. /\ buf' = buf /\ scan' = "scanning"
      /\ srcbuf' = srcbuf \/ srcbuf' = srcbuf + 1
      /\ tokens' = tokens \/ \E t : tokens' = Append(tokens, t)
  BY MovesOn
<1>2. /\ Null' = Null /\ Role' = Role /\ Up' = Up /\ Lex' = Lex
      /\ Cols' = Cols /\ (Bare' <=> Bare)
  BY <1>1, Frozen DEF Bare
<1>3. Source /\ Source' /\ Beyond
  BY <1>1 DEF LexInv, Source
<1>4. Null \in Nat /\ srcbuf \in Nat
  BY <1>3, NullIs DEF TypeInv, TypeOK
<1>5. Null - 1 \in Covered'
  <2>1. Null - 1 \in Covered
    BY <1>3 DEF Beyond
  <2>2. PICK u : u = Up[Null - 1]
    OBVIOUS
  <2>3. Len(u) \in Nat /\ Len(tokens) \in Nat
    <3>1. Null - 1 \in 0 .. Null - 1
      BY <2>1 DEF Covered
    <3> QED BY <1>3, <2>2, <3>1, UpIs, LenProperties DEF TypeInv
  <2>4. Len(u) <= Len(tokens) /\ \A i \in 1 .. Len(u) : Agrees(tokens[i], u[i])
    BY <2>1, <2>2 DEF Covered
  <2>5. PICK s : s = tokens'
    OBVIOUS
  <2>6. Len(u) <= Len(s) /\ \A i \in 1 .. Len(u) : s[i] = tokens[i]
    <3>1. CASE s = tokens
      BY <2>4, <3>1
    <3>2. ASSUME NEW t, s = Append(tokens, t)
          PROVE  Len(u) <= Len(s) /\ \A i \in 1 .. Len(u) : s[i] = tokens[i]
      <4>1. /\ Len(s) = Len(tokens) + 1
            /\ \A i \in 1 .. Len(tokens) : s[i] = tokens[i]
        BY <3>2 DEF TypeInv
      <4> QED BY <2>3, <2>4, <4>1
    <3> QED BY <1>1, <2>5, <3>1, <3>2
  <2>7. \A i \in 1 .. Len(u) : Agrees(s[i], u[i])
    BY <2>4, <2>6
  <2>8. Covered' = {k \in 0 .. Null - 1 :
                     /\ Len(Up[k]) <= Len(s)
                     /\ \A i \in 1 .. Len(Up[k]) : Agrees(s[i], Up[k][i])}
    BY <1>2, <2>5 DEF Covered, Agrees
  <2>9. Null - 1 \in 0 .. Null - 1
    BY <2>1 DEF Covered
  <2> QED BY <2>2, <2>6, <2>7, <2>8, <2>9
<1>6. Beyond'
  BY <1>2, <1>3, <1>5 DEF Beyond, OpenEnd
<1>7. srcbuf' \in Nat /\ ~ (srcbuf' <= Null)
  BY <1>1, <1>4
<1> QED BY <1>1, <1>3, <1>6, <1>7, GoesOn

-----------------------------------------------------------------------------
LEMMA LexInvInit == Init => LexInv
<1> SUFFICES ASSUME Init PROVE LexInv
  OBVIOUS
<1>1. /\ srcbuf = 1 /\ lineno = 0 /\ linepos = 0 /\ tokens = << >>
      /\ in = "switch" /\ scan = "scanning" /\ Source
  BY BuffersAssumption DEF Init, Source
<1>2. Null \in Nat /\ Null >= 1
  BY <1>1, NullIs
<1>3. Counted
  BY <1>1, LinesAre DEF Counted
<1>4. Role[0] = "blank" /\ Up[0] = << >>
  BY <1>1, RoleIs, UpIs
<1>5. 0 \in Finished
  <2>1. 0 \in 0 .. Null - 1 /\ Len(Up[0]) = 0 /\ Len(tokens) = 0
    BY <1>1, <1>2, <1>4
  <2>2. (\A i \in 1 .. 0 : FALSE) /\ 0 \in Nat
    OBVIOUS
  <2> QED BY <2>1, <2>2 DEF Finished, Covered
<1>6. srcbuf - 1 = 0
  BY <1>1
<1>7. Between
  BY <1>4, <1>5, <1>6 DEF Between
<1>8. Within
  BY <1>1, <1>3, <1>7 DEF Within
<1>9. ~ (srcbuf > Null)
  BY <1>1, <1>2
<1>10. EndsWell
  BY <1>1 DEF EndsWell
<1> QED BY <1>1, <1>8, <1>9, <1>10 DEF LexInv

LEMMA LexInvStep == TypeInv /\ LexInv /\ [Next]_scanVars => LexInv'
<1> SUFFICES ASSUME TypeInv, LexInv, [Next]_scanVars PROVE LexInv'
  OBVIOUS
<1>1. CASE EndScan \/ Unimplemented \/ ReadOutside \/ UNCHANGED scanVars
  BY <1>1, EndKeeps
<1>2. CASE Moves /\ srcbuf > Null
  BY <1>2, BeyondKeeps
<1>3. CASE Moves /\ srcbuf <= Null
  <2>1. CASE Blank
    BY <1>3, <2>1, BlankKeeps
  <2>2. CASE SingleChar
    BY <1>3, <2>2, SingleCharKeeps
  <2>3. CASE BeginString
    BY <1>3, <2>3, BeginStringKeeps
  <2>4. CASE InString
    BY <1>3, <2>4, InStringKeeps
  <2>5. CASE EndString
    BY <1>3, <2>5, EndStringKeeps
  <2>6. CASE BeginComment
    BY <1>3, <2>6, BeginCommentKeeps
  <2>7. CASE InComment
    BY <1>3, <2>7, InCommentKeeps
  <2>8. CASE EndComment
    BY <1>3, <2>8, EndCommentKeeps
  <2>9. CASE BeginWord
    BY <1>3, <2>9, BeginWordKeeps
  <2>10. CASE InWord
    BY <1>3, <2>10, InWordKeeps
  <2>11. CASE EndWord
    BY <1>3, <2>11, EndWordKeeps
  <2> QED BY <1>3, <2>1, <2>2, <2>3, <2>4, <2>5, <2>6, <2>7, <2>8, <2>9, <2>10,
             <2>11 DEF Moves
<1>4. srcbuf <= Null \/ srcbuf > Null
  BY NullIs DEF LexInv, TypeInv, TypeOK
<1>5. EndScan \/ Unimplemented \/ ReadOutside \/ UNCHANGED scanVars \/ Moves
  BY DEF Next, Moves
<1> QED BY <1>1, <1>2, <1>3, <1>4, <1>5

-----------------------------------------------------------------------------
\* From the invariant to the properties.

LEMMA UpWithin ==
  ASSUME Source, NEW n \in 0 .. Null - 1, NEW i \in 1 .. Len(Up[n])
  PROVE  Up[n][i] \in 1 .. n
<1> DEFINE S == {p \in 0 .. Null - 1 : \A j \in 1 .. Len(Up[p]) : Up[p][j] \in 1 .. p}
<1>1. Null - 1 \in Nat
  BY NullIs
<1>2. 0 \in S
  <2>1. Len(Up[0]) = 0
    BY UpIs
  <2> QED BY <1>1, <2>1
<1>3. ASSUME NEW p \in 1 .. Null - 1, p - 1 \in S
      PROVE  p \in S
  <2>1. PICK u : u = Up[p - 1]
    OBVIOUS
  <2>2. p - 1 \in 0 .. Null - 1 /\ p \in Nat
    BY <1>1
  <2>3. u \in Seq(Nat) /\ Len(u) \in Nat
    BY <2>1, <2>2, UpIs, LenProperties
  <2>4. \A j \in 1 .. Len(u) : u[j] \in 1 .. p - 1
    BY <1>3, <2>1
  <2>5. Up[p] = u \/ Up[p] = Append(u, p)
    BY <2>1, UpIs
  <2>6. /\ Len(Append(u, p)) = Len(u) + 1 /\ Append(u, p)[Len(u) + 1] = p
        /\ \A j \in 1 .. Len(u) : Append(u, p)[j] = u[j]
    BY <2>2, <2>3, AppendProperties
  <2>7. \A j \in 1 .. Len(Up[p]) : Up[p][j] \in 1 .. p
    <3> TAKE j \in 1 .. Len(Up[p])
    <3>1. CASE j \in 1 .. Len(u)
      <4>1. u[j] \in 1 .. p - 1
        BY <2>4, <3>1
      <4>2. Up[p][j] = u[j]
        BY <2>5, <2>6, <3>1
      <4> QED BY <2>2, <4>1, <4>2
    <3>2. CASE j \notin 1 .. Len(u)
      <4>1. Up[p] = Append(u, p) /\ j = Len(u) + 1
        BY <2>3, <2>5, <2>6, <3>2
      <4> QED BY <2>2, <2>6, <4>1
    <3> QED BY <3>1, <3>2
  <2> QED BY <2>7
<1>4. \A p \in 0 .. Null - 1 : p \in S
  <2> HIDE DEF S
  <2> QED BY <1>1, <1>2, <1>3, StepInduction
<1> QED BY <1>4

\* The tokens are those that begin before the first unknown character.
LEMMA EndIs ==
  ASSUME Source, NEW e \in 1 .. Null,
         \A q \in 1 .. e - 1 : Role[q] # "unknown",
         e < Null => Role[e] = "unknown"
  PROVE  /\ Starts(Role) = Up[e - 1]
         /\ Unknown(Role) = {} <=> e = Null
<1>1. Null \in Nat /\ e \in Nat /\ DOMAIN Role = 0 .. Null - 1 /\ Role[0] = "blank"
  BY NullIs, RoleIs
<1>2. ASSUME NEW q \in Unknown(Role)
      PROVE  q \in 0 .. Null - 1 /\ e <= q /\ e # Null
  <2>1. q \in 0 .. Null - 1 /\ Role[q] = "unknown" /\ q # 0
    BY <1>1 DEF Unknown
  <2>2. q \notin 1 .. e - 1
    BY <2>1
  <2> QED BY <1>1, <2>1, <2>2
<1>3. e < Null => e \in Unknown(Role)
  BY <1>1 DEF Unknown
<1>4. Unknown(Role) = {} <=> e = Null
  BY <1>1, <1>2, <1>3
<1>5. Min({Null} \cup Unknown(Role)) = e
  <2> DEFINE S == {Null} \cup Unknown(Role)
  <2>1. S \subseteq Int
    BY <1>1, <1>2
  <2>2. e \in S
    BY <1>1, <1>3
  <2>3. \A y \in S : e <= y
    BY <1>1, <1>2
  <2>4. Min(S) = e
    <3> HIDE DEF S
    <3> QED BY <2>1, <2>2, <2>3, MinMaxIs
  <2> QED BY <2>4
<1> QED BY <1>4, <1>5 DEF Starts, Up

LEMMA FirstUnknown ==
  ASSUME Source
  PROVE  \E e \in 1 .. Null : /\ \A q \in 1 .. e - 1 : Role[q] # "unknown"
                              /\ e < Null => Role[e] = "unknown"
<1> DEFINE S == {q \in 1 .. Null : q < Null => Role[q] = "unknown"}
<1>1. Null \in 1 .. Len(buf) /\ Len(buf) \in Nat
  BY NullIs
<1>2. Null \in S /\ S \subseteq Nat
  BY <1>1
<1>3. PICK e \in S : \A q \in S : e <= q
  <2> HIDE DEF S
  <2> QED BY <1>2, LeastNumber
<1>4. ASSUME NEW q \in 1 .. e - 1
      PROVE  Role[q] # "unknown"
  <2>1. q \in 1 .. Null /\ ~ (e <= q)
    BY <1>1
  <2> QED BY <1>3, <2>1
<1>5. e \in 1 .. Null /\ (e < Null => Role[e] = "unknown")
  OBVIOUS
<1> QED BY <1>4, <1>5

LEMMA SeenAre ==
  ASSUME Source, tokens \in Seq(TokenRecord), NEW n \in Covered, Starts(Role) = Up[n]
  PROVE  /\ IsPrefix(Lexemes, Seen)
         /\ Len(tokens) = Len(Up[n]) => Seen = Lexemes
<1>1. PICK u : u = Up[n]
  OBVIOUS
<1>2. n \in 0 .. Null - 1 /\ Null \in Nat
  BY NullIs DEF Covered
<1>3. u \in Seq(Nat) /\ Len(u) \in Nat /\ DOMAIN u = 1 .. Len(u)
  BY <1>1, <1>2, UpIs, LenProperties
<1>4. Len(u) <= Len(tokens) /\ \A i \in 1 .. Len(u) : Agrees(tokens[i], u[i])
  BY <1>1 DEF Covered
<1>5. \A i \in 1 .. Len(u) : u[i] \in DOMAIN Role
  <2> TAKE i \in 1 .. Len(u)
  <2>1. u[i] \in 1 .. n
    BY <1>1, <1>2, UpWithin
  <2> QED BY <1>2, <2>1, RoleIs
<1>6. Lexemes = [i \in 1 .. Len(u) |-> LexemeAt(Role, u[i])]
  BY <1>1, <1>3 DEF Lexemes
<1>7. PICK l : l = Lexemes
  OBVIOUS
<1>8. \A i \in 1 .. Len(u) : l[i] = Lex[u[i]]
  BY <1>5, <1>6, <1>7 DEF Lex
<1>9. Len(tokens) \in Nat /\ DOMAIN tokens = 1 .. Len(tokens)
  BY LenProperties
<1>10. PICK s : s = Seen
  OBVIOUS
<1>11. s = [i \in 1 .. Len(tokens) |->
             [type |-> tokens[i].type, str |-> tokens[i].str,
              lineno |-> tokens[i].lineno]]
  BY <1>9, <1>10 DEF Seen
<1>12. \A i \in 1 .. Len(u) : s[i] = l[i]
  <2> TAKE i \in 1 .. Len(u)
  <2>1. i \in 1 .. Len(tokens)
    BY <1>3, <1>4, <1>9
  <2> QED BY <1>4, <1>8, <1>11, <2>1 DEF Agrees
<1>13. Len(l) = Len(u) /\ Len(s) = Len(tokens) /\ l = [i \in 1 .. Len(u) |-> l[i]]
       /\ s = [i \in 1 .. Len(tokens) |-> s[i]]
  BY <1>3, <1>6, <1>7, <1>9, <1>11
<1>14. ASSUME Len(tokens) = Len(u)
       PROVE  Seen = Lexemes
  BY <1>7, <1>10, <1>12, <1>13, <1>14
<1>15. IsPrefix(l, s)
  <2>1. SubSeq(l, 1, Len(u)) = SubSeq(s, 1, Len(u))
    <3> DEFINE T == {l[i] : i \in 1 .. Len(u)}
               sl == SubSeq(l, 1, Len(u))
               ss == SubSeq(s, 1, Len(u))
    <3>1. \A i \in 1 .. Len(u) : l[i] \in T /\ s[i] \in T
      BY <1>12
    <3>2. 1 \in Int /\ Len(u) \in Int
      BY <1>3
    <3> HIDE DEF T, sl, ss
    <3>3. /\ sl \in Seq(T) /\ Len(sl) = (IF 1 <= Len(u) THEN Len(u) - 1 + 1 ELSE 0)
          /\ \A i \in 1 .. Len(u) - 1 + 1 : sl[i] = l[1 + i - 1]
      BY <3>1, <3>2, SubSeqProperties DEF sl
    <3>4. /\ ss \in Seq(T) /\ Len(ss) = (IF 1 <= Len(u) THEN Len(u) - 1 + 1 ELSE 0)
          /\ \A i \in 1 .. Len(u) - 1 + 1 : ss[i] = s[1 + i - 1]
      BY <3>1, <3>2, SubSeqProperties DEF ss
    <3>5. Len(sl) = Len(u) /\ Len(ss) = Len(u)
      BY <1>3, <3>3, <3>4
    <3>6. \A i \in 1 .. Len(u) : sl[i] = ss[i]
      <4> TAKE i \in 1 .. Len(u)
      <4>1. sl[i] = l[i] /\ ss[i] = s[i]
        BY <1>3, <3>3, <3>4
      <4> QED BY <1>12, <4>1
    <3>7. sl = ss
      BY <3>3, <3>4, <3>5, <3>6, SeqEqual
    <3> QED BY <3>7 DEF sl, ss
  <2> QED BY <1>4, <1>13, <2>1 DEF IsPrefix
<1> QED BY <1>1, <1>7, <1>10, <1>14, <1>15

\* What the invariant says of the end of a scan.
LEMMA LexInvLexes == TypeInv /\ LexInv => LexesSource
<1> SUFFICES ASSUME TypeInv, LexInv, scan # "scanning"
             PROVE  LET known == Unknown(Role) = {}
                    IN IF known /\ OpenEnd
                       THEN IsPrefix(Lexemes, Seen)
                       ELSE /\ Seen = Lexemes
                            /\ scan = IF known THEN "DONE" ELSE "EXIT"
  BY DEF LexesSource
<1>1. /\ Source /\ EndsWell /\ tokens \in Seq(TokenRecord)
      /\ (srcbuf <= Null => Within) /\ (srcbuf > Null => Beyond)
      /\ scan \in {"DONE", "EXIT", "UNDEFINED"}
      /\ srcbuf \in 1 .. Len(buf) + 1
  BY DEF LexInv, TypeInv, TypeOK
<1>2. Null \in 1 .. Len(buf) /\ Len(buf) \in Nat /\ srcbuf \in Nat
  BY <1>1, NullIs
<1>3. CASE srcbuf > Null
  <2>1. Beyond
    BY <1>1, <1>3
  <2>2. /\ OpenEnd /\ Null - 1 \in Covered
        /\ \A q \in 1 .. Null - 1 : Role[q] # "unknown"
    BY <2>1 DEF Beyond
  <2>3. Null \in 1 .. Null
    BY <1>2
  <2>4. Starts(Role) = Up[Null - 1] /\ Unknown(Role) = {}
    BY <1>1, <1>2, <2>2, <2>3, EndIs
  <2>5. IsPrefix(Lexemes, Seen)
    BY <1>1, <2>2, <2>4, SeenAre
  <2> QED BY <2>2, <2>4, <2>5
<1>4. CASE srcbuf <= Null
  <2>1. scan # "UNDEFINED"
    BY <1>1, <1>2, <1>4 DEF EndsWell
  <2>2. /\ in = "switch" /\ srcbuf \in 1 .. Null
        /\ (ch = NUL <=> srcbuf = Null)
    BY <1>1, <1>2, <1>4, <2>1, Here DEF EndsWell
  <2>3. Within
    BY <1>1, <1>4
  <2>4. Between
    BY <2>2, <2>3 DEF Within
  <2>5. srcbuf - 1 \in Finished
        /\ Role[srcbuf - 1] \notin {"open", "text", "comment"}
    BY <2>4 DEF Between
  <2>6. /\ srcbuf - 1 \in Covered /\ Len(tokens) = Len(Up[srcbuf - 1])
        /\ \A q \in 1 .. srcbuf - 1 : Role[q] # "unknown"
    BY <2>5 DEF Finished
  <2>7. scan = "EXIT" => srcbuf < Null /\ Role[srcbuf] = "unknown"
    BY <1>1, <1>4 DEF EndsWell
  <2>8. scan = "DONE" => srcbuf = Null
    BY <1>1, <2>2 DEF EndsWell
  <2>9. srcbuf < Null => Role[srcbuf] = "unknown"
    BY <1>1, <1>2, <2>1, <2>7, <2>8
  <2>10. Starts(Role) = Up[srcbuf - 1] /\ (Unknown(Role) = {} <=> srcbuf = Null)
    BY <1>1, <2>2, <2>6, <2>9, EndIs
  <2>11. Seen = Lexemes
    BY <1>1, <2>6, <2>10, SeenAre
  <2>12. CASE scan = "DONE"
    <3>1. Unknown(Role) = {} /\ ~ OpenEnd
      BY <2>5, <2>8, <2>10, <2>12 DEF OpenEnd
    <3> QED BY <2>11, <2>12, <3>1
  <2>13. CASE scan = "EXIT"
    <3>1. srcbuf # Null
      BY <1>2, <2>7, <2>13
    <3>2. Unknown(Role) # {}
      BY <2>10, <3>1
    <3> QED BY <2>11, <2>13, <3>2
  <2> QED BY <1>1, <2>1, <2>12, <2>13
<1> QED BY <1>2, <1>3, <1>4

(***************************************************************************)
(* What a scan of any array ends with.  Up to the null the four loops and  *)
(* the outer one make the lexemes of the source, none skipped and none     *)
(* twice, with their lines and keywords (scan.hpp:56-205); the process     *)
(* ends early at an unknown character and at nothing else; and if the      *)
(* source ends in a comment or a string the lexemes are all there before   *)
(* what the scanner makes of the rest of the array.                        *)
(***************************************************************************)
THEOREM ScannerLexesSource == Spec => []LexesSource
<1>1. TypeInv /\ LexInv => LexesSource
  BY LexInvLexes
<1>2. Init => TypeInv /\ LexInv
  BY TypeInvInit, LexInvInit
<1>3. (TypeInv /\ LexInv) /\ [Next]_scanVars => (TypeInv /\ LexInv)'
  BY TypeInvStep, LexInvStep
<1> QED BY <1>1, <1>2, <1>3, PTL DEF Spec

(***************************************************************************)
(* For an array of any size, the pointer passes the null only in a source  *)
(* that ends inside a comment or a string (scan.hpp:69, 86 and 144).       *)
(***************************************************************************)
THEOREM ScannerOverruns == Spec => []OverrunsOnlyIfOpen
<1>1. LexInv => OverrunsOnlyIfOpen
  BY DEF LexInv, Beyond, OverrunsOnlyIfOpen
<1>2. Init => TypeInv /\ LexInv
  BY TypeInvInit, LexInvInit
<1>3. (TypeInv /\ LexInv) /\ [Next]_scanVars => (TypeInv /\ LexInv)'
  BY TypeInvStep, LexInvStep
<1> QED BY <1>1, <1>2, <1>3, PTL DEF Spec

LEMMA LastIn ==
  ASSUME Source, NEW p \in 1 .. Null - 1
  PROVE  LastOf(Role, p) \in 1 .. Len(buf) + 1
<1>1. Null \in 1 .. Len(buf) /\ Len(buf) \in Nat
  BY NullIs
<1>2. CASE Role[p] = "single"
  <2>1. LastOf(Role, p) = p
    BY <1>2 DEF LastOf
  <2> QED BY <1>1, <2>1
<1>3. CASE Role[p] = "open"
  <2> DEFINE S == {Null} \cup {q \in p + 1 .. Null - 1 : Role[q] = "close"}
  <2>1. S \subseteq 1 .. Null /\ S \subseteq Nat /\ S \subseteq Int /\ S # {}
    BY <1>1
  <2>2. LastOf(Role, p) = Min(S)
    BY <1>3 DEF LastOf
  <2> HIDE DEF S
  <2>3. PICK m \in S : \A n \in S : m <= n
    BY <2>1, LeastNumber
  <2>4. Min(S) = m
    BY <2>1, <2>3, MinMaxIs
  <2>5. m \in 1 .. Null
    BY <2>1
  <2> QED BY <1>1, <2>2, <2>4, <2>5
<1>4. CASE Role[p] \notin {"single", "open"}
  <2> DEFINE S == {q \in p .. Null - 1 : \A r \in p .. q : Role[r] = Role[p]}
  <2>1. S \subseteq 1 .. Null /\ S \subseteq Int /\ Null \in Nat
    BY <1>1
  <2>2. p \in S
    <3>1. p \in p .. Null - 1 /\ \A r \in p .. p : r = p
      BY <1>1
    <3> QED BY <3>1
  <2>3. LastOf(Role, p) = Max(S)
    BY <1>4 DEF LastOf
  <2> HIDE DEF S
  <2>4. PICK m \in S : \A k \in S : k <= m
    BY <2>1, <2>2, LargestIs
  <2>5. Max(S) = m
    BY <2>1, <2>4, MinMaxIs
  <2>6. m \in 1 .. Null
    BY <2>1
  <2> QED BY <1>1, <2>3, <2>5, <2>6
<1> QED BY <1>2, <1>3, <1>4

(***************************************************************************)
(* The positions of the tokens of any source without comments and strings: *)
(* a blank newline sets linepos and each advance and stepback keeps it in  *)
(* step with the pointer (scan.hpp:37-40, 116 and 182-202).                *)
(***************************************************************************)
THEOREM ScannerPositions == Spec => []PositionIsColumn
<1>1. ASSUME TypeInv, LexInv
      PROVE  PositionIsColumn
  <2> SUFFICES ASSUME \A p \in 1 .. Null - 1 : Role[p] \notin {"open", "comment"},
                      NEW i \in DOMAIN tokens
               PROVE  LET q == LastOf(Role, Starts(Role)[i])
                      IN tokens[i].linepos = IF Newlines(q) = {} THEN q - 1
                                             ELSE q - Max(Newlines(q))
    BY DEF PositionIsColumn
  <2>1. Bare
    BY DEF Bare
  <2>2. /\ Source /\ (srcbuf <= Null => Within) /\ (srcbuf > Null => Beyond)
        /\ srcbuf \in 1 .. Len(buf) + 1 /\ tokens \in Seq(TokenRecord)
        /\ in \in {"switch", "string", "comment", "id", "num"}
    BY <1>1 DEF LexInv, TypeInv, TypeOK
  <2>3. Null \in 1 .. Len(buf) /\ Len(buf) \in Nat /\ srcbuf \in Nat
    BY <2>2, NullIs
  <2>4. srcbuf <= Null
    BY <2>1, <2>2, <2>3 DEF Beyond
  <2>5. Within
    BY <2>2, <2>4
  <2>6. \E n : n \in Finished
    BY <2>2, <2>5 DEF Within, Between, InsideString, InsideComment, InsideWord
  <2>7. PICK n : n \in Finished
    BY <2>6
  <2>8. /\ n \in 0 .. Null - 1 /\ Len(tokens) = Len(Up[n])
        /\ \A q \in 1 .. n : Role[q] # "unknown"
        /\ \A j \in 1 .. Len(Up[n]) : Agrees(tokens[j], Up[n][j])
    BY <2>7 DEF Finished, Covered
  <2>9. PICK e \in 1 .. Null : /\ \A q \in 1 .. e - 1 : Role[q] # "unknown"
                               /\ e < Null => Role[e] = "unknown"
    BY <2>2, FirstUnknown
  <2>10. n <= e - 1
    <3>1. CASE e = Null
      BY <2>3, <2>8, <3>1
    <3>2. CASE e # Null
      <4>1. e < Null
        BY <2>3, <3>2
      <4>2. e \notin 1 .. n
        BY <2>8, <2>9, <4>1
      <4> QED BY <2>3, <2>8, <4>2
    <3> QED BY <3>1, <3>2
  <2>11. Starts(Role) = Up[e - 1]
    BY <2>2, <2>9, EndIs
  <2>12. i \in 1 .. Len(Up[n])
    BY <2>2, <2>8, LenProperties
  <2>13. PICK p : p = Up[n][i]
    OBVIOUS
  <2>14. Starts(Role)[i] = p
    <3>1. e - 1 \in n .. Null - 1
      BY <2>3, <2>8, <2>10
    <3> QED BY <2>2, <2>8, <2>11, <2>12, <2>13, <3>1, UpGrows
  <2>15. p \in 1 .. Null - 1 /\ p \in DOMAIN Role
    <3>1. p \in 1 .. n
      BY <2>2, <2>8, <2>12, <2>13, UpWithin
    <3>2. DOMAIN Role = 0 .. Null - 1
      BY <2>2, RoleIs
    <3> QED BY <2>3, <2>8, <3>1, <3>2
  <2>16. tokens[i].linepos = ColAt[LastOf(Role, p)]
    <3>1. Agrees(tokens[i], p)
      BY <2>8, <2>12, <2>13
    <3>2. Cols[p] = ColAt[LastOf(Role, p)]
      BY <2>15 DEF Cols
    <3> QED BY <2>1, <3>1, <3>2 DEF Agrees
  <2>17. PICK q \in 1 .. Len(buf) + 1 : q = LastOf(Role, p)
    BY <2>2, <2>15, LastIn
  <2>18. ColAt[q] = IF Newlines(q) = {} THEN q - 1 ELSE q - Max(Newlines(q))
    BY DEF ColAt
  <2> QED BY <2>14, <2>16, <2>17, <2>18
<1>2. Init => TypeInv /\ LexInv
  BY TypeInvInit, LexInvInit
<1>3. (TypeInv /\ LexInv) /\ [Next]_scanVars => (TypeInv /\ LexInv)'
  BY TypeInvStep, LexInvStep
<1> QED BY <1>1, <1>2, <1>3, PTL DEF Spec
-----------------------------------------------------------------------------
\* What a token's text is made of: characters of the array, in their order.

Texts == {SubSeq(buf, i, j) : i \in 1 .. Len(buf) + 1, j \in 0 .. Len(buf)}

TextInv ==
  /\ buf \in Buffers
  /\ Source
  /\ word = SubSeq(buf, srcbuf - Len(word), srcbuf - 1)
  /\ \A k \in DOMAIN tokens : tokens[k].str \in Texts

LEMMA NoText ==
  ASSUME Source, NEW p \in 1 .. Len(buf) + 1
  PROVE  SubSeq(buf, p, p - 1) = << >>
<1>1. p <= p /\ p - p = 0
  OBVIOUS
<1>2. SubSeq(buf, p, p - 1) \in Seq(STRING) /\ Len(SubSeq(buf, p, p - 1)) = 0
  <2>1. Len(SubSeq(buf, p, p - 1)) = p - p /\ SubSeq(buf, p, p - 1) \in Seq(STRING)
    BY <1>1, TextIs
  <2> QED BY <1>1, <2>1
<1> QED BY <1>2, EmptySeq

LEMMA WordIsText ==
  ASSUME TypeInv, TextInv
  PROVE  /\ srcbuf \in 1 .. Len(buf) + 1 /\ Len(word) \in Nat
         /\ srcbuf - Len(word) \in 1 .. srcbuf
         /\ word \in Texts
<1>1. srcbuf \in 1 .. Len(buf) + 1 /\ Len(buf) \in Nat
  BY LenProperties DEF TypeInv, TypeOK
<1>2. Len(word) \in Nat /\ Len(word) < srcbuf
  BY LenProperties DEF TypeInv, TypeOK
<1>3. srcbuf - Len(word) \in 1 .. Len(buf) + 1 /\ srcbuf - 1 \in 0 .. Len(buf)
  BY <1>1, <1>2
<1>4. word = SubSeq(buf, srcbuf - Len(word), srcbuf - 1)
  BY DEF TextInv
<1>5. word \in Texts
  BY <1>3, <1>4 DEF Texts
<1>6. srcbuf - Len(word) \in 1 .. srcbuf
  BY <1>1, <1>2
<1> QED BY <1>1, <1>2, <1>5, <1>6

\* An inner loop takes the next character.
LEMMA WordGrows ==
  ASSUME TypeInv, TextInv, NEW loop, Reading(loop),
         word' = Append(word, ch), srcbuf' = srcbuf + 1, buf' = buf
  PROVE  word' = SubSeq(buf', srcbuf' - Len(word'), srcbuf' - 1)
<1>1. srcbuf \in 1 .. Len(buf) /\ Len(buf) \in Nat
      /\ Len(word') = Len(word) + 1 /\ Len(word) \in Nat
  BY Char
<1>2. PICK b : b = srcbuf - Len(word)
  OBVIOUS
<1>3. b \in 1 .. Len(buf) + 1 /\ b <= srcbuf /\ srcbuf \in 1 .. Len(buf) + 1
      /\ srcbuf <= Len(buf)
  BY <1>1, <1>2, WordIsText
<1>4. PICK p : p = srcbuf
  OBVIOUS
<1>5. SubSeq(buf, b, p) = Append(SubSeq(buf, b, p - 1), buf[p])
  BY <1>3, <1>4, TextIs DEF TextInv
<1>6. word = SubSeq(buf, b, p - 1) /\ ch = buf[p]
  BY <1>2, <1>4 DEF TextInv, ch
<1>7. srcbuf' - Len(word') = b /\ srcbuf' - 1 = p
  BY <1>1, <1>2, <1>4
<1> QED BY <1>5, <1>6, <1>7

LEMMA TokenText ==
  ASSUME TypeInv, TextInv, NEW type \in ScanTypes, NEW str \in Seq(STRING),
         str \in Texts, NEW pos \in Nat, tok(type, str, pos), buf' = buf
  PROVE  \A k \in DOMAIN tokens' : tokens'[k].str \in Texts'
<1>1. PICK t \in TokenRecord :
         /\ tokens' = Append(tokens, t) /\ tokens \in Seq(TokenRecord)
         /\ [type |-> t.type, str |-> t.str, lineno |-> t.lineno]
              = [type |-> type, str |-> str, lineno |-> lineno]
  BY TokIs
<1>2. t.str = str
  <2>1. [type |-> t.type, str |-> t.str, lineno |-> t.lineno].str
          = [type |-> type, str |-> str, lineno |-> lineno].str
    BY <1>1
  <2> QED BY <2>1
<1>3. /\ Len(tokens) \in Nat /\ DOMAIN tokens = 1 .. Len(tokens)
      /\ Len(tokens') = Len(tokens) + 1 /\ DOMAIN tokens' = 1 .. Len(tokens) + 1
      /\ \A i \in 1 .. Len(tokens) : tokens'[i] = tokens[i]
      /\ tokens'[Len(tokens) + 1] = t
  <2>1. tokens' \in Seq(TokenRecord)
    BY <1>1
  <2> QED BY <1>1, <2>1, AppendProperties, LenProperties
<1>4. Texts' = Texts
  BY DEF Texts
<1>5. ASSUME NEW k \in DOMAIN tokens'
      PROVE  tokens'[k].str \in Texts
  <2>1. CASE k = Len(tokens) + 1
    BY <1>2, <1>3, <2>1
  <2>2. CASE k \in DOMAIN tokens
    BY <1>3, <2>2 DEF TextInv
  <2> QED BY <1>3, <2>1, <2>2
<1> QED BY <1>4, <1>5

LEMMA TextInit == Init => TextInv
<1> SUFFICES ASSUME Init
             PROVE  TextInv
  OBVIOUS
<1>1. Source
  BY LexInvInit DEF LexInv
<1>2. 1 \in 1 .. Len(buf) + 1 /\ Len(<< >>) = 0
  BY <1>1, LenProperties DEF Source
<1>3. word = << >> /\ srcbuf = 1 /\ tokens = << >> /\ buf \in Buffers
  BY DEF Init
<1>4. PICK p : p = 1
  OBVIOUS
<1>5. SubSeq(buf, p, p - 1) = << >>
  BY <1>1, <1>2, <1>4, NoText
<1>6. srcbuf - Len(word) = p /\ srcbuf - 1 = p - 1
  BY <1>2, <1>3, <1>4
<1> QED BY <1>1, <1>3, <1>5, <1>6 DEF TextInv

LEMMA TextStep == TypeInv /\ TypeInv' /\ TextInv /\ [Next]_scanVars => TextInv'
<1> SUFFICES ASSUME TypeInv, TypeInv', TextInv, [Next]_scanVars
             PROVE  TextInv'
  OBVIOUS
<1>1. buf' = buf
  <2>1. CASE EndScan \/ ReadOutside \/ BeginComment \/ BeginWord
             \/ UNCHANGED scanVars
    BY <2>1 DEF EndScan, ReadOutside, BeginComment, BeginWord, Keep, scanVars
  <2>2. CASE Unimplemented
    BY <2>2 DEF Unimplemented
  <2>3. CASE BeginString
    BY <2>3 DEF BeginString, Keep
  <2>4. CASE InString
    BY <2>4 DEF InString, Keep
  <2>5. CASE EndString
    BY <2>5 DEF EndString, Keep
  <2>6. CASE InComment \/ EndComment
    BY <2>6 DEF InComment, EndComment, Keep
  <2>7. CASE InWord \/ EndWord
    BY <2>7 DEF InWord, EndWord, Keep
  <2>8. CASE Blank \/ SingleChar
    BY <2>8 DEF Blank, SingleChar, Keep
  <2> QED BY <2>1, <2>2, <2>3, <2>4, <2>5, <2>6, <2>7, <2>8 DEF Next
<1>2. buf' \in Buffers /\ Source' /\ Texts' = Texts
  BY <1>1 DEF TextInv, Source, Texts
<1>3. \/ word' = word /\ srcbuf' = srcbuf
      \/ \E loop : Reading(loop) /\ word' = Append(word, ch) /\ srcbuf' = srcbuf + 1
      \/ word' = << >>
  <2>1. CASE EndScan \/ Unimplemented \/ ReadOutside \/ BeginComment \/ BeginWord
             \/ UNCHANGED scanVars
    <3>1. CASE Unimplemented
      BY <3>1 DEF Unimplemented
    <3>2. CASE ~ Unimplemented
      BY <2>1, <3>2 DEF EndScan, ReadOutside, BeginComment, BeginWord, scanVars
    <3> QED BY <3>1, <3>2
  <2>2. CASE InString \/ InWord
    <3>1. CASE InString
      BY <3>1 DEF InString, Push, advance
    <3>2. CASE InWord
      BY <3>2 DEF InWord, Push, advance
    <3> QED BY <2>2, <3>1, <3>2
  <2>3. CASE EndString \/ EndComment \/ EndWord
    <3>1. CASE EndString
      BY <3>1 DEF EndString, Continue
    <3>2. CASE ~ EndString
      BY <2>3, <3>2 DEF EndComment, EndWord, Continue
    <3> QED BY <3>1, <3>2
  <2>4. CASE BeginString \/ InComment \/ Blank \/ SingleChar
    <3>1. Reading("switch") \/ Reading("comment")
      <4>1. CASE ~ BeginString
        BY <2>4, <4>1 DEF InComment, Blank, SingleChar
      <4> QED BY <4>1 DEF BeginString
    <3>2. word = << >>
      BY <3>1 DEF Reading, TypeInv, TypeOK
    <3>3. word' = word
      <4>1. CASE ~ BeginString
        BY <2>4, <4>1 DEF InComment, Blank, SingleChar
      <4> QED BY <4>1 DEF BeginString
    <3> QED BY <2>4, <3>2, <3>3
  <2> QED BY <2>1, <2>2, <2>3, <2>4 DEF Next
<1>4. word' = SubSeq(buf', srcbuf' - Len(word'), srcbuf' - 1)
  <2>1. CASE word' = word /\ srcbuf' = srcbuf
    BY <1>1, <2>1 DEF TextInv
  <2>2. CASE \E loop : Reading(loop) /\ word' = Append(word, ch)
                       /\ srcbuf' = srcbuf + 1
    BY <1>1, <2>2, WordGrows
  <2>3. CASE word' = << >>
    <3>1. PICK p : p = srcbuf'
      OBVIOUS
    <3>2. p \in 1 .. Len(buf) + 1
      BY <1>1, <3>1 DEF TypeInv, TypeOK
    <3>3. SubSeq(buf, p, p - 1) = << >>
      BY <3>2, NoText DEF TextInv
    <3>4. Len(word') = 0 /\ p - 0 = p
      BY <2>3, <3>2
    <3> QED BY <1>1, <2>3, <3>1, <3>3, <3>4
  <2> QED BY <1>3, <2>1, <2>2, <2>3
<1>5. \A k \in DOMAIN tokens' : tokens'[k].str \in Texts
  <2>1. CASE tokens' = tokens
    BY <2>1 DEF TextInv
  <2>2. CASE EndString
    <3>1. word \in Texts /\ word \in Seq(STRING) /\ linepos \in Nat
          /\ "STRING" \in ScanTypes
      BY WordIsText, TypesOfTokens DEF TypeInv, TypeOK
    <3>2. tok("STRING", word, linepos)
      BY <2>2, Zenon DEF EndString
    <3>3. PICK w, type, pos : w = word /\ type = "STRING" /\ pos = linepos
      OBVIOUS
    <3> QED BY <1>1, <1>2, <3>1, <3>2, <3>3, TokenText
  <2>3. CASE EndWord
    <3>1. PICK w, type, pos :
             w = word /\ pos = linepos - 1
             /\ type = IF in = "num" THEN "NUM" ELSE getKeywordTokenType(word)
      OBVIOUS
    <3>2. tok(type, w, pos)
      BY <2>3, <3>1 DEF EndWord
    <3>3. w \in Texts /\ w \in Seq(STRING)
      BY <3>1, WordIsText DEF TypeInv
    <3>4. type \in ScanTypes
      BY <3>1, <3>3, TypesOfTokens
    <3>5. in \in {"id", "num"} /\ Reading(in) /\ ch \notin WordChars[in]
      BY <2>3 DEF EndWord, Reading
    <3>6. pos \in Nat
      <4>1. word # << >>
        BY <3>5 DEF TypeInv
      <4>2. Len(word) \in Nat /\ Len(word) # 0 /\ Len(word) <= linepos
            /\ linepos \in Nat
        BY <3>5, <4>1, LenProperties, EmptySeq DEF TypeInv, TypeOK
      <4> QED BY <3>1, <4>2
    <3> QED BY <1>1, <1>2, <3>2, <3>3, <3>4, <3>6, TokenText
  <2>4. CASE SingleChar
    <3>1. PICK w, type, pos :
             w = <<ch>> /\ pos = linepos /\ type = SINGLE_CHAR_TOKEN[ch]
      OBVIOUS
    <3>2. tok(type, w, pos) /\ Reading("switch") /\ ch \in Singles
      BY <2>4, <3>1 DEF SingleChar, Singles
    <3>3. srcbuf \in 1 .. Len(buf) /\ Len(buf) \in Nat /\ w \in Seq(STRING)
      BY <3>1, <3>2, Char
    <3>4. PICK p : p = srcbuf
      OBVIOUS
    <3>5. w \in Texts
      <4>1. p \in 1 .. Len(buf) + 1 /\ p <= p /\ p <= Len(buf) /\ p \in 0 .. Len(buf)
        BY <3>3, <3>4
      <4>2. /\ SubSeq(buf, p, p) = Append(SubSeq(buf, p, p - 1), buf[p])
            /\ SubSeq(buf, p, p - 1) = << >>
        BY <4>1, TextIs, NoText DEF TextInv
      <4>3. Append(<< >>, buf[p]) = <<buf[p]>>
        OBVIOUS
      <4>4. w = SubSeq(buf, p, p)
        BY <3>1, <3>4, <4>2, <4>3 DEF ch
      <4> QED BY <4>1, <4>4 DEF Texts
    <3>6. type \in ScanTypes /\ pos \in Nat
      BY <3>1, <3>2, TypesOfTokens DEF TypeInv, TypeOK
    <3> QED BY <1>1, <1>2, <3>2, <3>3, <3>5, <3>6, TokenText
  <2>5. CASE ~ (EndString \/ EndWord \/ SingleChar)
    <3>1. tokens' = tokens
      <4>1. CASE BeginString
        BY <4>1 DEF BeginString
      <4>2. CASE InString
        BY <4>2 DEF InString
      <4>3. CASE Unimplemented
        BY <4>3 DEF Unimplemented
      <4>4. CASE EndScan \/ ReadOutside \/ BeginComment \/ InComment \/ EndComment
                 \/ BeginWord \/ InWord \/ Blank \/ UNCHANGED scanVars
        BY <4>4 DEF scanVars, EndScan, ReadOutside, BeginComment, InComment,
           EndComment, BeginWord, InWord, Blank
      <4> QED BY <2>5, <4>1, <4>2, <4>3, <4>4 DEF Next
    <3> QED BY <2>1, <3>1
  <2> QED BY <2>2, <2>3, <2>4, <2>5
<1> QED BY <1>2, <1>4, <1>5 DEF TextInv
=============================================================================
