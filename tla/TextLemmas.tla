------------------------------ MODULE TextLemmas ------------------------------

(***************************************************************************)
(* What the proofs about texts have in common: induction, sequences put    *)
(* together, searching, folds, Split.                                      *)
(***************************************************************************)
EXTENDS TextOps, SequenceTheorems, WellFoundedInduction, TLAPS

------------------------------------------------------------------------------
(***************************************************************************)
(* Induction over the natural numbers for sets instead of predicates: to   *)
(* show P of every number, the set of the numbers that satisfy P is shown  *)
(* to have 0 and the successor of each of its members.                     *)
(***************************************************************************)

\* Every set of numbers that is not empty has a least member.
LEMMA Minimum ==
    ASSUME NEW T \in SUBSET Nat, T # {}
    PROVE  \E m \in T : \A n \in T : m <= n
<1>1. PICK m \in T : \A n \in T : ~(<<n, m>> \in OpToRel(<, Nat))
  BY NatLessThanWellFounded, WFMin
<1>2. \A n \in T : ~(n < m)
  BY <1>1 DEF OpToRel
<1>3. QED BY <1>2

LEMMA NumberInduction ==
    ASSUME NEW S \in SUBSET Nat, 0 \in S, \A n \in S : n + 1 \in S
    PROVE  S = Nat
<1> SUFFICES ASSUME Nat \ S # {} PROVE FALSE
  OBVIOUS
<1>1. PICK m \in Nat \ S : \A n \in Nat \ S : m <= n
  <2> DEFINE T == Nat \ S
  <2>1. T \in SUBSET Nat /\ T # {}
    OBVIOUS
  <2> HIDE DEF T
  <2>2. \E m \in T : \A n \in T : m <= n
    BY <2>1, Minimum
  <2>3. QED BY <2>2 DEF T
<1>2. m # 0
  OBVIOUS
<1>3. m - 1 \in Nat /\ ~(m <= m - 1) /\ (m - 1) + 1 = m
  BY <1>2
<1>4. m - 1 \in S
  BY <1>1, <1>3
<1>5. QED BY <1>3, <1>4

\* Induction from the last number to the first.
LEMMA BackwardInduction ==
    ASSUME NEW L \in Nat, NEW T \in SUBSET (1 .. L),
           \A k \in 1 .. L : k + 1 .. L \subseteq T => k \in T
    PROVE  T = 1 .. L
<1> DEFINE S == {n \in Nat : \A k \in 1 .. L : L < k + n => k \in T}
<1>1. 0 \in S
  OBVIOUS
<1>2. \A n \in S : n + 1 \in S
  <2> SUFFICES ASSUME NEW n \in S, NEW k \in 1 .. L, L < k + (n + 1) PROVE k \in T
    OBVIOUS
  <2>1. n \in Nat /\ \A j \in 1 .. L : L < j + n => j \in T
    OBVIOUS
  <2>2. \A j \in k + 1 .. L : j \in 1 .. L /\ L < j + n
    BY <2>1
  <2>3. QED BY <2>1, <2>2
<1>3. S = Nat
  <2>1. S \in SUBSET Nat
    OBVIOUS
  <2> HIDE DEF S
  <2>2. QED BY <1>1, <1>2, <2>1, NumberInduction
<1>4. L \in S
  BY <1>3
<1>5. \A k \in 1 .. L : k \in T
  BY <1>4
<1>6. QED BY <1>5

\* A function whose value at each number depends on those at greater numbers only
\* is defined by that.
LooksAhead(L, V, G) ==
    /\ V # {} /\ G \in [[1 .. L -> V] -> [1 .. L -> V]]
    /\ \A f, g \in [1 .. L -> V] : \A k \in 1 .. L :
          (\A j \in k + 1 .. L : f[j] = g[j]) => G[f][k] = G[g][k]

LEMMA BackwardRecursion ==
    ASSUME NEW L \in Nat, NEW V, NEW G, LooksAhead(L, V, G)
    PROVE  \E f \in [1 .. L -> V] : f = G[f]
<1>0. /\ V # {} /\ G \in [[1 .. L -> V] -> [1 .. L -> V]]
      /\ \A f, g \in [1 .. L -> V] : \A k \in 1 .. L :
            (\A j \in k + 1 .. L : f[j] = g[j]) => G[f][k] = G[g][k]
  BY DEF LooksAhead
<1> DEFINE Fits(f, n) == \A k \in 1 .. L : L < k + n => f[k] = G[f][k]
           S == {n \in Nat : \E f \in [1 .. L -> V] : Fits(f, n)}
<1>1. 0 \in S
  <2>1. PICK v \in V : TRUE
    BY <1>0
  <2>2. [k \in 1 .. L |-> v] \in [1 .. L -> V]
    OBVIOUS
  <2>3. \A f : Fits(f, 0)
    OBVIOUS
  <2> HIDE DEF Fits
  <2>4. QED BY <2>2, <2>3
<1>2. \A n \in S : n + 1 \in S
  <2> TAKE n \in S
  <2>1. PICK f \in [1 .. L -> V] : Fits(f, n)
    OBVIOUS
  <2>2. n \in Nat
    OBVIOUS
  <2> DEFINE g == [k \in 1 .. L |-> IF L < k + n THEN f[k] ELSE G[f][k]]
  <2>3. g \in [1 .. L -> V] /\ \A k \in 1 .. L : L < k + n => g[k] = f[k]
    BY <1>0, <2>2
  <2>4. \A k \in 1 .. L : L < k + (n + 1) => g[k] = G[f][k]
    BY <2>1, <2>2
  <2> HIDE DEF g
  <2>5. ASSUME NEW k \in 1 .. L, L < k + (n + 1)
        PROVE  g[k] = G[g][k]
    <3>1. \A j \in k + 1 .. L : f[j] = g[j]
      BY <2>2, <2>3, <2>5
    <3>2. G[f][k] = G[g][k]
      BY <1>0, <2>3, <3>1
    <3>3. QED BY <2>4, <2>5, <3>2
  <2>6. Fits(g, n + 1)
    BY <2>5
  <2> HIDE DEF Fits
  <2>7. n + 1 \in Nat
    BY <2>2
  <2>8. QED BY <2>3, <2>6, <2>7
<1>3. S = Nat
  <2>1. S \in SUBSET Nat
    OBVIOUS
  <2> HIDE DEF S
  <2>2. QED BY <1>1, <1>2, <2>1, NumberInduction
<1>4. PICK f \in [1 .. L -> V] : Fits(f, L)
  <2>1. L \in S
    BY <1>3
  <2> HIDE DEF Fits
  <2>2. QED BY <2>1
<1>5. \A k \in 1 .. L : f[k] = G[f][k]
  BY <1>4
<1>6. f = G[f]
  BY <1>0, <1>5
<1>7. QED BY <1>6

------------------------------------------------------------------------------
(***************************************************************************)
(* FlattenSeq is what adding one sequence after the other arrives at.      *)
(***************************************************************************)

------------------------------------------------------------------------------
(***************************************************************************)
(* FlattenSeq puts sequences together one after the other.                 *)
(***************************************************************************)

Flattens(ss, g) ==
    g = [i \in 1 .. Len(ss) |-> IF i = 1 THEN ss[i] ELSE g[i - 1] \o ss[i]]

LEMMA FlattenIs ==
    ASSUME NEW ss, Len(ss) # 0
    PROVE  FlattenSeq(ss) = (CHOOSE g : Flattens(ss, g))[Len(ss)]
BY DEF FlattenSeq, Flattens

LEMMA FlattenGiven ==
    ASSUME NEW ss, Len(ss) \in Nat \ {0}, NEW h, Flattens(ss, h)
    PROVE  FlattenSeq(ss) = h[Len(ss)]
<1> DEFINE g == CHOOSE f : Flattens(ss, f)
<1>1. Flattens(ss, g)
  OBVIOUS
<1> HIDE DEF g
<1> DEFINE n == Len(ss)
<1>2. /\ \A i \in 1 .. n : g[i] = IF i = 1 THEN ss[i] ELSE g[i - 1] \o ss[i]
      /\ \A i \in 1 .. n : h[i] = IF i = 1 THEN ss[i] ELSE h[i - 1] \o ss[i]
  BY <1>1 DEF Flattens
<1>3. n \in Nat \ {0}
  OBVIOUS
<1> HIDE DEF n
<1> DEFINE S == {i \in Nat : i \in 1 .. n => g[i] = h[i]}
<1>4. 0 \in S
  BY <1>3
<1>5. \A i \in S : i + 1 \in S
  <2> SUFFICES ASSUME NEW i \in S, i + 1 \in 1 .. n PROVE g[i + 1] = h[i + 1]
    OBVIOUS
  <2>1. i \in Nat /\ (i # 0 => i \in 1 .. n)
    BY <1>3
  <2>2. CASE i = 0
    BY <1>2, <2>2
  <2>3. CASE i # 0
    <3>1. g[i] = h[i] /\ (i + 1) - 1 = i /\ i + 1 # 1
      BY <2>1, <2>3
    <3>2. QED BY <1>2, <3>1
  <2>4. QED BY <2>2, <2>3
<1>6. S = Nat
  <2> HIDE DEF S
  <2>1. S \in SUBSET Nat
    BY DEF S
  <2>2. QED BY <1>4, <1>5, <2>1, NumberInduction
<1>7. g[n] = h[n]
  <2>1. n \in S /\ n \in 1 .. n
    BY <1>3, <1>6
  <2>2. QED BY <2>1
<1>8. QED BY <1>7, FlattenIs DEF n, g

\* What has been put together after each of the sequences.
Partial(S, ss, h) ==
    /\ h \in [0 .. Len(ss) -> Seq(S)]
    /\ h[0] = << >>
    /\ \A i \in 1 .. Len(ss) : h[i] = h[i - 1] \o ss[i]
    /\ FlattenSeq(ss) = h[Len(ss)]

LEMMA PartialExists ==
    ASSUME NEW S, NEW ss \in Seq(Seq(S))
    PROVE  \E h : Partial(S, ss, h)
<1> DEFINE n == Len(ss)
<1>0. n \in Nat /\ \A i \in 1 .. n : ss[i] \in Seq(S)
  OBVIOUS
<1> DEFINE Sums(h, m) == /\ h \in [0 .. n -> Seq(S)] /\ h[0] = << >>
                         /\ \A i \in 1 .. n : i <= m => h[i] = h[i - 1] \o ss[i]
           N == {m \in Nat : \E h : Sums(h, m)}
<1> HIDE DEF n
<1>1. 0 \in N
  <2> DEFINE h == [i \in 0 .. n |-> << >>]
  <2>1. h \in [0 .. n -> Seq(S)] /\ h[0] = << >>
    BY <1>0
  <2>2. \A i \in 1 .. n : ~(i <= 0)
    BY <1>0
  <2> HIDE DEF h
  <2>3. Sums(h, 0)
    BY <2>1, <2>2
  <2> HIDE DEF Sums
  <2>4. QED BY <2>3
<1>2. \A m \in N : m + 1 \in N
  <2> TAKE m \in N
  <2>1. PICK h : Sums(h, m)
    OBVIOUS
  <2>2. m \in Nat
    OBVIOUS
  <2>3. \A i \in 1 .. n : i - 1 \in 0 .. n /\ i \in 0 .. n
    BY <1>0
  <2>4. \A i \in 1 .. n : h[i - 1] \o ss[i] \in Seq(S)
    BY <1>0, <2>1, <2>3, ConcatProperties
  <2> DEFINE g == [i \in 0 .. n |-> IF i = m + 1 THEN h[i - 1] \o ss[i] ELSE h[i]]
  <2>5. g \in [0 .. n -> Seq(S)]
    <3>1. \A i \in 0 .. n : (IF i = m + 1 THEN h[i - 1] \o ss[i] ELSE h[i]) \in Seq(S)
      <4> TAKE i \in 0 .. n
      <4>1. i = m + 1 => i \in 1 .. n
        BY <1>0, <2>2
      <4>2. h[i] \in Seq(S)
        BY <2>1
      <4>3. QED BY <2>4, <4>1, <4>2
    <3>2. QED BY <3>1
  <2>6. g[0] = << >>
    BY <1>0, <2>1, <2>2
  <2>7. \A i \in 1 .. n : i <= m + 1 => g[i] = g[i - 1] \o ss[i]
    <3> TAKE i \in 1 .. n
    <3> HAVE i <= m + 1
    <3>0. i - 1 \in 0 .. n /\ i \in 0 .. n
      BY <2>3
    <3>4. i - 1 # m + 1 /\ (i # m + 1 => i <= m)
      BY <2>2
    <3>1. g[i - 1] = h[i - 1] /\ (i = m + 1 => g[i] = h[i - 1] \o ss[i])
          /\ (i # m + 1 => i <= m /\ g[i] = h[i])
      BY <3>0, <3>4
    <3> HIDE DEF g
    <3>2. i <= m => h[i] = h[i - 1] \o ss[i]
      BY <2>1
    <3>3. QED BY <3>1, <3>2
  <2> HIDE DEF g
  <2>8. Sums(g, m + 1)
    BY <2>5, <2>6, <2>7
  <2> HIDE DEF Sums
  <2>9. QED BY <2>2, <2>8
<1>3. N = Nat
  <2>1. N \in SUBSET Nat
    OBVIOUS
  <2> HIDE DEF N
  <2>2. QED BY <1>1, <1>2, <2>1, NumberInduction
<1>4. PICK h : Sums(h, n)
  <2>1. n \in N
    BY <1>0, <1>3
  <2> HIDE DEF Sums
  <2>2. QED BY <2>1
<1>5. h \in [0 .. n -> Seq(S)] /\ h[0] = << >> /\ \A i \in 1 .. n : h[i] = h[i - 1] \o ss[i]
  <2>1. \A i \in 1 .. n : i <= n
    BY <1>0
  <2>2. QED BY <1>4, <2>1
<1>6. CASE n = 0
  <2>1. ss = << >> /\ FlattenSeq(ss) = ss
    BY <1>6 DEF FlattenSeq, n
  <2>2. Partial(S, ss, h)
    BY <1>5, <1>6, <2>1 DEF Partial, n
  <2>3. QED BY <2>2
<1>7. CASE n # 0
  <2> DEFINE g == [i \in 1 .. n |-> h[i]]
  <2>1. \A i \in 1 .. n : g[i] = IF i = 1 THEN ss[i] ELSE g[i - 1] \o ss[i]
    <3> TAKE i \in 1 .. n
    <3>1. CASE i = 1
      <4>0. 1 - 1 = 0
        OBVIOUS
      <4>1. h[1] = << >> \o ss[1] /\ ss[1] \in Seq(S)
        BY <1>0, <1>5, <3>1, <4>0
      <4>2. QED BY <3>1, <4>1, ConcatEmptySeq
    <3>2. CASE i # 1
      <4>0. i - 1 \in 1 .. n
        BY <1>0, <3>2
      <4>1. h[i] = h[i - 1] \o ss[i]
        BY <1>5
      <4>2. g[i] = h[i] /\ g[i - 1] = h[i - 1]
        BY <4>0
      <4> HIDE DEF g
      <4>3. QED BY <3>2, <4>1, <4>2
    <3>3. QED BY <3>1, <3>2
  <2>2. Flattens(ss, g)
    <3>1. g = [i \in 1 .. n |-> g[i]]
      OBVIOUS
    <3> HIDE DEF g
    <3>2. g = [i \in 1 .. n |-> IF i = 1 THEN ss[i] ELSE g[i - 1] \o ss[i]]
      BY <2>1, <3>1
    <3>3. QED BY <3>2 DEF Flattens, n
  <2>3. FlattenSeq(ss) = g[n]
    BY <1>0, <1>7, <2>2, FlattenGiven DEF n
  <2>4. g[n] = h[n]
    BY <1>0, <1>7
  <2>5. Partial(S, ss, h)
    BY <1>5, <2>3, <2>4 DEF Partial, n
  <2>6. QED BY <2>5
<1>8. QED BY <1>6, <1>7

LEMMA FlattenType ==
    ASSUME NEW S, NEW ss \in Seq(Seq(S))
    PROVE  FlattenSeq(ss) \in Seq(S)
<1>1. PICK h : Partial(S, ss, h)
  BY PartialExists
<1>2. Len(ss) \in 0 .. Len(ss)
  BY LenProperties
<1>3. QED BY <1>1, <1>2 DEF Partial

------------------------------------------------------------------------------
(***************************************************************************)
(* Texts, and searching them for a symbol.                                 *)
(***************************************************************************)

\* The provers do not know that what stands in quotes is a string.
Literals == {" ", ";", "\n", "    ", "{", "}", "\r", "/", "bad",
          "&", "=", "%", "+", "<", "\"", "hard", "junk", "2B", "25", "26", "3C", "22",
          "3B", "2F", "3D", "C2A0", "amp", "quot", "lt", "nbsp", "name", "top",
          "bottom", "image", "deepfry", "posttype", "meme_id", "new", "edit", "True",
          "df-", "meme_templates/", "access", "meme_object_name", "meme_object_img",
          "meme_object_top", "meme_object_bot"}
Symbol == STRING \cup Literals
Text == Seq(Symbol)

Lacks(t, n) == \A i \in 1 .. Len(t) : t[i] # n

IsJoin(w, s, t) ==
    /\ w \in Text /\ s \in Text /\ t \in Text /\ Len(w) = Len(s) + Len(t)
    /\ Len(s) \in Nat /\ Len(t) \in Nat
    /\ \A i \in 1 .. Len(s) : w[i] = s[i]
    /\ \A j \in 1 .. Len(t) : w[Len(s) + j] = t[j]

LEMMA JoinIs ==
    ASSUME NEW s \in Text, NEW t \in Text
    PROVE  IsJoin(s \o t, s, t)
<1>1. Len(s) \in Nat /\ Len(t) \in Nat
  BY DEF Text
<1>2. /\ s \o t \in Text /\ Len(s \o t) = Len(s) + Len(t)
      /\ \A i \in 1 .. Len(s) + Len(t) : (s \o t)[i] =
                     IF i <= Len(s) THEN s[i] ELSE t[i - Len(s)]
  BY ConcatProperties DEF Text
<1>3. \A i \in 1 .. Len(s) : (s \o t)[i] = s[i]
  BY <1>1, <1>2
<1>4. \A j \in 1 .. Len(t) : (s \o t)[Len(s) + j] = t[j]
  BY <1>1, <1>2
<1>5. QED BY <1>1, <1>2, <1>3, <1>4 DEF IsJoin

LEMMA LacksJoin ==
    ASSUME NEW s \in Text, NEW t \in Text, NEW n, Lacks(s, n), Lacks(t, n)
    PROVE  s \o t \in Text /\ Lacks(s \o t, n)
<1>1. PICK w : w = s \o t
  OBVIOUS
<1>2. IsJoin(w, s, t)
  BY <1>1, JoinIs
<1>3. ASSUME NEW i \in 1 .. Len(w) PROVE w[i] # n
  <2>1. CASE i <= Len(s)
    <3>1. i \in 1 .. Len(s)
      BY <1>2, <2>1 DEF IsJoin
    <3>2. QED BY <1>2, <3>1 DEF IsJoin, Lacks
  <2>2. CASE ~(i <= Len(s))
    <3>1. i - Len(s) \in 1 .. Len(t) /\ Len(s) + (i - Len(s)) = i
      BY <1>2, <2>2 DEF IsJoin
    <3>2. w[Len(s) + (i - Len(s))] = t[i - Len(s)]
      BY <1>2, <3>1 DEF IsJoin
    <3>3. QED BY <3>1, <3>2 DEF Lacks
  <2>3. QED BY <2>1, <2>2
<1>4. QED BY <1>1, <1>2, <1>3 DEF Lacks, IsJoin

LEMMA Single ==
    ASSUME NEW S, NEW s \in S
    PROVE  <<s>> \in Seq(S) /\ Len(<<s>>) = 1 /\ <<s>>[1] = s
OBVIOUS

LEMMA OneSymbol ==
    ASSUME NEW s \in Symbol
    PROVE  <<s>> \in Text /\ Len(<<s>>) = 1 /\ <<s>>[1] = s
BY Single, Zenon DEF Text

LEMMA LacksOne ==
    ASSUME NEW s \in Symbol, NEW n, s # n
    PROVE  <<s>> \in Text /\ Lacks(<<s>>, n)
<1>1. PICK e : e = <<s>>
  OBVIOUS
<1>2. e \in Text /\ Len(e) = 1 /\ e[1] = s
  BY <1>1, OneSymbol
<1>3. \A i \in 1 .. Len(e) : e[i] = s
  <2>1. \A i \in 1 .. 1 : i = 1
    OBVIOUS
  <2>2. QED BY <1>2, <2>1, Zenon
<1>4. QED BY <1>1, <1>2, <1>3 DEF Lacks

LEMMA LacksNothing == \A n : << >> \in Text /\ Lacks(<< >>, n)
BY EmptySeq DEF Lacks, Text

LEMMA TextSymbols ==
    ASSUME NEW t \in Text, NEW i \in 1 .. Len(t)
    PROVE  t[i] \in Symbol
BY ElementOfSeq DEF Text

------------------------------------------------------------------------------
(***************************************************************************)
(* Searching a text.                                                       *)
(***************************************************************************)
LEMMA SinglePart ==
    ASSUME NEW S, NEW t \in Seq(S), NEW i \in 1 .. Len(t)
    PROVE  SubSeq(t, i, i) = <<t[i]>>
<1>1. i \in Int /\ t[i] \in S /\ i - i + 1 = 1 /\ i + 1 - 1 = i
  BY ElementOfSeq
<1>2. \A j \in i .. i : t[j] \in S
  BY <1>1
<1>3. PICK p : p = SubSeq(t, i, i)
  OBVIOUS
<1>4. p \in Seq(S) /\ Len(p) = 1 /\ \A j \in 1 .. 1 : p[j] = t[i + j - 1]
  <2>1. /\ p \in Seq(S)
        /\ Len(p) = IF i <= i THEN i - i + 1 ELSE 0
        /\ \A j \in 1 .. i - i + 1 : p[j] = t[i + j - 1]
    <3>1. /\ SubSeq(t, i, i) \in Seq(S)
          /\ Len(SubSeq(t, i, i)) = IF i <= i THEN i - i + 1 ELSE 0
          /\ \A j \in 1 .. i - i + 1 : SubSeq(t, i, i)[j] = t[i + j - 1]
      <4> HIDE <1>3
      <4>1. QED BY <1>1, <1>2, SubSeqProperties
    <3>2. QED BY <1>3, <3>1
  <2>2. i <= i
    BY <1>1
  <2>3. QED BY <1>1, <2>1, <2>2
<1>5. PICK e : e = <<t[i]>>
  OBVIOUS
<1>6. e \in Seq(S) /\ Len(e) = 1 /\ e[1] = t[i]
  BY <1>1, <1>5, Single
<1>7. 1 \in 1 .. 1 /\ p[1] = t[i] /\ \A j \in 1 .. 1 : j = 1
  BY <1>1, <1>4
<1>8. \A j \in 1 .. 1 : p[j] = e[j]
  BY <1>6, <1>7
<1>9. p = e
  BY <1>4, <1>6, <1>8, SeqEqual
<1>10. QED BY <1>3, <1>5, <1>9

LEMMA TextDomain ==
    ASSUME NEW t \in Text
    PROVE  Len(t) \in Nat /\ DOMAIN t = 1 .. Len(t)
BY DEF Text

LEMMA IsAtOne ==
    ASSUME NEW t \in Text, NEW i \in 1 .. Len(t), NEW n
    PROVE  IsAt(t, i, <<n>>) <=> t[i] = n
<1>1. Len(t) \in Nat /\ Len(<<n>>) = 1
  BY DEF Text
<1>2. i + 1 <= Len(t) + 1 /\ i + 1 - 1 = i
  BY <1>1
<1>3. SubSeq(t, i, i) = <<t[i]>>
  BY SinglePart DEF Text
<1>4. <<t[i]>> = <<n>> <=> t[i] = n
  OBVIOUS
<1>5. QED BY <1>1, <1>2, <1>3, <1>4 DEF IsAt

LEMMA HasNone ==
    ASSUME NEW t \in Text, NEW n
    PROVE  Has(t, <<n>>) <=> ~Lacks(t, n)
<1>1. DOMAIN t = 1 .. Len(t)
  BY TextDomain
<1>2. QED BY <1>1, IsAtOne DEF Has, Lacks

LEMMA FirstIs ==
    ASSUME NEW t \in Text, NEW n, NEW p \in 1 .. Len(t), t[p] = n,
           \A j \in 1 .. p - 1 : t[j] # n
    PROVE  FirstAt(t, <<n>>) = p
<1>1. DOMAIN t = 1 .. Len(t) /\ Len(t) \in Nat
  BY TextDomain
<1> DEFINE First(i) == IsAt(t, i, <<n>>) /\ \A j \in 1 .. i - 1 : ~IsAt(t, j, <<n>>)
<1>2. \A i \in 1 .. Len(t) : \A j \in 1 .. i - 1 : j \in 1 .. Len(t)
  BY <1>1
<1>3. First(p)
  BY <1>2, IsAtOne
<1>4. ASSUME NEW i \in 1 .. Len(t), First(i) PROVE i = p
  <2>1. t[i] = n /\ \A j \in 1 .. i - 1 : t[j] # n
    BY <1>2, <1>4, IsAtOne
  <2>2. p \notin 1 .. i - 1 /\ i \notin 1 .. p - 1
    BY <2>1
  <2>3. QED BY <1>1, <2>2
<1>5. FirstAt(t, <<n>>) = CHOOSE i \in 1 .. Len(t) : First(i)
  BY <1>1 DEF FirstAt
<1> HIDE DEF First
<1>6. QED BY <1>3, <1>4, <1>5

\* The first place of a symbol that is in a text.
LEMMA FirstExists ==
    ASSUME NEW t \in Text, NEW n, ~Lacks(t, n)
    PROVE  \E p \in 1 .. Len(t) : t[p] = n /\ \A j \in 1 .. p - 1 : t[j] # n
<1>1. Len(t) \in Nat
  BY TextDomain
<1> DEFINE T == {i \in 1 .. Len(t) : t[i] = n}
<1>2. T \in SUBSET Nat /\ T # {}
  BY DEF Lacks
<1>3. PICK p \in T : \A i \in T : p <= i
  <2> HIDE DEF T
  <2>1. QED BY <1>2, Minimum
<1>4. \A j \in 1 .. p - 1 : t[j] # n
  <2> TAKE j \in 1 .. p - 1
  <2>1. j \in 1 .. Len(t) /\ ~(p <= j)
    BY <1>1
  <2>2. QED BY <1>3, <2>1
<1>5. QED BY <1>4

LEMMA SuffixIs ==
    ASSUME NEW S, NEW t \in Seq(S), NEW p \in Nat, p <= Len(t)
    PROVE  /\ SubSeq(t, p + 1, Len(t)) \in Seq(S)
           /\ Len(SubSeq(t, p + 1, Len(t))) = Len(t) - p
           /\ \A i \in 1 .. Len(t) - p : SubSeq(t, p + 1, Len(t))[i] = t[p + i]
<1>1. PICK L \in Nat : L = Len(t)
  BY LenProperties
<1>2. \A i \in p + 1 .. L : t[i] \in S
  BY <1>1, ElementOfSeq
<1>3. p + 1 \in Int /\ L \in Int /\ L - (p + 1) + 1 = L - p
      /\ (IF p + 1 <= L THEN L - (p + 1) + 1 ELSE 0) = L - p
  BY <1>1
<1>4. /\ SubSeq(t, p + 1, L) \in Seq(S)
      /\ Len(SubSeq(t, p + 1, L)) = IF p + 1 <= L THEN L - (p + 1) + 1 ELSE 0
      /\ \A i \in 1 .. L - (p + 1) + 1 : SubSeq(t, p + 1, L)[i] = t[(p + 1) + i - 1]
  BY <1>2, <1>3, SubSeqProperties
<1>5. \A i \in 1 .. L - p : (p + 1) + i - 1 = p + i
  BY <1>1
<1>6. QED BY <1>1, <1>3, <1>4, <1>5

LEMMA AfterIs ==
    ASSUME NEW t \in Text, NEW n, NEW p \in 1 .. Len(t), t[p] = n,
           \A j \in 1 .. p - 1 : t[j] # n
    PROVE  /\ After(t, <<n>>) \in Text
           /\ Len(After(t, <<n>>)) = Len(t) - p
           /\ \A j \in 1 .. Len(t) - p : After(t, <<n>>)[j] = t[p + j]
<1>1. PICK L \in Nat : L = Len(t)
  BY TextDomain
<1>2. After(t, <<n>>) = SubSeq(t, p + 1, L)
  <2>1. FirstAt(t, <<n>>) = p /\ Len(<<n>>) = 1
    BY FirstIs
  <2>2. QED BY <1>1, <2>1 DEF After
<1>3. p \in Nat /\ p <= Len(t)
  BY <1>1
<1>4. t \in Seq(Symbol)
  BY DEF Text
<1>5. /\ SubSeq(t, p + 1, Len(t)) \in Seq(Symbol)
      /\ Len(SubSeq(t, p + 1, Len(t))) = Len(t) - p
      /\ \A i \in 1 .. Len(t) - p : SubSeq(t, p + 1, Len(t))[i] = t[p + i]
  BY <1>3, <1>4, SuffixIs
<1>6. QED BY <1>1, <1>2, <1>5, Zenon DEF Text

LEMMA NotEmpty == \A w : <<w>> # << >>
OBVIOUS

LEMMA AppendIs ==
    ASSUME NEW q \in Seq(Text), NEW e \in Text
    PROVE  /\ Len(Append(q, e)) = Len(q) + 1 /\ Append(q, e)[Len(q) + 1] = e
           /\ \A i \in 1 .. Len(q) : Append(q, e)[i] = q[i]
BY AppendProperties

LEMMA JoinsAssociate ==
    ASSUME NEW r \in Text, NEW s \in Text, NEW t \in Text
    PROVE  (r \o s) \o t = r \o (s \o t)
BY ConcatAssociative DEF Text

------------------------------------------------------------------------------
(***************************************************************************)
(* FoldLeft.                                                               *)
(***************************************************************************)

LEMMA MinIs ==
    ASSUME NEW T \in SUBSET Nat, NEW m \in T, \A i \in T : m <= i
    PROVE  Min(T) = m
<1>1. \A i \in T : (\A j \in T : i <= j) => i = m
  OBVIOUS
<1>2. QED BY <1>1 DEF Min

LEMMA MaxIs ==
    ASSUME NEW T \in SUBSET Nat, NEW m \in T, \A i \in T : i <= m
    PROVE  Max(T) = m
<1>1. \A i \in T : (\A j \in T : i >= j) => i = m
  OBVIOUS
<1>2. m \in T /\ \A j \in T : m >= j
  OBVIOUS
<1>3. QED BY <1>1, <1>2 DEF Max

LEMMA MaxExists ==
    ASSUME NEW n \in Nat, NEW T \in SUBSET (1 .. n), T # {}
    PROVE  Max(T) \in T
<1> DEFINE U == {n - i : i \in T}
<1>1. U \in SUBSET Nat /\ U # {}
  <2>1. \A i \in T : n - i \in Nat
    OBVIOUS
  <2>2. PICK i \in T : TRUE
    OBVIOUS
  <2>3. n - i \in U
    OBVIOUS
  <2>4. QED BY <2>1, <2>3
<1>2. PICK m \in U : \A u \in U : m <= u
  <2> HIDE DEF U
  <2>1. QED BY <1>1, Minimum
<1>3. PICK i \in T : m = n - i
  OBVIOUS
<1>4. \A j \in T : j <= i
  <2> TAKE j \in T
  <2>1. m <= n - j
    BY <1>2
  <2>2. QED BY <1>3, <2>1
<1>5. QED BY <1>4, MaxIs

FirstOf(I) == IF I # {} THEN Min(I) ELSE 0

LEMMA FirstOfIs ==
    ASSUME NEW I \in SUBSET Nat
    PROVE  /\ I = {} => FirstOf(I) = 0
           /\ I # {} => FirstOf(I) \in I /\ \A i \in I : FirstOf(I) <= i
<1>1. CASE I = {}
  BY <1>1 DEF FirstOf
<1>2. CASE I # {}
  <2>1. PICK m \in I : \A i \in I : m <= i
    BY <1>2, Minimum
  <2>2. FirstOf(I) = m
    BY <1>2, <2>1, MinIs DEF FirstOf
  <2>3. QED BY <1>2, <2>1, <2>2
<1>3. QED BY <1>1, <1>2

LEMMA FirstOfGiven ==
    ASSUME NEW I \in SUBSET Nat, NEW m \in I, \A i \in I : m <= i
    PROVE  FirstOf(I) = m
<1>1. Min(I) = m
  BY MinIs
<1>2. QED BY <1>1 DEF FirstOf

\* A function on sets of places that goes through a sequence from left to right.
IsFold(f, n, V, b, E, s) ==
    /\ f \in [SUBSET (1 .. n) -> V]
    /\ \A T \in SUBSET (1 .. n) :
          f[T] = IF T = {} THEN b ELSE E[<<f[T \ {Max(T)}], s[Max(T)]>>]

LEMMA FoldExists ==
    ASSUME NEW V, NEW D, NEW E \in [V \X D -> V], NEW b \in V, NEW s \in Seq(D)
    PROVE  \E f : IsFold(f, Len(s), V, b, E, s)
<1>1. PICK L \in Nat : L = Len(s)
  BY LenProperties
<1> DEFINE S == {n \in Nat : n <= L => \E f : IsFold(f, n, V, b, E, s)}
<1>2. 0 \in S
  <2> DEFINE f == [T \in SUBSET (1 .. 0) |-> b]
  <2>1. \A T \in SUBSET (1 .. 0) : T = {}
    OBVIOUS
  <2>2. IsFold(f, 0, V, b, E, s)
    BY <2>1 DEF IsFold
  <2>3. QED BY <2>2
<1>3. \A n \in S : n + 1 \in S
  <2> SUFFICES ASSUME NEW n \in S, n + 1 <= L
               PROVE  \E f : IsFold(f, n + 1, V, b, E, s)
    OBVIOUS
  <2>1. n \in Nat /\ n <= L
    BY <1>1
  <2>2. PICK f : IsFold(f, n, V, b, E, s)
    BY <2>1
  <2>3. PICK m : m = n + 1
    OBVIOUS
  <2>4. s[m] \in D /\ m \in Nat
    BY <1>1, <2>1, <2>3, ElementOfSeq
  <2>5. \A T \in SUBSET (1 .. m) : T \ {m} \in SUBSET (1 .. n) /\ (m \notin T => T \in SUBSET (1 .. n))
    BY <2>1, <2>3
  <2> DEFINE g == [T \in SUBSET (1 .. m) |->
                     IF m \in T THEN E[<<f[T \ {m}], s[m]>>] ELSE f[T]]
  <2>6. f \in [SUBSET (1 .. n) -> V]
    BY <2>2 DEF IsFold
  <2>7. g \in [SUBSET (1 .. m) -> V]
    <3>1. \A T \in SUBSET (1 .. m) : E[<<f[T \ {m}], s[m]>>] \in V
      <4> TAKE T \in SUBSET (1 .. m)
      <4>1. f[T \ {m}] \in V
        BY <2>5, <2>6
      <4>2. <<f[T \ {m}], s[m]>> \in V \X D
        BY <2>4, <4>1
      <4>3. QED BY <4>2
    <3>2. \A T \in SUBSET (1 .. m) : m \notin T => f[T] \in V
      BY <2>5, <2>6
    <3>3. QED BY <3>1, <3>2
  <2>8. \A T \in SUBSET (1 .. n) : T \in SUBSET (1 .. m) /\ m \notin T /\ g[T] = f[T]
    <3>1. \A T \in SUBSET (1 .. n) : T \in SUBSET (1 .. m) /\ m \notin T
      BY <2>1, <2>3
    <3>2. QED BY <3>1
  <2>9. \A T \in SUBSET (1 .. m) : m \in T => g[T] = E[<<f[T \ {m}], s[m]>>]
    OBVIOUS
  <2>10. ASSUME NEW T \in SUBSET (1 .. m)
         PROVE  g[T] = IF T = {} THEN b ELSE E[<<g[T \ {Max(T)}], s[Max(T)]>>]
    <3> HIDE DEF g
    <3>1. CASE m \in T
      <4>1. Max(T) = m
        <5>1. T \in SUBSET Nat /\ \A i \in T : i <= m
          BY <2>4
        <5>2. QED BY <3>1, <5>1, MaxIs
      <4>2. g[T \ {m}] = f[T \ {m}]
        BY <2>5, <2>8
      <4>3. g[T] = E[<<f[T \ {m}], s[m]>>]
        BY <2>9, <3>1
      <4>4. QED BY <3>1, <4>1, <4>2, <4>3
    <3>2. CASE m \notin T
      <4>1. T \in SUBSET (1 .. n) /\ T \ {Max(T)} \in SUBSET (1 .. n)
        BY <2>5, <3>2
      <4>2. g[T] = f[T] /\ g[T \ {Max(T)}] = f[T \ {Max(T)}]
        BY <2>8, <4>1
      <4>3. f[T] = IF T = {} THEN b ELSE E[<<f[T \ {Max(T)}], s[Max(T)]>>]
        BY <2>2, <4>1 DEF IsFold
      <4>4. QED BY <4>2, <4>3
    <3>3. QED BY <3>1, <3>2
  <2> HIDE DEF g
  <2>11. IsFold(g, m, V, b, E, s)
    BY <2>7, <2>10 DEF IsFold
  <2>12. QED BY <2>3, <2>11
<1>4. S = Nat
  <2>1. S \in SUBSET Nat
    OBVIOUS
  <2> HIDE DEF S
  <2>2. QED BY <1>2, <1>3, <2>1, NumberInduction
<1>5. L \in S
  BY <1>4
<1>6. L <= L
  OBVIOUS
<1>7. QED BY <1>1, <1>5, <1>6

\* The values it has at the beginnings of the sequence.
LEMMA FoldSteps ==
    ASSUME NEW n \in Nat, NEW i \in 1 .. n
    PROVE  /\ 1 .. i \in SUBSET (1 .. n) /\ 1 .. i # {}
           /\ Max(1 .. i) = i /\ (1 .. i) \ {i} = 1 .. i - 1
<1>1. 1 .. i \in SUBSET Nat /\ i \in 1 .. i /\ \A j \in 1 .. i : j <= i
  OBVIOUS
<1>2. Max(1 .. i) = i
  BY <1>1, MaxIs
<1>3. (1 .. i) \ {i} = 1 .. i - 1
  OBVIOUS
<1>4. QED BY <1>1, <1>2, <1>3

------------------------------------------------------------------------------
(***************************************************************************)
(* Split goes through a text from state to state: what it has of the       *)
(* tokens.  The states of a text follow from those of its parts.           *)
(***************************************************************************)

Tokens == Seq(Text) \ {<< >>}

SplitStep(D, x, s) ==
    IF s \notin D THEN Append(Front(x), Append(Last(x), s))
    ELSE IF Len(x) > 1 /\ Last(x) = << >> THEN x
    ELSE Append(x, << >>)

RunsBy(D, x, t, y, h) ==
    /\ h \in [0 .. Len(t) -> Tokens] /\ h[0] = x /\ h[Len(t)] = y
    /\ \A i \in 1 .. Len(t) : h[i] = SplitStep(D, h[i - 1], t[i])
Runs(D, x, t, y) == \E h : RunsBy(D, x, t, y, h)

LEMMA TokensAre ==
    ASSUME NEW x \in Tokens
    PROVE  /\ x \in Seq(Text) /\ Len(x) \in Nat \ {0} /\ Last(x) \in Text
           /\ Front(x) \in Seq(Text) /\ Len(Front(x)) = Len(x) - 1
           /\ \A i \in 1 .. Len(x) - 1 : Front(x)[i] = x[i]
           /\ \A w \in Text :
                 /\ Append(Front(x), w) \in Tokens
                 /\ Len(Append(Front(x), w)) = Len(x)
                 /\ Last(Append(Front(x), w)) = w
                 /\ \A i \in 1 .. Len(x) - 1 : Append(Front(x), w)[i] = x[i]
<1>1. PICK n \in Nat : n = Len(x)
  BY LenProperties DEF Tokens
<1>2. x \in Seq(Text) /\ n # 0
  BY <1>1, EmptySeq DEF Tokens
<1>3. Last(x) \in Text
  <2>1. n \in 1 .. n
    BY <1>2
  <2>2. QED BY <1>1, <1>2, <2>1, ElementOfSeq DEF Last
<1>4. /\ Front(x) \in Seq(Text) /\ Len(Front(x)) = n - 1
      /\ \A i \in 1 .. n - 1 : Front(x)[i] = x[i]
  <2>1. \A i \in 1 .. n - 1 : x[i] \in Text
    <3> TAKE i \in 1 .. n - 1
    <3>1. i \in 1 .. n
      BY <1>1
    <3>2. QED BY <1>1, <1>2, <3>1, ElementOfSeq
  <2>2. 1 \in Int /\ n - 1 \in Int /\ (n - 1) - 1 + 1 = n - 1
        /\ (IF 1 <= n - 1 THEN (n - 1) - 1 + 1 ELSE 0) = n - 1
    BY <1>2
  <2>3. /\ SubSeq(x, 1, n - 1) \in Seq(Text)
        /\ Len(SubSeq(x, 1, n - 1)) = IF 1 <= n - 1 THEN (n - 1) - 1 + 1 ELSE 0
        /\ \A i \in 1 .. (n - 1) - 1 + 1 : SubSeq(x, 1, n - 1)[i] = x[1 + i - 1]
    BY <2>1, <2>2, SubSeqProperties
  <2>4. \A i \in 1 .. n - 1 : 1 + i - 1 = i
    BY <1>1
  <2>5. Front(x) = SubSeq(x, 1, n - 1)
    BY <1>1 DEF Front
  <2>6. QED BY <2>2, <2>3, <2>4, <2>5
<1>5. ASSUME NEW w \in Text
      PROVE  /\ Append(Front(x), w) \in Tokens
             /\ Len(Append(Front(x), w)) = n
             /\ Last(Append(Front(x), w)) = w
             /\ \A i \in 1 .. n - 1 : Append(Front(x), w)[i] = x[i]
  <2>1. PICK a : a = Append(Front(x), w)
    OBVIOUS
  <2>2. /\ a \in Seq(Text) /\ a # << >> /\ Len(a) = Len(Front(x)) + 1
        /\ \A i \in 1 .. Len(Front(x)) : a[i] = Front(x)[i]
        /\ a[Len(Front(x)) + 1] = w
    BY <1>4, <2>1, AppendProperties
  <2>3. Len(a) = n /\ a[n] = w
    BY <1>2, <1>4, <2>2
  <2>4. \A i \in 1 .. n - 1 : a[i] = x[i]
    BY <1>4, <2>2
  <2>5. QED BY <2>1, <2>2, <2>3, <2>4 DEF Tokens, Last
<1>6. QED BY <1>1, <1>2, <1>3, <1>4, <1>5

LEMMA StepType ==
    ASSUME NEW D, NEW x \in Tokens, NEW s \in Symbol
    PROVE  SplitStep(D, x, s) \in Tokens
<1>1. Append(Front(x), Append(Last(x), s)) \in Tokens
  <2>1. Append(Last(x), s) \in Text
    BY TokensAre, AppendProperties DEF Text
  <2>2. QED BY <2>1, TokensAre
<1>2. Append(x, << >>) \in Tokens
  <2>1. x \in Seq(Text) /\ << >> \in Text
    BY TokensAre, LacksNothing
  <2>2. QED BY <2>1, AppendProperties DEF Tokens
<1>3. QED BY <1>1, <1>2 DEF SplitStep

LEMMA RunsNothing ==
    ASSUME NEW D, NEW x \in Tokens
    PROVE  Runs(D, x, << >>, x)
<1> DEFINE h == [i \in 0 .. 0 |-> x]
<1>1. Len(<< >>) = 0
  OBVIOUS
<1>2. h \in [0 .. 0 -> Tokens] /\ h[0] = x /\ \A i \in 1 .. 0 : FALSE
  OBVIOUS
<1> HIDE DEF h
<1>3. RunsBy(D, x, << >>, x, h)
  BY <1>1, <1>2 DEF RunsBy
<1>4. QED BY <1>3 DEF Runs

LEMMA RunsEnd ==
    ASSUME NEW D, NEW x, NEW t \in Text, NEW y, Runs(D, x, t, y)
    PROVE  x \in Tokens /\ y \in Tokens
<1>1. PICK h : RunsBy(D, x, t, y, h)
  BY DEF Runs
<1>2. Len(t) \in Nat
  BY TextDomain
<1>3. QED BY <1>1, <1>2 DEF RunsBy

LEMMA RunsJoin ==
    ASSUME NEW D, NEW x, NEW y, NEW z, NEW s \in Text, NEW t \in Text,
           Runs(D, x, s, y), Runs(D, y, t, z)
    PROVE  s \o t \in Text /\ Runs(D, x, s \o t, z)
<1>1. PICK f : RunsBy(D, x, s, y, f)
  BY DEF Runs
<1>2. PICK g : RunsBy(D, y, t, z, g)
  BY DEF Runs
<1>3. PICK w : w = s \o t
  OBVIOUS
<1>4. IsJoin(w, s, t)
  BY <1>3, JoinIs
<1>5. PICK a, b, c \in Nat : a = Len(s) /\ b = Len(t) /\ c = Len(w) /\ c = a + b
  BY <1>4 DEF IsJoin
<1>6. /\ w \in Text
      /\ \A i \in 1 .. a : w[i] = s[i]
      /\ \A j \in 1 .. b : w[a + j] = t[j]
  BY <1>4, <1>5 DEF IsJoin
<1>7. /\ f \in [0 .. a -> Tokens] /\ f[0] = x /\ f[a] = y
      /\ \A i \in 1 .. a : f[i] = SplitStep(D, f[i - 1], s[i])
  BY <1>1, <1>5 DEF RunsBy
<1>8. /\ g \in [0 .. b -> Tokens] /\ g[0] = y /\ g[b] = z
      /\ \A i \in 1 .. b : g[i] = SplitStep(D, g[i - 1], t[i])
  BY <1>2, <1>5 DEF RunsBy
<1> DEFINE h == [i \in 0 .. c |-> IF i <= a THEN f[i] ELSE g[i - a]]
<1>9. h \in [0 .. c -> Tokens]
  <2>1. \A i \in 0 .. c : (i <= a => i \in 0 .. a) /\ (~(i <= a) => i - a \in 0 .. b)
    BY <1>5
  <2>2. \A i \in 0 .. c : (IF i <= a THEN f[i] ELSE g[i - a]) \in Tokens
    BY <1>7, <1>8, <2>1
  <2>3. QED BY <2>2
<1>10. /\ \A i \in 0 .. a : h[i] = f[i]
       /\ \A i \in 0 .. b : h[a + i] = g[i]
  <2>1. \A i \in 0 .. a : i \in 0 .. c /\ i <= a
    BY <1>5
  <2>2. \A i \in 0 .. a : h[i] = f[i]
    BY <2>1
  <2>3. ASSUME NEW i \in 0 .. b PROVE h[a + i] = g[i]
    <3>1. CASE i = 0
      <4>1. a + i = a /\ a \in 0 .. a
        BY <1>5, <3>1
      <4>2. QED BY <1>7, <1>8, <2>2, <3>1, <4>1
    <3>2. CASE i # 0
      <4>1. a + i \in 0 .. c /\ ~(a + i <= a) /\ (a + i) - a = i
        BY <1>5, <3>2
      <4>2. QED BY <4>1
    <3>3. QED BY <3>1, <3>2
  <2>4. QED BY <2>2, <2>3
<1> HIDE DEF h
<1>11. h[0] = x /\ h[c] = z
  <2>1. 0 \in 0 .. a /\ b \in 0 .. b /\ c = a + b
    BY <1>5
  <2>2. QED BY <1>7, <1>8, <1>10, <2>1
<1>12. ASSUME NEW i \in 1 .. c PROVE h[i] = SplitStep(D, h[i - 1], w[i])
  <2>1. CASE i <= a
    <3>1. i \in 1 .. a /\ i \in 0 .. a /\ i - 1 \in 0 .. a
      BY <1>5, <2>1
    <3>2. h[i] = f[i] /\ h[i - 1] = f[i - 1] /\ w[i] = s[i]
      BY <1>6, <1>10, <3>1
    <3>3. f[i] = SplitStep(D, f[i - 1], s[i])
      BY <1>7, <3>1
    <3>4. QED BY <3>2, <3>3, Zenon
  <2>2. CASE ~(i <= a)
    <3>1. PICK j : j = i - a
      OBVIOUS
    <3>2. j \in 1 .. b /\ j \in 0 .. b /\ j - 1 \in 0 .. b /\ i = a + j /\ i - 1 = a + (j - 1)
      BY <1>5, <2>2, <3>1
    <3>3. h[i] = g[j] /\ h[i - 1] = g[j - 1] /\ w[i] = t[j]
      BY <1>6, <1>10, <3>2
    <3>4. g[j] = SplitStep(D, g[j - 1], t[j])
      BY <1>8, <3>2
    <3>5. QED BY <3>3, <3>4, Zenon
  <2>3. QED BY <2>1, <2>2
<1>13. RunsBy(D, x, w, z, h)
  BY <1>5, <1>9, <1>11, <1>12 DEF RunsBy
<1>14. QED BY <1>3, <1>6, <1>13 DEF Runs

LEMMA RunsOnce ==
    ASSUME NEW D, NEW x, NEW t \in Text, NEW y, Runs(D, x, t, y),
           NEW g, g[0] = x, \A i \in 1 .. Len(t) : g[i] = SplitStep(D, g[i - 1], t[i])
    PROVE  g[Len(t)] = y
<1>1. PICK h : RunsBy(D, x, t, y, h)
  BY DEF Runs
<1>2. PICK L \in Nat : L = Len(t)
  BY TextDomain
<1>3. /\ h[0] = x /\ h[L] = y
      /\ \A i \in 1 .. L : h[i] = SplitStep(D, h[i - 1], t[i])
      /\ \A i \in 1 .. L : g[i] = SplitStep(D, g[i - 1], t[i])
  BY <1>1, <1>2 DEF RunsBy
<1> DEFINE S == {i \in Nat : i <= L => g[i] = h[i]}
<1>4. 0 \in S
  BY <1>3
<1>5. \A i \in S : i + 1 \in S
  <2> SUFFICES ASSUME NEW i \in S, i + 1 <= L PROVE g[i + 1] = h[i + 1]
    OBVIOUS
  <2>1. i \in Nat /\ i <= L /\ i + 1 \in 1 .. L /\ (i + 1) - 1 = i
    BY <1>2
  <2>2. g[i] = h[i]
    BY <2>1
  <2>3. g[i + 1] = SplitStep(D, g[i], t[i + 1]) /\ h[i + 1] = SplitStep(D, h[i], t[i + 1])
    BY <1>3, <2>1
  <2>4. QED BY <2>2, <2>3
<1>6. S = Nat
  <2>1. S \in SUBSET Nat
    OBVIOUS
  <2> HIDE DEF S
  <2>2. QED BY <1>4, <1>5, <2>1, NumberInduction
<1>7. L \in S
  BY <1>6
<1>8. L <= L
  OBVIOUS
<1>9. QED BY <1>2, <1>3, <1>7, <1>8

\* One symbol after the other.
LEMMA RunsOn ==
    ASSUME NEW D, NEW h, NEW t \in Text, h[0] \in Tokens,
           \A i \in 1 .. Len(t) : h[i] = SplitStep(D, h[i - 1], t[i])
    PROVE  Runs(D, h[0], t, h[Len(t)])
<1>2. PICK L \in Nat : L = Len(t)
  BY TextDomain
<1>3. \A i \in 1 .. L : h[i] = SplitStep(D, h[i - 1], t[i])
  BY <1>2
<1> DEFINE S == {i \in Nat : i <= L => h[i] \in Tokens}
<1>4. 0 \in S
  OBVIOUS
<1>5. \A i \in S : i + 1 \in S
  <2> SUFFICES ASSUME NEW i \in S, i + 1 <= L PROVE h[i + 1] \in Tokens
    OBVIOUS
  <2>1. i \in Nat /\ i <= L /\ i + 1 \in 1 .. L /\ (i + 1) - 1 = i
    BY <1>2
  <2>2. h[i] \in Tokens
    BY <2>1
  <2>3. t[i + 1] \in Symbol
    BY <1>2, <2>1, TextSymbols
  <2>4. h[i + 1] = SplitStep(D, h[i], t[i + 1])
    BY <1>3, <2>1
  <2>5. QED BY <2>2, <2>3, <2>4, StepType
<1>6. S = Nat
  <2>1. S \in SUBSET Nat
    OBVIOUS
  <2> HIDE DEF S
  <2>2. QED BY <1>4, <1>5, <2>1, NumberInduction
<1>7. \A i \in 0 .. L : h[i] \in Tokens
  <2>1. \A i \in 0 .. L : i \in Nat /\ i <= L
    OBVIOUS
  <2>2. QED BY <1>6, <2>1
<1> DEFINE g == [i \in 0 .. L |-> h[i]]
<1>8. g \in [0 .. L -> Tokens] /\ g[0] = h[0] /\ g[L] = h[L]
  BY <1>7
<1>9. \A i \in 1 .. L : i \in 0 .. L /\ i - 1 \in 0 .. L
  OBVIOUS
<1>10. \A i \in 1 .. L : g[i] = h[i] /\ g[i - 1] = h[i - 1]
  BY <1>9
<1> HIDE DEF g
<1>11. \A i \in 1 .. L : g[i] = SplitStep(D, g[i - 1], t[i])
  BY <1>3, <1>10
<1>12. RunsBy(D, h[0], t, h[L], g)
  BY <1>2, <1>8, <1>11 DEF RunsBy
<1>13. QED BY <1>2, <1>12 DEF Runs

Splits(g, D, t) ==
    g = [T \in SUBSET DOMAIN t |->
           IF T = {} THEN << << >> >> ELSE SplitStep(D, g[T \ {Max(T)}], t[Max(T)])]

LEMMA SplitDef ==
    ASSUME NEW t, NEW D
    PROVE  Split(t, D) = (CHOOSE g : Splits(g, D, t))[DOMAIN t]
BY Zenon DEF Split, FoldLeft, MapThenFoldSet, Splits, SplitStep

LEMMA StartIs == << << >> >> \in Tokens
<1>1. << >> \in Text
  BY LacksNothing
<1>2. << << >> >> \in Seq(Text) /\ Len(<< << >> >>) = 1
  BY <1>1, Single
<1>3. QED BY <1>2 DEF Tokens

LEMMA SplitExists ==
    ASSUME NEW t \in Text, NEW D
    PROVE  \E g : Splits(g, D, t)
<1> DEFINE E == [p \in Tokens \X Symbol |-> SplitStep(D, p[1], p[2])]
<1>1. /\ E \in [Tokens \X Symbol -> Tokens]
      /\ \A x \in Tokens : \A s \in Symbol : E[<<x, s>>] = SplitStep(D, x, s)
  <2>1. \A p \in Tokens \X Symbol : p[1] \in Tokens /\ p[2] \in Symbol
    OBVIOUS
  <2>2. \A p \in Tokens \X Symbol : SplitStep(D, p[1], p[2]) \in Tokens
    BY <2>1, StepType
  <2>3. E \in [Tokens \X Symbol -> Tokens]
    BY <2>2
  <2>4. \A x \in Tokens : \A s \in Symbol :
           <<x, s>> \in Tokens \X Symbol /\ <<x, s>>[1] = x /\ <<x, s>>[2] = s
    OBVIOUS
  <2>5. QED BY <2>3, <2>4
<1>2. PICK n \in Nat : n = Len(t)
  BY TextDomain
<1>3. DOMAIN t = 1 .. n /\ \A i \in 1 .. n : t[i] \in Symbol
  BY <1>2, TextDomain, TextSymbols
<1> HIDE DEF E
<1>4. PICK f : IsFold(f, n, Tokens, << << >> >>, E, t)
  <2>1. t \in Seq(Symbol)
    BY DEF Text
  <2>2. QED BY <1>1, <1>2, <2>1, StartIs, FoldExists
<1>5. ASSUME NEW T \in SUBSET (1 .. n)
      PROVE  f[T] = IF T = {} THEN << << >> >> ELSE SplitStep(D, f[T \ {Max(T)}], t[Max(T)])
  <2>1. CASE T = {}
    BY <1>4, <2>1 DEF IsFold
  <2>2. CASE T # {}
    <3>1. f[T] = E[<<f[T \ {Max(T)}], t[Max(T)]>>]
      BY <1>4, <2>2 DEF IsFold
    <3>2. t[Max(T)] \in Symbol
      <4>1. Max(T) \in T
        BY <2>2, MaxExists
      <4>2. QED BY <1>3, <4>1
    <3>3. f[T \ {Max(T)}] \in Tokens
      <4>1. T \ {Max(T)} \in SUBSET (1 .. n)
        OBVIOUS
      <4>2. QED BY <1>4, <4>1 DEF IsFold
    <3>4. QED BY <1>1, <2>2, <3>1, <3>2, <3>3, Zenon
  <2>3. QED BY <2>1, <2>2
<1>6. f = [T \in SUBSET (1 .. n) |-> f[T]]
  BY <1>4 DEF IsFold
<1>7. f = [T \in SUBSET (1 .. n) |->
             IF T = {} THEN << << >> >> ELSE SplitStep(D, f[T \ {Max(T)}], t[Max(T)])]
  <2> DEFINE B(T) ==
        IF T = {} THEN << << >> >> ELSE SplitStep(D, f[T \ {Max(T)}], t[Max(T)])
  <2>1. \A T \in SUBSET (1 .. n) : f[T] = B(T)
    BY <1>5
  <2> HIDE DEF B
  <2>2. f = [T \in SUBSET (1 .. n) |-> B(T)]
    BY <1>6, <2>1
  <2>3. QED BY <2>2 DEF B
<1>8. Splits(f, D, t)
  BY <1>3, <1>7 DEF Splits
<1>9. QED BY <1>8

\* What Split returns is where it gets to from one empty token.
LEMMA SplitRuns ==
    ASSUME NEW t \in Text, NEW D
    PROVE  Runs(D, << << >> >>, t, Split(t, D))
<1>1. PICK g : g = CHOOSE h : Splits(h, D, t)
  OBVIOUS
<1>2. Splits(g, D, t)
  BY <1>1, SplitExists
<1>3. PICK n \in Nat : n = Len(t)
  BY TextDomain
<1>4. DOMAIN t = 1 .. n
  BY <1>3, TextDomain
<1>5. \A T \in SUBSET (1 .. n) :
         g[T] = IF T = {} THEN << << >> >> ELSE SplitStep(D, g[T \ {Max(T)}], t[Max(T)])
  <2> DEFINE B(T) ==
        IF T = {} THEN << << >> >> ELSE SplitStep(D, g[T \ {Max(T)}], t[Max(T)])
  <2>1. g = [T \in SUBSET (1 .. n) |-> B(T)]
    BY <1>2, <1>4 DEF Splits
  <2> HIDE DEF B
  <2>2. \A T \in SUBSET (1 .. n) : g[T] = B(T)
    BY <2>1
  <2>3. QED BY <2>2 DEF B
<1> DEFINE h == [i \in 0 .. n |-> g[1 .. i]]
<1>6. h[0] = << << >> >>
  <2>1. 1 .. 0 = {} /\ 0 \in 0 .. n
    OBVIOUS
  <2>2. QED BY <1>5, <2>1
<1>7. h[n] = Split(t, D)
  <2>1. n \in 0 .. n
    OBVIOUS
  <2>2. QED BY <1>1, <1>4, <2>1, SplitDef
<1>8. ASSUME NEW i \in 1 .. n PROVE h[i] = SplitStep(D, h[i - 1], t[i])
  <2>1. i \in 0 .. n /\ i - 1 \in 0 .. n
    OBVIOUS
  <2>2. h[i] = g[1 .. i] /\ h[i - 1] = g[1 .. i - 1]
    BY <2>1
  <2>3. /\ 1 .. i \in SUBSET (1 .. n) /\ 1 .. i # {}
        /\ Max(1 .. i) = i /\ (1 .. i) \ {i} = 1 .. i - 1
    BY FoldSteps
  <2>4. g[1 .. i] = SplitStep(D, g[1 .. i - 1], t[i])
    BY <1>5, <2>3
  <2>5. QED BY <2>2, <2>4
<1> HIDE DEF h
<1>9. Runs(D, h[0], t, h[Len(t)])
  BY <1>3, <1>6, <1>8, StartIs, RunsOn
<1>10. QED BY <1>3, <1>6, <1>7, <1>9

LEMMA RunsSame ==
    ASSUME NEW D, NEW x, NEW t \in Text, NEW y, NEW z, Runs(D, x, t, y), Runs(D, x, t, z)
    PROVE  y = z
<1>1. PICK h : RunsBy(D, x, t, z, h)
  BY DEF Runs
<1>2. h[0] = x /\ h[Len(t)] = z /\ \A i \in 1 .. Len(t) : h[i] = SplitStep(D, h[i - 1], t[i])
  BY <1>1 DEF RunsBy
<1>3. QED BY <1>2, RunsOnce

LEMMA SplitIs ==
    ASSUME NEW t \in Text, NEW D, NEW y, Runs(D, << << >> >>, t, y)
    PROVE  Split(t, D) = y
BY SplitRuns, RunsSame

LEMMA PutIs ==
    ASSUME NEW f \in Seq(Text), NEW w \in Text
    PROVE  /\ Append(f, w) \in Tokens /\ Len(Append(f, w)) = Len(f) + 1
           /\ Front(Append(f, w)) = f /\ Last(Append(f, w)) = w
<1>1. PICK a : a = Append(f, w)
  OBVIOUS
<1>2. PICK n \in Nat : n = Len(f)
  BY LenProperties
<1>3. /\ a \in Seq(Text) /\ a # << >> /\ Len(a) = n + 1
      /\ \A i \in 1 .. n : a[i] = f[i]
      /\ a[n + 1] = w
  BY <1>1, <1>2, AppendProperties
<1>4. a \in Tokens
  BY <1>3 DEF Tokens
<1>5. /\ Front(a) \in Seq(Text) /\ Len(Front(a)) = Len(a) - 1
      /\ \A i \in 1 .. Len(a) - 1 : Front(a)[i] = a[i]
  BY <1>4, TokensAre
<1>6. Len(a) - 1 = n
  BY <1>3
<1>7. Len(Front(a)) = Len(f) /\ \A i \in 1 .. Len(f) : Front(a)[i] = f[i]
  BY <1>2, <1>3, <1>5, <1>6
<1>8. Front(a) = f
  BY <1>5, <1>7, SeqEqual
<1>9. QED BY <1>1, <1>2, <1>3, <1>4, <1>8 DEF Last

LEMMA PutBack ==
    ASSUME NEW x \in Tokens
    PROVE  x = Append(Front(x), Last(x))
<1>1. x \in Seq(Text) /\ x # << >>
  BY DEF Tokens
<1>2. PICK f \in Seq(Text), w \in Text : x = Append(f, w)
  BY <1>1, SequenceEmptyOrAppend
<1>3. Front(x) = f /\ Last(x) = w
  BY <1>2, PutIs
<1>4. QED BY <1>2, <1>3

Without(t, D) == \A i \in 1 .. Len(t) : t[i] \notin D
Only(t, D) == \A i \in 1 .. Len(t) : t[i] \in D

\* Symbols that do not separate go to the last token.
LEMMA WordRuns ==
    ASSUME NEW D, NEW f \in Seq(Text), NEW w \in Text, NEW t \in Text, Without(t, D)
    PROVE  Runs(D, Append(f, w), t, Append(f, w \o t))
<1>1. PICK n \in Nat : n = Len(t)
  BY TextDomain
<1> DEFINE h == [i \in 0 .. n |-> Append(f, w \o SubSeq(t, 1, i))]
<1>2. t \in Seq(Symbol) /\ w \in Seq(Symbol)
  BY DEF Text
<1>3. \A i \in 0 .. n : SubSeq(t, 1, i) \in Text
  <2> TAKE i \in 0 .. n
  <2>1. \A j \in 1 .. i : j \in 1 .. n
    OBVIOUS
  <2>2. \A j \in 1 .. i : t[j] \in Symbol
    BY <1>1, <2>1, TextSymbols
  <2>3. SubSeq(t, 1, i) \in Seq(Symbol)
    BY <2>2, SubSeqProperties
  <2>4. QED BY <2>3 DEF Text
<1>4. h[0] = Append(f, w) /\ h[n] = Append(f, w \o t)
  <2>1. SubSeq(t, 1, 0) = << >> /\ SubSeq(t, 1, n) = t
    BY <1>1, <1>2, SubSeqEmpty, SubSeqFull
  <2>2. w \o << >> = w
    BY <1>2, ConcatEmptySeq
  <2>3. 0 \in 0 .. n /\ n \in 0 .. n
    OBVIOUS
  <2>4. QED BY <2>1, <2>2, <2>3
<1>5. ASSUME NEW i \in 1 .. n PROVE h[i] = SplitStep(D, h[i - 1], t[i])
  <2>1. PICK j \in 0 .. n : j = i - 1
    OBVIOUS
  <2>2. i \in 0 .. n /\ 1 \in 1 .. n /\ i \in 1 .. n
    OBVIOUS
  <2>3. PICK u \in Text : u = SubSeq(t, 1, j)
    BY <1>3
  <2>4. PICK s \in Symbol : s = t[i]
    BY <1>1, TextSymbols
  <2>5. s \notin D
    BY <1>1, <2>4 DEF Without
  <2>6. w \o u \in Text
    BY <2>3, JoinIs DEF IsJoin
  <2>7. Append(w \o u, s) = w \o SubSeq(t, 1, i)
    <3>1. SubSeq(t, 1, i) = u \o <<s>>
      BY <1>1, <1>2, <2>1, <2>2, <2>3, <2>4, SubSeqRecursiveSecond
    <3>2. w \o u \in Seq(Symbol) /\ u \in Seq(Symbol) /\ <<s>> \in Seq(Symbol)
      BY <2>3, <2>6, Single DEF Text
    <3>3. Append(w \o u, s) = (w \o u) \o <<s>>
      BY <3>2, AppendIsConcat
    <3>4. (w \o u) \o <<s>> = w \o (u \o <<s>>)
      BY <1>2, <3>2, ConcatAssociative
    <3>5. QED BY <3>1, <3>3, <3>4
  <2>8. h[j] = Append(f, w \o u) /\ h[i] = Append(f, w \o SubSeq(t, 1, i))
    BY <2>2, <2>3
  <2>9. Front(h[j]) = f /\ Last(h[j]) = w \o u
    BY <2>6, <2>8, PutIs
  <2> HIDE DEF h
  <2>10. SplitStep(D, h[j], s) = h[i]
    BY <2>5, <2>7, <2>8, <2>9 DEF SplitStep
  <2>11. QED BY <2>1, <2>4, <2>10
<1>6. h[0] \in Tokens
  BY <1>4, PutIs
<1> HIDE DEF h
<1>7. Runs(D, h[0], t, h[Len(t)])
  BY <1>1, <1>5, <1>6, RunsOn
<1>8. QED BY <1>1, <1>4, <1>7

\* A run of delimiters begins one token, however long it is.
LEMMA BlankRuns ==
    ASSUME NEW D, NEW x \in Tokens, NEW t \in Text, t # << >>, Only(t, D)
    PROVE  Runs(D, x, t, IF Len(x) > 1 /\ Last(x) = << >> THEN x ELSE Append(x, << >>))
<1>1. PICK n \in Nat : n = Len(t)
  BY TextDomain
<1>2. n # 0
  BY <1>1, EmptySeq DEF Text
<1>3. PICK y : y = IF Len(x) > 1 /\ Last(x) = << >> THEN x ELSE Append(x, << >>)
  OBVIOUS
<1>4. Len(y) > 1 /\ Last(y) = << >>
  <2>1. CASE Len(x) > 1 /\ Last(x) = << >>
    BY <1>3, <2>1
  <2>2. CASE ~(Len(x) > 1 /\ Last(x) = << >>)
    <3>1. x \in Seq(Text) /\ << >> \in Text /\ Len(x) \in Nat \ {0}
      BY TokensAre, LacksNothing
    <3>2. Len(Append(x, << >>)) = Len(x) + 1 /\ Last(Append(x, << >>)) = << >>
      BY <3>1, PutIs
    <3>3. y = Append(x, << >>)
      BY <1>3, <2>2
    <3>4. QED BY <3>1, <3>2, <3>3
  <2>3. QED BY <2>1, <2>2
<1> DEFINE h == [i \in 0 .. n |-> IF i = 0 THEN x ELSE y]
<1>5. h[0] = x /\ \A i \in 1 .. n : h[i] = y
  OBVIOUS
<1>6. h[n] = y
  BY <1>2, <1>5
<1> HIDE DEF h
<1>7. ASSUME NEW i \in 1 .. n PROVE h[i] = SplitStep(D, h[i - 1], t[i])
  <2>1. t[i] \in D
    BY <1>1 DEF Only
  <2>2. CASE i = 1
    <3>1. h[i - 1] = x
      BY <1>5, <2>2
    <3>2. SplitStep(D, x, t[i]) = y
      BY <1>3, <2>1 DEF SplitStep
    <3>3. QED BY <1>5, <3>1, <3>2
  <2>3. CASE i # 1
    <3>1. i - 1 \in 1 .. n
      BY <2>3
    <3>2. h[i - 1] = y
      BY <1>5, <3>1
    <3>3. SplitStep(D, y, t[i]) = y
      BY <1>4, <2>1 DEF SplitStep
    <3>4. QED BY <1>5, <3>2, <3>3
  <2>4. QED BY <2>2, <2>3
<1>8. Runs(D, h[0], t, h[Len(t)])
  BY <1>1, <1>5, <1>7, RunsOn
<1>9. QED BY <1>1, <1>3, <1>5, <1>6, <1>8

LEMMA StepKeeps ==
    ASSUME NEW D, NEW x \in Tokens, NEW s \in Symbol
    PROVE  /\ Len(SplitStep(D, x, s)) >= Len(x)
           /\ \A i \in 1 .. Len(x) - 1 : SplitStep(D, x, s)[i] = x[i]
<1>1. /\ Len(x) \in Nat \ {0} /\ x \in Seq(Text) /\ Last(x) \in Text
      /\ Last(x) \in Seq(Symbol)
  BY TokensAre DEF Text
<1>2. PICK w \in Text : w = Append(Last(x), s)
  BY <1>1, AppendProperties DEF Text
<1>3. /\ Len(Append(Front(x), w)) = Len(x)
      /\ \A i \in 1 .. Len(x) - 1 : Append(Front(x), w)[i] = x[i]
  BY TokensAre
<1>4. /\ Len(Append(x, << >>)) = Len(x) + 1
      /\ \A i \in 1 .. Len(x) : Append(x, << >>)[i] = x[i]
  <2>1. << >> \in Text
    BY LacksNothing
  <2>2. QED BY <1>1, <2>1, AppendProperties
<1>5. PICK n \in Nat : n = Len(x)
  BY <1>1
<1>6. n + 1 >= n /\ n >= n /\ \A i \in 1 .. n - 1 : i \in 1 .. n
  OBVIOUS
<1>7. QED BY <1>2, <1>3, <1>4, <1>5, <1>6 DEF SplitStep

\* A token with another one behind it stays as it is.
LEMMA FrozenRuns ==
    ASSUME NEW D, NEW x, NEW t \in Text, NEW y, Runs(D, x, t, y)
    PROVE  /\ Len(y) >= Len(x)
           /\ \A i \in 1 .. Len(x) - 1 : y[i] = x[i]
<1>1. PICK h : RunsBy(D, x, t, y, h)
  BY DEF Runs
<1>2. PICK n \in Nat : n = Len(t)
  BY TextDomain
<1>3. /\ h \in [0 .. n -> Tokens] /\ h[0] = x /\ h[n] = y
      /\ \A i \in 1 .. n : h[i] = SplitStep(D, h[i - 1], t[i])
  BY <1>1, <1>2 DEF RunsBy
<1>4. x \in Tokens
  <2>1. 0 \in 0 .. n
    OBVIOUS
  <2>2. QED BY <1>3, <2>1
<1>5. PICK m \in Nat : m = Len(x)
  BY <1>4, TokensAre
<1> DEFINE S == {i \in Nat : i <= n => /\ Len(h[i]) >= m
                                       /\ \A j \in 1 .. m - 1 : h[i][j] = x[j]}
<1>6. 0 \in S
  BY <1>3, <1>5
<1>7. \A i \in S : i + 1 \in S
  <2> SUFFICES ASSUME NEW i \in S, i + 1 <= n
               PROVE  /\ Len(h[i + 1]) >= m
                      /\ \A j \in 1 .. m - 1 : h[i + 1][j] = x[j]
    OBVIOUS
  <2>1. /\ i \in Nat /\ i <= n /\ i + 1 \in 1 .. n /\ (i + 1) - 1 = i
        /\ i \in 0 .. n
    BY <1>2
  <2>2. PICK z \in Tokens : z = h[i]
    BY <1>3, <2>1
  <2>3. Len(z) >= m /\ \A j \in 1 .. m - 1 : z[j] = x[j]
    BY <2>1, <2>2
  <2>4. t[i + 1] \in Symbol
    BY <1>2, <2>1, TextSymbols
  <2>5. PICK u : u = SplitStep(D, z, t[i + 1])
    OBVIOUS
  <2>6. h[i + 1] = u
    BY <1>3, <2>1, <2>2, <2>5
  <2>7. Len(u) >= Len(z) /\ \A j \in 1 .. Len(z) - 1 : u[j] = z[j]
    BY <2>4, <2>5, StepKeeps
  <2>8. u \in Tokens
    BY <2>4, <2>5, StepType
  <2>9. PICK a \in Nat : a = Len(z)
    BY TokensAre
  <2>10. PICK b \in Nat : b = Len(u)
    BY <2>8, TokensAre
  <2>11. b >= m /\ \A j \in 1 .. m - 1 : j \in 1 .. a - 1
    BY <2>3, <2>7, <2>9, <2>10
  <2>12. QED BY <2>3, <2>6, <2>7, <2>9, <2>10, <2>11
<1>8. S = Nat
  <2>1. S \in SUBSET Nat
    OBVIOUS
  <2> HIDE DEF S
  <2>2. QED BY <1>6, <1>7, <2>1, NumberInduction
<1>9. n \in S
  BY <1>8
<1>10. n <= n
  OBVIOUS
<1>11. QED BY <1>3, <1>5, <1>9, <1>10

LEMMA FreeJoin ==
    ASSUME NEW s \in Text, NEW t \in Text, NEW D, Without(s, D), Without(t, D)
    PROVE  s \o t \in Text /\ Without(s \o t, D)
<1>1. PICK w : w = s \o t
  OBVIOUS
<1>2. IsJoin(w, s, t)
  BY <1>1, JoinIs
<1>3. PICK a, b \in Nat : a = Len(s) /\ b = Len(t) /\ Len(w) = a + b
  BY <1>2 DEF IsJoin
<1>4. ASSUME NEW i \in 1 .. Len(w) PROVE w[i] \notin D
  <2>1. CASE i <= a
    <3>1. i \in 1 .. a
      BY <1>3, <2>1
    <3>2. QED BY <1>2, <1>3, <3>1 DEF IsJoin, Without
  <2>2. CASE ~(i <= a)
    <3>1. PICK j \in 1 .. b : i = a + j
      <4>1. i - a \in 1 .. b /\ i = a + (i - a)
        BY <1>3, <2>2
      <4>2. QED BY <4>1
    <3>2. QED BY <1>2, <1>3, <3>1 DEF IsJoin, Without
  <2>3. QED BY <2>1, <2>2
<1>5. QED BY <1>1, <1>2, <1>4 DEF IsJoin, Without

LEMMA RunsApart ==
    ASSUME NEW D, NEW x, NEW s \in Text, NEW t \in Text, NEW z, Runs(D, x, s \o t, z)
    PROVE  \E y : Runs(D, x, s, y) /\ Runs(D, y, t, z)
<1>1. PICK h : RunsBy(D, x, s \o t, z, h)
  BY DEF Runs
<1>2. PICK w : w = s \o t
  OBVIOUS
<1>3. IsJoin(w, s, t)
  BY <1>2, JoinIs
<1>4. PICK a, b, c \in Nat : a = Len(s) /\ b = Len(t) /\ c = Len(w) /\ c = a + b
  BY <1>3 DEF IsJoin
<1>5. /\ h \in [0 .. c -> Tokens] /\ h[0] = x /\ h[c] = z
      /\ \A i \in 1 .. c : h[i] = SplitStep(D, h[i - 1], w[i])
  BY <1>1, <1>2, <1>4 DEF RunsBy
<1>6. /\ \A i \in 1 .. a : w[i] = s[i]
      /\ \A j \in 1 .. b : w[a + j] = t[j]
  BY <1>3, <1>4 DEF IsJoin
<1> DEFINE f == [i \in 0 .. a |-> h[i]]
           g == [j \in 0 .. b |-> h[a + j]]
<1>7. Runs(D, x, s, h[a])
  <2>1. \A i \in 0 .. a : i \in 0 .. c
    BY <1>4
  <2>2. f \in [0 .. a -> Tokens] /\ f[0] = x /\ f[a] = h[a]
    BY <1>5, <2>1
  <2>3. ASSUME NEW i \in 1 .. a PROVE f[i] = SplitStep(D, f[i - 1], s[i])
    <3>1. i \in 1 .. c /\ i \in 0 .. a /\ i - 1 \in 0 .. a
      BY <1>4
    <3>2. f[i] = h[i] /\ f[i - 1] = h[i - 1]
      BY <3>1
    <3>3. h[i] = SplitStep(D, h[i - 1], w[i])
      BY <1>5, <3>1
    <3>4. w[i] = s[i]
      BY <1>6
    <3>5. QED BY <3>2, <3>3, <3>4, Zenon
  <2> HIDE DEF f
  <2>4. RunsBy(D, x, s, h[a], f)
    BY <1>4, <2>2, <2>3 DEF RunsBy
  <2>5. QED BY <2>4 DEF Runs
<1>8. Runs(D, h[a], t, z)
  <2>1. /\ \A j \in 0 .. b : a + j \in 0 .. c
        /\ a + 0 = a /\ a + b = c /\ 0 \in 0 .. b /\ b \in 0 .. b
    BY <1>4
  <2>2. g \in [0 .. b -> Tokens] /\ g[0] = h[a] /\ g[b] = z
    BY <1>5, <2>1
  <2>3. ASSUME NEW j \in 1 .. b PROVE g[j] = SplitStep(D, g[j - 1], t[j])
    <3>1. /\ a + j \in 1 .. c /\ j \in 0 .. b /\ j - 1 \in 0 .. b
          /\ (a + j) - 1 = a + (j - 1)
      BY <1>4
    <3>2. g[j] = h[a + j] /\ g[j - 1] = h[a + (j - 1)]
      BY <3>1
    <3>3. h[a + j] = SplitStep(D, h[(a + j) - 1], w[a + j])
      BY <1>5, <3>1
    <3>4. w[a + j] = t[j]
      BY <1>6
    <3>5. QED BY <3>1, <3>2, <3>3, <3>4, Zenon
  <2> HIDE DEF g
  <2>4. RunsBy(D, h[a], t, z, g)
    BY <1>4, <2>2, <2>3 DEF RunsBy
  <2>5. QED BY <2>4 DEF Runs
<1>9. QED BY <1>7, <1>8

\* From the beginning to the end of a word.
LEMMA FirstWord ==
    ASSUME NEW D, NEW t \in Text, Without(t, D)
    PROVE  Runs(D, << << >> >>, t, <<t>>)
<1>1. << >> \in Seq(Text) /\ << >> \in Text /\ << >> \in Seq(Symbol) /\ t \in Seq(Symbol)
  BY LacksNothing, EmptySeq DEF Text
<1>2. Append(<< >>, << >>) = << << >> >> /\ Append(<< >>, t) = <<t>>
  OBVIOUS
<1>3. << >> \o t = t
  BY <1>1, ConcatEmptySeq
<1>4. Runs(D, Append(<< >>, << >>), t, Append(<< >>, << >> \o t))
  BY <1>1, WordRuns
<1>5. QED BY <1>2, <1>3, <1>4

\* And on to the end of the next one.
LEMMA NextWord ==
    ASSUME NEW D, NEW f \in Seq(Text), NEW t \in Text, Without(t, D)
    PROVE  Runs(D, Append(f, << >>), t, Append(f, t))
<1>1. << >> \in Text /\ t \in Seq(Symbol)
  BY LacksNothing DEF Text
<1>2. << >> \o t = t
  BY <1>1, ConcatEmptySeq
<1>3. QED BY <1>1, <1>2, WordRuns
==============================================================================
