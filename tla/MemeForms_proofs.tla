--------------------------- MODULE MemeForms_proofs ---------------------------
(***************************************************************************)
(* Theorems about MemeForms for every set of texts, search terms and ids.  *)
(* A text is followed from what is typed to the body, from there to the    *)
(* table, and from the table to pages, edit forms and searches.            *)
(***************************************************************************)
EXTENDS MemeForms, TextLemmas, FiniteSetTheorems

------------------------------------------------------------------------------
(***************************************************************************)
(* Scans: what replaces, decodes and shows texts goes through them from left*)
(* to right, puts something out and goes on a place or more further.       *)
(***************************************************************************)
\* Going through a text of n symbols: at each place something is put out, and it
\* goes on some places further.
Scanner(n, m, out, step) ==
    /\ n \in Nat /\ m \in Nat /\ n < m
    /\ out \in [1 .. n -> Text] /\ step \in [1 .. n -> Nat \ {0}]
    /\ \A i \in 1 .. n : i + step[i] <= m
Scans(f, n, m, out, step) ==
    f = [i \in 1 .. m |-> IF i > n THEN << >> ELSE out[i] \o f[i + step[i]]]

LEMMA ScanExists ==
    ASSUME NEW n, NEW m, NEW out, NEW step, Scanner(n, m, out, step)
    PROVE  \E f \in [1 .. m -> Text] : Scans(f, n, m, out, step)
<1>1. /\ n \in Nat /\ m \in Nat /\ n < m
      /\ out \in [1 .. n -> Text] /\ step \in [1 .. n -> Nat \ {0}]
      /\ \A i \in 1 .. n : i + step[i] <= m
  BY DEF Scanner
<1> DEFINE F == [1 .. m -> Text]
           At(f, i) == IF i > n THEN << >> ELSE out[i] \o f[i + step[i]]
           G == [f \in F |-> [i \in 1 .. m |-> At(f, i)]]
<1>2. \A i \in 1 .. m : ~(i > n) => i \in 1 .. n
  BY <1>1
<1>3. \A i \in 1 .. n : i + step[i] \in i + 1 .. m /\ i + step[i] \in 1 .. m
  <2> TAKE i \in 1 .. n
  <2>1. step[i] \in Nat \ {0} /\ i + step[i] <= m
    BY <1>1
  <2>2. QED BY <1>1, <2>1
<1>4. \A f \in F : \A i \in 1 .. m : At(f, i) \in Text
  <2> TAKE f \in F
  <2> TAKE i \in 1 .. m
  <2>1. CASE i > n
    BY <2>1, LacksNothing
  <2>2. CASE ~(i > n)
    <3>1. i \in 1 .. n
      BY <1>2, <2>2
    <3>2. out[i] \in Text /\ f[i + step[i]] \in Text
      BY <1>1, <1>3, <3>1
    <3>3. QED BY <2>2, <3>2, JoinIs DEF IsJoin
  <2>3. QED BY <2>1, <2>2
<1>5. \A f, g \in F : \A k \in 1 .. m :
         (\A j \in k + 1 .. m : f[j] = g[j]) => At(f, k) = At(g, k)
  <2> TAKE f, g \in F
  <2> TAKE k \in 1 .. m
  <2> HAVE \A j \in k + 1 .. m : f[j] = g[j]
  <2>1. CASE k > n
    BY <2>1
  <2>2. CASE ~(k > n)
    <3>1. k + step[k] \in k + 1 .. m
      BY <1>2, <1>3, <2>2
    <3>2. f[k + step[k]] = g[k + step[k]]
      BY <3>1
    <3>3. QED BY <2>2, <3>2
  <2>3. QED BY <2>1, <2>2
<1> HIDE DEF At
<1>6. \A f \in F : G[f] \in F /\ \A k \in 1 .. m : G[f][k] = At(f, k)
  BY <1>4
<1>7. G \in [F -> F]
  BY <1>6
<1>8. Text # {}
  BY LacksNothing
<1> HIDE DEF G
<1>9. LooksAhead(m, Text, G)
  BY <1>5, <1>6, <1>7, <1>8 DEF LooksAhead
<1>10. PICK f \in F : f = G[f]
  BY <1>1, <1>9, BackwardRecursion
<1>11. f = [i \in 1 .. m |-> At(f, i)]
  BY <1>10 DEF G
<1>12. QED BY <1>11 DEF At, Scans

\* The end of a text is gone through as if nothing had been before it.
LEMMA ScanSame ==
    ASSUME NEW n, NEW m, NEW out, NEW step, Scanner(n, m, out, step),
           NEW n2, NEW m2, NEW out2, NEW step2, Scanner(n2, m2, out2, step2),
           NEW f, Scans(f, n, m, out, step), NEW g, Scans(g, n2, m2, out2, step2),
           NEW k \in Nat, n = k + n2,
           \A i \in 1 .. n2 : out[k + i] = out2[i] /\ step[k + i] = step2[i]
    PROVE  f[k + 1] = g[1]
<1>1. /\ n \in Nat /\ m \in Nat /\ n < m /\ n2 \in Nat /\ m2 \in Nat /\ n2 < m2
      /\ step2 \in [1 .. n2 -> Nat \ {0}]
      /\ \A i \in 1 .. n : i + step[i] <= m
      /\ \A i \in 1 .. n2 : i + step2[i] <= m2
  BY DEF Scanner
<1>2. /\ \A i \in 1 .. m : f[i] = IF i > n THEN << >> ELSE out[i] \o f[i + step[i]]
      /\ \A i \in 1 .. m2 : g[i] = IF i > n2 THEN << >> ELSE out2[i] \o g[i + step2[i]]
  <2> DEFINE A(i) == IF i > n THEN << >> ELSE out[i] \o f[i + step[i]]
             B(i) == IF i > n2 THEN << >> ELSE out2[i] \o g[i + step2[i]]
  <2>1. f = [i \in 1 .. m |-> A(i)] /\ g = [i \in 1 .. m2 |-> B(i)]
    BY DEF Scans
  <2> HIDE DEF A, B
  <2>2. (\A i \in 1 .. m : f[i] = A(i)) /\ (\A i \in 1 .. m2 : g[i] = B(i))
    BY <2>1
  <2>3. QED BY <2>2 DEF A, B
<1> DEFINE T == {i \in 1 .. m2 : k + i <= m => f[k + i] = g[i]}
<1>3. ASSUME NEW i \in 1 .. m2, i + 1 .. m2 \subseteq T
      PROVE  i \in T
  <2> SUFFICES ASSUME k + i <= m PROVE f[k + i] = g[i]
    OBVIOUS
  <2>1. k + i \in 1 .. m
    BY <1>1
  <2>2. CASE i > n2
    <3>1. k + i > n
      BY <1>1, <2>2
    <3>2. QED BY <1>2, <2>1, <2>2, <3>1
  <2>3. CASE ~(i > n2)
    <3>1. i \in 1 .. n2 /\ ~(k + i > n) /\ k + i \in 1 .. n
      BY <1>1, <2>3
    <3>2. PICK s \in Nat \ {0} : s = step2[i]
      BY <1>1, <3>1
    <3>3. step[k + i] = s /\ out[k + i] = out2[i]
      BY <3>1, <3>2
    <3>4. i + s <= m2 /\ (k + i) + s <= m
      BY <1>1, <3>1, <3>2, <3>3
    <3>0. i \in Nat /\ m \in Nat /\ m2 \in Nat /\ s \in Nat \ {0}
      BY <1>1, <3>2
    <3>5. i + s \in i + 1 .. m2 /\ k + (i + s) <= m /\ (k + i) + s = k + (i + s)
      BY <3>0, <3>4
    <3>6. f[k + (i + s)] = g[i + s]
      BY <1>3, <3>5
    <3>7. f[k + i] = out[k + i] \o f[(k + i) + s]
      BY <1>2, <2>1, <3>1, <3>3
    <3>8. g[i] = out2[i] \o g[i + s]
      BY <1>2, <2>3, <3>2
    <3>9. QED BY <3>3, <3>5, <3>6, <3>7, <3>8
  <2>4. QED BY <2>2, <2>3
<1>4. T = 1 .. m2
  <2>1. T \in SUBSET (1 .. m2)
    OBVIOUS
  <2> HIDE DEF T
  <2>2. QED BY <1>1, <1>3, <2>1, BackwardInduction
<1>5. 1 \in T /\ k + 1 <= m
  BY <1>1, <1>4
<1>6. QED BY <1>5

LEMMA ScanOnce ==
    ASSUME NEW n, NEW m, NEW out, NEW step, Scanner(n, m, out, step),
           NEW f, Scans(f, n, m, out, step), NEW g, Scans(g, n, m, out, step)
    PROVE  f[1] = g[1]
<1>1. PICK k \in Nat : k = 0
  OBVIOUS
<1>2. n \in Nat
  BY DEF Scanner
<1>3. n = k + n /\ k + 1 = 1
  BY <1>1, <1>2
<1>4. \A i \in 1 .. n : out[k + i] = out[i] /\ step[k + i] = step[i]
  BY <1>1, <1>2
<1>5. f[k + 1] = g[1]
  BY <1>3, <1>4, ScanSame
<1>6. QED BY <1>3, <1>5

Passes(f, n, m, out, step) == Scanner(n, m, out, step) /\ Scans(f, n, m, out, step)
Continues(n, out, step, n2, out2, step2) ==
    /\ n = step[1] + n2 /\ step[1] \in Nat \ {0}
    /\ \A i \in 1 .. n2 : /\ out[step[1] + i] = out2[i]
                          /\ step[step[1] + i] = step2[i]

\* So what comes of a text is what its first piece comes to and then the rest.
Yields(f, out, g) == f[1] = out[1] \o g[1]
Follows(f, n, m, out, step, g, n2, m2, out2, step2) ==
    /\ Passes(f, n, m, out, step) /\ Passes(g, n2, m2, out2, step2)
    /\ Continues(n, out, step, n2, out2, step2)

LEMMA ScanNext ==
    ASSUME NEW f, NEW n, NEW m, NEW out, NEW step, NEW g, NEW n2, NEW m2, NEW out2,
           NEW step2, Follows(f, n, m, out, step, g, n2, m2, out2, step2)
    PROVE  Yields(f, out, g)
<1> USE DEF Follows, Yields
<1>0. PICK k \in Nat \ {0} : k = step[1]
  BY DEF Continues
<1>1. f[k + 1] = g[1]
  <2>1. n = k + n2 /\ \A i \in 1 .. n2 : out[k + i] = out2[i] /\ step[k + i] = step2[i]
    BY <1>0 DEF Continues
  <2>2. QED BY <2>1, ScanSame DEF Passes
<1>2. 1 \in 1 .. m /\ ~(1 > n) /\ 1 + step[1] = k + 1
  <2>1. m \in Nat /\ n \in Nat /\ n < m /\ n2 \in Nat /\ n = k + n2
    BY <1>0 DEF Passes, Scanner, Continues
  <2>2. QED BY <1>0, <2>1
<1>3. f[1] = out[1] \o f[1 + step[1]]
  <2> DEFINE A(i) == IF i > n THEN << >> ELSE out[i] \o f[i + step[i]]
  <2>1. f = [i \in 1 .. m |-> A(i)]
    BY DEF Passes, Scans
  <2> HIDE DEF A
  <2>2. f[1] = A(1)
    BY <1>2, <2>1
  <2>3. QED BY <1>2, <2>2 DEF A
<1>4. QED BY <1>1, <1>2, <1>3

LEMMA ScanEnd ==
    ASSUME NEW f, NEW m, NEW out, NEW step, Passes(f, 0, m, out, step)
    PROVE  f[1] = << >>
<1>1. 1 \in 1 .. m /\ 1 > 0
  BY DEF Passes, Scanner
<1>2. QED BY <1>1 DEF Passes, Scans

------------------------------------------------------------------------------
(***************************************************************************)
(* ReplacedAll is a scan.                                                  *)
(***************************************************************************)
LEMMA IsAtIs ==
    ASSUME NEW t \in Text, NEW i \in 1 .. Len(t), NEW p \in Text
    PROVE  IsAt(t, i, p) <=> /\ i + Len(p) <= Len(t) + 1
                             /\ \A j \in 1 .. Len(p) : t[i + j - 1] = p[j]
<1>1. PICK n \in Nat : n = Len(t)
  BY TextDomain
<1>2. PICK l \in Nat : l = Len(p)
  BY TextDomain
<1>3. i \in Nat \ {0} /\ i \in 1 .. n
  BY <1>1
<1>4. CASE i + l <= n + 1
  <2>1. \A j \in i .. i + l - 1 : t[j] \in Symbol
    <3> TAKE j \in i .. i + l - 1
    <3>1. j \in 1 .. n
      BY <1>3, <1>4
    <3>2. QED BY <1>1, <3>1, TextSymbols
  <2>2. /\ i \in Int /\ i + l - 1 \in Int
        /\ (IF i <= i + l - 1 THEN (i + l - 1) - i + 1 ELSE 0) = l
        /\ (i + l - 1) - i + 1 = l
    BY <1>3
  <2>3. PICK s : s = SubSeq(t, i, i + l - 1)
    OBVIOUS
  <2>4. /\ s \in Text /\ Len(s) = l /\ \A j \in 1 .. l : s[j] = t[i + j - 1]
    <3>1. /\ SubSeq(t, i, i + l - 1) \in Seq(Symbol)
          /\ Len(SubSeq(t, i, i + l - 1)) =
               IF i <= i + l - 1 THEN (i + l - 1) - i + 1 ELSE 0
          /\ \A j \in 1 .. (i + l - 1) - i + 1 :
                SubSeq(t, i, i + l - 1)[j] = t[i + j - 1]
      BY <2>1, <2>2, SubSeqProperties
    <3>2. QED BY <2>2, <2>3, <3>1 DEF Text
  <2>5. s = p <=> \A j \in 1 .. l : s[j] = p[j]
    <3>1. ASSUME \A j \in 1 .. l : s[j] = p[j] PROVE s = p
      BY <1>2, <2>4, <3>1, SeqEqual DEF Text
    <3>2. QED BY <3>1
  <2>6. QED BY <1>1, <1>2, <1>4, <2>3, <2>4, <2>5 DEF IsAt
<1>5. CASE ~(i + l <= n + 1)
  BY <1>1, <1>2, <1>5 DEF IsAt
<1>6. QED BY <1>4, <1>5

\* What stands at a place does not depend on what is before it.
LEMMA IsAtShift ==
    ASSUME NEW v \in Text, NEW t \in Text, NEW i \in 1 .. Len(t), NEW p \in Text
    PROVE  IsAt(v \o t, Len(v) + i, p) <=> IsAt(t, i, p)
<1>1. PICK n \in Nat : n = Len(t)
  BY TextDomain
<1>2. PICK l \in Nat : l = Len(p)
  BY TextDomain
<1>3. PICK k \in Nat : k = Len(v)
  BY TextDomain
<1>4. PICK w : w = v \o t
  OBVIOUS
<1>5. w \in Text /\ Len(w) = k + n /\ \A j \in 1 .. n : w[k + j] = t[j]
  BY <1>1, <1>3, <1>4, JoinIs DEF IsJoin
<1>6. i \in 1 .. n /\ k + i \in 1 .. Len(w)
  BY <1>1, <1>5
<1>7. IsAt(w, k + i, p) <=> /\ (k + i) + l <= (k + n) + 1
                            /\ \A j \in 1 .. l : w[(k + i) + j - 1] = p[j]
  BY <1>2, <1>5, <1>6, IsAtIs
<1>8. IsAt(t, i, p) <=> /\ i + l <= n + 1
                        /\ \A j \in 1 .. l : t[i + j - 1] = p[j]
  BY <1>1, <1>2, IsAtIs
<1>9. (k + i) + l <= (k + n) + 1 <=> i + l <= n + 1
  BY <1>6
<1>10. ASSUME i + l <= n + 1, NEW j \in 1 .. l
       PROVE  w[(k + i) + j - 1] = t[i + j - 1]
  <2>1. i + j - 1 \in 1 .. n /\ (k + i) + j - 1 = k + (i + j - 1)
    BY <1>6, <1>10
  <2>2. QED BY <1>5, <2>1
<1>11. QED BY <1>3, <1>4, <1>7, <1>8, <1>9, <1>10

LEMMA JoinedAt ==
    ASSUME NEW p \in Text, p # << >>, NEW t \in Text
    PROVE  IsAt(p \o t, 1, p)
<1>1. PICK k \in Nat : k = Len(p)
  BY TextDomain
<1>2. PICK n \in Nat : n = Len(t)
  BY TextDomain
<1>3. k # 0
  BY <1>1, EmptySeq DEF Text
<1>4. PICK w : w = p \o t
  OBVIOUS
<1>5. w \in Text /\ Len(w) = k + n /\ \A j \in 1 .. k : w[j] = p[j]
  BY <1>1, <1>2, <1>4, JoinIs DEF IsJoin
<1>6. 1 \in 1 .. Len(w) /\ 1 + k <= (k + n) + 1 /\ \A j \in 1 .. k : 1 + j - 1 = j
  BY <1>3, <1>5
<1>7. IsAt(w, 1, p)
  BY <1>1, <1>5, <1>6, IsAtIs
<1>8. QED BY <1>4, <1>7

------------------------------------------------------------------------------
ReplacedOut(t, p, by) == [i \in 1 .. Len(t) |-> IF IsAt(t, i, p) THEN by ELSE <<t[i]>>]
ReplacedStep(t, p) == [i \in 1 .. Len(t) |-> IF IsAt(t, i, p) THEN Len(p) ELSE 1]
Replaces(f, t, p, by) ==
    f = [i \in 1 .. Len(t) + 1 |->
           IF i > Len(t) THEN << >>
           ELSE IF IsAt(t, i, p) THEN by \o f[i + Len(p)]
           ELSE <<t[i]>> \o f[i + 1]]

LEMMA ReplacedDef ==
    ASSUME NEW t, NEW p, NEW by
    PROVE  ReplacedAll(t, p, by) = (CHOOSE f : Replaces(f, t, p, by))[1]
BY DEF ReplacedAll, Replaces

ReplacedBy(f, t, p, by) ==
    /\ Passes(f, Len(t), Len(t) + 1, ReplacedOut(t, p, by), ReplacedStep(t, p))
    /\ ReplacedAll(t, p, by) = f[1] /\ f[1] \in Text

LEMMA ReplacedScans ==
    ASSUME NEW t \in Text, NEW p \in Text, p # << >>, NEW by \in Text
    PROVE  \E f : ReplacedBy(f, t, p, by)
<1>1. PICK n \in Nat : n = Len(t)
  BY TextDomain
<1>2. PICK l \in Nat : l = Len(p)
  BY TextDomain
<1>3. l # 0
  BY <1>2, EmptySeq DEF Text
<1> DEFINE out == ReplacedOut(t, p, by)
           step == ReplacedStep(t, p)
<1>4. /\ out = [i \in 1 .. n |-> IF IsAt(t, i, p) THEN by ELSE <<t[i]>>]
      /\ step = [i \in 1 .. n |-> IF IsAt(t, i, p) THEN l ELSE 1]
  BY <1>1, <1>2 DEF ReplacedOut, ReplacedStep
<1>5. \A i \in 1 .. n : <<t[i]>> \in Text
  BY <1>1, TextSymbols, OneSymbol
<1>6. out \in [1 .. n -> Text]
  <2> HIDE DEF out
  <2>1. QED BY <1>4, <1>5
<1>7. step \in [1 .. n -> Nat \ {0}]
  <2> HIDE DEF step
  <2>1. QED BY <1>3, <1>4
<1>8. \A i \in 1 .. n : i + step[i] <= n + 1
  <2> TAKE i \in 1 .. n
  <2> HIDE DEF step
  <2>1. CASE IsAt(t, i, p)
    <3>1. i + l <= n + 1
      BY <1>1, <1>2, <2>1 DEF IsAt
    <3>2. QED BY <1>4, <2>1, <3>1
  <2>2. CASE ~IsAt(t, i, p)
    BY <1>4, <2>2
  <2>3. QED BY <2>1, <2>2
<1> HIDE DEF out, step
<1>9. Scanner(n, n + 1, out, step)
  BY <1>6, <1>7, <1>8 DEF Scanner
<1>10. ASSUME NEW f
       PROVE  Scans(f, n, n + 1, out, step) <=> Replaces(f, t, p, by)
  <2> DEFINE A(i) == IF i > n THEN << >> ELSE out[i] \o f[i + step[i]]
             B(i) == IF i > n THEN << >>
                     ELSE IF IsAt(t, i, p) THEN by \o f[i + l] ELSE <<t[i]>> \o f[i + 1]
  <2>1. \A i \in 1 .. n + 1 : A(i) = B(i)
    <3> TAKE i \in 1 .. n + 1
    <3>1. ~(i > n) => i \in 1 .. n
      OBVIOUS
    <3>2. QED BY <1>4, <3>1
  <2>2. Scans(f, n, n + 1, out, step) <=> f = [i \in 1 .. n + 1 |-> A(i)]
    BY DEF Scans
  <2>3. Replaces(f, t, p, by) <=> f = [i \in 1 .. n + 1 |-> B(i)]
    BY <1>1, <1>2 DEF Replaces
  <2> HIDE DEF A, B
  <2>4. [i \in 1 .. n + 1 |-> A(i)] = [i \in 1 .. n + 1 |-> B(i)]
    BY <2>1
  <2>5. QED BY <2>2, <2>3, <2>4
<1>11. PICK h \in [1 .. n + 1 -> Text] : Scans(h, n, n + 1, out, step)
  BY <1>9, ScanExists
<1>12. PICK f : f = CHOOSE g : Replaces(g, t, p, by)
  OBVIOUS
<1>13. Replaces(f, t, p, by)
  BY <1>10, <1>11, <1>12
<1>14. Scans(f, n, n + 1, out, step)
  BY <1>10, <1>13
<1>15. f[1] = h[1]
  BY <1>9, <1>11, <1>14, ScanOnce
<1>16. h[1] \in Text
  BY <1>11
<1>17. ReplacedAll(t, p, by) = f[1]
  BY <1>12, ReplacedDef
<1>18. Passes(f, n, n + 1, out, step)
  BY <1>9, <1>14 DEF Passes
<1>19. ReplacedBy(f, t, p, by)
  BY <1>1, <1>15, <1>16, <1>17, <1>18 DEF ReplacedBy, out, step
<1>20. QED BY <1>19

LEMMA ReplacedType ==
    ASSUME NEW t \in Text, NEW p \in Text, p # << >>, NEW by \in Text
    PROVE  ReplacedAll(t, p, by) \in Text
BY ReplacedScans DEF ReplacedBy

LEMMA ReplacedEmpty ==
    ASSUME NEW p \in Text, p # << >>, NEW by \in Text
    PROVE  ReplacedAll(<< >>, p, by) = << >>
<1>1. << >> \in Text /\ Len(<< >>) = 0
  BY LacksNothing
<1>2. PICK f : ReplacedBy(f, << >>, p, by)
  BY <1>1, ReplacedScans
<1>3. QED BY <1>1, <1>2, ScanEnd DEF ReplacedBy

\* Hidden, so that the provers do not take texts for tuples.
Glue(s, t) == s \o t

\* The first piece of a text is replaced or stays, and the rest is replaced.
LEMMA ReplacedNext ==
    ASSUME NEW v \in Text, v # << >>, NEW t \in Text, NEW p \in Text, p # << >>, NEW by \in Text,
           NEW put,
           \/ v = p /\ put = by
           \/ Len(v) = 1 /\ ~IsAt(Glue(v, t), 1, p) /\ put = v
    PROVE  ReplacedAll(Glue(v, t), p, by) = Glue(put, ReplacedAll(t, p, by))
<1> USE DEF Glue
<1>1. PICK n \in Nat : n = Len(t)
  BY TextDomain
<1>2. PICK k \in Nat : k = Len(v)
  BY TextDomain
<1>3. k # 0
  BY <1>2, EmptySeq DEF Text
<1>4. PICK w : w = v \o t
  OBVIOUS
<1>5. /\ w \in Text /\ Len(w) = k + n /\ \A j \in 1 .. n : w[k + j] = t[j]
      /\ \A j \in 1 .. k : w[j] = v[j]
  BY <1>1, <1>2, <1>4, JoinIs DEF IsJoin
<1>6. PICK out, step : out = ReplacedOut(w, p, by) /\ step = ReplacedStep(w, p)
  OBVIOUS
<1>7. PICK out2, step2 : out2 = ReplacedOut(t, p, by) /\ step2 = ReplacedStep(t, p)
  OBVIOUS
<1>8. /\ \A i \in 1 .. k + n : /\ out[i] = IF IsAt(w, i, p) THEN by ELSE <<w[i]>>
                               /\ step[i] = IF IsAt(w, i, p) THEN Len(p) ELSE 1
      /\ \A i \in 1 .. n : /\ out2[i] = IF IsAt(t, i, p) THEN by ELSE <<t[i]>>
                           /\ step2[i] = IF IsAt(t, i, p) THEN Len(p) ELSE 1
  BY <1>1, <1>5, <1>6, <1>7 DEF ReplacedOut, ReplacedStep
<1>9. PICK f : ReplacedBy(f, w, p, by)
  BY <1>5, ReplacedScans
<1>10. PICK g : ReplacedBy(g, t, p, by)
  BY ReplacedScans
<1>11. \A i \in 1 .. n : out[k + i] = out2[i] /\ step[k + i] = step2[i]
  <2> TAKE i \in 1 .. n
  <2>1. k + i \in 1 .. k + n
    OBVIOUS
  <2>2. IsAt(w, k + i, p) <=> IsAt(t, i, p)
    BY <1>1, <1>2, <1>4, IsAtShift
  <2>3. w[k + i] = t[i]
    BY <1>5
  <2>4. QED BY <1>8, <2>1, <2>2, <2>3
<1>12. 1 \in 1 .. k + n
  BY <1>3
<1>13. out[1] = put /\ step[1] = k
  <2>1. CASE v = p /\ put = by
    <3>1. IsAt(w, 1, p)
      BY <1>4, <2>1, JoinedAt
    <3>2. QED BY <1>2, <1>8, <1>12, <2>1, <3>1
  <2>2. CASE Len(v) = 1 /\ ~IsAt(v \o t, 1, p) /\ put = v
    <3>1. k = 1 /\ w[1] = v[1]
      BY <1>2, <1>5, <2>2
    <3>2. v = <<v[1]>>
      BY <2>2 DEF Text
    <3>3. QED BY <1>4, <1>8, <1>12, <2>2, <3>1, <3>2
  <2>3. QED BY <2>1, <2>2
<1>14. Passes(f, Len(w), Len(w) + 1, out, step) /\ Passes(g, Len(t), Len(t) + 1, out2, step2)
  BY <1>6, <1>7, <1>9, <1>10 DEF ReplacedBy
<1>15. Continues(Len(w), out, step, Len(t), out2, step2)
  BY <1>1, <1>3, <1>5, <1>11, <1>13 DEF Continues
<1>16. f[1] = out[1] \o g[1]
  <2>1. PICK l, l2, m, m2 : /\ l = Len(w) /\ l2 = Len(t)
                            /\ m = Len(w) + 1 /\ m2 = Len(t) + 1
    OBVIOUS
  <2>2. Passes(f, l, m, out, step) /\ Passes(g, l2, m2, out2, step2)
    BY <1>14, <2>1
  <2>3. Continues(l, out, step, l2, out2, step2)
    BY <1>15, <2>1
  <2>4. Follows(f, l, m, out, step, g, l2, m2, out2, step2)
    BY <2>2, <2>3 DEF Follows
  <2>5. Yields(f, out, g)
    BY <2>4, ScanNext
  <2>6. QED BY <2>5 DEF Yields
<1>17. QED BY <1>4, <1>9, <1>10, <1>13, <1>16 DEF ReplacedBy

------------------------------------------------------------------------------
(***************************************************************************)
(* Induction over texts, and what ReplacedAll does to a text with one      *)
(* symbol more.                                                            *)
(***************************************************************************)
\* Texts from their first symbol on.
IsNext(w, s, t) ==
    /\ w \in Text /\ w # << >> /\ Len(w) = 1 + Len(t) /\ Len(t) \in Nat
    /\ DOMAIN w = 1 .. 1 + Len(t) /\ DOMAIN t = 1 .. Len(t)
    /\ w[1] = s /\ \A j \in 1 .. Len(t) : w[1 + j] = t[j]

LEMMA NextIs ==
    ASSUME NEW s \in Symbol, NEW t \in Text
    PROVE  IsNext(Cons(s, t), s, t)
<1> USE DEF Cons
<1>1. PICK w : w = Cons(s, t)
  OBVIOUS
<1>2. PICK v : v = <<s>>
  OBVIOUS
<1>3. v \in Text /\ Len(v) = 1 /\ v[1] = s
  BY <1>2, OneSymbol
<1>4. IsJoin(w, v, t)
  BY <1>1, <1>2, <1>3, JoinIs
<1>5. 1 \in 1 .. 1
  OBVIOUS
<1>6. w \in Text /\ Len(w) = 1 + Len(t) /\ Len(t) \in Nat /\ w[1] = s
      /\ \A j \in 1 .. Len(t) : w[1 + j] = t[j]
  BY <1>3, <1>4, <1>5 DEF IsJoin
<1>7. w # << >>
  BY <1>6, LacksNothing, EmptySeq DEF Text
<1>8. DOMAIN w = 1 .. Len(w) /\ DOMAIN t = 1 .. Len(t)
  BY <1>6, TextDomain
<1>9. QED BY <1>1, <1>6, <1>7, <1>8 DEF IsNext

LEMMA NextExists ==
    ASSUME NEW t \in Text, t # << >>
    PROVE  \E s \in Symbol, u \in Text : t = Cons(s, u)
<1> USE DEF Cons
<1>1. PICK n \in Nat : n = Len(t)
  BY TextDomain
<1>2. n # 0
  BY <1>1, EmptySeq DEF Text
<1>3. t[1] \in Symbol
  BY <1>1, <1>2, TextSymbols
<1>4. t \in Seq(Symbol)
  BY DEF Text
<1>5. SubSeq(t, 2, n) \in Text
  <2>1. \A i \in 2 .. n : t[i] \in Symbol
    BY <1>1, TextSymbols
  <2>2. QED BY <2>1, SubSeqProperties DEF Text
<1>6. 1 \in 1 .. Len(t) /\ n \in 1 .. Len(t) /\ 1 + 1 = 2
  BY <1>1, <1>2
<1>7. SubSeq(t, 1, n) = <<t[1]>> \o SubSeq(t, 1 + 1, n)
  BY <1>1, <1>4, <1>6, SubSeqRecursiveFirst
<1>8. SubSeq(t, 1, n) = t
  BY <1>1, <1>4, SubSeqFull
<1>9. t = <<t[1]>> \o SubSeq(t, 2, n)
  BY <1>6, <1>7, <1>8
<1>10. QED BY <1>3, <1>5, <1>9

LEMMA TextInduction ==
    ASSUME NEW S \in SUBSET Text, << >> \in S,
           \A s \in Symbol, t \in S : Cons(s, t) \in S
    PROVE  \A t \in Text : t \in S
<1> DEFINE N == {n \in Nat : \A t \in Text : Len(t) = n => t \in S}
<1>1. 0 \in N
  BY EmptySeq DEF Text
<1>2. \A n \in N : n + 1 \in N
  <2> TAKE n \in N
  <2>1. n \in Nat /\ n + 1 \in Nat /\ n + 1 # 0
    OBVIOUS
  <2>2. ASSUME NEW t \in Text, Len(t) = n + 1 PROVE t \in S
    <3>1. t # << >>
      BY <2>1, <2>2, EmptySeq
    <3>2. PICK s \in Symbol, u \in Text : t = Cons(s, u)
      BY <3>1, NextExists
    <3>3. Len(t) = 1 + Len(u) /\ Len(u) \in Nat
      BY <3>2, NextIs DEF IsNext
    <3>4. Len(u) = n
      BY <2>1, <2>2, <3>3
    <3>5. u \in S
      BY <3>4
    <3>6. QED BY <3>2, <3>5
  <2>3. QED BY <2>1, <2>2
<1>3. N = Nat
  <2>1. N \in SUBSET Nat
    OBVIOUS
  <2> HIDE DEF N
  <2>2. QED BY <1>1, <1>2, <2>1, NumberInduction
<1>4. QED
  <2> TAKE t \in Text
  <2>1. Len(t) \in N
    BY <1>3, TextDomain
  <2>2. QED BY <2>1

LEMMA HasNext ==
    ASSUME NEW s \in Symbol, NEW t \in Text, NEW p \in Text
    PROVE  Has(Cons(s, t), p) <=> IsAt(Cons(s, t), 1, p) \/ Has(t, p)
<1>1. PICK w : w = Cons(s, t)
  OBVIOUS
<1>2. IsNext(w, s, t)
  BY <1>1, NextIs
<1>3. PICK n \in Nat : n = Len(t)
  BY TextDomain
<1>4. DOMAIN w = 1 .. 1 + n /\ DOMAIN t = 1 .. n
  BY <1>2, <1>3 DEF IsNext
<1>5. \A i \in 1 .. n : IsAt(w, 1 + i, p) <=> IsAt(t, i, p)
  <2> TAKE i \in 1 .. n
  <2>1. <<s>> \in Text /\ Len(<<s>>) = 1
    BY OneSymbol
  <2>2. QED BY <1>1, <1>3, <2>1, IsAtShift DEF Cons
<1>6. ASSUME NEW i \in DOMAIN w, IsAt(w, i, p) PROVE IsAt(w, 1, p) \/ Has(t, p)
  <2>1. CASE i = 1
    BY <1>6, <2>1
  <2>2. CASE i # 1
    <3>1. PICK j \in 1 .. n : i = 1 + j
      <4>1. i - 1 \in 1 .. n /\ i = 1 + (i - 1)
        BY <1>4, <2>2
      <4>2. QED BY <4>1
    <3>2. QED BY <1>4, <1>5, <1>6, <3>1 DEF Has
  <2>3. QED BY <2>1, <2>2
<1>7. ASSUME NEW i \in DOMAIN t, IsAt(t, i, p) PROVE Has(w, p)
  <2>1. 1 + i \in DOMAIN w
    BY <1>4
  <2>2. QED BY <1>4, <1>5, <1>7, <2>1 DEF Has
<1>8. 1 \in DOMAIN w
  BY <1>4
<1>9. QED BY <1>1, <1>6, <1>7, <1>8 DEF Has

LEMMA ReplacedHit ==
    ASSUME NEW t \in Text, NEW p \in Text, p # << >>, NEW by \in Text
    PROVE  ReplacedAll(Glue(p, t), p, by) = Glue(by, ReplacedAll(t, p, by))
BY ReplacedNext

LEMMA ReplacedSkip ==
    ASSUME NEW s \in Symbol, NEW t \in Text, NEW p \in Text, p # << >>, NEW by \in Text,
           ~IsAt(Cons(s, t), 1, p)
    PROVE  ReplacedAll(Cons(s, t), p, by) = Cons(s, ReplacedAll(t, p, by))
<1>1. PICK v : v = <<s>>
  OBVIOUS
<1>2. v \in Text /\ v # << >> /\ Len(v) = 1
  BY <1>1, OneSymbol, NotEmpty
<1>3. \A u : Cons(s, u) = Glue(v, u)
  BY <1>1 DEF Cons, Glue
<1>4. ~IsAt(Glue(v, t), 1, p)
  BY <1>3
<1>5. ReplacedAll(Glue(v, t), p, by) = Glue(v, ReplacedAll(t, p, by))
  BY <1>2, <1>4, ReplacedNext
<1>6. QED BY <1>3, <1>5

\* A text that does not have the part stays as it is.
LEMMA ReplacedKeeps ==
    ASSUME NEW t \in Text, NEW p \in Text, p # << >>, NEW by \in Text, ~Has(t, p)
    PROVE  ReplacedAll(t, p, by) = t
<1> DEFINE S == {u \in Text : ~Has(u, p) => ReplacedAll(u, p, by) = u}
<1>1. << >> \in S
  BY LacksNothing, ReplacedEmpty
<1>2. ASSUME NEW s \in Symbol, NEW u \in S PROVE Cons(s, u) \in S
  <2>1. Cons(s, u) \in Text /\ u \in Text
    BY NextIs DEF IsNext
  <2>2. SUFFICES ASSUME ~Has(Cons(s, u), p)
                 PROVE  ReplacedAll(Cons(s, u), p, by) = Cons(s, u)
    BY <2>1
  <2>3. ~IsAt(Cons(s, u), 1, p) /\ ~Has(u, p)
    BY <2>1, <2>2, HasNext
  <2>4. ReplacedAll(Cons(s, u), p, by) = Cons(s, ReplacedAll(u, p, by))
    BY <2>1, <2>3, ReplacedSkip
  <2>5. QED BY <2>3, <2>4
<1>3. S \in SUBSET Text
  OBVIOUS
<1>4. t \in S
  <2> HIDE DEF S
  <2>1. QED BY <1>1, <1>2, <1>3, TextInduction
<1>5. QED BY <1>4

\* One symbol for another one.
LEMMA ReplacedOne ==
    ASSUME NEW s \in Symbol, NEW t \in Text, NEW c \in Symbol, NEW d \in Symbol
    PROVE  ReplacedAll(Cons(s, t), <<c>>, <<d>>)
             = Cons(IF s = c THEN d ELSE s, ReplacedAll(t, <<c>>, <<d>>))
<1>1. PICK p : p = <<c>>
  OBVIOUS
<1>2. PICK by : by = <<d>>
  OBVIOUS
<1>3. p \in Text /\ p # << >> /\ by \in Text
  BY <1>1, <1>2, OneSymbol, NotEmpty
<1>4. CASE s = c
  <2>1. ReplacedAll(Glue(p, t), p, by) = Glue(by, ReplacedAll(t, p, by))
    BY <1>3, ReplacedHit
  <2>2. QED BY <1>1, <1>2, <1>4, <2>1 DEF Glue, Cons
<1>5. CASE s # c
  <2>1. PICK w : w = Cons(s, t)
    OBVIOUS
  <2>2. w \in Text /\ w[1] = s /\ Len(w) = 1 + Len(t) /\ Len(t) \in Nat
    BY <2>1, NextIs DEF IsNext
  <2>3. 1 \in 1 .. Len(w)
    BY <2>2
  <2>4. ~IsAt(w, 1, p)
    BY <1>1, <1>5, <2>2, <2>3, IsAtOne
  <2>5. ReplacedAll(Cons(s, t), p, by) = Cons(s, ReplacedAll(t, p, by))
    BY <1>3, <2>1, <2>4, ReplacedSkip
  <2>6. QED BY <1>1, <1>2, <1>5, <2>5
<1>6. QED BY <1>4, <1>5

------------------------------------------------------------------------------
(***************************************************************************)
(* A symbol in front of a text, and texts put together symbol by symbol.   *)
(***************************************************************************)
\* Putting texts together.
LEMMA ConsType ==
    ASSUME NEW s \in Symbol, NEW t \in Text
    PROVE  Cons(s, t) \in Text /\ Cons(s, t) # << >>
BY NextIs DEF IsNext

LEMMA GlueType ==
    ASSUME NEW s \in Text, NEW t \in Text
    PROVE  Glue(s, t) \in Text
BY JoinIs DEF IsJoin, Glue

LEMMA GlueNothing ==
    ASSUME NEW t \in Text
    PROVE  Glue(<< >>, t) = t /\ Glue(t, << >>) = t
BY ConcatEmptySeq DEF Text, Glue

LEMMA GluesAssociate ==
    ASSUME NEW r \in Text, NEW s \in Text, NEW t \in Text
    PROVE  Glue(Glue(r, s), t) = Glue(r, Glue(s, t))
BY JoinsAssociate DEF Glue

LEMMA GlueNext ==
    ASSUME NEW s \in Symbol, NEW u \in Text, NEW t \in Text
    PROVE  Glue(Cons(s, u), t) = Cons(s, Glue(u, t))
<1>1. PICK v : v = <<s>>
  OBVIOUS
<1>2. v \in Text
  BY <1>1, OneSymbol
<1>3. \A w : Cons(s, w) = Glue(v, w)
  BY <1>1 DEF Cons, Glue
<1>4. Glue(Glue(v, u), t) = Glue(v, Glue(u, t))
  BY <1>2, GluesAssociate
<1>5. QED BY <1>3, <1>4

LEMMA OneIsCons ==
    ASSUME NEW s \in Symbol
    PROVE  <<s>> = Cons(s, << >>)
<1>1. PICK v : v = <<s>>
  OBVIOUS
<1>2. v \in Text
  BY <1>1, OneSymbol
<1>3. Glue(v, << >>) = v
  BY <1>2, GlueNothing
<1>4. Cons(s, << >>) = Glue(v, << >>)
  BY <1>1 DEF Cons, Glue
<1>5. QED BY <1>1, <1>3, <1>4

LEMMA LacksNext ==
    ASSUME NEW s \in Symbol, NEW t \in Text, NEW n
    PROVE  Lacks(Cons(s, t), n) <=> s # n /\ Lacks(t, n)
<1>1. PICK w : w = Cons(s, t)
  OBVIOUS
<1>2. PICK l \in Nat : l = Len(t)
  BY TextDomain
<1>3. w[1] = s /\ Len(w) = 1 + l /\ \A j \in 1 .. l : w[1 + j] = t[j]
  BY <1>1, <1>2, NextIs DEF IsNext
<1>4. 1 \in 1 .. 1 + l /\ \A j \in 1 .. l : 1 + j \in 1 .. 1 + l
  OBVIOUS
<1>5. \A i \in 1 .. 1 + l : i = 1 \/ \E j \in 1 .. l : i = 1 + j
  <2> TAKE i \in 1 .. 1 + l
  <2>1. i # 1 => i - 1 \in 1 .. l /\ i = 1 + (i - 1)
    OBVIOUS
  <2>2. QED BY <2>1
<1>6. Lacks(w, n) => s # n /\ Lacks(t, n)
  BY <1>2, <1>3, <1>4 DEF Lacks
<1>7. s # n /\ Lacks(t, n) => Lacks(w, n)
  BY <1>2, <1>3, <1>5 DEF Lacks
<1>8. QED BY <1>1, <1>6, <1>7

------------------------------------------------------------------------------
\* Every symbol of a text for something.
LEMMA FlattenNext ==
    ASSUME NEW x \in Text, NEW ss \in Seq(Text), NEW rr \in Seq(Text),
           Len(rr) = 1 + Len(ss), rr[1] = x, \A j \in 1 .. Len(ss) : rr[1 + j] = ss[j]
    PROVE  FlattenSeq(rr) = Glue(x, FlattenSeq(ss))
<1>1. PICK h : Partial(Symbol, rr, h)
  BY PartialExists DEF Text
<1>2. PICK g : Partial(Symbol, ss, g)
  BY PartialExists DEF Text
<1>3. PICK n \in Nat : n = Len(ss)
  BY EmptySeq, LenProperties
<1>4. /\ h \in [0 .. 1 + n -> Text] /\ g \in [0 .. n -> Text] /\ h[0] = << >> /\ g[0] = << >>
      /\ FlattenSeq(rr) = h[1 + n] /\ FlattenSeq(ss) = g[n]
  BY <1>1, <1>2, <1>3 DEF Partial, Text
<1>5. /\ \A i \in 1 .. 1 + n : h[i] = Glue(h[i - 1], rr[i])
      /\ \A i \in 1 .. n : g[i] = Glue(g[i - 1], ss[i])
  BY <1>1, <1>2, <1>3 DEF Partial, Glue
<1>6. \A i \in 1 .. n : ss[i] \in Text
  BY <1>3, ElementOfSeq
<1> DEFINE N == {i \in Nat : i <= n => h[1 + i] = Glue(x, g[i])}
<1>7. 0 \in N
  <2>1. 1 \in 1 .. 1 + n /\ 1 - 1 = 0 /\ 1 + 0 = 1
    BY <1>3
  <2>2. h[1] = Glue(<< >>, x)
    BY <1>4, <1>5, <2>1
  <2>3. Glue(<< >>, x) = x /\ Glue(x, << >>) = x
    BY GlueNothing
  <2>4. QED BY <1>4, <2>1, <2>2, <2>3
<1>8. \A i \in N : i + 1 \in N
  <2> TAKE i \in N
  <2>1. i \in Nat /\ i + 1 \in Nat
    OBVIOUS
  <2>2. SUFFICES ASSUME i + 1 <= n PROVE h[1 + (i + 1)] = Glue(x, g[i + 1])
    BY <2>1
  <2>3. /\ i + 1 \in 1 .. n /\ (i + 1) - 1 = i /\ 1 + (i + 1) \in 1 .. 1 + n
        /\ (1 + (i + 1)) - 1 = 1 + i /\ i <= n /\ i \in 0 .. n
    BY <1>3, <2>1, <2>2
  <2>4. h[1 + i] = Glue(x, g[i])
    BY <2>3
  <2>5. h[1 + (i + 1)] = Glue(h[1 + i], rr[1 + (i + 1)])
    BY <1>5, <2>3
  <2>6. rr[1 + (i + 1)] = ss[i + 1]
    BY <1>3, <2>3
  <2>7. g[i + 1] = Glue(g[i], ss[i + 1])
    BY <1>5, <2>3
  <2>8. g[i] \in Text /\ ss[i + 1] \in Text
    BY <1>4, <1>6, <2>3
  <2>9. Glue(Glue(x, g[i]), ss[i + 1]) = Glue(x, Glue(g[i], ss[i + 1]))
    BY <2>8, GluesAssociate
  <2>10. QED BY <2>4, <2>5, <2>6, <2>7, <2>9
<1>9. N = Nat
  <2>1. N \in SUBSET Nat
    OBVIOUS
  <2> HIDE DEF N
  <2>2. QED BY <1>7, <1>8, <2>1, NumberInduction
<1>10. n \in N /\ n <= n
  BY <1>9
<1>11. h[1 + n] = Glue(x, g[n])
  BY <1>10
<1>12. QED BY <1>4, <1>11

SpreadBy(P, t) == FlattenSeq([i \in DOMAIN t |-> P[t[i]]])

LEMMA SpreadNothing ==
    ASSUME NEW P
    PROVE  SpreadBy(P, << >>) = << >>
<1>1. DOMAIN << >> = {}
  OBVIOUS
<1>2. [i \in DOMAIN << >> |-> P[<< >>[i]]] = << >>
  BY <1>1
<1>3. FlattenSeq(<< >>) = << >>
  BY DEF FlattenSeq
<1>4. QED BY <1>2, <1>3 DEF SpreadBy

LEMMA SpreadNext ==
    ASSUME NEW P \in [Symbol -> Text], NEW s \in Symbol, NEW t \in Text
    PROVE  SpreadBy(P, Cons(s, t)) = Glue(P[s], SpreadBy(P, t))
<1>1. PICK w : w = Cons(s, t)
  OBVIOUS
<1>2. IsNext(w, s, t)
  BY <1>1, NextIs
<1>3. PICK n \in Nat : n = Len(t)
  BY TextDomain
<1>4. /\ w \in Text /\ DOMAIN w = 1 .. 1 + n /\ DOMAIN t = 1 .. n /\ Len(w) = 1 + n
      /\ w[1] = s /\ \A j \in 1 .. n : w[1 + j] = t[j]
  BY <1>2, <1>3 DEF IsNext
<1>5. (\A i \in 1 .. 1 + n : w[i] \in Symbol) /\ \A i \in 1 .. n : t[i] \in Symbol
  BY <1>3, <1>4, TextSymbols
<1>6. PICK rr : rr = [i \in 1 .. 1 + n |-> P[w[i]]]
  OBVIOUS
<1>7. PICK ss : ss = [i \in 1 .. n |-> P[t[i]]]
  OBVIOUS
<1>8. rr \in Seq(Text) /\ Len(rr) = 1 + n
  <2>1. rr \in [1 .. 1 + n -> Text] /\ 1 + n \in Nat
    BY <1>5, <1>6
  <2>2. QED BY <2>1
<1>9. ss \in Seq(Text) /\ Len(ss) = n
  <2>1. ss \in [1 .. n -> Text]
    BY <1>5, <1>7
  <2>2. QED BY <2>1
<1>10. /\ rr[1] = P[s] /\ \A j \in 1 .. n : rr[1 + j] = ss[j]
  <2>1. 1 \in 1 .. 1 + n /\ \A j \in 1 .. n : 1 + j \in 1 .. 1 + n
    OBVIOUS
  <2>2. QED BY <1>4, <1>6, <1>7, <2>1
<1>11. P[s] \in Text
  OBVIOUS
<1>12. FlattenSeq(rr) = Glue(P[s], FlattenSeq(ss))
  BY <1>8, <1>9, <1>10, <1>11, FlattenNext
<1>13. SpreadBy(P, w) = FlattenSeq(rr) /\ SpreadBy(P, t) = FlattenSeq(ss)
  BY <1>4, <1>6, <1>7 DEF SpreadBy
<1>14. QED BY <1>1, <1>12, <1>13

------------------------------------------------------------------------------
(***************************************************************************)
(* UrlDecode.                                                              *)
(***************************************************************************)
\* Codes.
Coded == {"+", "%", "&", "<", "\"", ";", "/", "=", "hard"}

LEMMA CodesAre ==
    /\ DOMAIN CodeOf = Coded /\ Coded \subseteq Symbol
    /\ Codes \subseteq {"2B", "25", "26", "3C", "22", "3B", "2F", "3D", "C2A0"}
    /\ \A c \in Coded : /\ CodeOf[c] \in Codes /\ CodeOf[c] \in Symbol
                        /\ CharOf(CodeOf[c]) = c
                        /\ CodeOf[c] = "2F" <=> c = "/"
                        /\ CodeOf[c] \notin {"&", "=", "%", "+"}
    /\ \A code \in Codes : CharOf(code) \in Coded
<1>1. DOMAIN CodeOf = Coded /\ Coded \subseteq Symbol
  BY DEF CodeOf, Coded, Symbol, Literals
<1>2. \A c \in Coded :
         \/ (c = "+" /\ CodeOf[c] = "2B") \/ (c = "%" /\ CodeOf[c] = "25")
         \/ (c = "&" /\ CodeOf[c] = "26") \/ (c = "<" /\ CodeOf[c] = "3C")
         \/ (c = "\"" /\ CodeOf[c] = "22") \/ (c = ";" /\ CodeOf[c] = "3B")
         \/ (c = "/" /\ CodeOf[c] = "2F") \/ (c = "=" /\ CodeOf[c] = "3D")
         \/ (c = "hard" /\ CodeOf[c] = "C2A0")
  <2> TAKE c \in Coded
  <2>1. c = "+" => CodeOf[c] = "2B"
    BY DEF CodeOf
  <2>2. c = "%" => CodeOf[c] = "25"
    BY DEF CodeOf
  <2>3. c = "&" => CodeOf[c] = "26"
    BY DEF CodeOf
  <2>4. c = "<" => CodeOf[c] = "3C"
    BY DEF CodeOf
  <2>5. c = "\"" => CodeOf[c] = "22"
    BY DEF CodeOf
  <2>6. c = ";" => CodeOf[c] = "3B"
    BY DEF CodeOf
  <2>7. c = "/" => CodeOf[c] = "2F"
    BY DEF CodeOf
  <2>8. c = "=" => CodeOf[c] = "3D"
    BY DEF CodeOf
  <2>9. c = "hard" => CodeOf[c] = "C2A0"
    BY DEF CodeOf
  <2>10. c = "+" \/ c = "%" \/ c = "&" \/ c = "<" \/ c = "\"" \/ c = ";" \/ c = "/" \/ c = "=" \/ c = "hard"
    BY DEF Coded
  <2>11. QED BY <2>1, <2>2, <2>3, <2>4, <2>5, <2>6, <2>7, <2>8, <2>9, <2>10, Zenon
<1>3. Codes \subseteq {"2B", "25", "26", "3C", "22", "3B", "2F", "3D", "C2A0"}
  BY <1>1, <1>2 DEF Codes
<1>4. \A c \in Coded : /\ CodeOf[c] \in Codes /\ CodeOf[c] \in Symbol
                       /\ CodeOf[c] = "2F" <=> c = "/"
                       /\ CodeOf[c] \notin {"&", "=", "%", "+"}
  <2> TAKE c \in Coded
  <2>1. CodeOf[c] \in Codes
    BY <1>1 DEF Codes
  <2>2. PICK d : d = CodeOf[c]
    OBVIOUS
  <2>3. d \in Literals /\ (d = "2F" <=> c = "/") /\ d \notin {"&", "=", "%", "+"}
    BY <1>2, <2>2 DEF Literals
  <2>4. QED BY <2>1, <2>2, <2>3 DEF Symbol
<1>5. \A c, d \in Coded : CodeOf[c] = CodeOf[d] => c = d
  <2> TAKE c, d \in Coded
  <2>1. PICK x, y : x = CodeOf[c] /\ y = CodeOf[d]
    OBVIOUS
  <2>2. x = y => c = d
    BY <1>2, <2>1
  <2>3. QED BY <2>1, <2>2
<1>6. \A code \in Codes : CharOf(code) \in Coded /\ CodeOf[CharOf(code)] = code
  <2> TAKE code \in Codes
  <2>1. \E c \in Coded : CodeOf[c] = code
    BY <1>1 DEF Codes
  <2>2. QED BY <1>1, <2>1 DEF CharOf
<1>7. \A c \in Coded : CharOf(CodeOf[c]) = c
  BY <1>4, <1>5, <1>6
<1>8. QED BY <1>1, <1>3, <1>4, <1>6, <1>7

DecodedOut(t) ==
    [i \in 1 .. Len(t) |->
       IF t[i] # "%" THEN <<t[i]>>
       ELSE IF i < Len(t) /\ t[i + 1] \in Codes THEN <<CharOf(t[i + 1])>> ELSE <<"junk">>]
DecodedStep(t) == [i \in 1 .. Len(t) |-> IF t[i] # "%" THEN 1 ELSE 2]
Decodes(f, t) ==
    f = [i \in 1 .. Len(t) + 2 |->
           IF i > Len(t) THEN << >>
           ELSE IF t[i] # "%" THEN <<t[i]>> \o f[i + 1]
           ELSE IF i < Len(t) /\ t[i + 1] \in Codes
                THEN <<CharOf(t[i + 1])>> \o f[i + 2]
           ELSE <<"junk">> \o f[i + 2]]

LEMMA DecodeDef ==
    ASSUME NEW t
    PROVE  UrlDecode(t) = (CHOOSE f : Decodes(f, t))[1]
BY DEF UrlDecode, Decodes

DecodedBy(f, t) ==
    /\ Passes(f, Len(t), Len(t) + 2, DecodedOut(t), DecodedStep(t))
    /\ UrlDecode(t) = f[1] /\ f[1] \in Text

LEMMA DecodeScans ==
    ASSUME NEW t \in Text
    PROVE  \E f : DecodedBy(f, t)
<1>1. PICK n \in Nat : n = Len(t)
  BY TextDomain
<1> DEFINE out == DecodedOut(t)
           step == DecodedStep(t)
           O(i) == IF t[i] # "%" THEN <<t[i]>>
                   ELSE IF i < n /\ t[i + 1] \in Codes THEN <<CharOf(t[i + 1])>>
                   ELSE <<"junk">>
<1>2. /\ out = [i \in 1 .. n |-> O(i)]
      /\ step = [i \in 1 .. n |-> IF t[i] # "%" THEN 1 ELSE 2]
  BY <1>1 DEF DecodedOut, DecodedStep
<1>3. \A i \in 1 .. n : O(i) \in Text
  <2> TAKE i \in 1 .. n
  <2>1. <<t[i]>> \in Text
    BY <1>1, TextSymbols, OneSymbol
  <2>2. "junk" \in Symbol
    BY DEF Symbol, Literals
  <2>3. <<"junk">> \in Text
    BY <2>2, OneSymbol
  <2>4. t[i + 1] \in Codes => <<CharOf(t[i + 1])>> \in Text
    <3> SUFFICES ASSUME t[i + 1] \in Codes PROVE <<CharOf(t[i + 1])>> \in Text
      OBVIOUS
    <3>1. PICK c \in Symbol : c = CharOf(t[i + 1])
      BY CodesAre
    <3>2. QED BY <3>1, OneSymbol
  <2>5. QED BY <2>1, <2>3, <2>4
<1> HIDE DEF out, step
<1>4. out \in [1 .. n -> Text]
  <2> HIDE DEF O
  <2>1. QED BY <1>2, <1>3
<1>5. step \in [1 .. n -> Nat \ {0}] /\ \A i \in 1 .. n : i + step[i] <= n + 2
  BY <1>2
<1>6. Scanner(n, n + 2, out, step)
  BY <1>4, <1>5 DEF Scanner
<1>7. ASSUME NEW f
      PROVE  Scans(f, n, n + 2, out, step) <=> Decodes(f, t)
  <2> DEFINE A(i) == IF i > n THEN << >> ELSE out[i] \o f[i + step[i]]
             B(i) == IF i > n THEN << >>
                     ELSE IF t[i] # "%" THEN <<t[i]>> \o f[i + 1]
                     ELSE IF i < n /\ t[i + 1] \in Codes
                          THEN <<CharOf(t[i + 1])>> \o f[i + 2]
                     ELSE <<"junk">> \o f[i + 2]
  <2>1. \A i \in 1 .. n + 2 : A(i) = B(i)
    <3> TAKE i \in 1 .. n + 2
    <3>1. CASE i > n
      BY <3>1
    <3>2. CASE ~(i > n)
      <4>1. i \in 1 .. n
        BY <3>2
      <4>2. out[i] = O(i) /\ step[i] = IF t[i] # "%" THEN 1 ELSE 2
        <5> HIDE DEF O
        <5>1. QED BY <1>2, <4>1
      <4>3. QED BY <3>2, <4>2
    <3>3. QED BY <3>1, <3>2
  <2>2. Scans(f, n, n + 2, out, step) <=> f = [i \in 1 .. n + 2 |-> A(i)]
    BY DEF Scans
  <2>3. Decodes(f, t) <=> f = [i \in 1 .. n + 2 |-> B(i)]
    BY <1>1 DEF Decodes
  <2> HIDE DEF A, B
  <2>4. [i \in 1 .. n + 2 |-> A(i)] = [i \in 1 .. n + 2 |-> B(i)]
    BY <2>1
  <2>5. QED BY <2>2, <2>3, <2>4
<1>8. PICK h \in [1 .. n + 2 -> Text] : Scans(h, n, n + 2, out, step)
  BY <1>6, ScanExists
<1>9. PICK f : f = CHOOSE g : Decodes(g, t)
  OBVIOUS
<1>10. Decodes(f, t)
  BY <1>7, <1>8, <1>9
<1>11. Scans(f, n, n + 2, out, step)
  BY <1>7, <1>10
<1>12. f[1] = h[1]
  BY <1>6, <1>8, <1>11, ScanOnce
<1>13. h[1] \in Text
  BY <1>8
<1>14. UrlDecode(t) = f[1]
  BY <1>9, DecodeDef
<1>15. Passes(f, n, n + 2, out, step)
  BY <1>6, <1>11 DEF Passes
<1>16. DecodedBy(f, t)
  BY <1>1, <1>12, <1>13, <1>14, <1>15 DEF DecodedBy, out, step
<1>17. QED BY <1>16

LEMMA DecodeType ==
    ASSUME NEW t \in Text
    PROVE  UrlDecode(t) \in Text
BY DecodeScans DEF DecodedBy

LEMMA DecodeNothing == UrlDecode(<< >>) = << >>
<1>1. << >> \in Text /\ Len(<< >>) = 0
  BY LacksNothing
<1>2. PICK f : DecodedBy(f, << >>)
  BY <1>1, DecodeScans
<1>3. QED BY <1>1, <1>2, ScanEnd DEF DecodedBy

\* The first piece of a text is decoded, and then the rest.
LEMMA DecodePiece ==
    ASSUME NEW v \in Text, v # << >>, NEW t \in Text, NEW put,
           DecodedStep(Glue(v, t))[1] = Len(v), DecodedOut(Glue(v, t))[1] = put
    PROVE  UrlDecode(Glue(v, t)) = Glue(put, UrlDecode(t))
<1>1. PICK n \in Nat : n = Len(t)
  BY TextDomain
<1>2. PICK k \in Nat : k = Len(v)
  BY TextDomain
<1>3. k # 0
  BY <1>2, EmptySeq DEF Text
<1>4. PICK w : w = Glue(v, t)
  OBVIOUS
<1>5. w \in Text /\ Len(w) = k + n /\ \A j \in 1 .. n : w[k + j] = t[j]
  BY <1>1, <1>2, <1>4, JoinIs DEF IsJoin, Glue
<1>6. PICK out, step : out = DecodedOut(w) /\ step = DecodedStep(w)
  OBVIOUS
<1>7. PICK out2, step2 : out2 = DecodedOut(t) /\ step2 = DecodedStep(t)
  OBVIOUS
<1>8. PICK f : DecodedBy(f, w)
  BY <1>5, DecodeScans
<1>9. PICK g : DecodedBy(g, t)
  BY DecodeScans
<1>10. \A i \in 1 .. n : out[k + i] = out2[i] /\ step[k + i] = step2[i]
  <2> TAKE i \in 1 .. n
  <2>1. k + i \in 1 .. k + n /\ (k + i < k + n <=> i < n) /\ (k + i) + 1 = k + (i + 1)
    OBVIOUS
  <2>2. w[k + i] = t[i] /\ (i < n => w[k + (i + 1)] = t[i + 1])
    <3>1. i < n => i + 1 \in 1 .. n
      OBVIOUS
    <3>2. QED BY <1>5, <3>1
  <2>3. /\ step[k + i] = (IF w[k + i] # "%" THEN 1 ELSE 2)
        /\ step2[i] = (IF t[i] # "%" THEN 1 ELSE 2)
    BY <1>1, <1>5, <1>6, <1>7, <2>1 DEF DecodedStep
  <2>4. out[k + i] = IF w[k + i] # "%" THEN <<w[k + i]>>
                     ELSE IF k + i < k + n /\ w[(k + i) + 1] \in Codes
                          THEN <<CharOf(w[(k + i) + 1])>> ELSE <<"junk">>
    BY <1>5, <1>6, <2>1 DEF DecodedOut
  <2>5. out2[i] = IF t[i] # "%" THEN <<t[i]>>
                  ELSE IF i < n /\ t[i + 1] \in Codes
                       THEN <<CharOf(t[i + 1])>> ELSE <<"junk">>
    BY <1>1, <1>7 DEF DecodedOut
  <2>6. QED BY <2>1, <2>2, <2>3, <2>4, <2>5
<1>11. out[1] = put /\ step[1] = k
  BY <1>2, <1>4, <1>6
<1>12. PICK l, l2, m, m2 : /\ l = Len(w) /\ l2 = Len(t)
                           /\ m = Len(w) + 2 /\ m2 = Len(t) + 2
  OBVIOUS
<1>13. Passes(f, l, m, out, step) /\ Passes(g, l2, m2, out2, step2)
  BY <1>6, <1>7, <1>8, <1>9, <1>12 DEF DecodedBy
<1>14. Continues(l, out, step, l2, out2, step2)
  BY <1>1, <1>3, <1>5, <1>10, <1>11, <1>12 DEF Continues
<1>15. Follows(f, l, m, out, step, g, l2, m2, out2, step2)
  BY <1>13, <1>14 DEF Follows
<1>16. Yields(f, out, g)
  BY <1>15, ScanNext
<1>17. f[1] = Glue(put, g[1])
  BY <1>11, <1>16 DEF Yields, Glue
<1>18. QED BY <1>4, <1>8, <1>9, <1>17 DEF DecodedBy

LEMMA DecodeSkip ==
    ASSUME NEW s \in Symbol, NEW t \in Text, s # "%"
    PROVE  UrlDecode(Cons(s, t)) = Cons(s, UrlDecode(t))
<1>1. PICK v : v = <<s>>
  OBVIOUS
<1>2. v \in Text /\ v # << >> /\ Len(v) = 1
  BY <1>1, OneSymbol, NotEmpty
<1>3. \A u : Cons(s, u) = Glue(v, u)
  BY <1>1 DEF Cons, Glue
<1>4. PICK w : w = Cons(s, t)
  OBVIOUS
<1>5. w[1] = s /\ 1 \in 1 .. Len(w)
  BY <1>4, NextIs DEF IsNext
<1>6. DecodedStep(w)[1] = 1 /\ DecodedOut(w)[1] = v
  BY <1>1, <1>5 DEF DecodedStep, DecodedOut
<1>9. w = Glue(v, t)
  BY <1>3, <1>4
<1>10. PICK put : put = v
  OBVIOUS
<1>11. DecodedStep(w)[1] = Len(v) /\ DecodedOut(w)[1] = put
  BY <1>2, <1>6, <1>10
<1>7. UrlDecode(Glue(v, t)) = Glue(put, UrlDecode(t))
  BY <1>2, <1>9, <1>11, DecodePiece
<1>8. QED BY <1>3, <1>7, <1>10

LEMMA DecodeCode ==
    ASSUME NEW c \in Coded, NEW t \in Text
    PROVE  UrlDecode(Cons("%", Cons(CodeOf[c], t))) = Cons(c, UrlDecode(t))
<1>1. "%" \in Symbol /\ c \in Symbol
  BY CodesAre DEF Symbol, Literals
<1>2. PICK d \in Codes : d = CodeOf[c] /\ d \in Symbol /\ CharOf(d) = c
  BY CodesAre
<1>3. PICK u : u = Cons(d, << >>)
  OBVIOUS
<1>4. PICK v : v = Cons("%", u)
  OBVIOUS
<1>5. u \in Text /\ Len(u) = 1 /\ u[1] = d /\ v \in Text /\ v # << >> /\ Len(v) = 2
      /\ v[1] = "%" /\ v[2] = d
  <2>1. << >> \in Text /\ Len(<< >>) = 0
    BY LacksNothing
  <2>2. u \in Text /\ Len(u) = 1 + 0 /\ u[1] = d
    BY <1>2, <1>3, <2>1, NextIs DEF IsNext
  <2>3. v \in Text /\ v # << >> /\ Len(v) = 1 + 1 /\ v[1] = "%" /\ v[1 + 1] = u[1]
    <3>1. IsNext(v, "%", u) /\ Len(u) = 1 /\ 1 \in 1 .. 1
      BY <1>1, <1>4, <2>2, NextIs
    <3>2. QED BY <3>1 DEF IsNext
  <2>4. QED BY <2>2, <2>3
<1>6. Glue(v, t) = Cons("%", Cons(d, t))
  <2>1. << >> \in Text
    BY LacksNothing
  <2>2. Glue(u, t) = Cons(d, t)
    BY <1>2, <1>3, <2>1, GlueNext, GlueNothing
  <2>3. QED BY <1>1, <1>4, <1>5, <2>2, GlueNext
<1>7. PICK w : w = Glue(v, t)
  OBVIOUS
<1>8. w[1] = "%" /\ w[2] = d /\ Len(w) = 2 + Len(t) /\ Len(t) \in Nat
  <2>1. 1 \in 1 .. 2 /\ 2 \in 1 .. 2
    OBVIOUS
  <2>2. IsJoin(w, v, t)
    BY <1>5, <1>7, JoinIs DEF Glue
  <2>3. QED BY <1>5, <2>1, <2>2 DEF IsJoin
<1>9. PICK put : put = <<c>>
  OBVIOUS
<1>10. DecodedStep(w)[1] = 2 /\ DecodedOut(w)[1] = put
  <2>1. 1 \in 1 .. Len(w) /\ 1 < Len(w) /\ 1 + 1 = 2
    BY <1>8
  <2>2. DecodedStep(w)[1] = 2
    BY <1>8, <2>1 DEF DecodedStep
  <2>3. w[1 + 1] \in Codes /\ CharOf(w[1 + 1]) = c
    BY <1>2, <1>8, <2>1
  <2>4. DecodedOut(w)[1] = <<CharOf(w[1 + 1])>>
    BY <1>8, <2>1, <2>3 DEF DecodedOut
  <2>5. QED BY <1>9, <2>2, <2>3, <2>4
<1>11. UrlDecode(Glue(v, t)) = Glue(put, UrlDecode(t))
  BY <1>5, <1>7, <1>10, DecodePiece
<1>12. Glue(put, UrlDecode(t)) = Cons(c, UrlDecode(t))
  BY <1>9 DEF Glue, Cons
<1>13. QED BY <1>2, <1>6, <1>11, <1>12

------------------------------------------------------------------------------
(***************************************************************************)
(* Encoded, and that UrlDecode takes it back, but for plus signs.          *)
(***************************************************************************)
\* What the value of a field is in a body.
EncodedOf == [s \in Symbol |-> IF s = " " THEN <<"+">>
                               ELSE IF s \in DOMAIN CodeOf THEN <<"%", CodeOf[s]>>
                               ELSE <<s>>]

LEMMA TwoIsCons ==
    ASSUME NEW a \in Symbol, NEW b \in Symbol
    PROVE  <<a, b>> = Cons(a, Cons(b, << >>)) /\ <<a, b>> \in Text /\ Len(<<a, b>>) = 2
<1>1. PICK v : v = <<b>>
  OBVIOUS
<1>2. v = Cons(b, << >>)
  BY <1>1, OneIsCons
<1>4. v \in Text /\ Len(v) = 1 /\ v[1] = b
  BY <1>1, OneSymbol
<1>5. PICK w : w = Cons(a, v)
  OBVIOUS
<1>6. IsNext(w, a, v)
  BY <1>4, <1>5, NextIs
<1>7. w \in Text /\ Len(w) = 2 /\ w[1] = a /\ w[2] = b
  BY <1>4, <1>6 DEF IsNext
<1>8. <<a, b>> \in Seq(Symbol) /\ Len(<<a, b>>) = 2 /\ <<a, b>>[1] = a /\ <<a, b>>[2] = b
  OBVIOUS
<1>9. w = <<a, b>>
  BY <1>7, <1>8, SeqEqual DEF Text
<1>10. QED BY <1>2, <1>5, <1>7, <1>9

LEMMA EncodedOfType == EncodedOf \in [Symbol -> Text]
<1>1. \A s \in Symbol : <<"+">> \in Text /\ <<s>> \in Text
  <2>1. "+" \in Symbol
    BY DEF Symbol, Literals
  <2>2. QED BY <2>1, OneSymbol
<1>2. \A s \in DOMAIN CodeOf : <<"%", CodeOf[s]>> \in Text
  <2> TAKE s \in DOMAIN CodeOf
  <2>1. PICK d \in Symbol : d = CodeOf[s]
    BY CodesAre
  <2>2. "%" \in Symbol
    BY DEF Symbol, Literals
  <2>3. QED BY <2>1, <2>2, TwoIsCons
<1> DEFINE P(s) == IF s = " " THEN <<"+">>
                   ELSE IF s \in DOMAIN CodeOf THEN <<"%", CodeOf[s]>> ELSE <<s>>
<1>3. \A s \in Symbol : P(s) \in Text
  BY <1>1, <1>2
<1>4. EncodedOf = [s \in Symbol |-> P(s)]
  BY DEF EncodedOf
<1> HIDE DEF P
<1>5. QED BY <1>3, <1>4

LEMMA EncodedSpreads ==
    ASSUME NEW t \in Text
    PROVE  Encoded(t) = SpreadBy(EncodedOf, t)
<1>1. PICK n \in Nat : n = Len(t) /\ DOMAIN t = 1 .. n
  BY TextDomain
<1> DEFINE P(s) == IF s = " " THEN <<"+">>
                   ELSE IF s \in DOMAIN CodeOf THEN <<"%", CodeOf[s]>> ELSE <<s>>
<1>2. \A s \in Symbol : EncodedOf[s] = P(s)
  BY DEF EncodedOf
<1>3. Encoded(t) = FlattenSeq([i \in 1 .. n |-> P(t[i])])
  BY <1>1 DEF Encoded
<1> HIDE DEF P
<1>4. \A i \in 1 .. n : P(t[i]) = EncodedOf[t[i]]
  BY <1>1, <1>2, TextSymbols
<1>5. [i \in 1 .. n |-> P(t[i])] = [i \in 1 .. n |-> EncodedOf[t[i]]]
  BY <1>4
<1>6. QED BY <1>1, <1>3, <1>5 DEF SpreadBy

LEMMA EncodedNothing == Encoded(<< >>) = << >>
BY LacksNothing, EncodedSpreads, SpreadNothing

LEMMA SpreadType ==
    ASSUME NEW P \in [Symbol -> Text], NEW t \in Text
    PROVE  SpreadBy(P, t) \in Text
<1> DEFINE S == {u \in Text : SpreadBy(P, u) \in Text}
<1>1. << >> \in S
  BY LacksNothing, SpreadNothing
<1>2. ASSUME NEW s \in Symbol, NEW u \in S PROVE Cons(s, u) \in S
  <2>1. u \in Text /\ Cons(s, u) \in Text /\ P[s] \in Text /\ SpreadBy(P, u) \in Text
    BY ConsType
  <2>2. SpreadBy(P, Cons(s, u)) = Glue(P[s], SpreadBy(P, u))
    BY <2>1, SpreadNext
  <2>3. QED BY <2>1, <2>2, GlueType
<1>3. S \in SUBSET Text
  OBVIOUS
<1>4. t \in S
  <2> HIDE DEF S
  <2>1. QED BY <1>1, <1>2, <1>3, TextInduction
<1>5. QED BY <1>4

LEMMA EncodedType ==
    ASSUME NEW t \in Text
    PROVE  Encoded(t) \in Text
BY EncodedOfType, EncodedSpreads, SpreadType

LEMMA EncodedNext ==
    ASSUME NEW s \in Symbol, NEW t \in Text
    PROVE  Encoded(Cons(s, t)) =
             IF s = " " THEN Cons("+", Encoded(t))
             ELSE IF s \in Coded THEN Cons("%", Cons(CodeOf[s], Encoded(t)))
             ELSE Cons(s, Encoded(t))
<1>1. PICK e : e = Encoded(t) /\ e \in Text
  BY EncodedType
<1>2. Encoded(Cons(s, t)) = Glue(EncodedOf[s], e)
  <2>1. Cons(s, t) \in Text
    BY ConsType
  <2>2. SpreadBy(EncodedOf, Cons(s, t)) = Glue(EncodedOf[s], SpreadBy(EncodedOf, t))
    BY EncodedOfType, SpreadNext
  <2>3. QED BY <1>1, <2>1, <2>2, EncodedSpreads
<1>3. DOMAIN CodeOf = Coded
  BY CodesAre
<1>4. CASE s = " "
  <2>1. EncodedOf[s] = <<"+">>
    BY <1>4 DEF EncodedOf
  <2>2. Glue(EncodedOf[s], e) = Cons("+", e)
    BY <2>1 DEF Glue, Cons
  <2>3. QED BY <1>1, <1>2, <1>4, <2>2
<1>5. CASE s # " " /\ s \in Coded
  <2>1. PICK d \in Symbol : d = CodeOf[s]
    BY <1>5, CodesAre
  <2>2. "%" \in Symbol /\ << >> \in Text
    BY LacksNothing DEF Symbol, Literals
  <2>3. EncodedOf[s] = <<"%", d>>
    BY <1>3, <1>5, <2>1 DEF EncodedOf
  <2>4. EncodedOf[s] = Cons("%", Cons(d, << >>))
    BY <2>1, <2>2, <2>3, TwoIsCons
  <2>5. Cons(d, << >>) \in Text
    BY <2>2, ConsType
  <2>6. Glue(Cons("%", Cons(d, << >>)), e) = Cons("%", Glue(Cons(d, << >>), e))
    BY <1>1, <2>2, <2>5, GlueNext
  <2>7. Glue(Cons(d, << >>), e) = Cons(d, e)
    BY <1>1, <2>2, GlueNext, GlueNothing
  <2>8. QED BY <1>1, <1>2, <1>5, <2>1, <2>4, <2>6, <2>7
<1>6. CASE s # " " /\ s \notin Coded
  <2>1. EncodedOf[s] = <<s>>
    BY <1>3, <1>6 DEF EncodedOf
  <2>2. Glue(EncodedOf[s], e) = Cons(s, e)
    BY <2>1 DEF Glue, Cons
  <2>3. QED BY <1>1, <1>2, <1>6, <2>2
<1>7. QED BY <1>4, <1>5, <1>6

\* Nothing in it separates anything.
LEMMA EncodedLacks ==
    ASSUME NEW t \in Text
    PROVE  Lacks(Encoded(t), "&") /\ Lacks(Encoded(t), "=")
<1> DEFINE S == {u \in Text : Lacks(Encoded(u), "&") /\ Lacks(Encoded(u), "=")}
<1>1. << >> \in S
  BY LacksNothing, EncodedNothing
<1>2. ASSUME NEW s \in Symbol, NEW u \in S PROVE Cons(s, u) \in S
  <2>1. PICK e \in Text : e = Encoded(u) /\ Lacks(e, "&") /\ Lacks(e, "=")
    BY EncodedType
  <2>2. u \in Text /\ Cons(s, u) \in Text /\ "+" \in Symbol /\ "%" \in Symbol
    BY ConsType DEF Symbol, Literals
  <2>3. PICK x : x = Encoded(Cons(s, u))
    OBVIOUS
  <2>4. CASE s = " "
    <3>1. x = Cons("+", e)
      BY <2>1, <2>2, <2>3, <2>4, EncodedNext
    <3>2. Lacks(x, "&") /\ Lacks(x, "=")
      BY <2>1, <2>2, <3>1, LacksNext
    <3>3. QED BY <2>2, <2>3, <3>2
  <2>5. CASE s # " " /\ s \in Coded
    <3>1. PICK d \in Symbol : d = CodeOf[s] /\ d \notin {"&", "="}
      BY <2>5, CodesAre
    <3>2. x = Cons("%", Cons(d, e))
      BY <2>1, <2>2, <2>3, <2>5, <3>1, EncodedNext
    <3>3. PICK y \in Text : y = Cons(d, e)
      BY ConsType
    <3>4. Lacks(y, "&") /\ Lacks(y, "=")
      BY <2>1, <3>1, <3>3, LacksNext
    <3>5. Lacks(x, "&") /\ Lacks(x, "=")
      BY <2>2, <3>2, <3>3, <3>4, LacksNext
    <3>6. QED BY <2>2, <2>3, <3>5
  <2>6. CASE s # " " /\ s \notin Coded
    <3>1. x = Cons(s, e) /\ s # "&" /\ s # "="
      BY <2>1, <2>2, <2>3, <2>6, EncodedNext DEF Coded
    <3>2. Lacks(x, "&") /\ Lacks(x, "=")
      BY <2>1, <3>1, LacksNext
    <3>3. QED BY <2>2, <2>3, <3>2
  <2>7. QED BY <2>4, <2>5, <2>6
<1>3. S \in SUBSET Text
  OBVIOUS
<1>4. t \in S
  <2> HIDE DEF S
  <2>1. QED BY <1>1, <1>2, <1>3, TextInduction
<1>5. QED BY <1>4

\* With spaces for pluses.
Spaced(t) == ReplacedAll(t, <<"+">>, <<" ">>)
\* With pluses for spaces.
Plussed(t) == ReplacedAll(t, <<" ">>, <<"+">>)

LEMMA SpacedNext ==
    ASSUME NEW s \in Symbol, NEW t \in Text
    PROVE  /\ Spaced(Cons(s, t)) = Cons(IF s = "+" THEN " " ELSE s, Spaced(t))
           /\ Plussed(Cons(s, t)) = Cons(IF s = " " THEN "+" ELSE s, Plussed(t))
           /\ Softened(Cons(s, t)) = Cons(IF s = "hard" THEN " " ELSE s, Softened(t))
           /\ Spaced(t) \in Text /\ Plussed(t) \in Text /\ Softened(t) \in Text
<1>1. " " \in Symbol /\ "+" \in Symbol /\ "hard" \in Symbol
  BY DEF Symbol, Literals
<1>2. /\ <<" ">> \in Text /\ <<"+">> \in Text /\ <<"hard">> \in Text
      /\ <<" ">> # << >> /\ <<"+">> # << >> /\ <<"hard">> # << >>
  BY <1>1, OneSymbol, NotEmpty
<1>3. Spaced(t) \in Text /\ Plussed(t) \in Text /\ Softened(t) \in Text
  <2>1. PICK a, b, c : a = <<" ">> /\ b = <<"+">> /\ c = <<"hard">>
    OBVIOUS
  <2>2. ReplacedAll(t, b, a) \in Text /\ ReplacedAll(t, a, b) \in Text
        /\ ReplacedAll(t, c, a) \in Text
    BY <1>2, <2>1, ReplacedType
  <2>3. QED BY <2>1, <2>2 DEF Spaced, Plussed, Softened
<1>4. Spaced(Cons(s, t)) = Cons(IF s = "+" THEN " " ELSE s, Spaced(t))
  <2>1. PICK c, d \in Symbol : c = "+" /\ d = " "
    BY <1>1
  <2>2. PICK x : x = IF s = c THEN d ELSE s
    OBVIOUS
  <2>3. ReplacedAll(Cons(s, t), <<c>>, <<d>>) = Cons(x, ReplacedAll(t, <<c>>, <<d>>))
    BY <2>2, ReplacedOne
  <2>4. Spaced(Cons(s, t)) = Cons(x, Spaced(t))
    BY <2>1, <2>3 DEF Spaced
  <2>5. QED BY <2>1, <2>2, <2>4
<1>5. Plussed(Cons(s, t)) = Cons(IF s = " " THEN "+" ELSE s, Plussed(t))
  <2>1. PICK c, d \in Symbol : c = " " /\ d = "+"
    BY <1>1
  <2>2. PICK x : x = IF s = c THEN d ELSE s
    OBVIOUS
  <2>3. ReplacedAll(Cons(s, t), <<c>>, <<d>>) = Cons(x, ReplacedAll(t, <<c>>, <<d>>))
    BY <2>2, ReplacedOne
  <2>4. Plussed(Cons(s, t)) = Cons(x, Plussed(t))
    BY <2>1, <2>3 DEF Plussed
  <2>5. QED BY <2>1, <2>2, <2>4
<1>6. Softened(Cons(s, t)) = Cons(IF s = "hard" THEN " " ELSE s, Softened(t))
  <2>1. PICK c, d \in Symbol : c = "hard" /\ d = " "
    BY <1>1
  <2>2. PICK x : x = IF s = c THEN d ELSE s
    OBVIOUS
  <2>3. ReplacedAll(Cons(s, t), <<c>>, <<d>>) = Cons(x, ReplacedAll(t, <<c>>, <<d>>))
    BY <2>2, ReplacedOne
  <2>4. Softened(Cons(s, t)) = Cons(x, Softened(t))
    BY <2>1, <2>3 DEF Softened
  <2>5. QED BY <2>1, <2>2, <2>4
<1>7. QED BY <1>3, <1>4, <1>5, <1>6

LEMMA SpacedNothing ==
    Spaced(<< >>) = << >> /\ Plussed(<< >>) = << >> /\ Softened(<< >>) = << >>
<1>1. " " \in Symbol /\ "+" \in Symbol /\ "hard" \in Symbol
  BY DEF Symbol, Literals
<1>2. PICK a, b, c : a = <<" ">> /\ b = <<"+">> /\ c = <<"hard">>
  OBVIOUS
<1>3. a \in Text /\ b \in Text /\ c \in Text /\ a # << >> /\ b # << >> /\ c # << >>
  BY <1>1, <1>2, OneSymbol, NotEmpty
<1>4. QED BY <1>2, <1>3, ReplacedEmpty DEF Spaced, Plussed, Softened

\* What a browser encodes is decoded again, but for the spaces.
LEMMA EncodedDecodes ==
    ASSUME NEW t \in Text
    PROVE  UrlDecode(Encoded(t)) = Plussed(t) /\ UrlDecode(Spaced(Encoded(t))) = t
<1> DEFINE S == {u \in Text : /\ UrlDecode(Encoded(u)) = Plussed(u)
                              /\ UrlDecode(Spaced(Encoded(u))) = u}
<1>1. << >> \in S
  BY LacksNothing, EncodedNothing, SpacedNothing, DecodeNothing
<1>2. ASSUME NEW s \in Symbol, NEW u \in S PROVE Cons(s, u) \in S
  <2>1. PICK e \in Text : e = Encoded(u)
    BY EncodedType
  <2>2. /\ u \in Text /\ Cons(s, u) \in Text /\ "+" \in Symbol /\ "%" \in Symbol
        /\ " " \in Symbol /\ "+" # "%" /\ " " # "%"
    BY ConsType DEF Symbol, Literals
  <2>3. UrlDecode(e) = Plussed(u) /\ UrlDecode(Spaced(e)) = u /\ Spaced(e) \in Text
    BY <2>1, SpacedNext
  <2>4. PICK x : x = Encoded(Cons(s, u))
    OBVIOUS
  <2>5. CASE s = " "
    <3>1. x = Cons("+", e)
      BY <2>1, <2>2, <2>4, <2>5, EncodedNext
    <3>2. Spaced(x) = Cons(" ", Spaced(e))
      BY <2>2, <3>1, SpacedNext
    <3>3. UrlDecode(Spaced(x)) = Cons(" ", u)
      BY <2>2, <2>3, <3>2, DecodeSkip
    <3>4. UrlDecode(x) = Cons("+", Plussed(u))
      BY <2>2, <2>3, <3>1, DecodeSkip
    <3>5. Plussed(Cons(s, u)) = Cons("+", Plussed(u))
      BY <2>2, <2>5, SpacedNext
    <3>6. QED BY <2>2, <2>4, <2>5, <3>3, <3>4, <3>5
  <2>6. CASE s # " " /\ s \in Coded
    <3>1. PICK d \in Symbol : d = CodeOf[s] /\ d # "+"
      BY <2>6, CodesAre
    <3>2. x = Cons("%", Cons(d, e))
      BY <2>1, <2>2, <2>4, <2>6, <3>1, EncodedNext
    <3>3. Spaced(x) = Cons("%", Cons(d, Spaced(e)))
      <4>1. Spaced(Cons(d, e)) = Cons(d, Spaced(e)) /\ Cons(d, e) \in Text
        BY <2>1, <3>1, SpacedNext, ConsType
      <4>2. PICK y \in Text : y = Cons(d, e)
        BY <4>1
      <4>3. Spaced(Cons("%", y)) = Cons("%", Spaced(y))
        BY <2>2, <4>2, SpacedNext
      <4>4. QED BY <3>2, <4>1, <4>2, <4>3
    <3>4. UrlDecode(Spaced(x)) = Cons(s, u)
      BY <2>3, <2>6, <3>1, <3>3, DecodeCode
    <3>5. UrlDecode(x) = Cons(s, Plussed(u))
      BY <2>3, <2>6, <3>1, <3>2, DecodeCode
    <3>6. Plussed(Cons(s, u)) = Cons(s, Plussed(u))
      BY <2>2, <2>6, SpacedNext
    <3>7. QED BY <2>2, <2>4, <3>4, <3>5, <3>6
  <2>7. CASE s # " " /\ s \notin Coded
    <3>1. x = Cons(s, e) /\ s # "%" /\ s # "+"
      BY <2>1, <2>2, <2>4, <2>7, EncodedNext DEF Coded
    <3>2. Spaced(x) = Cons(s, Spaced(e))
      BY <2>2, <3>1, SpacedNext
    <3>3. UrlDecode(Spaced(x)) = Cons(s, u)
      BY <2>3, <3>1, <3>2, DecodeSkip
    <3>4. UrlDecode(x) = Cons(s, Plussed(u))
      BY <2>3, <3>1, DecodeSkip
    <3>5. Plussed(Cons(s, u)) = Cons(s, Plussed(u))
      BY <2>2, <2>7, SpacedNext
    <3>6. QED BY <2>2, <2>4, <3>3, <3>4, <3>5
  <2>8. QED BY <2>5, <2>6, <2>7
<1>3. S \in SUBSET Text
  OBVIOUS
<1>4. t \in S
  <2> HIDE DEF S
  <2>1. QED BY <1>1, <1>2, <1>3, TextInduction
<1>5. QED BY <1>4

------------------------------------------------------------------------------
(***************************************************************************)
(* Plain: what parseRequestBody still replaces after decoding.             *)
(***************************************************************************)
\* Plain.
LEMMA IsAtTwo ==
    ASSUME NEW s \in Symbol, NEW u \in Text, NEW a \in Symbol, NEW b \in Symbol
    PROVE  IsAt(Cons(s, u), 1, <<a, b>>) <=> s = a /\ u # << >> /\ u[1] = b
<1>1. PICK p : p = <<a, b>>
  OBVIOUS
<1>2. p \in Text /\ Len(p) = 2 /\ p[1] = a /\ p[2] = b
  BY <1>1, TwoIsCons
<1>3. PICK w : w = Cons(s, u)
  OBVIOUS
<1>4. PICK n \in Nat : n = Len(u)
  BY TextDomain
<1>5. w \in Text /\ Len(w) = 1 + n /\ w[1] = s /\ \A j \in 1 .. n : w[1 + j] = u[j]
  <2>1. IsNext(w, s, u)
    BY <1>3, NextIs
  <2>2. QED BY <1>4, <2>1 DEF IsNext
<1>6. 1 \in 1 .. Len(w)
  BY <1>5
<1>7. IsAt(w, 1, p) <=> /\ 1 + 2 <= (1 + n) + 1
                        /\ \A j \in 1 .. 2 : w[1 + j - 1] = p[j]
  <2>1. IsAt(w, 1, p) <=> /\ 1 + Len(p) <= Len(w) + 1
                          /\ \A j \in 1 .. Len(p) : w[1 + j - 1] = p[j]
    BY <1>2, <1>5, <1>6, IsAtIs
  <2>2. QED BY <1>2, <1>5, <2>1
<1>8. u # << >> <=> n # 0
  BY <1>4, EmptySeq DEF Text
<1>9. n # 0 => w[2] = u[1]
  <2>1. n # 0 => 1 \in 1 .. n /\ 1 + 1 = 2
    OBVIOUS
  <2>2. QED BY <1>5, <2>1
<1>10. (\A j \in 1 .. 2 : w[1 + j - 1] = p[j]) <=> w[1] = a /\ w[2] = b
  <2>1. 1 \in 1 .. 2 /\ 2 \in 1 .. 2 /\ 1 + 1 - 1 = 1 /\ 1 + 2 - 1 = 2
    OBVIOUS
  <2>2. \A j \in 1 .. 2 : j = 1 \/ j = 2
    OBVIOUS
  <2>3. QED BY <1>2, <2>1, <2>2
<1>11. 1 + 2 <= (1 + n) + 1 <=> n # 0
  OBVIOUS
<1>12. QED BY <1>1, <1>3, <1>5, <1>7, <1>8, <1>9, <1>10, <1>11

LEMMA PlussedFirst ==
    ASSUME NEW u \in Text, NEW b \in Symbol, b # "+", Plussed(u) # << >>, Plussed(u)[1] = b
    PROVE  u # << >> /\ u[1] = b
<1>1. u # << >>
  BY SpacedNothing
<1>2. PICK r \in Symbol, v \in Text : u = Cons(r, v)
  BY <1>1, NextExists
<1>0. "+" \in Symbol
  BY DEF Symbol, Literals
<1>3. PICK q \in Symbol : q = IF r = " " THEN "+" ELSE r
  <2>1. (IF r = " " THEN "+" ELSE r) \in Symbol
    BY <1>0
  <2>2. QED BY <2>1
<1>4. Plussed(u) = Cons(q, Plussed(v)) /\ Plussed(v) \in Text
  BY <1>2, <1>3, SpacedNext
<1>5. PICK w : w = Plussed(u)
  OBVIOUS
<1>6. w[1] = q
  <2>1. IsNext(w, q, Plussed(v))
    BY <1>4, <1>5, NextIs
  <2>2. QED BY <2>1 DEF IsNext
<1>7. PICK x : x = u
  OBVIOUS
<1>8. x[1] = r
  BY <1>2, <1>7, NextIs DEF IsNext
<1>9. w[1] = b
  BY <1>5
<1>10. QED BY <1>1, <1>3, <1>6, <1>7, <1>8, <1>9

LEMMA PlusIs == "+" \in Symbol
BY DEF Symbol, Literals

LEMMA PlussedHas ==
    ASSUME NEW t \in Text, NEW a \in Symbol, NEW b \in Symbol, a # "+", b # "+",
           Has(Plussed(t), <<a, b>>)
    PROVE  Has(t, <<a, b>>)
<1>0. PICK p \in Text : p = <<a, b>>
  BY TwoIsCons
<1> DEFINE S == {u \in Text : Has(Plussed(u), p) => Has(u, p)}
<1>1. << >> \in S
  BY LacksNothing, SpacedNothing
<1>2. ASSUME NEW s \in Symbol, NEW u \in S PROVE Cons(s, u) \in S
  <2>1. u \in Text /\ Cons(s, u) \in Text /\ (Has(Plussed(u), p) => Has(u, p))
    BY ConsType
  <2>2. PICK q \in Symbol : q = IF s = " " THEN "+" ELSE s
    BY PlusIs
  <2>3. Plussed(Cons(s, u)) = Cons(q, Plussed(u)) /\ Plussed(u) \in Text
    BY <2>1, <2>2, SpacedNext
  <2>4. Has(Cons(q, Plussed(u)), p) <=> IsAt(Cons(q, Plussed(u)), 1, p) \/ Has(Plussed(u), p)
    BY <2>3, HasNext
  <2>5. Has(Cons(s, u), p) <=> IsAt(Cons(s, u), 1, p) \/ Has(u, p)
    BY <2>1, HasNext
  <2>6. IsAt(Cons(q, Plussed(u)), 1, p) => IsAt(Cons(s, u), 1, p)
    <3> SUFFICES ASSUME IsAt(Cons(q, Plussed(u)), 1, p) PROVE IsAt(Cons(s, u), 1, p)
      OBVIOUS
    <3>1. q = a /\ Plussed(u) # << >> /\ Plussed(u)[1] = b
      BY <1>0, <2>3, IsAtTwo
    <3>2. u # << >> /\ u[1] = b
      BY <2>1, <3>1, PlussedFirst
    <3>3. s = a
      BY <2>2, <3>1
    <3>4. QED BY <1>0, <2>1, <3>2, <3>3, IsAtTwo
  <2>7. QED BY <2>1, <2>3, <2>4, <2>5, <2>6
<1>3. S \in SUBSET Text
  OBVIOUS
<1>4. t \in S
  <2> HIDE DEF S
  <2>1. QED BY <1>1, <1>2, <1>3, TextInduction
<1>5. QED BY <1>0, <1>4

LEMMA SpacedPlussed ==
    ASSUME NEW t \in Text, Lacks(t, "+")
    PROVE  Spaced(Plussed(t)) = t
<1> DEFINE S == {u \in Text : Lacks(u, "+") => Spaced(Plussed(u)) = u}
<1>1. << >> \in S
  BY LacksNothing, SpacedNothing
<1>2. ASSUME NEW s \in Symbol, NEW u \in S PROVE Cons(s, u) \in S
  <2>1. u \in Text /\ Cons(s, u) \in Text
    BY ConsType
  <2>2. SUFFICES ASSUME Lacks(Cons(s, u), "+")
                 PROVE  Spaced(Plussed(Cons(s, u))) = Cons(s, u)
    BY <2>1
  <2>3. s # "+" /\ Lacks(u, "+")
    BY <2>1, <2>2, LacksNext
  <2>4. PICK q \in Symbol : q = IF s = " " THEN "+" ELSE s
    BY PlusIs
  <2>5. Plussed(Cons(s, u)) = Cons(q, Plussed(u)) /\ Plussed(u) \in Text
    BY <2>1, <2>4, SpacedNext
  <2>6. Spaced(Cons(q, Plussed(u))) = Cons(IF q = "+" THEN " " ELSE q, Spaced(Plussed(u)))
    BY <2>5, SpacedNext
  <2>7. s = IF q = "+" THEN " " ELSE q
    BY <2>3, <2>4
  <2>8. Spaced(Plussed(u)) = u
    BY <2>3
  <2>9. QED BY <2>5, <2>6, <2>7, <2>8
<1>3. S \in SUBSET Text
  OBVIOUS
<1>4. t \in S
  <2> HIDE DEF S
  <2>1. QED BY <1>1, <1>2, <1>3, TextInduction
<1>5. QED BY <1>4

SlashCode == <<"%", "2F">>
LEMMA SlashCodeIs ==
    /\ SlashCode \in Text /\ SlashCode # << >> /\ Len(SlashCode) = 2
    /\ "%" \in Symbol /\ "2F" \in Symbol /\ "/" \in Symbol /\ <<"/">> \in Text
<1>1. "%" \in Symbol /\ "2F" \in Symbol /\ "/" \in Symbol
  BY DEF Symbol, Literals
<1>2. SlashCode \in Text /\ Len(SlashCode) = 2
  BY <1>1, TwoIsCons DEF SlashCode
<1>3. SlashCode # << >>
  BY <1>2, LacksNothing
<1>4. QED BY <1>1, <1>2, <1>3, OneSymbol

LEMMA PlainDef ==
    \A t : /\ Plain(t) = Spaced(ReplacedFirst(t, SlashCode, <<"/">>))
           /\ ~Has(t, SlashCode) => Plain(t) = Spaced(t)
BY DEF Plain, Spaced, SlashCode, ReplacedFirst

\* What users type comes back from the body, unless it has what decoding takes
\* for something else.
LEMMA PlainEncoded ==
    ASSUME NEW t \in Text, Lacks(t, "+"), ~Has(t, SlashCode)
    PROVE  Plain(UrlDecode(Encoded(t))) = t
<1>1. UrlDecode(Encoded(t)) = Plussed(t)
  BY EncodedDecodes
<1>2. ~Has(Plussed(t), SlashCode)
  BY SlashCodeIs, PlussedHas DEF SlashCode
<1>3. QED BY <1>1, <1>2, PlainDef, SpacedPlussed

LEMMA PlainType ==
    ASSUME NEW t \in Text
    PROVE  Plain(t) \in Text
<1>1. ASSUME NEW u \in Text PROVE Spaced(u) \in Text
  BY <1>1, SlashCodeIs, SpacedNext
<1>2. CASE ~Has(t, SlashCode)
  BY <1>1, <1>2, PlainDef
<1>3. CASE Has(t, SlashCode)
  <2>1. PICK n \in Nat : n = Len(t) /\ DOMAIN t = 1 .. n
    BY TextDomain
  <2>2. PICK T : T = {i \in 1 .. n : IsAt(t, i, SlashCode)}
    OBVIOUS
  <2>3. T # {} /\ T \in SUBSET Nat
    BY <1>3, <2>1, <2>2 DEF Has
  <2>4. PICK m \in T : \A i \in T : m <= i
    BY <2>3, Minimum
  <2>5. \A j \in 1 .. m - 1 : ~IsAt(t, j, SlashCode)
    <3>1. m \in 1 .. n
      BY <2>2
    <3> TAKE j \in 1 .. m - 1
    <3>2. j \in 1 .. n /\ ~(m <= j)
      BY <3>1
    <3>3. QED BY <2>2, <2>4, <3>2
  <2>6. PICK f : f = FirstAt(t, SlashCode)
    OBVIOUS
  <2>7. f \in 1 .. n /\ IsAt(t, f, SlashCode)
    BY <2>1, <2>2, <2>4, <2>5, <2>6 DEF FirstAt
  <2>8. f + 2 <= n + 1
    BY <2>1, <2>7, SlashCodeIs DEF IsAt
  <2>9. \A i \in 1 .. n : t[i] \in Symbol
    BY <2>1, TextSymbols
  <2>10. SubSeq(t, 1, f - 1) \in Text
    <3>1. 1 \in Int /\ f - 1 \in Int /\ \A i \in 1 .. f - 1 : t[i] \in Symbol
      BY <2>7, <2>9
    <3>2. QED BY <3>1, SubSeqProperties DEF Text
  <2>11. SubSeq(t, f + 2, n) \in Text
    <3>1. f + 2 \in Int /\ n \in Int /\ \A i \in f + 2 .. n : t[i] \in Symbol
      BY <2>7, <2>9
    <3>2. QED BY <3>1, SubSeqProperties DEF Text
  <2>12. ReplacedFirst(t, SlashCode, <<"/">>)
           = (SubSeq(t, 1, f - 1) \o <<"/">>) \o SubSeq(t, f + 2, n)
    BY <1>3, <2>1, <2>6, SlashCodeIs DEF ReplacedFirst, After
  <2>13. PICK a, b, c \in Text : a = SubSeq(t, 1, f - 1) /\ b = <<"/">> /\ c = SubSeq(t, f + 2, n)
    BY <2>10, <2>11, SlashCodeIs
  <2>14. (a \o b) \o c \in Text
    <3>1. Glue(a, b) \in Text
      BY GlueType
    <3>2. Glue(Glue(a, b), c) \in Text
      BY <3>1, GlueType
    <3>3. QED BY <3>2 DEF Glue
  <2>15. QED BY <1>1, <2>12, <2>13, <2>14, PlainDef
<1>4. QED BY <1>2, <1>3

LEMMA SpacedKeeps ==
    ASSUME NEW t \in Text, Lacks(t, "+")
    PROVE  Spaced(t) = t
<1>1. "+" \in Symbol /\ " " \in Symbol
  BY DEF Symbol, Literals
<1>2. PICK a, b : a = <<"+">> /\ b = <<" ">>
  OBVIOUS
<1>3. a \in Text /\ b \in Text /\ a # << >>
  BY <1>1, <1>2, OneSymbol, NotEmpty
<1>4. ~Has(t, a)
  BY <1>2, HasNone
<1>5. QED BY <1>2, <1>3, <1>4, ReplacedKeeps DEF Spaced

LEMMA DecodeKeeps ==
    ASSUME NEW t \in Text, Lacks(t, "%")
    PROVE  UrlDecode(t) = t
<1> DEFINE S == {u \in Text : Lacks(u, "%") => UrlDecode(u) = u}
<1>1. << >> \in S
  BY LacksNothing, DecodeNothing
<1>2. ASSUME NEW s \in Symbol, NEW u \in S PROVE Cons(s, u) \in S
  <2>1. u \in Text /\ Cons(s, u) \in Text
    BY ConsType
  <2>2. SUFFICES ASSUME Lacks(Cons(s, u), "%")
                 PROVE  UrlDecode(Cons(s, u)) = Cons(s, u)
    BY <2>1
  <2>3. s # "%" /\ Lacks(u, "%")
    BY <2>1, <2>2, LacksNext
  <2>4. QED BY <2>1, <2>3, DecodeSkip
<1>3. S \in SUBSET Text
  OBVIOUS
<1>4. t \in S
  <2> HIDE DEF S
  <2>1. QED BY <1>1, <1>2, <1>3, TextInduction
<1>5. QED BY <1>4

\* What has nothing of a body in it is what it is.
LEMMA PlainBare ==
    ASSUME NEW t \in Text, Bare(t)
    PROVE  Plain(UrlDecode(t)) = t
<1>1. Lacks(t, "%") /\ Lacks(t, "+")
  BY TextDomain DEF Bare, Lacks
<1>2. ~Has(t, SlashCode)
  <2> DEFINE S == {u \in Text : Lacks(u, "%") => ~Has(u, SlashCode)}
  <2>1. << >> \in S
    BY LacksNothing DEF Has
  <2>2. ASSUME NEW s \in Symbol, NEW u \in S PROVE Cons(s, u) \in S
    <3>1. u \in Text /\ Cons(s, u) \in Text
      BY ConsType
    <3>2. SUFFICES ASSUME Lacks(Cons(s, u), "%")
                   PROVE  ~Has(Cons(s, u), SlashCode)
      BY <3>1
    <3>3. s # "%" /\ Lacks(u, "%")
      BY <3>1, <3>2, LacksNext
    <3>4. ~IsAt(Cons(s, u), 1, SlashCode)
      BY <3>1, <3>3, SlashCodeIs, IsAtTwo DEF SlashCode
    <3>5. QED BY <3>1, <3>3, <3>4, SlashCodeIs, HasNext
  <2>3. S \in SUBSET Text
    OBVIOUS
  <2>4. t \in S
    <3> HIDE DEF S
    <3>1. QED BY <2>1, <2>2, <2>3, TextInduction
  <2>5. QED BY <1>1, <2>4
<1>3. QED BY <1>1, <1>2, DecodeKeeps, PlainDef, SpacedKeeps

------------------------------------------------------------------------------
(***************************************************************************)
(* HtmlEncode, as a text for each symbol.                                  *)
(***************************************************************************)
\* Entities.
Written3 == {"&", "\"", "<", " "}
Names == {"amp", "quot", "lt", "nbsp"}

LEMMA EntitiesAre ==
    /\ DOMAIN EntityOf = Written3 /\ Written3 \subseteq Symbol /\ Names \subseteq Symbol
    /\ Range(Entities) = Names
    /\ \A c \in Written3 : EntityOf[c] \in Names /\ Meaning(EntityOf[c]) = c
    /\ \A c, d \in Written3 : EntityOf[c] = EntityOf[d] => c = d
    /\ \A c \in Written3 : EntityOf[c] = "nbsp" <=> c = " "
    /\ EntityOf["&"] = "amp" /\ EntityOf["\""] = "quot"
    /\ EntityOf["<"] = "lt" /\ EntityOf[" "] = "nbsp"
    /\ "&" \notin Names /\ ";" \notin Names /\ "&" \in Symbol /\ ";" \in Symbol /\ ";" # "&"
<1>1. DOMAIN EntityOf = Written3 /\ Written3 \subseteq Symbol /\ Names \subseteq Symbol
  BY DEF EntityOf, Written3, Names, Symbol, Literals
<1>2. \A c \in Written3 : \/ (c = "&" /\ EntityOf[c] = "amp")
                          \/ (c = "\"" /\ EntityOf[c] = "quot")
                          \/ (c = "<" /\ EntityOf[c] = "lt")
                          \/ (c = " " /\ EntityOf[c] = "nbsp")
  <2> TAKE c \in Written3
  <2>1. c = "&" => EntityOf[c] = "amp"
    BY DEF EntityOf
  <2>2. c = "\"" => EntityOf[c] = "quot"
    BY DEF EntityOf
  <2>3. c = "<" => EntityOf[c] = "lt"
    BY DEF EntityOf
  <2>4. c = " " => EntityOf[c] = "nbsp"
    BY DEF EntityOf
  <2>5. c = "&" \/ c = "\"" \/ c = "<" \/ c = " "
    BY DEF Written3
  <2>6. QED BY <2>1, <2>2, <2>3, <2>4, <2>5
<1>3. Range(Entities) = Names
  BY DEF Range, Entities, Names
<1>4. \A c \in Written3 : EntityOf[c] \in Names
  BY <1>2 DEF Names
<1>5. \A c, d \in Written3 : EntityOf[c] = EntityOf[d] => c = d
  <2> TAKE c, d \in Written3
  <2>1. PICK x, y : x = EntityOf[c] /\ y = EntityOf[d]
    OBVIOUS
  <2>2. x = y => c = d
    BY <1>2, <2>1
  <2>3. QED BY <2>1, <2>2
<1>6. \A c \in Written3 : EntityOf[c] = "nbsp" <=> c = " "
  <2> TAKE c \in Written3
  <2>1. PICK x : x = EntityOf[c]
    OBVIOUS
  <2>2. x = "nbsp" <=> c = " "
    BY <1>2, <2>1
  <2>3. QED BY <2>1, <2>2
<1>7. \A c \in Written3 : Meaning(EntityOf[c]) = c
  <2> TAKE c \in Written3
  <2>1. PICK x : x = EntityOf[c]
    OBVIOUS
  <2>2. PICK d : d = Meaning(x)
    OBVIOUS
  <2>3. d \in Written3 /\ EntityOf[d] = x
    BY <1>1, <2>1, <2>2 DEF Meaning
  <2>4. QED BY <1>5, <2>1, <2>2, <2>3
<1>8. /\ EntityOf["&"] = "amp" /\ EntityOf["\""] = "quot"
      /\ EntityOf["<"] = "lt" /\ EntityOf[" "] = "nbsp"
  BY DEF EntityOf
<1>9. "&" \notin Names /\ ";" \notin Names /\ "&" \in Symbol /\ ";" \in Symbol /\ ";" # "&"
  BY DEF Names, Symbol, Literals
<1>10. QED BY <1>1, <1>3, <1>4, <1>5, <1>6, <1>7, <1>8, <1>9

LEMMA WrittenIs ==
    ASSUME NEW e \in Symbol
    PROVE  /\ Written(e) \in Text /\ Written(e) # << >> /\ Len(Written(e)) = 3
           /\ Written(e)[1] = "&" /\ Written(e)[2] = e /\ Written(e)[3] = ";"
           /\ \A t \in Text : Glue(Written(e), t) = Cons("&", Cons(e, Cons(";", t)))
<1>1. PICK a, c \in Symbol, o \in Text :
           a = "&" /\ c = ";" /\ o = << >> /\ Len(o) = 0
  BY LacksNothing DEF Symbol, Literals
<1>2. PICK x : x = Cons(c, o)
  OBVIOUS
<1>3. IsNext(x, c, o)
  BY <1>2, NextIs
<1>4. x \in Text /\ Len(x) = 1 /\ x[1] = c
  <2>1. x \in Text /\ Len(x) = 1 + Len(o) /\ x[1] = c
    BY <1>3 DEF IsNext
  <2>2. Len(x) = 1 + 0
    BY <1>1, <2>1
  <2>3. QED BY <2>1, <2>2
<1>5. PICK y : y = Cons(e, x)
  OBVIOUS
<1>6. IsNext(y, e, x)
  BY <1>4, <1>5, NextIs
<1>7. y \in Text /\ Len(y) = 2 /\ y[1] = e /\ y[2] = c
  <2>1. 1 \in 1 .. 1 /\ 1 + 1 = 2
    OBVIOUS
  <2>2. y \in Text /\ y[1] = e /\ Len(y) = 1 + 1 /\ y[1 + 1] = x[1]
    BY <1>4, <1>6, <2>1 DEF IsNext
  <2>3. QED BY <1>4, <2>1, <2>2
<1>8. PICK z : z = Cons(a, y)
  OBVIOUS
<1>9. IsNext(z, a, y)
  BY <1>7, <1>8, NextIs
<1>10. z \in Text /\ Len(z) = 3 /\ z[1] = a /\ z[2] = e /\ z[3] = c /\ z # << >>
  <2>1. 1 \in 1 .. 2 /\ 2 \in 1 .. 2 /\ 1 + 1 = 2 /\ 1 + 2 = 3
    OBVIOUS
  <2>2. /\ z \in Text /\ z # << >> /\ z[1] = a /\ Len(z) = 1 + 2
        /\ z[1 + 1] = y[1] /\ z[1 + 2] = y[2]
    BY <1>7, <1>9, <2>1 DEF IsNext
  <2>3. QED BY <1>7, <2>1, <2>2
<1>11. z = Written(e)
  <2>1. PICK q : q = <<a, e, c>>
    OBVIOUS
  <2>2. q \in Seq(Symbol) /\ Len(q) = 3 /\ q[1] = a /\ q[2] = e /\ q[3] = c
    BY <2>1
  <2>3. z \in Seq(Symbol) /\ Len(z) = Len(q) /\ \A i \in 1 .. Len(z) : z[i] = q[i]
    <3>1. \A i \in 1 .. 3 : i = 1 \/ i = 2 \/ i = 3
      OBVIOUS
    <3>2. QED BY <1>10, <2>2, <3>1 DEF Text
  <2>4. z = q
    BY <2>2, <2>3, SeqEqual
  <2>5. QED BY <1>1, <2>1, <2>4 DEF Written
<1>12. ASSUME NEW t \in Text PROVE Glue(z, t) = Cons(a, Cons(e, Cons(c, t)))
  <2>1. Glue(x, t) = Cons(c, t)
    <3>1. Glue(Cons(c, o), t) = Cons(c, Glue(o, t))
      BY GlueNext
    <3>2. Glue(o, t) = t
      BY <1>1, GlueNothing
    <3>3. QED BY <1>2, <3>1, <3>2
  <2>2. Glue(y, t) = Cons(e, Glue(x, t))
    BY <1>4, <1>5, GlueNext
  <2>3. Glue(z, t) = Cons(a, Glue(y, t))
    BY <1>7, <1>8, GlueNext
  <2>4. QED BY <2>1, <2>2, <2>3
<1>13. \A t \in Text : Glue(Written(e), t) = Cons("&", Cons(e, Cons(";", t)))
  BY <1>1, <1>11, <1>12
<1>14. QED BY <1>1, <1>10, <1>11, <1>13

\* Where an entity stands, its name does.
LEMMA WrittenAt ==
    ASSUME NEW s \in Symbol, NEW u \in Text, NEW e \in Symbol,
           IsAt(Cons(s, u), 1, Written(e))
    PROVE  s = "&" /\ u # << >> /\ u[1] = e
<1>1. PICK p : p = Written(e)
  OBVIOUS
<1>2. p \in Text /\ Len(p) = 3 /\ p[1] = "&" /\ p[2] = e
  BY <1>1, WrittenIs
<1>3. PICK w : w = Cons(s, u)
  OBVIOUS
<1>4. IsNext(w, s, u)
  BY <1>3, NextIs
<1>5. PICK n \in Nat : n = Len(u)
  BY TextDomain
<1>6. w \in Text /\ Len(w) = 1 + n /\ w[1] = s /\ \A j \in 1 .. n : w[1 + j] = u[j]
  BY <1>4, <1>5 DEF IsNext
<1>7. 1 \in 1 .. Len(w)
  BY <1>6
<1>8. 1 + Len(p) <= Len(w) + 1 /\ \A j \in 1 .. Len(p) : w[1 + j - 1] = p[j]
  BY <1>1, <1>2, <1>3, <1>6, <1>7, IsAtIs
<1>9. 1 + 3 <= (1 + n) + 1 /\ w[1] = p[1] /\ w[2] = p[2]
  <2>1. 1 \in 1 .. 3 /\ 2 \in 1 .. 3 /\ 1 + 1 - 1 = 1 /\ 1 + 2 - 1 = 2
    OBVIOUS
  <2>2. QED BY <1>2, <1>6, <1>8, <2>1
<1>10. n # 0 /\ 1 \in 1 .. n /\ 1 + 1 = 2
  BY <1>9
<1>11. u # << >>
  BY <1>5, <1>10, LacksNothing
<1>12. w[2] = u[1]
  BY <1>6, <1>10
<1>13. QED BY <1>2, <1>6, <1>9, <1>11, <1>12

------------------------------------------------------------------------------
\* HtmlEncode, for some of the symbols that have an entity.
EncOf(K) == [s \in Symbol |-> IF s \in K THEN Written(EntityOf[s]) ELSE <<s>>]
Enc(K, t) == SpreadBy(EncOf(K), t)

LEMMA EncOfType ==
    ASSUME NEW K \in SUBSET Written3
    PROVE  EncOf(K) \in [Symbol -> Text]
<1> DEFINE P(s) == IF s \in K THEN Written(EntityOf[s]) ELSE <<s>>
<1>1. \A s \in Symbol : P(s) \in Text
  <2> TAKE s \in Symbol
  <2>1. s \in K => Written(EntityOf[s]) \in Text
    <3> SUFFICES ASSUME s \in K PROVE Written(EntityOf[s]) \in Text
      OBVIOUS
    <3>1. PICK e \in Symbol : e = EntityOf[s]
      BY EntitiesAre
    <3>2. QED BY <3>1, WrittenIs
  <2>2. <<s>> \in Text
    BY OneSymbol
  <2>3. QED BY <2>1, <2>2
<1>2. EncOf(K) = [s \in Symbol |-> P(s)]
  BY DEF EncOf
<1> HIDE DEF P
<1>3. QED BY <1>1, <1>2

LEMMA EncNext ==
    ASSUME NEW K \in SUBSET Written3, NEW s \in Symbol, NEW t \in Text
    PROVE  /\ Enc(K, t) \in Text
           /\ s \in K => /\ EntityOf[s] \in Names
                         /\ Enc(K, Cons(s, t))
                              = Cons("&", Cons(EntityOf[s], Cons(";", Enc(K, t))))
                         /\ Enc(K, Cons(s, t)) = Glue(Written(EntityOf[s]), Enc(K, t))
           /\ s \notin K => Enc(K, Cons(s, t)) = Cons(s, Enc(K, t))
<1>1. PICK u \in Text : u = Enc(K, t)
  BY EncOfType, SpreadType DEF Enc
<1>2. Enc(K, Cons(s, t)) = Glue(EncOf(K)[s], u)
  BY <1>1, EncOfType, SpreadNext DEF Enc
<1>3. CASE s \in K
  <2>1. PICK e \in Names : e = EntityOf[s]
    BY <1>3, EntitiesAre
  <2>2. e \in Symbol
    BY EntitiesAre
  <2>3. EncOf(K)[s] = Written(e)
    BY <1>3, <2>1 DEF EncOf
  <2>4. Glue(Written(e), u) = Cons("&", Cons(e, Cons(";", u)))
    BY <2>2, WrittenIs
  <2>5. QED BY <1>1, <1>2, <1>3, <2>1, <2>3, <2>4
<1>4. CASE s \notin K
  <2>1. EncOf(K)[s] = <<s>>
    BY <1>4 DEF EncOf
  <2>2. Glue(EncOf(K)[s], u) = Cons(s, u)
    BY <2>1 DEF Glue, Cons
  <2>3. QED BY <1>1, <1>2, <1>4, <2>2
<1>5. QED BY <1>3, <1>4

LEMMA EncNothing == \A K : Enc(K, << >>) = << >>
BY SpreadNothing DEF Enc

LEMMA HtmlEncodeIs ==
    ASSUME NEW t \in Text
    PROVE  HtmlEncode(t) = Enc(Written3, t)
<1>1. PICK n \in Nat : n = Len(t) /\ DOMAIN t = 1 .. n
  BY TextDomain
<1>2. DOMAIN EntityOf = Written3
  BY EntitiesAre
<1> DEFINE P(s) == IF s \in Written3 THEN Written(EntityOf[s]) ELSE <<s>>
<1>3. \A s \in Symbol : EncOf(Written3)[s] = P(s)
  BY DEF EncOf
<1>4. HtmlEncode(t) = FlattenSeq([i \in 1 .. n |-> P(t[i])])
  BY <1>1, <1>2 DEF HtmlEncode
<1> HIDE DEF P
<1>5. \A i \in 1 .. n : P(t[i]) = EncOf(Written3)[t[i]]
  BY <1>1, <1>3, TextSymbols
<1>6. [i \in 1 .. n |-> P(t[i])] = [i \in 1 .. n |-> EncOf(Written3)[t[i]]]
  BY <1>5
<1>7. QED BY <1>1, <1>4, <1>6 DEF Enc, SpreadBy

LEMMA EncNone ==
    ASSUME NEW t \in Text
    PROVE  Enc({}, t) = t
<1> DEFINE S == {u \in Text : Enc({}, u) = u}
<1>1. << >> \in S
  BY LacksNothing, EncNothing
<1>2. ASSUME NEW s \in Symbol, NEW u \in S PROVE Cons(s, u) \in S
  <2>1. u \in Text /\ Cons(s, u) \in Text /\ {} \in SUBSET Written3 /\ s \notin {}
    BY ConsType
  <2>2. Enc({}, Cons(s, u)) = Cons(s, Enc({}, u))
    BY <2>1, EncNext
  <2>3. QED BY <2>1, <2>2
<1>3. S \in SUBSET Text
  OBVIOUS
<1>4. t \in S
  <2> HIDE DEF S
  <2>1. QED BY <1>1, <1>2, <1>3, TextInduction
<1>5. QED BY <1>4

\* The first symbol is an ampersand or what it was.
LEMMA EncFirst ==
    ASSUME NEW K \in SUBSET Written3, NEW u \in Text, NEW e \in Names,
           Enc(K, u) # << >>, Enc(K, u)[1] = e
    PROVE  u # << >> /\ u[1] = e
<1>1. u # << >>
  BY EncNothing
<1>2. PICK r \in Symbol, v \in Text : u = Cons(r, v)
  BY <1>1, NextExists
<1>3. PICK w : w = Enc(K, u)
  OBVIOUS
<1>4. PICK x \in Text : x = Enc(K, v)
  BY <1>2, EncNext
<1>5. r \notin K
  <2> SUFFICES ASSUME r \in K PROVE FALSE
    OBVIOUS
  <2>1. PICK d \in Symbol : d = EntityOf[r]
    BY EntitiesAre
  <2>2. w = Cons("&", Cons(d, Cons(";", x)))
    BY <1>2, <1>3, <1>4, <2>1, EncNext
  <2>3. Cons(d, Cons(";", x)) \in Text
    BY <2>1, EntitiesAre, ConsType
  <2>4. w[1] = "&"
    <3>1. PICK y \in Text : y = Cons(d, Cons(";", x))
      BY <2>3
    <3>2. IsNext(w, "&", y)
      BY <2>2, <3>1, EntitiesAre, NextIs
    <3>3. QED BY <3>2 DEF IsNext
  <2>5. QED BY <1>3, <2>4, EntitiesAre
<1>6. w = Cons(r, x)
  BY <1>2, <1>3, <1>4, <1>5, EncNext
<1>7. IsNext(w, r, x)
  BY <1>6, NextIs
<1>8. IsNext(u, r, v)
  BY <1>2, NextIs
<1>9. QED BY <1>1, <1>3, <1>7, <1>8 DEF IsNext

LEMMA NamesNext ==
    ASSUME NEW s \in Symbol, NEW u \in Text
    PROVE  NamesEntity(Cons(s, u)) <=> \/ s = "&" /\ u # << >> /\ u[1] \in Names
                                       \/ NamesEntity(u)
<1>1. PICK w : w = Cons(s, u)
  OBVIOUS
<1>2. IsNext(w, s, u)
  BY <1>1, NextIs
<1>3. PICK n \in Nat : n = Len(u)
  BY TextDomain
<1>4. /\ DOMAIN w = 1 .. 1 + n /\ Len(w) = 1 + n /\ DOMAIN u = 1 .. n
      /\ w[1] = s /\ \A j \in 1 .. n : w[1 + j] = u[j]
  BY <1>2, <1>3 DEF IsNext
<1>5. u # << >> <=> n # 0
  BY <1>3, EmptySeq DEF Text
<1>6. NamesEntity(w) <=> \E i \in 1 .. 1 + n : /\ i < 1 + n /\ w[i] = "&"
                                               /\ w[i + 1] \in Names
  BY <1>4, EntitiesAre DEF NamesEntity
<1>7. NamesEntity(u) <=> \E i \in 1 .. n : i < n /\ u[i] = "&" /\ u[i + 1] \in Names
  BY <1>3, <1>4, EntitiesAre DEF NamesEntity
<1>8. ASSUME NEW i \in 1 .. 1 + n, i < 1 + n, w[i] = "&", w[i + 1] \in Names
      PROVE  (s = "&" /\ n # 0 /\ u[1] \in Names) \/ NamesEntity(u)
  <2>1. CASE i = 1
    <3>1. n # 0 /\ 1 \in 1 .. n /\ w[1 + 1] = u[1]
      BY <1>4, <1>8, <2>1
    <3>2. QED BY <1>4, <1>8, <2>1, <3>1
  <2>2. CASE i # 1
    <3>1. PICK j \in 1 .. n : i = 1 + j
      <4>1. i - 1 \in 1 .. n /\ i = 1 + (i - 1)
        BY <2>2
      <4>2. QED BY <4>1
    <3>2. j < n /\ j + 1 \in 1 .. n /\ i + 1 = 1 + (j + 1)
      BY <1>8, <3>1
    <3>3. u[j] = "&" /\ u[j + 1] \in Names
      BY <1>4, <1>8, <3>1, <3>2
    <3>4. QED BY <1>7, <3>2, <3>3
  <2>3. QED BY <2>1, <2>2
<1>9. ASSUME s = "&", n # 0, u[1] \in Names PROVE NamesEntity(w)
  <2>1. 1 \in 1 .. 1 + n /\ 1 < 1 + n /\ 1 \in 1 .. n
    BY <1>9
  <2>2. w[1] = "&" /\ w[1 + 1] \in Names
    BY <1>4, <1>9, <2>1
  <2>3. QED BY <1>6, <2>1, <2>2
<1>10. ASSUME NEW i \in 1 .. n, i < n, u[i] = "&", u[i + 1] \in Names PROVE NamesEntity(w)
  <2>1. /\ 1 + i \in 1 .. 1 + n /\ 1 + i < 1 + n /\ i + 1 \in 1 .. n
        /\ (1 + i) + 1 = 1 + (i + 1)
    BY <1>10
  <2>2. w[1 + i] = "&" /\ w[(1 + i) + 1] \in Names
    BY <1>4, <1>10, <2>1
  <2>3. QED BY <1>6, <2>1, <2>2
<1>11. QED BY <1>1, <1>5, <1>6, <1>7, <1>8, <1>9, <1>10

------------------------------------------------------------------------------
(***************************************************************************)
(* HtmlDecode, and that it takes HtmlEncode back.                          *)
(***************************************************************************)
\* One entity is decoded, in a text that names none by itself.
LEMMA EncLess ==
    ASSUME NEW K \in SUBSET Written3, NEW c \in Written3, NEW t \in Text, ~NamesEntity(t)
    PROVE  ReplacedAll(Enc(K, t), Written(EntityOf[c]), <<c>>) = Enc(K \ {c}, t)
<1>1. PICK e \in Names : e = EntityOf[c]
  BY EntitiesAre
<1>2. PICK p : p = Written(e)
  OBVIOUS
<1>3. PICK by : by = <<c>>
  OBVIOUS
<1>4. c \in Symbol /\ e \in Symbol /\ "&" \in Symbol /\ ";" \in Symbol
  BY EntitiesAre
<1>5. p \in Text /\ p # << >> /\ by \in Text
  BY <1>2, <1>3, <1>4, WrittenIs, OneSymbol
<1>6. \A u \in Text : Glue(by, u) = Cons(c, u)
  BY <1>3 DEF Glue, Cons
<1>7. PICK L \in SUBSET Written3 : L = K \ {c}
  OBVIOUS
<1> DEFINE S == {u \in Text : ~NamesEntity(u) => ReplacedAll(Enc(K, u), p, by) = Enc(L, u)}
<1>8. << >> \in S
  BY <1>5, LacksNothing, EncNothing, ReplacedEmpty
<1>9. ASSUME NEW s \in Symbol, NEW u \in S PROVE Cons(s, u) \in S
  <2>1. u \in Text /\ Cons(s, u) \in Text
    BY ConsType
  <2>2. SUFFICES ASSUME ~NamesEntity(Cons(s, u))
                 PROVE  ReplacedAll(Enc(K, Cons(s, u)), p, by) = Enc(L, Cons(s, u))
    BY <2>1
  <2>3. ~NamesEntity(u) /\ ~(s = "&" /\ u # << >> /\ u[1] \in Names)
    BY <2>1, <2>2, NamesNext
  <2>4. PICK x \in Text : x = Enc(K, u)
    BY <2>1, EncNext
  <2>5. PICK y \in Text : y = Enc(L, u)
    BY <2>1, EncNext
  <2>6. ReplacedAll(x, p, by) = y
    BY <2>1, <2>3, <2>4, <2>5
  <2>7. CASE s \in K /\ s = c
    <3>1. Enc(K, Cons(s, u)) = Glue(p, x)
      BY <1>1, <1>2, <2>1, <2>4, <2>7, EncNext
    <3>2. ReplacedAll(Glue(p, x), p, by) = Glue(by, y)
      BY <1>5, <2>4, <2>6, ReplacedHit
    <3>3. Enc(L, Cons(s, u)) = Cons(s, y)
      BY <1>7, <2>1, <2>5, <2>7, EncNext
    <3>4. QED BY <1>6, <2>5, <2>7, <3>1, <3>2, <3>3
  <2>8. CASE s \in K /\ s # c
    <3>1. PICK d \in Names : d = EntityOf[s]
      BY <2>8, EntitiesAre
    <3>2. d \in Symbol /\ d # e
      BY <1>1, <2>8, <3>1, EntitiesAre
    <3>3. PICK z \in Text : z = Cons(";", x)
      BY <1>4, ConsType
    <3>4. PICK v \in Text : v = Cons(d, z)
      BY <3>2, ConsType
    <3>0. PICK a, semi \in Symbol : a = "&" /\ semi = ";"
      BY <1>4
    <3>5. Enc(K, Cons(s, u)) = Cons(a, v)
      <4>1. Enc(K, Cons(s, u)) = Cons("&", Cons(EntityOf[s], Cons(";", Enc(K, u))))
        BY <2>1, <2>8, EncNext
      <4>2. Enc(K, Cons(s, u)) = Cons("&", Cons(d, Cons(";", x)))
        BY <2>4, <3>1, <4>1
      <4>3. QED BY <3>0, <3>3, <3>4, <4>2
    <3>6. Enc(L, Cons(s, u)) = Cons(a, Cons(d, Cons(semi, y)))
      <4>1. Enc(L, Cons(s, u)) = Cons("&", Cons(EntityOf[s], Cons(";", Enc(L, u))))
        BY <1>7, <2>1, <2>8, EncNext
      <4>2. QED BY <2>5, <3>0, <3>1, <4>1
    <3>7. ~IsAt(Cons("&", v), 1, p)
      <4> SUFFICES ASSUME IsAt(Cons("&", v), 1, p) PROVE FALSE
        OBVIOUS
      <4>1. v[1] = e
        BY <1>2, <1>4, WrittenAt
      <4>2. IsNext(v, d, z)
        BY <3>2, <3>4, NextIs
      <4>3. QED BY <3>2, <4>1, <4>2 DEF IsNext
    <3>8. ~IsAt(Cons(d, z), 1, p)
      <4> SUFFICES ASSUME IsAt(Cons(d, z), 1, p) PROVE FALSE
        OBVIOUS
      <4>1. d = "&"
        BY <1>2, <1>4, <3>2, WrittenAt
      <4>2. QED BY <4>1, EntitiesAre
    <3>9. ~IsAt(Cons(";", x), 1, p)
      <4> SUFFICES ASSUME IsAt(Cons(";", x), 1, p) PROVE FALSE
        OBVIOUS
      <4>1. ";" = "&"
        BY <1>2, <1>4, WrittenAt
      <4>2. QED BY <4>1, EntitiesAre
    <3>10. ReplacedAll(Cons(a, v), p, by) = Cons(a, ReplacedAll(v, p, by))
      <4>1. ~IsAt(Cons(a, v), 1, p)
        BY <3>0, <3>7
      <4>2. QED BY <1>5, <4>1, ReplacedSkip
    <3>11. ReplacedAll(Cons(d, z), p, by) = Cons(d, ReplacedAll(z, p, by))
      BY <1>5, <3>2, <3>8, ReplacedSkip
    <3>12. ReplacedAll(Cons(semi, x), p, by) = Cons(semi, ReplacedAll(x, p, by))
      <4>1. ~IsAt(Cons(semi, x), 1, p)
        BY <3>0, <3>9
      <4>2. QED BY <1>5, <4>1, ReplacedSkip
    <3>13. QED BY <3>0, <2>6, <3>3, <3>4, <3>5, <3>6, <3>10, <3>11, <3>12
  <2>9. CASE s \notin K
    <3>1. Enc(K, Cons(s, u)) = Cons(s, x)
      BY <2>1, <2>4, <2>9, EncNext
    <3>2. Enc(L, Cons(s, u)) = Cons(s, y)
      BY <1>7, <2>1, <2>5, <2>9, EncNext
    <3>3. ~IsAt(Cons(s, x), 1, p)
      <4> SUFFICES ASSUME IsAt(Cons(s, x), 1, p) PROVE FALSE
        OBVIOUS
      <4>1. s = "&" /\ x # << >> /\ x[1] = e
        BY <1>2, <1>4, WrittenAt
      <4>2. u # << >> /\ u[1] = e
        BY <2>1, <2>4, <4>1, EncFirst
      <4>3. QED BY <2>3, <4>1, <4>2
    <3>4. ReplacedAll(Cons(s, x), p, by) = Cons(s, ReplacedAll(x, p, by))
      BY <1>5, <3>3, ReplacedSkip
    <3>5. QED BY <2>6, <3>1, <3>2, <3>4
  <2>10. QED BY <2>7, <2>8, <2>9
<1>10. S \in SUBSET Text
  OBVIOUS
<1>11. t \in S
  <2> HIDE DEF S
  <2>1. QED BY <1>8, <1>9, <1>10, TextInduction
<1>12. QED BY <1>1, <1>2, <1>3, <1>7, <1>11

------------------------------------------------------------------------------
\* htmlDecode.
EntityPut(t, e) == ReplacedAll(t, Written(e), <<Meaning(e)>>)

LEMMA EntityPutType ==
    ASSUME NEW t \in Text, NEW e \in Names
    PROVE  EntityPut(t, e) \in Text
<1>1. e \in Symbol
  BY EntitiesAre
<1>2. Meaning(e) \in Symbol
  <2>1. \E c \in Written3 : EntityOf[c] = e
    <3>1. e = "amp" \/ e = "quot" \/ e = "lt" \/ e = "nbsp"
      BY DEF Names
    <3>2. "&" \in Written3 /\ "\"" \in Written3 /\ "<" \in Written3 /\ " " \in Written3
      BY DEF Written3
    <3>3. QED BY <3>1, <3>2, EntitiesAre, Zenon
  <2>2. QED BY <2>1, EntitiesAre
<1>3. PICK p, by \in Text : p = Written(e) /\ by = <<Meaning(e)>> /\ p # << >>
  BY <1>1, <1>2, WrittenIs, OneSymbol
<1>4. ReplacedAll(t, p, by) \in Text
  BY <1>3, ReplacedType
<1>5. QED BY <1>3, <1>4 DEF EntityPut

Unescapes(g, t) ==
    g = [T \in SUBSET DOMAIN Entities |->
           IF T = {} THEN t ELSE EntityPut(g[T \ {Max(T)}], Entities[Max(T)])]

LEMMA HtmlDecodeDef ==
    ASSUME NEW t
    PROVE  HtmlDecode(t) = (CHOOSE g : Unescapes(g, t))[DOMAIN Entities]
BY Zenon DEF HtmlDecode, FoldLeft, MapThenFoldSet, Unescapes, EntityPut

LEMMA EntitiesFour ==
    /\ Entities \in Seq(Names) /\ Len(Entities) = 4 /\ DOMAIN Entities = 1 .. 4
    /\ Entities[1] = "amp" /\ Entities[2] = "quot"
    /\ Entities[3] = "lt" /\ Entities[4] = "nbsp"
<1>1. "amp" \in Names /\ "quot" \in Names /\ "lt" \in Names /\ "nbsp" \in Names
  BY DEF Names
<1>2. QED BY <1>1 DEF Entities

LEMMA HtmlDecodeSteps ==
    ASSUME NEW t \in Text
    PROVE  HtmlDecode(t) =
             EntityPut(EntityPut(EntityPut(EntityPut(t, "amp"), "quot"), "lt"), "nbsp")
<1> DEFINE E == [p \in Text \X Names |-> EntityPut(p[1], p[2])]
<1>1. /\ E \in [Text \X Names -> Text]
      /\ \A x \in Text : \A e \in Names : E[<<x, e>>] = EntityPut(x, e)
  <2>1. \A p \in Text \X Names : p[1] \in Text /\ p[2] \in Names
    OBVIOUS
  <2>2. \A p \in Text \X Names : EntityPut(p[1], p[2]) \in Text
    BY <2>1, EntityPutType
  <2>3. E \in [Text \X Names -> Text]
    BY <2>2
  <2>4. \A x \in Text : \A e \in Names :
           <<x, e>> \in Text \X Names /\ <<x, e>>[1] = x /\ <<x, e>>[2] = e
    OBVIOUS
  <2>5. QED BY <2>3, <2>4
<1> HIDE DEF E
<1>2. PICK f : IsFold(f, 4, Text, t, E, Entities)
  BY <1>1, EntitiesFour, FoldExists
<1>3. PICK s \in Seq(Names) : s = Entities /\ \A i \in 1 .. 4 : s[i] \in Names
  BY EntitiesFour, ElementOfSeq
<1>4. ASSUME NEW T \in SUBSET (1 .. 4)
      PROVE  f[T] = IF T = {} THEN t ELSE EntityPut(f[T \ {Max(T)}], s[Max(T)])
  <2>1. CASE T = {}
    BY <1>2, <2>1 DEF IsFold
  <2>2. CASE T # {}
    <3>1. f[T] = E[<<f[T \ {Max(T)}], s[Max(T)]>>]
      BY <1>2, <1>3, <2>2 DEF IsFold
    <3>2. s[Max(T)] \in Names
      <4>1. Max(T) \in T
        BY <2>2, MaxExists
      <4>2. QED BY <1>3, <4>1
    <3>3. f[T \ {Max(T)}] \in Text
      <4>1. T \ {Max(T)} \in SUBSET (1 .. 4)
        OBVIOUS
      <4>2. QED BY <1>2, <4>1 DEF IsFold
    <3>4. QED BY <1>1, <2>2, <3>1, <3>2, <3>3, Zenon
  <2>3. QED BY <2>1, <2>2
<1>5. Unescapes(f, t)
  <2> DEFINE B(T) == IF T = {} THEN t ELSE EntityPut(f[T \ {Max(T)}], s[Max(T)])
  <2>1. f = [T \in SUBSET (1 .. 4) |-> f[T]]
    BY <1>2 DEF IsFold
  <2>2. \A T \in SUBSET (1 .. 4) : f[T] = B(T)
    BY <1>4
  <2> HIDE DEF B
  <2>3. f = [T \in SUBSET (1 .. 4) |-> B(T)]
    BY <2>1, <2>2
  <2>4. QED BY <1>3, <2>3, EntitiesFour DEF B, Unescapes
<1>6. PICK g : g = CHOOSE h : Unescapes(h, t)
  OBVIOUS
<1>7. Unescapes(g, t)
  BY <1>5, <1>6
<1>8. \A T \in SUBSET (1 .. 4) :
         g[T] = IF T = {} THEN t ELSE EntityPut(g[T \ {Max(T)}], s[Max(T)])
  <2> DEFINE B(T) == IF T = {} THEN t ELSE EntityPut(g[T \ {Max(T)}], s[Max(T)])
  <2>1. g = [T \in SUBSET (1 .. 4) |-> B(T)]
    BY <1>3, <1>7, EntitiesFour DEF Unescapes
  <2> HIDE DEF B
  <2>2. \A T \in SUBSET (1 .. 4) : g[T] = B(T)
    BY <2>1
  <2>3. QED BY <2>2 DEF B
<1>9. g[1 .. 0] = t
  <2>1. 1 .. 0 = {}
    OBVIOUS
  <2>2. QED BY <1>8, <2>1
<1>10. ASSUME NEW i \in 1 .. 4 PROVE g[1 .. i] = EntityPut(g[1 .. i - 1], s[i])
  <2>1. /\ 1 .. i \in SUBSET (1 .. 4) /\ 1 .. i # {}
        /\ Max(1 .. i) = i /\ (1 .. i) \ {i} = 1 .. i - 1
    BY FoldSteps
  <2>2. QED BY <1>8, <2>1
<1>11. HtmlDecode(t) = g[1 .. 4]
  BY <1>6, HtmlDecodeDef, EntitiesFour
<1>12. g[1 .. 1] = EntityPut(t, "amp")
  <2>1. 1 \in 1 .. 4 /\ 1 - 1 = 0
    OBVIOUS
  <2>2. QED BY <1>3, <1>9, <1>10, <2>1, EntitiesFour
<1>13. g[1 .. 2] = EntityPut(g[1 .. 1], "quot")
  <2>1. 2 \in 1 .. 4 /\ 2 - 1 = 1
    OBVIOUS
  <2>2. QED BY <1>3, <1>10, <2>1, EntitiesFour
<1>14. g[1 .. 3] = EntityPut(g[1 .. 2], "lt")
  <2>1. 3 \in 1 .. 4 /\ 3 - 1 = 2
    OBVIOUS
  <2>2. QED BY <1>3, <1>10, <2>1, EntitiesFour
<1>15. g[1 .. 4] = EntityPut(g[1 .. 3], "nbsp")
  <2>1. 4 \in 1 .. 4 /\ 4 - 1 = 3
    OBVIOUS
  <2>2. QED BY <1>3, <1>10, <2>1, EntitiesFour
<1>16. QED BY <1>11, <1>12, <1>13, <1>14, <1>15

LEMMA HtmlDecodeType ==
    ASSUME NEW t \in Text
    PROVE  HtmlDecode(t) \in Text
<1>1. "amp" \in Names /\ "quot" \in Names /\ "lt" \in Names /\ "nbsp" \in Names
  BY DEF Names
<1>2. PICK a \in Text : a = EntityPut(t, "amp")
  BY <1>1, EntityPutType
<1>3. PICK b \in Text : b = EntityPut(a, "quot")
  BY <1>1, EntityPutType
<1>4. PICK c \in Text : c = EntityPut(b, "lt")
  BY <1>1, EntityPutType
<1>5. PICK d \in Text : d = EntityPut(c, "nbsp")
  BY <1>1, EntityPutType
<1>6. QED BY <1>2, <1>3, <1>4, <1>5, HtmlDecodeSteps

\* Decoding gives back what was encoded, unless that names an entity.
LEMMA HtmlDecodeEnc ==
    ASSUME NEW K \in SUBSET Written3, NEW t \in Text, ~NamesEntity(t)
    PROVE  HtmlDecode(Enc(K, t)) = t
<1>1. ASSUME NEW L \in SUBSET Written3, NEW c \in Written3, NEW e, e = EntityOf[c]
      PROVE  EntityPut(Enc(L, t), e) = Enc(L \ {c}, t)
  <2>1. Meaning(e) = c
    BY <1>1, EntitiesAre
  <2>2. ReplacedAll(Enc(L, t), Written(EntityOf[c]), <<c>>) = Enc(L \ {c}, t)
    BY EncLess
  <2>3. QED BY <1>1, <2>1, <2>2 DEF EntityPut
<1>2. "&" \in Written3 /\ "\"" \in Written3 /\ "<" \in Written3 /\ " " \in Written3
  BY DEF Written3
<1>3. PICK A, B, C, D \in SUBSET Written3 :
         /\ A = K \ {"&"} /\ B = A \ {"\""} /\ C = B \ {"<"} /\ D = C \ {" "}
  <2>1. /\ K \ {"&"} \in SUBSET Written3 /\ (K \ {"&"}) \ {"\""} \in SUBSET Written3
        /\ ((K \ {"&"}) \ {"\""}) \ {"<"} \in SUBSET Written3
        /\ (((K \ {"&"}) \ {"\""}) \ {"<"}) \ {" "} \in SUBSET Written3
    OBVIOUS
  <2>2. QED BY <2>1
<1>4. D = {}
  BY <1>3 DEF Written3
<1>5. EntityPut(Enc(K, t), "amp") = Enc(A, t)
  <2>1. PICK c \in Written3, e \in Names : c = "&" /\ e = "amp" /\ e = EntityOf[c]
    BY <1>2, EntitiesAre
  <2>2. EntityPut(Enc(K, t), e) = Enc(K \ {c}, t)
    BY <1>1, <2>1
  <2>3. QED BY <1>3, <2>1, <2>2
<1>6. EntityPut(Enc(A, t), "quot") = Enc(B, t)
  <2>1. PICK c \in Written3, e \in Names : c = "\"" /\ e = "quot" /\ e = EntityOf[c]
    BY <1>2, EntitiesAre
  <2>2. EntityPut(Enc(A, t), e) = Enc(A \ {c}, t)
    BY <1>1, <2>1
  <2>3. QED BY <1>3, <2>1, <2>2
<1>7. EntityPut(Enc(B, t), "lt") = Enc(C, t)
  <2>1. PICK c \in Written3, e \in Names : c = "<" /\ e = "lt" /\ e = EntityOf[c]
    BY <1>2, EntitiesAre
  <2>2. EntityPut(Enc(B, t), e) = Enc(B \ {c}, t)
    BY <1>1, <2>1
  <2>3. QED BY <1>3, <2>1, <2>2
<1>8. EntityPut(Enc(C, t), "nbsp") = Enc(D, t)
  <2>1. PICK c \in Written3, e \in Names : c = " " /\ e = "nbsp" /\ e = EntityOf[c]
    BY <1>2, EntitiesAre
  <2>2. EntityPut(Enc(C, t), e) = Enc(C \ {c}, t)
    BY <1>1, <2>1
  <2>3. QED BY <1>3, <2>1, <2>2
<1>9. Enc(D, t) = t
  BY <1>4, EncNone
<1>10. Enc(K, t) \in Text
  BY EncOfType, SpreadType DEF Enc
<1>11. QED BY <1>5, <1>6, <1>7, <1>8, <1>9, <1>10, HtmlDecodeSteps

------------------------------------------------------------------------------
(***************************************************************************)
(* What a browser shows: a scan for entities.                              *)
(***************************************************************************)
\* What a text in a page stands for.
EntityAt(t, i) == i < Len(t) /\ t[i] = "&" /\ t[i + 1] \in Range(Entities)
ShownOut(t) ==
    [i \in 1 .. Len(t) |->
       IF EntityAt(t, i) THEN <<IF t[i + 1] = "nbsp" THEN "hard" ELSE Meaning(t[i + 1])>>
       ELSE <<t[i]>>]
ShownStep(t) ==
    [i \in 1 .. Len(t) |->
       IF EntityAt(t, i) THEN (IF IsAt(t, i + 2, <<";">>) THEN 3 ELSE 2) ELSE 1]
Shows(f, t) ==
    f = [i \in 1 .. Len(t) + 2 |->
           IF i > Len(t) THEN << >>
           ELSE IF EntityAt(t, i)
                THEN <<IF t[i + 1] = "nbsp" THEN "hard" ELSE Meaning(t[i + 1])>>
                     \o f[IF IsAt(t, i + 2, <<";">>) THEN i + 3 ELSE i + 2]
           ELSE <<t[i]>> \o f[i + 1]]

LEMMA ShownDef ==
    ASSUME NEW t
    PROVE  Shown(t) = (CHOOSE f : Shows(f, t))[1]
BY DEF Shown, Shows, EntityAt

ShownBy(f, t) ==
    /\ Passes(f, Len(t), Len(t) + 2, ShownOut(t), ShownStep(t))
    /\ Shown(t) = f[1] /\ f[1] \in Text

LEMMA NameOf ==
    ASSUME NEW e \in Names
    PROVE  \E c \in Written3 : EntityOf[c] = e /\ Meaning(e) = c
<1>1. e = "amp" \/ e = "quot" \/ e = "lt" \/ e = "nbsp"
  BY DEF Names
<1>2. "&" \in Written3 /\ "\"" \in Written3 /\ "<" \in Written3 /\ " " \in Written3
  BY DEF Written3
<1>3. \E c \in Written3 : EntityOf[c] = e
  BY <1>1, <1>2, EntitiesAre, Zenon
<1>4. QED BY <1>3, EntitiesAre

LEMMA SemicolonAt ==
    ASSUME NEW t \in Text, NEW i \in Nat \ {0}
    PROVE  IsAt(t, i, <<";">>) <=> i <= Len(t) /\ t[i] = ";"
<1>1. PICK n \in Nat : n = Len(t)
  BY TextDomain
<1>2. PICK p : p = <<";">> /\ Len(p) = 1
  <2>1. ";" \in Symbol
    BY DEF Symbol, Literals
  <2>2. QED BY <2>1, OneSymbol
<1>3. CASE i <= n
  <2>1. i \in 1 .. n
    BY <1>3
  <2>2. i \in 1 .. Len(t)
    BY <1>1, <2>1
  <2>3. PICK c : c = ";"
    OBVIOUS
  <2>4. IsAt(t, i, <<c>>) <=> t[i] = c
    BY <2>2, IsAtOne
  <2>5. QED BY <1>1, <1>3, <2>3, <2>4
<1>4. CASE ~(i <= n)
  <2>1. ~(i + 1 <= n + 1)
    BY <1>4
  <2>2. ~IsAt(t, i, p)
    BY <1>1, <1>2, <2>1 DEF IsAt
  <2>3. QED BY <1>1, <1>2, <1>4, <2>2
<1>5. QED BY <1>3, <1>4

LEMMA ShownScans ==
    ASSUME NEW t \in Text
    PROVE  \E f : ShownBy(f, t)
<1>1. PICK n \in Nat : n = Len(t)
  BY TextDomain
<1> DEFINE out == ShownOut(t)
           step == ShownStep(t)
           O(i) == IF EntityAt(t, i)
                   THEN <<IF t[i + 1] = "nbsp" THEN "hard" ELSE Meaning(t[i + 1])>>
                   ELSE <<t[i]>>
           N(i) == IF EntityAt(t, i) THEN (IF IsAt(t, i + 2, <<";">>) THEN 3 ELSE 2) ELSE 1
<1>2. /\ out = [i \in 1 .. n |-> O(i)]
      /\ step = [i \in 1 .. n |-> N(i)]
  BY <1>1 DEF ShownOut, ShownStep
<1>3. \A i \in 1 .. n : O(i) \in Text
  <2> TAKE i \in 1 .. n
  <2>1. <<t[i]>> \in Text
    BY <1>1, TextSymbols, OneSymbol
  <2>2. ASSUME EntityAt(t, i)
        PROVE  <<IF t[i + 1] = "nbsp" THEN "hard" ELSE Meaning(t[i + 1])>> \in Text
    <3>1. t[i + 1] \in Names
      BY <2>2, EntitiesAre DEF EntityAt
    <3>2. PICK c \in Symbol : c = Meaning(t[i + 1])
      <4>1. PICK e \in Names : e = t[i + 1]
        BY <3>1
      <4>2. PICK c \in Written3 : Meaning(e) = c
        BY NameOf
      <4>3. c \in Symbol
        BY EntitiesAre
      <4>4. QED BY <4>1, <4>2, <4>3
    <3>3. "hard" \in Symbol
      BY DEF Symbol, Literals
    <3>4. PICK d \in Symbol : d = IF t[i + 1] = "nbsp" THEN "hard" ELSE Meaning(t[i + 1])
      BY <3>2, <3>3
    <3>5. <<d>> \in Text
      BY OneSymbol
    <3>6. QED BY <3>4, <3>5
  <2>3. QED BY <2>1, <2>2
<1>4. \A i \in 1 .. n : N(i) \in Nat \ {0} /\ i + N(i) <= n + 2
  <2> TAKE i \in 1 .. n
  <2>1. PICK at \in BOOLEAN : at <=> IsAt(t, i + 2, <<";">>)
    OBVIOUS
  <2>2. at => i + 2 <= n
    <3>1. i + 2 \in Nat \ {0}
      OBVIOUS
    <3>2. QED BY <1>1, <2>1, <3>1, SemicolonAt
  <2>3. PICK entity \in BOOLEAN : entity <=> EntityAt(t, i)
    OBVIOUS
  <2>4. entity => i < n
    BY <1>1, <2>3 DEF EntityAt
  <2>5. N(i) = IF entity THEN (IF at THEN 3 ELSE 2) ELSE 1
    BY <2>1, <2>3
  <2> HIDE DEF N
  <2>6. QED BY <2>2, <2>4, <2>5
<1> HIDE DEF out, step
<1>5. out \in [1 .. n -> Text]
  <2> HIDE DEF O
  <2>1. QED BY <1>2, <1>3
<1>6. step \in [1 .. n -> Nat \ {0}] /\ \A i \in 1 .. n : i + step[i] <= n + 2
  <2> HIDE DEF N
  <2>1. QED BY <1>2, <1>4
<1>7. Scanner(n, n + 2, out, step)
  BY <1>5, <1>6 DEF Scanner
<1>8. ASSUME NEW f
      PROVE  Scans(f, n, n + 2, out, step) <=> Shows(f, t)
  <2> DEFINE A(i) == IF i > n THEN << >> ELSE out[i] \o f[i + step[i]]
             B(i) == IF i > n THEN << >>
                     ELSE IF EntityAt(t, i)
                          THEN <<IF t[i + 1] = "nbsp" THEN "hard" ELSE Meaning(t[i + 1])>>
                               \o f[IF IsAt(t, i + 2, <<";">>) THEN i + 3 ELSE i + 2]
                     ELSE <<t[i]>> \o f[i + 1]
  <2>1. \A i \in 1 .. n + 2 : A(i) = B(i)
    <3> TAKE i \in 1 .. n + 2
    <3>1. CASE i > n
      BY <3>1
    <3>2. CASE ~(i > n)
      <4>1. i \in 1 .. n
        BY <3>2
      <4>2. out[i] = O(i) /\ step[i] = N(i)
        <5> HIDE DEF O, N
        <5>1. QED BY <1>2, <4>1
      <4>3. i + N(i) = IF EntityAt(t, i)
                       THEN (IF IsAt(t, i + 2, <<";">>) THEN i + 3 ELSE i + 2)
                       ELSE i + 1
        OBVIOUS
      <4>4. A(i) = O(i) \o f[i + N(i)]
        <5> HIDE DEF O, N
        <5>1. QED BY <3>2, <4>2
      <4>5. CASE EntityAt(t, i)
        <5>1. PICK x : x = IF IsAt(t, i + 2, <<";">>) THEN i + 3 ELSE i + 2
          OBVIOUS
        <5>2. PICK y : y = <<IF t[i + 1] = "nbsp" THEN "hard" ELSE Meaning(t[i + 1])>>
          OBVIOUS
        <5>3. i + N(i) = x /\ O(i) = y
          BY <4>3, <4>5, <5>1, <5>2
        <5>4. B(i) = y \o f[x]
          BY <3>2, <4>5, <5>1, <5>2
        <5> HIDE DEF A, B, O, N
        <5>5. QED BY <4>4, <5>3, <5>4
      <4>6. CASE ~EntityAt(t, i)
        <5>1. i + N(i) = i + 1 /\ O(i) = <<t[i]>> /\ B(i) = <<t[i]>> \o f[i + 1]
          BY <3>2, <4>6
        <5> HIDE DEF A, B, O, N
        <5>2. QED BY <4>4, <5>1
      <4>7. QED BY <4>5, <4>6
    <3>3. QED BY <3>1, <3>2
  <2>2. Scans(f, n, n + 2, out, step) <=> f = [i \in 1 .. n + 2 |-> A(i)]
    BY DEF Scans
  <2>3. Shows(f, t) <=> f = [i \in 1 .. n + 2 |-> B(i)]
    BY <1>1 DEF Shows
  <2> HIDE DEF A, B
  <2>4. [i \in 1 .. n + 2 |-> A(i)] = [i \in 1 .. n + 2 |-> B(i)]
    BY <2>1
  <2>5. QED BY <2>2, <2>3, <2>4
<1>9. PICK h \in [1 .. n + 2 -> Text] : Scans(h, n, n + 2, out, step)
  BY <1>7, ScanExists
<1>10. PICK f : f = CHOOSE g : Shows(g, t)
  OBVIOUS
<1>11. Shows(f, t)
  BY <1>8, <1>9, <1>10
<1>12. Scans(f, n, n + 2, out, step)
  BY <1>8, <1>11
<1>13. f[1] = h[1]
  BY <1>7, <1>9, <1>12, ScanOnce
<1>14. h[1] \in Text
  BY <1>9
<1>15. Shown(t) = f[1]
  BY <1>10, ShownDef
<1>16. Passes(f, n, n + 2, out, step)
  BY <1>7, <1>12 DEF Passes
<1>17. ShownBy(f, t)
  BY <1>1, <1>13, <1>14, <1>15, <1>16 DEF ShownBy, out, step
<1>18. QED BY <1>17

LEMMA ShownType ==
    ASSUME NEW t \in Text
    PROVE  Shown(t) \in Text
BY ShownScans DEF ShownBy

LEMMA ShownNothing == Shown(<< >>) = << >>
<1>1. << >> \in Text /\ Len(<< >>) = 0
  BY LacksNothing
<1>2. PICK f : ShownBy(f, << >>)
  BY <1>1, ShownScans
<1>3. QED BY <1>1, <1>2, ScanEnd DEF ShownBy

\* The first piece of a text is shown, and then the rest.
LEMMA ShownPiece ==
    ASSUME NEW v \in Text, v # << >>, NEW t \in Text, NEW put,
           ShownStep(Glue(v, t))[1] = Len(v), ShownOut(Glue(v, t))[1] = put
    PROVE  Shown(Glue(v, t)) = Glue(put, Shown(t))
<1>1. PICK n \in Nat : n = Len(t)
  BY TextDomain
<1>2. PICK k \in Nat : k = Len(v)
  BY TextDomain
<1>3. k # 0
  BY <1>2, EmptySeq DEF Text
<1>4. PICK w : w = Glue(v, t)
  OBVIOUS
<1>5. w \in Text /\ Len(w) = k + n /\ \A j \in 1 .. n : w[k + j] = t[j]
  BY <1>1, <1>2, <1>4, JoinIs DEF IsJoin, Glue
<1>6. PICK out, step : out = ShownOut(w) /\ step = ShownStep(w)
  OBVIOUS
<1>7. PICK out2, step2 : out2 = ShownOut(t) /\ step2 = ShownStep(t)
  OBVIOUS
<1>8. PICK f : ShownBy(f, w)
  BY <1>5, ShownScans
<1>9. PICK g : ShownBy(g, t)
  BY ShownScans
<1>10. \A i \in 1 .. n : out[k + i] = out2[i] /\ step[k + i] = step2[i]
  <2> TAKE i \in 1 .. n
  <2>1. k + i \in 1 .. k + n /\ (k + i < k + n <=> i < n) /\ (k + i) + 1 = k + (i + 1)
    OBVIOUS
  <2>2. w[k + i] = t[i] /\ (i < n => w[k + (i + 1)] = t[i + 1])
    <3>1. i < n => i + 1 \in 1 .. n
      OBVIOUS
    <3>2. QED BY <1>5, <3>1
  <2>3. EntityAt(w, k + i) <=> EntityAt(t, i)
    BY <1>1, <1>5, <2>1, <2>2 DEF EntityAt
  <2>4. EntityAt(t, i) => w[(k + i) + 1] = t[i + 1]
    BY <1>1, <2>1, <2>2 DEF EntityAt
  <2>5. IsAt(w, (k + i) + 2, <<";">>) <=> IsAt(t, i + 2, <<";">>)
    <3>1. (k + i) + 2 \in Nat \ {0} /\ i + 2 \in Nat \ {0} /\ (k + i) + 2 = k + (i + 2)
          /\ (k + (i + 2) <= k + n <=> i + 2 <= n)
      OBVIOUS
    <3>2. IsAt(w, (k + i) + 2, <<";">>) <=> (k + i) + 2 <= k + n /\ w[(k + i) + 2] = ";"
      BY <1>5, <3>1, SemicolonAt
    <3>3. IsAt(t, i + 2, <<";">>) <=> i + 2 <= n /\ t[i + 2] = ";"
      BY <1>1, <3>1, SemicolonAt
    <3>4. i + 2 <= n => w[k + (i + 2)] = t[i + 2]
      <4>1. i + 2 <= n => i + 2 \in 1 .. n
        OBVIOUS
      <4>2. QED BY <1>5, <4>1
    <3>5. QED BY <3>1, <3>2, <3>3, <3>4
  <2>6. out[k + i] = IF EntityAt(w, k + i)
          THEN <<IF w[(k + i) + 1] = "nbsp" THEN "hard" ELSE Meaning(w[(k + i) + 1])>>
          ELSE <<w[k + i]>>
    BY <1>5, <1>6, <2>1 DEF ShownOut
  <2>7. out2[i] = IF EntityAt(t, i)
          THEN <<IF t[i + 1] = "nbsp" THEN "hard" ELSE Meaning(t[i + 1])>> ELSE <<t[i]>>
    BY <1>1, <1>7 DEF ShownOut
  <2>8. step[k + i] = IF EntityAt(w, k + i)
                      THEN (IF IsAt(w, (k + i) + 2, <<";">>) THEN 3 ELSE 2) ELSE 1
    BY <1>5, <1>6, <2>1 DEF ShownStep
  <2>9. step2[i] = IF EntityAt(t, i)
                   THEN (IF IsAt(t, i + 2, <<";">>) THEN 3 ELSE 2) ELSE 1
    BY <1>1, <1>7 DEF ShownStep
  <2>10. QED BY <2>2, <2>3, <2>4, <2>5, <2>6, <2>7, <2>8, <2>9
<1>11. out[1] = put /\ step[1] = k
  BY <1>2, <1>4, <1>6
<1>12. PICK l, l2, m, m2 : /\ l = Len(w) /\ l2 = Len(t)
                           /\ m = Len(w) + 2 /\ m2 = Len(t) + 2
  OBVIOUS
<1>13. Passes(f, l, m, out, step) /\ Passes(g, l2, m2, out2, step2)
  BY <1>6, <1>7, <1>8, <1>9, <1>12 DEF ShownBy
<1>14. Continues(l, out, step, l2, out2, step2)
  BY <1>1, <1>3, <1>5, <1>10, <1>11, <1>12 DEF Continues
<1>15. Follows(f, l, m, out, step, g, l2, m2, out2, step2)
  BY <1>13, <1>14 DEF Follows
<1>16. Yields(f, out, g)
  BY <1>15, ScanNext
<1>17. f[1] = Glue(put, g[1])
  BY <1>11, <1>16 DEF Yields, Glue
<1>18. QED BY <1>4, <1>8, <1>9, <1>17 DEF ShownBy

LEMMA ShownSkip ==
    ASSUME NEW s \in Symbol, NEW t \in Text, ~(s = "&" /\ t # << >> /\ t[1] \in Names)
    PROVE  Shown(Cons(s, t)) = Cons(s, Shown(t))
<1>1. PICK v : v = <<s>>
  OBVIOUS
<1>2. v \in Text /\ v # << >> /\ Len(v) = 1
  BY <1>1, OneSymbol, NotEmpty
<1>3. \A u : Cons(s, u) = Glue(v, u)
  BY <1>1 DEF Cons, Glue
<1>4. PICK w : w = Cons(s, t)
  OBVIOUS
<1>5. PICK n \in Nat : n = Len(t)
  BY TextDomain
<1>6. IsNext(w, s, t)
  BY <1>4, NextIs
<1>7. w[1] = s /\ 1 \in 1 .. Len(w) /\ Len(w) = 1 + n /\ \A j \in 1 .. n : w[1 + j] = t[j]
  BY <1>5, <1>6 DEF IsNext
<1>8. ~EntityAt(w, 1)
  <2> SUFFICES ASSUME EntityAt(w, 1) PROVE FALSE
    OBVIOUS
  <2>1. 1 < 1 + n /\ s = "&" /\ w[1 + 1] \in Names
    BY <1>7, EntitiesAre DEF EntityAt
  <2>2. 1 \in 1 .. n
    BY <2>1
  <2>3. t[1] \in Names
    BY <1>7, <2>1, <2>2
  <2>4. t # << >>
    BY <1>5, <2>2, LacksNothing
  <2>5. QED BY <2>1, <2>3, <2>4
<1>9. ShownStep(w)[1] = 1 /\ ShownOut(w)[1] = v
  BY <1>1, <1>7, <1>8 DEF ShownStep, ShownOut
<1>10. w = Glue(v, t)
  BY <1>3, <1>4
<1>11. PICK put : put = v
  OBVIOUS
<1>12. ShownStep(w)[1] = Len(v) /\ ShownOut(w)[1] = put
  BY <1>2, <1>9, <1>11
<1>13. Shown(Glue(v, t)) = Glue(put, Shown(t))
  BY <1>2, <1>10, <1>12, ShownPiece
<1>14. QED BY <1>3, <1>11, <1>13

LEMMA ShownEntity ==
    ASSUME NEW e \in Names, NEW t \in Text
    PROVE  Shown(Glue(Written(e), t))
             = Cons(IF e = "nbsp" THEN "hard" ELSE Meaning(e), Shown(t))
<1>1. e \in Symbol
  BY EntitiesAre
<1>2. PICK v : v = Written(e)
  OBVIOUS
<1>3. v \in Text /\ v # << >> /\ Len(v) = 3 /\ v[1] = "&" /\ v[2] = e /\ v[3] = ";"
  BY <1>1, <1>2, WrittenIs
<1>4. PICK w : w = Glue(v, t)
  OBVIOUS
<1>5. IsJoin(w, v, t)
  BY <1>3, <1>4, JoinIs DEF Glue
<1>6. /\ w \in Text /\ Len(w) = 3 + Len(t) /\ Len(t) \in Nat
      /\ w[1] = "&" /\ w[2] = e /\ w[3] = ";"
  <2>1. 1 \in 1 .. 3 /\ 2 \in 1 .. 3 /\ 3 \in 1 .. 3
    OBVIOUS
  <2>2. QED BY <1>3, <1>5, <2>1 DEF IsJoin
<1>7. 1 < Len(w) /\ 1 \in 1 .. Len(w) /\ 3 <= Len(w) /\ 1 + 1 = 2 /\ 1 + 2 = 3
  <2>1. PICK n \in Nat : n = Len(t) /\ Len(w) = 3 + n
    BY <1>6
  <2>2. 1 < 3 + n /\ 1 \in 1 .. 3 + n /\ 3 <= 3 + n
    OBVIOUS
  <2>3. QED BY <2>1, <2>2
<1>8. EntityAt(w, 1)
  BY <1>6, <1>7, EntitiesAre DEF EntityAt
<1>9. IsAt(w, 1 + 2, <<";">>)
  <2>1. 3 \in Nat \ {0}
    OBVIOUS
  <2>2. IsAt(w, 3, <<";">>)
    BY <1>6, <1>7, <2>1, SemicolonAt
  <2>3. QED BY <1>7, <2>2
<1>10. PICK c : c = IF e = "nbsp" THEN "hard" ELSE Meaning(e)
  OBVIOUS
<1>11. PICK put : put = <<c>>
  OBVIOUS
<1>12. ShownStep(w)[1] = 3
  BY <1>7, <1>8, <1>9 DEF ShownStep
<1>13. ShownOut(w)[1] = put
  <2>1. ShownOut(w)[1] = <<IF w[1 + 1] = "nbsp" THEN "hard" ELSE Meaning(w[1 + 1])>>
    BY <1>7, <1>8 DEF ShownOut
  <2>2. QED BY <1>6, <1>7, <1>10, <1>11, <2>1
<1>14. ShownStep(w)[1] = Len(v)
  BY <1>3, <1>12
<1>15. Shown(Glue(v, t)) = Glue(put, Shown(t))
  BY <1>3, <1>4, <1>13, <1>14, ShownPiece
<1>16. Glue(put, Shown(t)) = Cons(c, Shown(t))
  BY <1>11 DEF Glue, Cons
<1>17. QED BY <1>2, <1>10, <1>15, <1>16

------------------------------------------------------------------------------
(***************************************************************************)
(* What a browser shows of an encoded text, and a page's placeholders.     *)
(***************************************************************************)
\* What was encoded looks as it was.
LEMMA ShownEncoded ==
    ASSUME NEW t \in Text
    PROVE  Softened(Shown(HtmlEncode(t))) = Softened(t)
<1>1. PICK K \in SUBSET Written3 : K = Written3
  OBVIOUS
<1> DEFINE S == {u \in Text : Softened(Shown(Enc(K, u))) = Softened(u)}
<1>2. << >> \in S
  BY LacksNothing, EncNothing, ShownNothing, SpacedNothing
<1>3. ASSUME NEW s \in Symbol, NEW u \in S PROVE Cons(s, u) \in S
  <2>1. u \in Text /\ Cons(s, u) \in Text
    BY ConsType
  <2>2. PICK x \in Text : x = Enc(K, u)
    BY <2>1, EncNext
  <2>3. PICK y \in Text : y = Shown(x)
    BY ShownType
  <2>4. Softened(y) = Softened(u)
    BY <2>2, <2>3
  <2>5. CASE s \in K
    <3>1. PICK e \in Names : e = EntityOf[s]
      BY <1>1, <2>5, EntitiesAre
    <3>2. Enc(K, Cons(s, u)) = Glue(Written(e), x)
      BY <2>1, <2>2, <2>5, <3>1, EncNext
    <3>3. PICK c : c = IF e = "nbsp" THEN "hard" ELSE Meaning(e)
      OBVIOUS
    <3>4. Shown(Glue(Written(e), x)) = Cons(c, y)
      BY <2>3, <3>3, ShownEntity
    <3>5. c = IF s = " " THEN "hard" ELSE s
      BY <1>1, <2>5, <3>1, <3>3, EntitiesAre
    <3>6. c \in Symbol /\ (c = "hard" <=> s = " ") /\ s # "hard"
      <4>1. "hard" \in Symbol
        BY DEF Symbol, Literals
      <4>2. s # "hard"
        BY <1>1, <2>5 DEF Written3
      <4>3. QED BY <3>5, <4>1, <4>2
    <3>7. Softened(Cons(c, y)) = Cons(IF c = "hard" THEN " " ELSE c, Softened(y))
      BY <3>6, SpacedNext
    <3>8. Softened(Cons(s, u)) = Cons(IF s = "hard" THEN " " ELSE s, Softened(u))
      BY <2>1, SpacedNext
    <3>9. (IF c = "hard" THEN " " ELSE c) = (IF s = "hard" THEN " " ELSE s)
      BY <3>5, <3>6
    <3>10. QED BY <2>1, <2>4, <3>2, <3>4, <3>7, <3>8, <3>9
  <2>6. CASE s \notin K
    <3>1. Enc(K, Cons(s, u)) = Cons(s, x)
      BY <2>1, <2>2, <2>6, EncNext
    <3>2. s # "&"
      BY <1>1, <2>6 DEF Written3
    <3>3. Shown(Cons(s, x)) = Cons(s, y)
      BY <2>3, <3>2, ShownSkip
    <3>4. Softened(Cons(s, y)) = Cons(IF s = "hard" THEN " " ELSE s, Softened(y))
      BY SpacedNext
    <3>5. Softened(Cons(s, u)) = Cons(IF s = "hard" THEN " " ELSE s, Softened(u))
      BY <2>1, SpacedNext
    <3>6. QED BY <2>1, <2>4, <3>1, <3>3, <3>4, <3>5
  <2>7. QED BY <2>5, <2>6
<1>4. S \in SUBSET Text
  OBVIOUS
<1>5. t \in S
  <2> HIDE DEF S
  <2>1. QED BY <1>2, <1>3, <1>4, TextInduction
<1>6. QED BY <1>1, <1>5, HtmlEncodeIs

\* A text that names no entity is shown as it is.
LEMMA ShownKeeps ==
    ASSUME NEW t \in Text, ~NamesEntity(t)
    PROVE  Shown(t) = t
<1> DEFINE S == {u \in Text : ~NamesEntity(u) => Shown(u) = u}
<1>1. << >> \in S
  BY LacksNothing, ShownNothing
<1>2. ASSUME NEW s \in Symbol, NEW u \in S PROVE Cons(s, u) \in S
  <2>1. u \in Text /\ Cons(s, u) \in Text
    BY ConsType
  <2>2. SUFFICES ASSUME ~NamesEntity(Cons(s, u))
                 PROVE  Shown(Cons(s, u)) = Cons(s, u)
    BY <2>1
  <2>3. ~NamesEntity(u) /\ ~(s = "&" /\ u # << >> /\ u[1] \in Names)
    BY <2>1, <2>2, NamesNext
  <2>4. QED BY <2>1, <2>3, ShownSkip
<1>3. S \in SUBSET Text
  OBVIOUS
<1>4. t \in S
  <2> HIDE DEF S
  <2>1. QED BY <1>1, <1>2, <1>3, TextInduction
<1>5. QED BY <1>4

\* Encoding puts in nothing but entities.
LEMMA EncLacks ==
    ASSUME NEW K \in SUBSET Written3, NEW t \in Text, NEW p, Lacks(t, p),
           p # "&", p # ";", p \notin Names
    PROVE  Lacks(Enc(K, t), p)
<1> DEFINE S == {u \in Text : Lacks(u, p) => Lacks(Enc(K, u), p)}
<1>1. << >> \in S
  BY LacksNothing, EncNothing
<1>2. ASSUME NEW s \in Symbol, NEW u \in S PROVE Cons(s, u) \in S
  <2>1. u \in Text /\ Cons(s, u) \in Text
    BY ConsType
  <2>2. SUFFICES ASSUME Lacks(Cons(s, u), p)
                 PROVE  Lacks(Enc(K, Cons(s, u)), p)
    BY <2>1
  <2>3. s # p /\ Lacks(u, p)
    BY <2>1, <2>2, LacksNext
  <2>4. PICK x \in Text : x = Enc(K, u)
    BY <2>1, EncNext
  <2>5. Lacks(x, p)
    BY <2>3, <2>4
  <2>6. CASE s \in K
    <3>1. PICK e \in Names : e = EntityOf[s]
      BY <2>6, EntitiesAre
    <3>2. PICK a, semi \in Symbol : a = "&" /\ semi = ";"
      BY EntitiesAre
    <3>3. e \in Symbol /\ e # p
      BY <3>1, EntitiesAre
    <3>4. PICK z \in Text : z = Cons(semi, x)
      BY ConsType
    <3>5. PICK v \in Text : v = Cons(e, z)
      BY <3>3, ConsType
    <3>6. Enc(K, Cons(s, u)) = Cons(a, v)
      <4>1. Enc(K, Cons(s, u)) = Cons("&", Cons(EntityOf[s], Cons(";", Enc(K, u))))
        BY <2>1, <2>6, EncNext
      <4>2. QED BY <2>4, <3>1, <3>2, <3>4, <3>5, <4>1
    <3>7. Lacks(z, p)
      BY <2>5, <3>2, <3>4, LacksNext
    <3>8. Lacks(v, p)
      BY <3>3, <3>5, <3>7, LacksNext
    <3>9. PICK w : w = Cons(a, v)
      OBVIOUS
    <3>10. a # p
      BY <3>2
    <3>11. Lacks(w, p)
      BY <3>8, <3>9, <3>10, LacksNext
    <3>12. QED BY <3>6, <3>9, <3>11
  <2>7. CASE s \notin K
    <3>1. Enc(K, Cons(s, u)) = Cons(s, x)
      BY <2>1, <2>4, <2>7, EncNext
    <3>2. PICK w : w = Cons(s, x)
      OBVIOUS
    <3>3. Lacks(w, p)
      BY <2>3, <2>5, <3>2, LacksNext
    <3>4. QED BY <3>1, <3>2, <3>3
  <2>8. QED BY <2>6, <2>7
<1>3. S \in SUBSET Text
  OBVIOUS
<1>4. t \in S
  <2> HIDE DEF S
  <2>1. QED BY <1>1, <1>2, <1>3, TextInduction
<1>5. QED BY <1>4

------------------------------------------------------------------------------
\* A field in a page.
FieldPut(t, row, f) == ReplacedAll(t, <<Placeholder[f]>>, row[f])
Puts(g, row, field) ==
    g = [T \in SUBSET DOMAIN LaterFields[field] |->
           IF T = {} THEN row[field]
           ELSE FieldPut(g[T \ {Max(T)}], row, LaterFields[field][Max(T)])]

LEMMA InPageDef ==
    ASSUME NEW row, NEW field
    PROVE  InPage(row, field) = (CHOOSE g : Puts(g, row, field))[DOMAIN LaterFields[field]]
BY Zenon DEF InPage, FoldLeft, MapThenFoldSet, Puts, FieldPut

LEMMA FieldsAre ==
    /\ DOMAIN Placeholder = Stored /\ DOMAIN LaterFields = Stored
    /\ \A f \in Stored : LaterFields[f] \in Seq(Stored)
<1>1. "name" \in Stored /\ "image" \in Stored /\ "top" \in Stored /\ "bottom" \in Stored
  BY DEF Stored, Texts
<1>2. DOMAIN Placeholder = Stored /\ DOMAIN LaterFields = Stored
  BY DEF Placeholder, LaterFields, Stored, Texts
<1>3. LaterFields["name"] \in Seq(Stored)
  BY <1>1 DEF LaterFields
<1>4. LaterFields["image"] \in Seq(Stored)
  BY <1>1 DEF LaterFields
<1>5. LaterFields["top"] \in Seq(Stored)
  BY <1>1 DEF LaterFields
<1>6. LaterFields["bottom"] \in Seq(Stored)
  BY <1>1 DEF LaterFields
<1>7. QED BY <1>2, <1>3, <1>4, <1>5, <1>6 DEF Stored, Texts

\* What every replacement keeps to, a field in a page is.
LEMMA InPageIn ==
    ASSUME NEW row, NEW field \in Stored, NEW V, row[field] \in V,
           \A t \in V : \A f \in Stored : FieldPut(t, row, f) \in V
    PROVE  InPage(row, field) \in V
<1> DEFINE E == [p \in V \X Stored |-> FieldPut(p[1], row, p[2])]
<1>1. /\ E \in [V \X Stored -> V]
      /\ \A x \in V : \A e \in Stored : E[<<x, e>>] = FieldPut(x, row, e)
  <2>1. \A p \in V \X Stored : p[1] \in V /\ p[2] \in Stored
    OBVIOUS
  <2>2. \A p \in V \X Stored : FieldPut(p[1], row, p[2]) \in V
    BY <2>1
  <2>3. E \in [V \X Stored -> V]
    BY <2>2
  <2>4. \A x \in V : \A e \in Stored :
           <<x, e>> \in V \X Stored /\ <<x, e>>[1] = x /\ <<x, e>>[2] = e
    OBVIOUS
  <2>5. QED BY <2>3, <2>4
<1> HIDE DEF E
<1>2. PICK s \in Seq(Stored) : s = LaterFields[field]
  BY FieldsAre
<1>3. PICK n \in Nat : n = Len(s) /\ DOMAIN s = 1 .. n /\ \A i \in 1 .. n : s[i] \in Stored
  OBVIOUS
<1>4. PICK f : IsFold(f, n, V, row[field], E, s)
  BY <1>1, <1>3, FoldExists
<1>5. PICK g : g = CHOOSE h : Puts(h, row, field)
  OBVIOUS
<1> DEFINE B(h, T) == IF T = {} THEN row[field] ELSE FieldPut(h[T \ {Max(T)}], row, s[Max(T)])
<1>6. ASSUME NEW T \in SUBSET (1 .. n)
      PROVE  f[T] = B(f, T)
  <2>1. CASE T = {}
    BY <1>4, <2>1 DEF IsFold
  <2>2. CASE T # {}
    <3>1. f[T] = E[<<f[T \ {Max(T)}], s[Max(T)]>>]
      BY <1>4, <2>2 DEF IsFold
    <3>2. s[Max(T)] \in Stored
      <4>1. Max(T) \in T
        BY <2>2, MaxExists
      <4>2. QED BY <1>3, <4>1
    <3>3. f[T \ {Max(T)}] \in V
      <4>1. T \ {Max(T)} \in SUBSET (1 .. n)
        OBVIOUS
      <4>2. QED BY <1>4, <4>1 DEF IsFold
    <3>4. QED BY <1>1, <2>2, <3>1, <3>2, <3>3, Zenon
  <2>3. QED BY <2>1, <2>2
<1>7. \A h : Puts(h, row, field) <=> h = [T \in SUBSET (1 .. n) |-> B(h, T)]
  BY <1>2, <1>3, Zenon DEF Puts
<1>8. f = [T \in SUBSET (1 .. n) |-> f[T]]
  BY <1>4 DEF IsFold
<1> HIDE DEF B
<1>9. f = [T \in SUBSET (1 .. n) |-> B(f, T)]
  BY <1>6, <1>8
<1>10. Puts(g, row, field)
  BY <1>5, <1>7, <1>9
<1>11. g = [T \in SUBSET (1 .. n) |-> B(g, T)]
  BY <1>7, <1>10
<1>12. \A T \in SUBSET (1 .. n) : g[T] = B(g, T)
  BY <1>11
<1> DEFINE Good == {i \in 0 .. n : g[1 .. i] \in V}
<1>13. 0 \in Good
  <2>1. 1 .. 0 = {} /\ 1 .. 0 \in SUBSET (1 .. n)
    OBVIOUS
  <2>2. g[1 .. 0] = row[field]
    BY <1>12, <2>1 DEF B
  <2>3. 0 \in 0 .. n
    OBVIOUS
  <2>4. QED BY <2>2, <2>3
<1>14. ASSUME NEW i \in Good, i + 1 <= n PROVE i + 1 \in Good
  <2>1. i + 1 \in 1 .. n /\ (i + 1) - 1 = i
    BY <1>14
  <2>2. /\ 1 .. i + 1 \in SUBSET (1 .. n) /\ 1 .. i + 1 # {}
        /\ Max(1 .. i + 1) = i + 1 /\ (1 .. i + 1) \ {i + 1} = 1 .. i
    BY <2>1, FoldSteps
  <2>3. g[1 .. i + 1] = FieldPut(g[1 .. i], row, s[i + 1])
    BY <1>12, <2>2 DEF B
  <2>4. g[1 .. i] \in V /\ s[i + 1] \in Stored
    BY <1>3, <2>1
  <2>5. QED BY <2>1, <2>3, <2>4
<1>15. n \in Good
  <2> DEFINE N == {i \in Nat : i <= n => i \in Good}
  <2>1. N \in SUBSET Nat
    OBVIOUS
  <2>2. 0 \in N
    BY <1>13
  <2>3. ASSUME NEW i \in N PROVE i + 1 \in N
    <3>1. i \in Nat /\ i + 1 \in Nat /\ (i + 1 <= n => i <= n)
      OBVIOUS
    <3>2. QED BY <1>14, <3>1
  <2> HIDE DEF N
  <2>4. N = Nat
    BY <2>1, <2>2, <2>3, NumberInduction
  <2>5. QED BY <2>4 DEF N
<1>16. g[1 .. n] \in V
  BY <1>15
<1>17. InPage(row, field) = g[DOMAIN LaterFields[field]]
  BY <1>5, InPageDef
<1>18. QED BY <1>2, <1>3, <1>16, <1>17

LEMMA InPageType ==
    ASSUME NEW row, \A f \in Stored : row[f] \in Text, NEW field \in Stored
    PROVE  InPage(row, field) \in Text
<1>1. ASSUME NEW t \in Text, NEW f \in Stored PROVE FieldPut(t, row, f) \in Text
  <2>1. PICK p \in Symbol : p = Placeholder[f]
    <3>1. /\ Placeholder["name"] = "meme_object_name" /\ Placeholder["image"] = "meme_object_img"
          /\ Placeholder["top"] = "meme_object_top" /\ Placeholder["bottom"] = "meme_object_bot"
      BY DEF Placeholder
    <3>2. /\ "meme_object_name" \in Symbol /\ "meme_object_img" \in Symbol
          /\ "meme_object_top" \in Symbol /\ "meme_object_bot" \in Symbol
      BY DEF Symbol, Literals
    <3>3. QED BY <3>1, <3>2 DEF Stored, Texts
  <2>2. PICK q : q = <<p>>
    OBVIOUS
  <2>3. q \in Text /\ q # << >>
    BY <2>2, OneSymbol, NotEmpty
  <2>4. QED BY <2>1, <2>2, <2>3, ReplacedType DEF FieldPut
<1>2. PICK V : V = Text
  OBVIOUS
<1>3. QED BY <1>1, <1>2, InPageIn

------------------------------------------------------------------------------
(***************************************************************************)
(* Beginnings of texts, and splitting: of a text of items any beginning    *)
(* splits into whole items and a last one that may be cut.                 *)
(***************************************************************************)
\* What is left of a text that is cut off.
Prefix(t, n) == SubSeq(t, 1, n)

LEMMA PrefixIs ==
    ASSUME NEW t \in Text, NEW n \in 0 .. Len(t)
    PROVE  /\ Prefix(t, n) \in Text /\ Len(Prefix(t, n)) = n
           /\ \A i \in 1 .. n : Prefix(t, n)[i] = t[i]
<1>1. PICK l \in Nat : l = Len(t)
  BY TextDomain
<1>2. n \in 0 .. l /\ n \in Int /\ 1 \in Int
  BY <1>1
<1>3. \A i \in 1 .. n : t[i] \in Symbol
  <2> TAKE i \in 1 .. n
  <2>1. i \in 1 .. l
    BY <1>1, <1>2
  <2>2. QED BY <1>1, <2>1, TextSymbols
<1>4. PICK p : p = Prefix(t, n)
  OBVIOUS
<1>5. /\ p \in Seq(Symbol) /\ Len(p) = IF 1 <= n THEN n - 1 + 1 ELSE 0
      /\ \A i \in 1 .. n - 1 + 1 : p[i] = t[1 + i - 1]
  BY <1>2, <1>3, <1>4, SubSeqProperties DEF Prefix
<1>6. Len(p) = n /\ n - 1 + 1 = n /\ \A i \in 1 .. n : 1 + i - 1 = i
  BY <1>2, <1>5
<1>7. QED BY <1>4, <1>5, <1>6 DEF Text

LEMMA TextsEqual ==
    ASSUME NEW s \in Text, NEW t \in Text, NEW n, n = Len(s), n = Len(t),
           \A i \in 1 .. n : s[i] = t[i]
    PROVE  s = t
BY SeqEqual DEF Text

LEMMA PrefixEnds ==
    ASSUME NEW t \in Text
    PROVE  Prefix(t, 0) = << >> /\ Prefix(t, Len(t)) = t
<1>1. Prefix(t, 0) = << >>
  BY SubSeqEmpty DEF Prefix
<1>2. Prefix(t, Len(t)) = t
  BY SubSeqFull DEF Prefix, Text
<1>3. QED BY <1>1, <1>2

LEMMA PrefixGlue ==
    ASSUME NEW s \in Text, NEW t \in Text
    PROVE  /\ \A n \in 0 .. Len(s) : Prefix(Glue(s, t), n) = Prefix(s, n)
           /\ \A n \in 0 .. Len(t) : Prefix(Glue(s, t), Len(s) + n) = Glue(s, Prefix(t, n))
<1>1. PICK w : w = Glue(s, t)
  OBVIOUS
<1>2. PICK k, l \in Nat : k = Len(s) /\ l = Len(t)
  BY TextDomain
<1>3. /\ w \in Text /\ Len(w) = k + l
      /\ \A i \in 1 .. k : w[i] = s[i]
      /\ \A j \in 1 .. l : w[k + j] = t[j]
  BY <1>1, <1>2, JoinIs DEF IsJoin, Glue
<1>4. ASSUME NEW n \in 0 .. k PROVE Prefix(w, n) = Prefix(s, n)
  <2>1. n \in 0 .. k + l /\ \A i \in 1 .. n : i \in 1 .. k
    BY <1>2
  <2>2. PICK p : p = Prefix(w, n)
    OBVIOUS
  <2>3. PICK q : q = Prefix(s, n)
    OBVIOUS
  <2>4. p \in Text /\ Len(p) = n /\ \A i \in 1 .. n : p[i] = w[i]
    BY <1>3, <2>1, <2>2, PrefixIs
  <2>5. q \in Text /\ Len(q) = n /\ \A i \in 1 .. n : q[i] = s[i]
    BY <1>2, <2>3, PrefixIs
  <2>6. \A i \in 1 .. n : p[i] = q[i]
    BY <1>3, <2>1, <2>4, <2>5
  <2>7. p = q
    BY <2>4, <2>5, <2>6, TextsEqual
  <2>8. QED BY <2>2, <2>3, <2>7
<1>5. ASSUME NEW n \in 0 .. l PROVE Prefix(w, k + n) = Glue(s, Prefix(t, n))
  <2>1. k + n \in 0 .. k + l /\ \A j \in 1 .. n : j \in 1 .. l /\ k + j \in 1 .. k + n
    BY <1>2
  <2>2. PICK p : p = Prefix(w, k + n)
    OBVIOUS
  <2>3. PICK r : r = Prefix(t, n)
    OBVIOUS
  <2>4. p \in Text /\ Len(p) = k + n /\ \A i \in 1 .. k + n : p[i] = w[i]
    BY <1>3, <2>1, <2>2, PrefixIs
  <2>5. r \in Text /\ Len(r) = n /\ \A i \in 1 .. n : r[i] = t[i]
    BY <1>2, <2>3, PrefixIs
  <2>6. PICK q : q = Glue(s, r)
    OBVIOUS
  <2>7. /\ q \in Text /\ Len(q) = k + n /\ \A i \in 1 .. k : q[i] = s[i]
        /\ \A j \in 1 .. n : q[k + j] = r[j]
    BY <1>2, <2>5, <2>6, JoinIs DEF IsJoin, Glue
  <2>8. \A i \in 1 .. k + n : p[i] = q[i]
    <3> TAKE i \in 1 .. k + n
    <3>1. CASE i <= k
      <4>1. i \in 1 .. k
        BY <3>1
      <4>2. QED BY <1>3, <2>4, <2>7, <4>1
    <3>2. CASE ~(i <= k)
      <4>1. PICK j \in 1 .. n : i = k + j
        <5>1. i - k \in 1 .. n /\ i = k + (i - k)
          BY <3>2
        <5>2. QED BY <5>1
      <4>2. p[k + j] = w[k + j] /\ w[k + j] = t[j] /\ q[k + j] = r[j] /\ r[j] = t[j]
        BY <1>3, <2>1, <2>4, <2>5, <2>7, <4>1
      <4>3. QED BY <4>1, <4>2
    <3>3. QED BY <3>1, <3>2
  <2>9. p = q
    BY <2>4, <2>7, <2>8, TextsEqual
  <2>10. QED BY <2>2, <2>3, <2>6, <2>9
<1>6. QED BY <1>1, <1>2, <1>4, <1>5

LEMMA PrefixNext ==
    ASSUME NEW s \in Symbol, NEW t \in Text, NEW n \in 0 .. Len(t)
    PROVE  Prefix(Cons(s, t), n + 1) = Cons(s, Prefix(t, n))
<1>1. PICK v : v = <<s>>
  OBVIOUS
<1>2. v \in Text /\ Len(v) = 1
  BY <1>1, OneSymbol
<1>3. \A u : Cons(s, u) = Glue(v, u)
  BY <1>1 DEF Cons, Glue
<1>4. Prefix(Glue(v, t), Len(v) + n) = Glue(v, Prefix(t, n))
  BY <1>2, PrefixGlue
<1>5. Len(v) + n = n + 1
  <2>1. PICK l \in Nat : l = Len(t)
    BY TextDomain
  <2>2. n \in 0 .. l
    BY <2>1
  <2>3. QED BY <1>2, <2>2
<1>6. QED BY <1>3, <1>4, <1>5

\* What is in no place of a text is in no part of it.
LEMMA PrefixLacks ==
    ASSUME NEW t \in Text, NEW n \in 0 .. Len(t), NEW a, Lacks(t, a)
    PROVE  Lacks(Prefix(t, n), a)
<1>1. PICK l \in Nat : l = Len(t)
  BY TextDomain
<1>2. n \in 0 .. l
  BY <1>1
<1>3. \A i \in 1 .. n : t[i] # a
  <2> TAKE i \in 1 .. n
  <2>1. i \in 1 .. l
    BY <1>2
  <2>2. QED BY <1>1, <2>1 DEF Lacks
<1>4. QED BY <1>3, PrefixIs DEF Lacks

LEMMA PrefixBare ==
    ASSUME NEW t \in Text, NEW n \in 0 .. Len(t), Bare(t)
    PROVE  Bare(Prefix(t, n))
<1>1. PICK l \in Nat : l = Len(t) /\ DOMAIN t = 1 .. l
  BY TextDomain
<1>2. PICK p : p = Prefix(t, n)
  OBVIOUS
<1>3. p \in Text /\ Len(p) = n /\ \A i \in 1 .. n : p[i] = t[i]
  BY <1>2, PrefixIs
<1>4. DOMAIN p = 1 .. n
  BY <1>3, TextDomain
<1>5. n \in 0 .. l
  BY <1>1
<1>6. \A i \in 1 .. n : i \in 1 .. l
  BY <1>5
<1>7. QED BY <1>1, <1>2, <1>3, <1>4, <1>6 DEF Bare

------------------------------------------------------------------------------
\* Items that are joined to a body, and what splitting makes of a body that is cut.
SplitBy(t, d) == Split(t, {d})

LEMMA AmpIs == "&" \in Symbol
BY DEF Symbol, Literals

LEMMA FreeOf ==
    ASSUME NEW t \in Text, NEW d
    PROVE  Without(t, {d}) <=> Lacks(t, d)
BY DEF Without, Lacks

LEMMA SplitOne ==
    ASSUME NEW t \in Text, NEW d, Lacks(t, d)
    PROVE  SplitBy(t, d) = <<t>>
BY FreeOf, FirstWord, SplitIs DEF SplitBy

LEMMA SplitNext ==
    ASSUME NEW d \in Symbol, NEW t \in Text, NEW its, its = SplitBy(t, d), Last(its) # << >>,
           NEW it \in Text, Lacks(it, d)
    PROVE  SplitBy(Glue(t, Cons(d, it)), d) = Append(its, it)
<1>1. PICK start, D : start = << << >> >> /\ D = {d}
  OBVIOUS
<1>2. Runs(D, start, t, its)
  BY <1>1, SplitRuns DEF SplitBy
<1>3. its \in Tokens
  BY <1>2, RunsEnd
<1>4. PICK v : v = <<d>>
  OBVIOUS
<1>5. v \in Text /\ v # << >> /\ Only(v, D)
  <2>1. v \in Text /\ Len(v) = 1 /\ v[1] = d /\ v # << >>
    BY <1>4, OneSymbol, NotEmpty
  <2>2. \A i \in 1 .. 1 : i = 1
    OBVIOUS
  <2>3. QED BY <1>1, <1>4, <2>1, <2>2 DEF Only
<1>6. PICK x : x = Append(its, << >>)
  OBVIOUS
<1>7. Runs(D, its, v, x)
  BY <1>3, <1>5, <1>6, BlankRuns
<1>8. PICK y : y = Append(its, it)
  OBVIOUS
<1>9. Runs(D, x, it, y)
  <2>1. its \in Seq(Text)
    BY <1>3 DEF Tokens
  <2>2. Without(it, D)
    BY <1>1, FreeOf
  <2>3. QED BY <1>6, <1>8, <2>1, <2>2, NextWord
<1>10. PICK u : u = Glue(v, it)
  OBVIOUS
<1>11. u \in Text /\ Runs(D, its, u, y)
  BY <1>5, <1>7, <1>9, <1>10, RunsJoin DEF Glue
<1>12. PICK w : w = Glue(t, u)
  OBVIOUS
<1>13. w \in Text /\ Runs(D, start, w, y)
  BY <1>2, <1>11, <1>12, RunsJoin DEF Glue
<1>14. Split(w, D) = y
  BY <1>1, <1>13, SplitIs
<1>15. u = Cons(d, it)
  BY <1>4, <1>10 DEF Glue, Cons
<1>16. QED BY <1>1, <1>8, <1>12, <1>14, <1>15 DEF SplitBy

\* The first k items, the last one of them up to its m-th symbol.
IsCut(cs, its, k, m) ==
    /\ cs \in Seq(Text) /\ Len(cs) = k /\ k \in 1 .. Len(its)
    /\ \A i \in 1 .. k - 1 : cs[i] = its[i]
    /\ m \in 0 .. Len(its[k]) /\ cs[k] = Prefix(its[k], m)
Less(its, k, m) == k < Len(its) \/ m < Len(its[k])
CutAt(p, its, k, m) ==
    IsCut(SplitBy(p, "&"), its, k, m) /\ (k = 1 => SplitBy(p, "&")[1] = p)
Splitting(t, its) ==
    /\ t \in Text /\ its \in Tokens /\ SplitBy(t, "&") = its /\ Last(its) # << >>
    /\ Len(its) = 1 => its[1] = t
    /\ \A n \in 0 .. Len(t) - 1 : \E k, m : CutAt(Prefix(t, n), its, k, m) /\ Less(its, k, m)

LEMMA SplittingOne ==
    ASSUME NEW t \in Text, t # << >>, Lacks(t, "&")
    PROVE  Splitting(t, <<t>>)
<1>1. PICK its : its = <<t>>
  OBVIOUS
<1>2. its \in Seq(Text) /\ Len(its) = 1 /\ its[1] = t /\ its # << >>
  BY <1>1, Single, NotEmpty
<1>3. its \in Tokens
  BY <1>2 DEF Tokens
<1>4. SplitBy(t, "&") = its
  BY <1>1, SplitOne
<1>5. Last(its) # << >>
  BY <1>2 DEF Last
<1>6. PICK l \in Nat : l = Len(t)
  BY TextDomain
<1>7. ASSUME NEW n \in 0 .. l - 1
      PROVE  CutAt(Prefix(t, n), its, 1, n) /\ Less(its, 1, n)
  <2>1. n \in 0 .. l /\ n < l
    BY <1>6
  <2>2. PICK p : p = Prefix(t, n)
    OBVIOUS
  <2>3. p \in Text /\ Lacks(p, "&")
    BY <1>6, <2>1, <2>2, PrefixIs, PrefixLacks
  <2>4. PICK cs : cs = <<p>>
    OBVIOUS
  <2>5. cs \in Seq(Text) /\ Len(cs) = 1 /\ cs[1] = p
    BY <2>3, <2>4, Single
  <2>6. SplitBy(p, "&") = cs
    BY <2>3, <2>4, SplitOne
  <2>7. 1 \in 1 .. 1 /\ \A i \in 1 .. 1 - 1 : cs[i] = its[i]
    OBVIOUS
  <2>8. IsCut(cs, its, 1, n)
    BY <1>2, <1>6, <2>1, <2>2, <2>5, <2>7 DEF IsCut
  <2>9. Less(its, 1, n)
    BY <1>2, <1>6, <2>1 DEF Less
  <2>10. QED BY <2>2, <2>5, <2>6, <2>8, <2>9 DEF CutAt
<1>8. QED BY <1>1, <1>2, <1>3, <1>4, <1>5, <1>6, <1>7 DEF Splitting

LEMMA SplittingNext ==
    ASSUME NEW t, NEW its, Splitting(t, its), NEW it \in Text, it # << >>, Lacks(it, "&")
    PROVE  Splitting(Glue(t, Cons("&", it)), Append(its, it))
<1>1. /\ t \in Text /\ its \in Tokens /\ SplitBy(t, "&") = its /\ Last(its) # << >>
      /\ Len(its) = 1 => its[1] = t
      /\ \A n \in 0 .. Len(t) - 1 :
            \E k, m : CutAt(Prefix(t, n), its, k, m) /\ Less(its, k, m)
  BY DEF Splitting
<1>2. PICK q \in Nat : q = Len(its) /\ q # 0 /\ its \in Seq(Text)
  BY <1>1, TokensAre
<1>3. PICK its2 : its2 = Append(its, it)
  OBVIOUS
<1>4. /\ its2 \in Tokens /\ Len(its2) = q + 1 /\ its2[q + 1] = it
      /\ \A i \in 1 .. q : its2[i] = its[i]
  BY <1>2, <1>3, PutIs, AppendIs
<1>5. Last(its2) # << >>
  BY <1>2, <1>3, PutIs
<1>6. PICK a \in Symbol : a = "&"
  BY AmpIs
<1>7. PICK u \in Text : u = Cons(a, it)
  BY ConsType
<1>8. PICK w \in Text : w = Glue(t, u)
  BY <1>1, GlueType
<1>9. SplitBy(w, "&") = its2
  <2>1. its = SplitBy(t, a) /\ Lacks(it, a)
    BY <1>1, <1>6
  <2>2. SplitBy(Glue(t, Cons(a, it)), a) = Append(its, it)
    BY <1>1, <2>1, SplitNext
  <2>3. QED BY <1>3, <1>6, <1>7, <1>8, <2>2
<1>10. PICK l, h \in Nat : l = Len(t) /\ h = Len(it)
  BY <1>1, TextDomain
<1>11. Len(w) = l + (1 + h) /\ Len(u) = 1 + h
  <2>1. Len(u) = 1 + h
    BY <1>7, <1>10, NextIs DEF IsNext
  <2>2. Len(w) = Len(t) + Len(u)
    BY <1>1, <1>8, JoinIs DEF IsJoin, Glue
  <2>3. QED BY <1>10, <2>1, <2>2
<1>12. ASSUME NEW n \in 0 .. l - 1
       PROVE  \E k, m : CutAt(Prefix(w, n), its2, k, m) /\ Less(its2, k, m)
  <2>1. n \in 0 .. l
    OBVIOUS
  <2>2. Prefix(w, n) = Prefix(t, n)
    BY <1>1, <1>8, <1>10, <2>1, PrefixGlue
  <2>3. PICK cs : cs = SplitBy(Prefix(t, n), "&")
    OBVIOUS
  <2>4. PICK k, m : IsCut(cs, its, k, m) /\ (k = 1 => cs[1] = Prefix(t, n))
    BY <1>1, <1>10, <2>3 DEF CutAt
  <2>5. /\ cs \in Seq(Text) /\ Len(cs) = k /\ k \in 1 .. q
        /\ \A i \in 1 .. k - 1 : cs[i] = its[i]
        /\ m \in 0 .. Len(its[k]) /\ cs[k] = Prefix(its[k], m)
    BY <1>2, <2>4 DEF IsCut
  <2>6. k \in 1 .. q + 1 /\ k < q + 1 /\ \A i \in 1 .. k - 1 : i \in 1 .. q
    BY <1>2, <2>5
  <2>7. its2[k] = its[k]
    BY <1>4, <2>5
  <2>8. \A i \in 1 .. k - 1 : cs[i] = its2[i]
    BY <1>4, <2>5, <2>6
  <2>9. IsCut(cs, its2, k, m)
    BY <1>4, <2>5, <2>6, <2>7, <2>8 DEF IsCut
  <2>10. Less(its2, k, m)
    BY <1>4, <2>6 DEF Less
  <2>11. QED BY <2>2, <2>3, <2>4, <2>9, <2>10 DEF CutAt
<1>13. CutAt(Prefix(w, l), its2, q, Len(its[q])) /\ Less(its2, q, Len(its[q]))
  <2>1. 0 \in 0 .. 1 + h /\ l \in 0 .. l /\ q \in 1 .. q /\ q \in 1 .. q + 1 /\ q < q + 1
    BY <1>2
  <2>2. Prefix(w, l) = t
    BY <1>1, <1>8, <1>10, <2>1, PrefixGlue, PrefixEnds
  <2>3. PICK z \in Text : z = its[q]
    BY <1>2, <2>1, ElementOfSeq
  <2>4. PICK m \in Nat : m = Len(z)
    BY TextDomain
  <2>5. m \in 0 .. m /\ z = Prefix(z, m)
    BY <2>4, PrefixEnds
  <2>6. its2[q] = z
    BY <1>4, <2>1, <2>3
  <2>7. \A i \in 1 .. q - 1 : its[i] = its2[i]
    BY <1>2, <1>4
  <2>8. IsCut(its, its2, q, m)
    BY <1>2, <1>4, <2>1, <2>3, <2>4, <2>5, <2>6, <2>7 DEF IsCut
  <2>9. Less(its2, q, m)
    BY <1>4, <2>1 DEF Less
  <2>10. QED BY <1>1, <1>2, <2>2, <2>3, <2>4, <2>8, <2>9 DEF CutAt
<1>14. ASSUME NEW j \in 0 .. h - 1
       PROVE  CutAt(Prefix(w, l + (j + 1)), its2, q + 1, j) /\ Less(its2, q + 1, j)
  <2>1. j \in 0 .. h /\ j < h /\ j + 1 \in 0 .. 1 + h
    BY <1>10
  <2>2. PICK p : p = Prefix(it, j)
    OBVIOUS
  <2>3. p \in Text /\ Lacks(p, "&")
    BY <1>10, <2>1, <2>2, PrefixIs, PrefixLacks
  <2>4. Prefix(u, j + 1) = Cons(a, p)
    BY <1>7, <1>10, <2>1, <2>2, PrefixNext
  <2>5. Prefix(w, l + (j + 1)) = Glue(t, Cons(a, p))
    BY <1>1, <1>8, <1>10, <1>11, <2>1, <2>4, PrefixGlue
  <2>6. PICK cs : cs = Append(its, p)
    OBVIOUS
  <2>7. SplitBy(Glue(t, Cons(a, p)), "&") = cs
    <3>1. its = SplitBy(t, a) /\ Lacks(p, a)
      BY <1>1, <1>6, <2>3
    <3>2. SplitBy(Glue(t, Cons(a, p)), a) = Append(its, p)
      BY <1>1, <2>3, <3>1, SplitNext
    <3>3. QED BY <1>6, <2>6, <3>2
  <2>8. /\ cs \in Tokens /\ Len(cs) = q + 1 /\ cs[q + 1] = p
        /\ \A i \in 1 .. q : cs[i] = its[i]
    BY <1>2, <2>3, <2>6, PutIs, AppendIs
  <2>9. q + 1 \in 1 .. q + 1 /\ (q + 1) - 1 = q
    BY <1>2
  <2>10. \A i \in 1 .. (q + 1) - 1 : cs[i] = its2[i]
    BY <1>4, <2>8, <2>9
  <2>11. cs \in Seq(Text)
    BY <2>8 DEF Tokens
  <2>12. IsCut(cs, its2, q + 1, j)
    BY <1>4, <1>10, <2>1, <2>2, <2>8, <2>9, <2>10, <2>11 DEF IsCut
  <2>13. Less(its2, q + 1, j)
    BY <1>4, <1>10, <2>1 DEF Less
  <2>14. q + 1 # 1
    BY <1>2
  <2>15. QED BY <2>5, <2>7, <2>12, <2>13, <2>14 DEF CutAt
<1>15. ASSUME NEW n \in 0 .. (l + (1 + h)) - 1
       PROVE  \E k, m : CutAt(Prefix(w, n), its2, k, m) /\ Less(its2, k, m)
  <2>1. n \in 0 .. l - 1 \/ n = l \/ \E j \in 0 .. h - 1 : n = l + (j + 1)
    <3>1. CASE n < l
      BY <3>1
    <3>2. CASE n = l
      BY <3>2
    <3>3. CASE n > l
      <4>1. n - l - 1 \in 0 .. h - 1 /\ n = l + ((n - l - 1) + 1)
        BY <3>3
      <4>2. QED BY <4>1
    <3>4. QED BY <3>1, <3>2, <3>3
  <2>2. QED BY <2>1, <1>12, <1>13, <1>14
<1>16. Splitting(w, its2)
  <2>1. q + 1 # 1
    BY <1>2
  <2>2. QED BY <1>4, <1>5, <1>9, <1>11, <1>15, <2>1 DEF Splitting
<1>17. QED BY <1>3, <1>6, <1>7, <1>8, <1>16

------------------------------------------------------------------------------
(***************************************************************************)
(* Items: a key, an equals sign and a value.                               *)
(***************************************************************************)
\* A key and its value, as an item has them.
Pair(k, v) == Cons(k, Cons("=", v))
IsPair(kv, k, v) == Len(kv) = 2 /\ kv[1] = <<k>> /\ kv[2] = v

LEMMA EqualsIs == "=" \in Symbol
BY DEF Symbol, Literals

LEMMA PairType ==
    ASSUME NEW k \in Symbol, NEW v \in Text
    PROVE  /\ Pair(k, v) \in Text /\ Pair(k, v) # << >> /\ Len(Pair(k, v)) = 2 + Len(v)
           /\ (k # "&" /\ Lacks(v, "&") => Lacks(Pair(k, v), "&"))
<1>1. PICK e \in Symbol : e = "="
  BY EqualsIs
<1>2. PICK n \in Nat : n = Len(v)
  BY TextDomain
<1>3. PICK u \in Text : u = Cons(e, v) /\ Len(u) = 1 + n
  BY <1>2, NextIs DEF IsNext
<1>4. PICK w \in Text : w = Cons(k, u) /\ w # << >> /\ Len(w) = 1 + (1 + n)
  BY <1>3, NextIs DEF IsNext
<1>5. 1 + (1 + n) = 2 + n
  OBVIOUS
<1>6. k # "&" /\ Lacks(v, "&") => Lacks(w, "&")
  <2>1. e # "&"
    BY <1>1
  <2>2. Lacks(v, "&") => Lacks(u, "&")
    BY <1>3, <2>1, LacksNext
  <2>3. QED BY <1>4, <2>2, LacksNext
<1>7. w = Pair(k, v)
  BY <1>1, <1>3, <1>4 DEF Pair
<1>8. QED BY <1>2, <1>4, <1>5, <1>6, <1>7

LEMMA KeyValueIs == \A item : KeyValue(item) = SplitBy(item, "=")
BY DEF KeyValue, SplitBy

LEMMA KeyValueOf ==
    ASSUME NEW k \in Symbol, k # "=", NEW v \in Text, Lacks(v, "=")
    PROVE  IsPair(KeyValue(Pair(k, v)), k, v)
<1>1. PICK e \in Symbol : e = "="
  BY EqualsIs
<1>2. PICK t : t = <<k>>
  OBVIOUS
<1>3. t \in Text /\ Lacks(t, e) /\ t # << >>
  BY <1>1, <1>2, LacksOne, NotEmpty
<1>4. PICK its : its = <<t>>
  OBVIOUS
<1>5. its \in Seq(Text) /\ Len(its) = 1 /\ its[1] = t
  BY <1>3, <1>4, Single
<1>6. its = SplitBy(t, e)
  BY <1>3, <1>4, SplitOne
<1>7. Last(its) # << >>
  BY <1>3, <1>5 DEF Last
<1>8. Lacks(v, e)
  BY <1>1
<1>9. SplitBy(Glue(t, Cons(e, v)), e) = Append(its, v)
  BY <1>3, <1>6, <1>7, <1>8, SplitNext
<1>10. Glue(t, Cons(e, v)) = Pair(k, v)
  BY <1>1, <1>2 DEF Glue, Cons, Pair
<1>11. PICK kv : kv = Append(its, v)
  OBVIOUS
<1>12. Len(kv) = 2 /\ kv[2] = v /\ kv[1] = t
  <2>1. 1 \in 1 .. 1 /\ 1 + 1 = 2
    OBVIOUS
  <2>2. Len(kv) = Len(its) + 1 /\ kv[Len(its) + 1] = v /\ \A i \in 1 .. Len(its) : kv[i] = its[i]
    BY <1>5, <1>11, AppendIs
  <2>3. Len(kv) = 1 + 1 /\ kv[1 + 1] = v /\ \A i \in 1 .. 1 : kv[i] = its[i]
    BY <1>5, <2>2
  <2>4. QED BY <1>5, <2>1, <2>3
<1>13. KeyValue(Pair(k, v)) = kv
  BY <1>1, <1>9, <1>10, <1>11, KeyValueIs
<1>14. QED BY <1>2, <1>12, <1>13 DEF IsPair

\* An item that is cut off has its key, or it is odd.
LEMMA PairCut ==
    ASSUME NEW k \in Symbol, k # "=", NEW v \in Text, NEW m \in 0 .. 2 + Len(v)
    PROVE  \/ /\ m < 2 /\ Len(KeyValue(Prefix(Pair(k, v), m))) = 1
              /\ \A a : a # k => Lacks(Prefix(Pair(k, v), m), a)
           \/ m >= 2 /\ m - 2 \in 0 .. Len(v) /\ Prefix(Pair(k, v), m) = Pair(k, Prefix(v, m - 2))
<1>1. PICK e \in Symbol : e = "="
  BY EqualsIs
<1>2. PICK n \in Nat : n = Len(v)
  BY TextDomain
<1>3. PICK u \in Text : u = Cons(e, v) /\ Len(u) = 1 + n
  BY <1>2, NextIs DEF IsNext
<1>4. PICK w \in Text : w = Pair(k, v)
  BY PairType
<1>5. w = Cons(k, u)
  BY <1>1, <1>3, <1>4 DEF Pair
<1>6. m \in 0 .. 2 + n
  BY <1>2
<1>7. ASSUME NEW t \in Text, Lacks(t, e)
      PROVE  Len(KeyValue(t)) = 1
  <2>1. KeyValue(t) = <<t>>
    BY <1>1, <1>7, SplitOne, KeyValueIs
  <2>2. Len(<<t>>) = 1
    BY Single
  <2>3. QED BY <2>1, <2>2
<1>8. CASE m = 0
  <2>1. Prefix(w, m) = << >>
    BY <1>8, PrefixEnds
  <2>2. << >> \in Text /\ Lacks(<< >>, e)
    BY LacksNothing
  <2>3. QED BY <1>4, <1>7, <1>8, <2>1, <2>2, LacksNothing
<1>9. CASE m = 1
  <2>1. 0 \in 0 .. 1 + n /\ 0 + 1 = 1
    OBVIOUS
  <2>2. Prefix(w, 0 + 1) = Cons(k, Prefix(u, 0))
    BY <1>3, <1>5, <2>1, PrefixNext
  <2>3. Prefix(w, 1) = Cons(k, << >>)
    BY <2>1, <2>2, PrefixEnds
  <2>4. PICK t : t = Cons(k, << >>)
    OBVIOUS
  <2>5. t \in Text /\ Lacks(t, e)
    BY <1>1, <2>4, ConsType, LacksNothing, LacksNext
  <2>6. \A a : a # k => Lacks(t, a)
    BY <2>4, LacksNothing, LacksNext
  <2>7. QED BY <1>4, <1>7, <1>9, <2>3, <2>4, <2>5, <2>6
<1>10. CASE m >= 2
  <2>1. m - 2 \in 0 .. n /\ (m - 2) + 1 \in 0 .. 1 + n /\ ((m - 2) + 1) + 1 = m
    BY <1>6, <1>10
  <2>2. PICK j : j = m - 2
    OBVIOUS
  <2>3. j \in 0 .. n /\ j + 1 \in 0 .. 1 + n /\ (j + 1) + 1 = m
    BY <2>1, <2>2
  <2>4. Prefix(u, j + 1) = Cons(e, Prefix(v, j))
    BY <1>2, <1>3, <2>3, PrefixNext
  <2>5. Prefix(w, (j + 1) + 1) = Cons(k, Prefix(u, j + 1))
    BY <1>3, <1>5, <2>3, PrefixNext
  <2>6. Prefix(w, m) = Pair(k, Prefix(v, j))
    BY <1>1, <2>3, <2>4, <2>5 DEF Pair
  <2>7. QED BY <1>2, <1>4, <1>10, <2>2, <2>3, <2>6
<1>11. m = 0 \/ m = 1 \/ m >= 2
  BY <1>6
<1>12. QED BY <1>8, <1>9, <1>10, <1>11

------------------------------------------------------------------------------
\* The map of items that are pairs with different keys.
Keys == Stored \cup {"deepfry", "posttype", "meme_id"}

LEMMA KeysAre ==
    /\ Keys \subseteq Symbol /\ "=" \notin Keys /\ "&" \notin Keys
    /\ Keys = {"name", "top", "bottom", "image", "deepfry", "posttype", "meme_id"}
BY DEF Keys, Stored, Texts, Symbol, Literals

ArePairs(its, q, ks, vs) ==
    /\ q \in Nat /\ its \in Seq(Text) /\ Len(its) = q
    /\ ks \in [1 .. q -> Keys] /\ \A i, j \in 1 .. q : ks[i] = ks[j] => i = j
    /\ vs \in [1 .. q -> Text] /\ \A i \in 1 .. q : Lacks(vs[i], "=")
    /\ \A i \in 1 .. q : its[i] = Pair(ks[i], vs[i])

LEMMA PairsSplit ==
    ASSUME NEW its, NEW q, NEW ks, NEW vs, ArePairs(its, q, ks, vs), NEW i \in 1 .. q
    PROVE  IsPair(KeyValue(its[i]), ks[i], vs[i])
<1>1. /\ ks[i] \in Keys /\ vs[i] \in Text /\ Lacks(vs[i], "=")
      /\ its[i] = Pair(ks[i], vs[i])
  BY DEF ArePairs
<1>2. ks[i] \in Symbol /\ ks[i] # "="
  BY <1>1, KeysAre
<1>3. QED BY <1>1, <1>2, KeyValueOf

LEMMA NoneOdd ==
    ASSUME NEW its, NEW q, NEW ks, NEW vs, ArePairs(its, q, ks, vs)
    PROVE  FirstOdd(its) = 0
<1>1. Len(its) = q
  BY DEF ArePairs
<1>2. \A i \in 1 .. q : Len(KeyValue(its[i])) = 2
  BY PairsSplit DEF IsPair
<1>3. {i \in 1 .. Len(its) : Len(KeyValue(its[i])) # 2} = {}
  BY <1>1, <1>2
<1>4. QED BY <1>3 DEF FirstOdd, SelectInSeq

ItemsOf(its, key) == {i \in 1 .. Len(its) : KeyValue(its[i])[1] = <<key>>}

LEMMA MapOfIs ==
    ASSUME NEW its, NEW key \in Keys
    PROVE  MapOf(its)[key] = IF ItemsOf(its, key) = {} \/ Max(ItemsOf(its, key)) = 0 THEN << >>
                             ELSE Plain(UrlDecode(KeyValue(its[Max(ItemsOf(its, key))])[2]))
<1>1. PICK at : at = SelectLastInSeq(its, LAMBDA i : KeyValue(i)[1] = <<key>>)
  OBVIOUS
<1>2. at = IF ItemsOf(its, key) # {} THEN Max(ItemsOf(its, key)) ELSE 0
  BY <1>1 DEF SelectLastInSeq, ItemsOf
<1>3. MapOf(its)[key] = IF at = 0 THEN << >> ELSE Plain(UrlDecode(KeyValue(its[at])[2]))
  BY <1>1 DEF MapOf, Keys
<1>4. QED BY <1>2, <1>3

LEMMA MapOfPairs ==
    ASSUME NEW its, NEW q, NEW ks, NEW vs, ArePairs(its, q, ks, vs), NEW key \in Keys
    PROVE  /\ \A i \in 1 .. q : ks[i] = key => MapOf(its)[key] = Plain(UrlDecode(vs[i]))
           /\ (\A i \in 1 .. q : ks[i] # key) => MapOf(its)[key] = << >>
<1>1. Len(its) = q /\ q \in Nat /\ \A i, j \in 1 .. q : ks[i] = ks[j] => i = j
  BY DEF ArePairs
<1>2. PICK I : I = ItemsOf(its, key)
  OBVIOUS
<1>3. ASSUME NEW i \in 1 .. q PROVE i \in I <=> ks[i] = key
  <2>1. KeyValue(its[i])[1] = <<ks[i]>>
    BY PairsSplit DEF IsPair
  <2>2. <<ks[i]>> = <<key>> <=> ks[i] = key
    OBVIOUS
  <2>3. QED BY <1>1, <1>2, <2>1, <2>2 DEF ItemsOf
<1>4. I \subseteq 1 .. q
  BY <1>1, <1>2 DEF ItemsOf
<1>5. ASSUME NEW i \in 1 .. q, ks[i] = key
      PROVE  MapOf(its)[key] = Plain(UrlDecode(vs[i]))
  <2>1. i \in I /\ \A j \in I : j = i
    BY <1>1, <1>3, <1>4, <1>5
  <2>2. I \in SUBSET Nat /\ i \in Nat /\ i # 0
    BY <1>4
  <2>3. Max(I) = i
    BY <2>1, <2>2, MaxIs
  <2>4. MapOf(its)[key] = Plain(UrlDecode(KeyValue(its[i])[2]))
    BY <1>2, <2>1, <2>2, <2>3, MapOfIs
  <2>5. KeyValue(its[i])[2] = vs[i]
    BY PairsSplit DEF IsPair
  <2>6. QED BY <2>4, <2>5
<1>6. ASSUME \A i \in 1 .. q : ks[i] # key
      PROVE  MapOf(its)[key] = << >>
  <2>1. I = {}
    BY <1>3, <1>4, <1>6
  <2>2. QED BY <1>2, <2>1, MapOfIs
<1>7. QED BY <1>5, <1>6

LEMMA MapOfNothing ==
    ASSUME NEW key \in Keys
    PROVE  MapOf(<< >>)[key] = << >>
<1>1. ItemsOf(<< >>, key) = {}
  <2>1. Len(<< >>) = 0 /\ 1 .. 0 = {}
    BY LacksNothing
  <2>2. QED BY <2>1 DEF ItemsOf
<1>2. QED BY <1>1, MapOfIs

LEMMA MapOfDomain == \A its : DOMAIN MapOf(its) = Keys /\ MapOf(its) = [key \in Keys |-> MapOf(its)[key]]
BY DEF MapOf, Keys

------------------------------------------------------------------------------
(***************************************************************************)
(* A whole body and a cut one, as parseRequestBody takes them.             *)
(***************************************************************************)
\* The first j pairs, the last of them with a part of its value.
IsPart(ps, j, ws, q, ks, vs) ==
    /\ j \in 0 .. q /\ ArePairs(ps, j, [i \in 1 .. j |-> ks[i]], ws)
    /\ \A i \in 1 .. j : \E l \in 0 .. Len(vs[i]) :
          ws[i] = Prefix(vs[i], l) /\ (i = q => l < Len(vs[i]))

LEMMA FirstOddIs == \A its : FirstOdd(its) = FirstOf({i \in 1 .. Len(its) : Len(KeyValue(its[i])) # 2})
BY DEF FirstOdd, SelectInSeq, FirstOf

LEMMA CutPairs ==
    ASSUME NEW its, NEW q, NEW ks, NEW vs, ArePairs(its, q, ks, vs),
           NEW cs, NEW k, NEW m, IsCut(cs, its, k, m), Less(its, k, m)
    PROVE  \E ps, j, ws :
              /\ IsPart(ps, j, ws, q, ks, vs)
              /\ ps = IF FirstOdd(cs) = 0 THEN cs ELSE SubSeq(cs, 1, FirstOdd(cs) - 1)
<1>1. /\ q \in Nat /\ Len(its) = q
      /\ ks \in [1 .. q -> Keys] /\ \A i, j \in 1 .. q : ks[i] = ks[j] => i = j
      /\ vs \in [1 .. q -> Text] /\ \A i \in 1 .. q : Lacks(vs[i], "=")
      /\ \A i \in 1 .. q : its[i] = Pair(ks[i], vs[i])
  BY DEF ArePairs
<1>2. /\ cs \in Seq(Text) /\ Len(cs) = k /\ k \in 1 .. q
      /\ \A i \in 1 .. k - 1 : cs[i] = its[i]
      /\ m \in 0 .. Len(its[k]) /\ cs[k] = Prefix(its[k], m)
  BY <1>1 DEF IsCut
<1>3. /\ ks[k] \in Symbol /\ ks[k] # "=" /\ vs[k] \in Text
      /\ its[k] = Pair(ks[k], vs[k])
  BY <1>1, <1>2, KeysAre
<1>4. PICK z \in Text, h \in Nat : z = vs[k] /\ h = Len(z)
  BY <1>3, TextDomain
<1>5. Len(its[k]) = 2 + h /\ m \in 0 .. 2 + h
  BY <1>2, <1>3, <1>4, PairType
<1>6. k < q \/ m < 2 + h
  BY <1>1, <1>5 DEF Less
<1>7. \A i \in 1 .. k - 1 : i \in 1 .. q /\ i # q /\ i # k /\ i \in 1 .. k
  BY <1>1, <1>2
<1>8. \/ m < 2 /\ Len(KeyValue(cs[k])) = 1
      \/ m >= 2 /\ m - 2 \in 0 .. h /\ cs[k] = Pair(ks[k], Prefix(z, m - 2))
  BY <1>2, <1>3, <1>4, <1>5, PairCut
<1>9. \A i \in 1 .. k - 1 : Len(KeyValue(cs[i])) = 2
  BY <1>2, <1>7, PairsSplit DEF IsPair
<1>10. ASSUME NEW j \in 1 .. q
       PROVE  /\ ks[j] \in Keys
              /\ \A i \in 1 .. j : i \in 1 .. q /\ ks[i] \in Keys
  <2>1. \A i \in 1 .. j : i \in 1 .. q
    BY <1>1
  <2>2. QED BY <1>1, <2>1
<1>11. CASE m < 2 /\ Len(KeyValue(cs[k])) = 1
  <2>1. FirstOdd(cs) = k
    <3>1. PICK I : I = {i \in 1 .. k : Len(KeyValue(cs[i])) # 2}
      OBVIOUS
    <3>2. k \in 1 .. k /\ \A i \in 1 .. k : i = k \/ i \in 1 .. k - 1
      BY <1>2
    <3>3. I = {k}
      BY <1>9, <1>11, <3>1, <3>2
    <3>4. k \in Nat
      BY <1>2
    <3>5. FirstOf(I) = k
      BY <3>3, <3>4, FirstOfGiven
    <3>6. QED BY <1>2, <3>1, <3>5, FirstOddIs
  <2>2. PICK j \in 0 .. q : j = k - 1 /\ j < q /\ j \in Int /\ 1 \in Int /\ j \in Nat
    BY <1>1, <1>2
  <2>3. PICK ps : ps = SubSeq(cs, 1, j)
    OBVIOUS
  <2>4. \A i \in 1 .. j : cs[i] \in Text
    <3> TAKE i \in 1 .. j
    <3>1. i \in 1 .. k
      BY <1>2, <2>2
    <3>2. QED BY <1>2, <3>1, ElementOfSeq
  <2>5. /\ ps \in Seq(Text) /\ Len(ps) = j /\ \A i \in 1 .. j : ps[i] = cs[i]
    <3>1. /\ ps \in Seq(Text) /\ Len(ps) = IF 1 <= j THEN j - 1 + 1 ELSE 0
          /\ \A i \in 1 .. j - 1 + 1 : ps[i] = cs[1 + i - 1]
      BY <2>2, <2>3, <2>4, SubSeqProperties
    <3>2. (IF 1 <= j THEN j - 1 + 1 ELSE 0) = j /\ j - 1 + 1 = j
          /\ \A i \in 1 .. j : 1 + i - 1 = i
      BY <2>2
    <3>3. QED BY <3>1, <3>2
  <2>6. PICK ls : ls = [i \in 1 .. j |-> ks[i]]
    OBVIOUS
  <2>7. PICK ws : ws = [i \in 1 .. j |-> vs[i]]
    OBVIOUS
  <2>8. \A i \in 1 .. j : i \in 1 .. q /\ i # q /\ i \in 1 .. k - 1
    BY <1>7, <2>2
  <2>9. /\ ls \in [1 .. j -> Keys] /\ \A i, g \in 1 .. j : ls[i] = ls[g] => i = g
        /\ ws \in [1 .. j -> Text] /\ \A i \in 1 .. j : Lacks(ws[i], "=")
        /\ \A i \in 1 .. j : ls[i] = ks[i] /\ ws[i] = vs[i]
    BY <1>1, <2>6, <2>7, <2>8
  <2>10. \A i \in 1 .. j : ps[i] = Pair(ls[i], ws[i])
    BY <1>1, <1>2, <2>5, <2>8, <2>9
  <2>11. ArePairs(ps, j, ls, ws)
    BY <2>2, <2>5, <2>9, <2>10 DEF ArePairs
  <2>12. ASSUME NEW i \in 1 .. j
         PROVE  \E l \in 0 .. Len(vs[i]) : ws[i] = Prefix(vs[i], l) /\ (i = q => l < Len(vs[i]))
    <3>1. PICK x \in Text, l \in Nat : x = vs[i] /\ l = Len(x)
      BY <1>1, <2>8, TextDomain
    <3>2. l \in 0 .. l /\ Prefix(x, l) = x
      BY <3>1, PrefixEnds
    <3>3. QED BY <2>8, <2>9, <3>1, <3>2
  <2>13. IsPart(ps, j, ws, q, ks, vs)
    BY <2>6, <2>11, <2>12 DEF IsPart
  <2>14. ps = IF FirstOdd(cs) = 0 THEN cs ELSE SubSeq(cs, 1, FirstOdd(cs) - 1)
    <3>1. k # 0
      BY <1>2
    <3>2. QED BY <2>1, <2>2, <2>3, <3>1
  <2>15. QED BY <2>13, <2>14
<1>12. CASE m >= 2 /\ m - 2 \in 0 .. h /\ cs[k] = Pair(ks[k], Prefix(z, m - 2))
  <2>1. PICK d \in 0 .. h : d = m - 2 /\ (k = q => d < h)
    <3>1. k = q => m - 2 < h
      BY <1>1, <1>5, <1>6, <1>12
    <3>2. QED BY <1>12, <3>1
  <2>2. PICK y \in Text : y = Prefix(z, d) /\ Lacks(y, "=")
    <3>1. d \in 0 .. Len(z)
      BY <1>4
    <3>2. Lacks(z, "=")
      BY <1>1, <1>2, <1>4
    <3>3. Prefix(z, d) \in Text /\ Lacks(Prefix(z, d), "=")
      BY <3>1, <3>2, PrefixIs, PrefixLacks
    <3>4. QED BY <3>3
  <2>3. PICK ls : ls = [i \in 1 .. k |-> ks[i]]
    OBVIOUS
  <2>4. PICK ws : ws = [i \in 1 .. k |-> IF i = k THEN y ELSE vs[i]]
    OBVIOUS
  <2>5. \A i \in 1 .. k : i \in 1 .. q /\ (i # k => i \in 1 .. k - 1)
    BY <1>1, <1>2
  <2>6. /\ ls \in [1 .. k -> Keys] /\ \A i, g \in 1 .. k : ls[i] = ls[g] => i = g
        /\ \A i \in 1 .. k : ls[i] = ks[i]
    BY <1>1, <2>3, <2>5
  <2>7. /\ ws \in [1 .. k -> Text] /\ \A i \in 1 .. k : Lacks(ws[i], "=")
        /\ \A i \in 1 .. k : ws[i] = IF i = k THEN y ELSE vs[i]
    BY <1>1, <2>2, <2>4, <2>5
  <2>8. \A i \in 1 .. k : cs[i] = Pair(ls[i], ws[i])
    <3> TAKE i \in 1 .. k
    <3>1. CASE i = k
      BY <1>12, <2>1, <2>2, <2>6, <2>7, <3>1
    <3>2. CASE i # k
      BY <1>1, <1>2, <2>5, <2>6, <2>7, <3>2
    <3>3. QED BY <3>1, <3>2
  <2>9. k \in Nat /\ k \in 0 .. q
    BY <1>2
  <2>10. ArePairs(cs, k, ls, ws)
    BY <1>2, <2>6, <2>7, <2>8, <2>9 DEF ArePairs
  <2>11. ASSUME NEW i \in 1 .. k
         PROVE  \E l \in 0 .. Len(vs[i]) : ws[i] = Prefix(vs[i], l) /\ (i = q => l < Len(vs[i]))
    <3>1. CASE i = k
      BY <1>4, <2>1, <2>2, <2>7, <3>1
    <3>2. CASE i # k
      <4>1. i # q /\ i \in 1 .. q
        BY <1>7, <2>5, <3>2
      <4>2. PICK x \in Text, l \in Nat : x = vs[i] /\ l = Len(x)
        BY <1>1, <4>1, TextDomain
      <4>3. l \in 0 .. l /\ Prefix(x, l) = x
        BY <4>2, PrefixEnds
      <4>4. QED BY <2>7, <3>2, <4>1, <4>2, <4>3
    <3>3. QED BY <3>1, <3>2
  <2>12. IsPart(cs, k, ws, q, ks, vs)
    BY <2>3, <2>9, <2>10, <2>11 DEF IsPart
  <2>13. FirstOdd(cs) = 0
    BY <2>10, NoneOdd
  <2>14. QED BY <2>12, <2>13
<1>13. QED BY <1>8, <1>11, <1>12

------------------------------------------------------------------------------
\* What parseRequestBody makes of a body, whole or cut off.
Blank(x) == [key \in Keys |-> IF key = "name" THEN x ELSE << >>]

LEMMA WholeParsed ==
    ASSUME NEW t, NEW its, Splitting(t, its), NEW q, NEW ks, NEW vs,
           ArePairs(its, q, ks, vs), q >= 3
    PROVE  ParseRequestBody(t) = Finished(MapOf(its)) /\ ~OutOfRange(t)
<1>1. Items(t) = its
  BY DEF Splitting, Items, SplitBy
<1>2. Len(its) = q /\ q \in Nat
  BY DEF ArePairs
<1>3. FirstOdd(its) = 0 /\ ~(Len(its) < 3)
  BY <1>2, NoneOdd
<1>4. ParseRequestBody(t) = Finished(MapOf(its))
  BY <1>1, <1>3 DEF ParseRequestBody
<1>5. ~OutOfRange(t)
  BY <1>1, <1>3 DEF OutOfRange
<1>6. QED BY <1>4, <1>5

LEMMA BlankIs ==
    /\ MapOf(<< >>) = Blank(<< >>)
    /\ \A x : [MapOf(<< >>) EXCEPT !["name"] = x] = Blank(x)
<1>1. MapOf(<< >>) = [key \in Keys |-> << >>]
  BY MapOfDomain, MapOfNothing
<1>2. "name" \in Keys
  BY KeysAre
<1>3. QED BY <1>1, <1>2 DEF Blank

CutInto(map, q, ks, vs) ==
    \/ \E ps, j, ws : IsPart(ps, j, ws, q, ks, vs) /\ (map = MapOf(ps) \/ map = Finished(MapOf(ps)))
    \/ \E x \in Text : map = Blank(x)

LEMMA CutParsed ==
    ASSUME NEW t, NEW its, Splitting(t, its), NEW q, NEW ks, NEW vs,
           ArePairs(its, q, ks, vs), ks[1] = "name", NEW n \in 0 .. Len(t) - 1
    PROVE  CutInto(ParseRequestBody(Prefix(t, n)), q, ks, vs)
<1>1. PICK p : p = Prefix(t, n)
  OBVIOUS
<1>2. PICK cs : cs = SplitBy(p, "&")
  OBVIOUS
<1>3. PICK k, m : IsCut(cs, its, k, m) /\ (k = 1 => cs[1] = p) /\ Less(its, k, m)
  BY <1>1, <1>2 DEF Splitting, CutAt
<1>4. Items(p) = cs
  BY <1>2 DEF Items, SplitBy
<1>5. PICK ps, j, ws :
         /\ IsPart(ps, j, ws, q, ks, vs)
         /\ ps = IF FirstOdd(cs) = 0 THEN cs ELSE SubSeq(cs, 1, FirstOdd(cs) - 1)
  BY <1>3, CutPairs
<1>6. PICK first : first = KeyValue(cs[1])
  OBVIOUS
<1>7. ParseRequestBody(p) =
        IF Len(cs) < 3
        THEN IF Has(p, <<"access">>)
             THEN [MapOf(<< >>) EXCEPT ![first[1][1]] = first[2]] ELSE MapOf(<< >>)
        ELSE IF FirstOdd(cs) = 0 THEN Finished(MapOf(cs))
        ELSE MapOf(SubSeq(cs, 1, FirstOdd(cs) - 1))
  BY <1>4, <1>6 DEF ParseRequestBody
<1>8. CASE ~(Len(cs) < 3)
  <2>1. CASE FirstOdd(cs) = 0
    BY <1>1, <1>5, <1>7, <1>8, <2>1 DEF CutInto
  <2>2. CASE FirstOdd(cs) # 0
    BY <1>1, <1>5, <1>7, <1>8, <2>2 DEF CutInto
  <2>3. QED BY <2>1, <2>2
<1>9. CASE Len(cs) < 3 /\ ~Has(p, <<"access">>)
  <2>1. ParseRequestBody(p) = Blank(<< >>)
    BY <1>7, <1>9, BlankIs
  <2>2. << >> \in Text
    BY LacksNothing
  <2>3. QED BY <1>1, <2>1, <2>2 DEF CutInto
<1>10. CASE Len(cs) < 3 /\ Has(p, <<"access">>)
  <2>1. /\ cs \in Seq(Text) /\ Len(cs) = k /\ k \in 1 .. Len(its)
        /\ \A i \in 1 .. k - 1 : cs[i] = its[i]
        /\ m \in 0 .. Len(its[k]) /\ cs[k] = Prefix(its[k], m)
    BY <1>3 DEF IsCut
  <2>2. /\ q \in Nat /\ Len(its) = q /\ vs \in [1 .. q -> Text]
        /\ its[1] = Pair(ks[1], vs[1]) /\ 1 \in 1 .. q
        /\ Lacks(vs[1], "=")
    <3>1. q \in Nat /\ Len(its) = q
      BY DEF ArePairs
    <3>2. 1 \in 1 .. q
      BY <2>1, <3>1
    <3>3. QED BY <3>1, <3>2 DEF ArePairs
  <2>3. PICK name \in Symbol : name = "name" /\ name # "=" /\ name # "access" /\ name \in Keys
    BY KeysAre
  <2>4. PICK v \in Text : v = vs[1]
    BY <2>2
  <2>5. \E x \in Text : IsPair(first, name, x)
    <3>1. CASE k = 1
      <4>1. cs[1] = p /\ cs[1] = Prefix(Pair(name, v), m) /\ m \in 0 .. 2 + Len(v)
        BY <1>3, <2>1, <2>2, <2>3, <2>4, <3>1, PairType
      <4>2. ~Lacks(p, "access")
        <5>1. PICK a : a = "access"
          OBVIOUS
        <5>2. p \in Text
          <6>1. 1 \in 1 .. 1
            OBVIOUS
          <6>2. QED BY <2>1, <3>1, <4>1, <6>1, ElementOfSeq
        <5>3. Has(p, <<a>>)
          BY <1>10, <5>1
        <5>4. QED BY <5>1, <5>2, <5>3, HasNone
      <4>3. m - 2 \in 0 .. Len(v) /\ p = Pair(name, Prefix(v, m - 2))
        BY <2>3, <4>1, <4>2, PairCut
      <4>4. PICK x \in Text : x = Prefix(v, m - 2) /\ Lacks(x, "=")
        <5>1. Lacks(v, "=")
          BY <2>2, <2>4
        <5>2. QED BY <4>3, <5>1, PrefixIs, PrefixLacks
      <4>5. IsPair(KeyValue(Pair(name, x)), name, x)
        BY <2>3, <4>4, KeyValueOf
      <4>6. QED BY <1>6, <4>1, <4>3, <4>4, <4>5
    <3>2. CASE k # 1
      <4>1. 1 \in 1 .. k - 1
        BY <2>1, <3>2
      <4>2. cs[1] = Pair(name, v) /\ Lacks(v, "=")
        BY <2>1, <2>2, <2>3, <2>4, <4>1
      <4>3. IsPair(KeyValue(Pair(name, v)), name, v)
        BY <2>3, <4>2, KeyValueOf
      <4>4. QED BY <1>6, <4>2, <4>3
    <3>3. QED BY <3>1, <3>2
  <2>6. PICK x \in Text : IsPair(first, name, x)
    BY <2>5
  <2>7. first[1][1] = name /\ first[2] = x
    <3>1. <<name>>[1] = name
      OBVIOUS
    <3>2. QED BY <2>6, <3>1 DEF IsPair
  <2>8. ParseRequestBody(p) = [MapOf(<< >>) EXCEPT ![first[1][1]] = first[2]]
    BY <1>7, <1>10
  <2>9. ParseRequestBody(p) = [MapOf(<< >>) EXCEPT !["name"] = x]
    BY <2>3, <2>7, <2>8
  <2>10. ParseRequestBody(p) = Blank(x)
    BY <2>9, BlankIs
  <2>11. QED BY <1>1, <2>10 DEF CutInto
<1>11. QED BY <1>8, <1>9, <1>10

------------------------------------------------------------------------------
(***************************************************************************)
(* The bodies of the forms are such texts.                                 *)
(***************************************************************************)
LEMMA ThreeIsCons ==
    ASSUME NEW a \in Symbol, NEW b \in Symbol, NEW c \in Symbol, NEW t \in Text
    PROVE  Glue(<<a, b, c>>, t) = Cons(a, Cons(b, Cons(c, t)))
<1>1. PICK y \in Text : y = <<b, c>> /\ y = Cons(b, Cons(c, << >>)) /\ Len(y) = 2
  BY TwoIsCons
<1>2. y[1] = b /\ y[2] = c
  BY <1>1
<1>3. PICK z : z = Cons(a, y)
  OBVIOUS
<1>4. IsNext(z, a, y)
  BY <1>1, <1>3, NextIs
<1>5. z \in Text /\ Len(z) = 3 /\ z[1] = a /\ z[2] = b /\ z[3] = c
  <2>1. 1 \in 1 .. 2 /\ 2 \in 1 .. 2 /\ 1 + 1 = 2 /\ 1 + 2 = 3
    OBVIOUS
  <2>2. z \in Text /\ z[1] = a /\ Len(z) = 1 + 2 /\ z[1 + 1] = y[1] /\ z[1 + 2] = y[2]
    BY <1>1, <1>4, <2>1 DEF IsNext
  <2>3. QED BY <1>2, <2>1, <2>2
<1>6. z = <<a, b, c>>
  <2>1. PICK q : q = <<a, b, c>>
    OBVIOUS
  <2>2. q \in Seq(Symbol) /\ Len(q) = 3 /\ q[1] = a /\ q[2] = b /\ q[3] = c
    BY <2>1
  <2>3. \A i \in 1 .. 3 : i = 1 \/ i = 2 \/ i = 3
    OBVIOUS
  <2>4. \A i \in 1 .. 3 : z[i] = q[i]
    BY <1>5, <2>2, <2>3
  <2>5. q \in Text
    BY <2>2 DEF Text
  <2>6. z = q
    BY <1>5, <2>2, <2>4, <2>5, TextsEqual
  <2>7. QED BY <2>1, <2>6
<1>7. PICK x, o \in Text : o = << >> /\ x = Cons(c, o)
  BY ConsType, LacksNothing
<1>8. Glue(z, t) = Cons(a, Glue(y, t))
  BY <1>1, <1>3, GlueNext
<1>9. Glue(y, t) = Cons(b, Glue(x, t))
  BY <1>1, <1>7, GlueNext
<1>10. Glue(x, t) = Cons(c, t)
  BY <1>7, GlueNext, GlueNothing
<1>11. QED BY <1>6, <1>8, <1>9, <1>10

LEMMA ItemIs ==
    ASSUME NEW k \in Symbol, NEW v \in Text
    PROVE  Item(k, v) = Cons("&", Pair(k, v))
<1>1. PICK a, e \in Symbol : a = "&" /\ e = "="
  BY AmpIs, EqualsIs
<1>2. Glue(<<a, k, e>>, v) = Cons(a, Cons(k, Cons(e, v)))
  BY ThreeIsCons
<1>3. PICK x : x = <<a, k, e>>
  OBVIOUS
<1>4. Item(k, v) = Glue(x, v)
  BY <1>1, <1>3 DEF Item, Glue
<1>5. QED BY <1>1, <1>2, <1>3, <1>4 DEF Pair

LEMMA TailIs ==
    ASSUME NEW s \in Symbol, NEW t \in Text
    PROVE  Tail(Cons(s, t)) = t
<1>1. PICK w : w = Cons(s, t)
  OBVIOUS
<1>2. PICK n \in Nat : n = Len(t)
  BY TextDomain
<1>3. IsNext(w, s, t)
  BY <1>1, NextIs
<1>4. w \in Text /\ w # << >> /\ Len(w) = 1 + n /\ \A j \in 1 .. n : w[1 + j] = t[j]
  BY <1>2, <1>3 DEF IsNext
<1>5. PICK u : u = Tail(w)
  OBVIOUS
<1>6. u \in Text /\ Len(u) = Len(w) - 1 /\ \A i \in 1 .. Len(u) : u[i] = w[i + 1]
  BY <1>4, <1>5, HeadTailProperties DEF Text
<1>7. Len(u) = n
  BY <1>4, <1>6
<1>8. \A i \in 1 .. n : u[i] = t[i]
  <2> TAKE i \in 1 .. n
  <2>1. i + 1 = 1 + i
    OBVIOUS
  <2>2. QED BY <1>4, <1>6, <1>7, <2>1
<1>9. QED BY <1>1, <1>2, <1>5, <1>6, <1>7, <1>8, TextsEqual

------------------------------------------------------------------------------
\* The body of a form.
GoodForm(f) ==
    /\ f.fill.name \in Text /\ f.fill.top \in Text /\ f.fill.bottom \in Text
    /\ f.fill.image \in Text /\ Bare(f.fill.image) /\ f.fill.deepfry \in BOOLEAN
    /\ Lacks(f.fill.image, "meme_templates/")
    /\ f.id \in Text /\ Bare(f.id)
GoodIds == IdTexts[1] \in Text /\ Bare(IdTexts[1])

Values(f) == [name     |-> Encoded(f.fill.name),
              image    |-> f.fill.image,
              deepfry  |-> <<"True">>,
              top      |-> Encoded(f.fill.top),
              bottom   |-> Encoded(f.fill.bottom),
              posttype |-> <<IF f.id = << >> THEN "new" ELSE "edit">>,
              meme_id  |-> IF f.id = << >> THEN IdTexts[1] ELSE f.id]
ValueOf(f, k) == Values(f)[k]

LEMMA BareLacks ==
    ASSUME NEW t \in Text, Bare(t)
    PROVE  Lacks(t, "&") /\ Lacks(t, "=")
BY TextDomain DEF Bare, Lacks

LEMMA OneBare ==
    ASSUME NEW s \in Symbol, s \notin {"&", "=", "%", "+"}
    PROVE  <<s>> \in Text /\ Bare(<<s>>)
<1>1. PICK t : t = <<s>>
  OBVIOUS
<1>2. t \in Text /\ Len(t) = 1 /\ t[1] = s
  BY <1>1, OneSymbol
<1>3. DOMAIN t = 1 .. 1 /\ \A i \in 1 .. 1 : i = 1
  BY <1>2, TextDomain
<1>4. QED BY <1>1, <1>2, <1>3 DEF Bare

LEMMA ValuesAre ==
    ASSUME NEW f
    PROVE  /\ ValueOf(f, "name") = Encoded(f.fill.name) /\ ValueOf(f, "image") = f.fill.image
           /\ ValueOf(f, "deepfry") = <<"True">>
           /\ ValueOf(f, "top") = Encoded(f.fill.top)
           /\ ValueOf(f, "bottom") = Encoded(f.fill.bottom)
           /\ ValueOf(f, "posttype") = <<IF f.id = << >> THEN "new" ELSE "edit">>
           /\ ValueOf(f, "meme_id") = IF f.id = << >> THEN IdTexts[1] ELSE f.id
BY DEF ValueOf, Values

LEMMA ShortBare ==
    /\ "new" \in Symbol /\ "edit" \in Symbol /\ "True" \in Symbol
    /\ <<"new">> \in Text /\ Bare(<<"new">>)
    /\ <<"edit">> \in Text /\ Bare(<<"edit">>)
    /\ <<"True">> \in Text /\ Bare(<<"True">>)
<1>1. "new" \in Symbol /\ "edit" \in Symbol /\ "True" \in Symbol
  BY DEF Symbol, Literals
<1>2. PICK a, b, c \in Symbol : a = "new" /\ b = "edit" /\ c = "True"
  BY <1>1
<1>3. a \notin {"&", "=", "%", "+"} /\ b \notin {"&", "=", "%", "+"}
      /\ c \notin {"&", "=", "%", "+"}
  BY <1>2
<1>4. /\ <<a>> \in Text /\ Bare(<<a>>) /\ <<b>> \in Text /\ Bare(<<b>>)
      /\ <<c>> \in Text /\ Bare(<<c>>)
  BY <1>3, OneBare
<1>5. QED BY <1>1, <1>2, <1>4

LEMMA ValuesFree ==
    ASSUME NEW f, GoodForm(f), GoodIds, NEW k \in Keys
    PROVE  ValueOf(f, k) \in Text /\ Lacks(ValueOf(f, k), "&") /\ Lacks(ValueOf(f, k), "=")
<1> DEFINE Free(v) == v \in Text /\ Lacks(v, "&") /\ Lacks(v, "=")
<1>1. \A t \in Text : Free(Encoded(t))
  BY EncodedType, EncodedLacks
<1>2. \A t \in Text : Bare(t) => Free(t)
  BY BareLacks
<1> HIDE DEF Free
<1>3. Free(ValueOf(f, "name")) /\ Free(ValueOf(f, "top")) /\ Free(ValueOf(f, "bottom"))
  BY <1>1, ValuesAre DEF GoodForm
<1>4. Free(ValueOf(f, "image")) /\ Free(ValueOf(f, "meme_id"))
  BY <1>2, ValuesAre DEF GoodForm, GoodIds
<1>5. Free(ValueOf(f, "deepfry"))
  BY <1>2, ShortBare, ValuesAre
<1>6. Free(ValueOf(f, "posttype"))
  <2>1. CASE f.id = << >>
    BY <1>2, <2>1, ShortBare, ValuesAre
  <2>2. CASE f.id # << >>
    BY <1>2, <2>2, ShortBare, ValuesAre
  <2>3. QED BY <2>1, <2>2
<1>7. Free(ValueOf(f, k))
  BY <1>3, <1>4, <1>5, <1>6, KeysAre
<1>8. QED BY <1>7 DEF Free

\* A body with the keys of K, the first one "name" and the last one l.
BodyBy(t, f, K, l, q, its, ks) ==
    /\ Splitting(t, its)
    /\ ArePairs(its, q, ks, [i \in 1 .. q |-> ValueOf(f, ks[i])])
    /\ 1 <= q /\ ks[1] = "name" /\ ks[q] = l
    /\ \A key \in Keys : key \in K <=> \E i \in 1 .. q : ks[i] = key
IsBody(t, f, K, l, q) == \E its, ks : BodyBy(t, f, K, l, q, its, ks)

LEMMA BodyBegins ==
    ASSUME NEW f, GoodForm(f), GoodIds
    PROVE  IsBody(Pair("name", ValueOf(f, "name")), f, {"name"}, "name", 1)
<1>1. PICK k \in Keys : k = "name" /\ k \in Symbol /\ k # "=" /\ k # "&"
  BY KeysAre
<1>2. PICK v \in Text : v = ValueOf(f, k) /\ Lacks(v, "&") /\ Lacks(v, "=")
  BY ValuesFree
<1>3. PICK t \in Text : t = Pair(k, v) /\ t # << >> /\ Lacks(t, "&")
  BY <1>1, <1>2, PairType
<1>4. PICK its : its = <<t>>
  OBVIOUS
<1>5. its \in Seq(Text) /\ Len(its) = 1 /\ its[1] = t
  BY <1>4, Single
<1>6. Splitting(t, its)
  BY <1>3, <1>4, SplittingOne
<1>7. PICK ks : ks = [i \in 1 .. 1 |-> k]
  OBVIOUS
<1>8. PICK vs : vs = [i \in 1 .. 1 |-> ValueOf(f, ks[i])]
  OBVIOUS
<1>9. 1 \in 1 .. 1 /\ 1 \in Nat /\ 1 <= 1 /\ \A i \in 1 .. 1 : i = 1
  OBVIOUS
<1>10. ks \in [1 .. 1 -> Keys] /\ ks[1] = k /\ \A i, j \in 1 .. 1 : ks[i] = ks[j] => i = j
  BY <1>7, <1>9
<1>11. vs[1] = v /\ vs \in [1 .. 1 -> Text]
  BY <1>2, <1>8, <1>9, <1>10
<1>12. ArePairs(its, 1, ks, vs)
  <2>1. \A i \in 1 .. 1 : Lacks(vs[i], "=") /\ its[i] = Pair(ks[i], vs[i])
    BY <1>2, <1>3, <1>5, <1>9, <1>10, <1>11
  <2>2. QED BY <1>5, <1>9, <1>10, <1>11, <2>1 DEF ArePairs
<1>13. \A key \in Keys : key \in {k} <=> \E i \in 1 .. 1 : ks[i] = key
  BY <1>9, <1>10
<1>14. BodyBy(t, f, {k}, k, 1, its, ks)
  BY <1>1, <1>6, <1>8, <1>9, <1>10, <1>12, <1>13 DEF BodyBy
<1>15. QED BY <1>1, <1>2, <1>3, <1>14 DEF IsBody

LEMMA BodyGoesOn ==
    ASSUME NEW f, GoodForm(f), GoodIds, NEW t, NEW K, NEW l, NEW q, IsBody(t, f, K, l, q),
           NEW k \in Keys, k \notin K
    PROVE  /\ t \in Text /\ Cons("&", Pair(k, ValueOf(f, k))) \in Text
           /\ IsBody(Glue(t, Cons("&", Pair(k, ValueOf(f, k)))), f, K \cup {k}, k, q + 1)
<1>1. k \in Symbol /\ k # "=" /\ k # "&"
  BY KeysAre
<1>2. PICK v \in Text : v = ValueOf(f, k) /\ Lacks(v, "&") /\ Lacks(v, "=")
  BY ValuesFree
<1>3. PICK it \in Text : it = Pair(k, v) /\ it # << >> /\ Lacks(it, "&")
  BY <1>1, <1>2, PairType
<1>4. PICK its, ks : BodyBy(t, f, K, l, q, its, ks)
  BY DEF IsBody
<1>5. PICK vs : vs = [i \in 1 .. q |-> ValueOf(f, ks[i])]
  OBVIOUS
<1>6. /\ Splitting(t, its) /\ ArePairs(its, q, ks, vs)
      /\ 1 <= q /\ ks[1] = "name" /\ ks[q] = l
      /\ \A key \in Keys : key \in K <=> \E i \in 1 .. q : ks[i] = key
  BY <1>4, <1>5 DEF BodyBy
<1>7. /\ q \in Nat /\ its \in Seq(Text) /\ Len(its) = q
      /\ ks \in [1 .. q -> Keys] /\ \A i, j \in 1 .. q : ks[i] = ks[j] => i = j
      /\ vs \in [1 .. q -> Text] /\ \A i \in 1 .. q : Lacks(vs[i], "=")
      /\ \A i \in 1 .. q : its[i] = Pair(ks[i], vs[i])
  BY <1>6 DEF ArePairs
<1>8. PICK its2 : its2 = Append(its, it)
  OBVIOUS
<1>9. its2 \in Seq(Text) /\ Len(its2) = q + 1 /\ its2[q + 1] = it /\ \A i \in 1 .. q : its2[i] = its[i]
  <2>1. its2 \in Tokens
    BY <1>7, <1>8, PutIs
  <2>2. its2 \in Seq(Text)
    BY <2>1 DEF Tokens
  <2>3. QED BY <1>7, <1>8, <2>2, AppendIs
<1>10. PICK w : w = Glue(t, Cons("&", it))
  OBVIOUS
<1>11. Splitting(w, its2)
  BY <1>3, <1>6, <1>8, <1>10, SplittingNext
<1>12. PICK ks2 : ks2 = [i \in 1 .. q + 1 |-> IF i = q + 1 THEN k ELSE ks[i]]
  OBVIOUS
<1>13. PICK vs2 : vs2 = [i \in 1 .. q + 1 |-> ValueOf(f, ks2[i])]
  OBVIOUS
<1>14. /\ \A i \in 1 .. q + 1 : i = q + 1 \/ i \in 1 .. q
       /\ q + 1 \in 1 .. q + 1 /\ q + 1 \in Nat /\ 1 \in 1 .. q /\ 1 <= q + 1
       /\ \A i \in 1 .. q : i \in 1 .. q + 1 /\ i # q + 1
  BY <1>6, <1>7
<1>15. /\ ks2 \in [1 .. q + 1 -> Keys] /\ ks2[q + 1] = k
       /\ \A i \in 1 .. q : ks2[i] = ks[i]
  BY <1>7, <1>12, <1>14
<1>16. \A i \in 1 .. q : ks[i] # k
  BY <1>6
<1>17. \A i, j \in 1 .. q + 1 : ks2[i] = ks2[j] => i = j
  BY <1>7, <1>14, <1>15, <1>16
<1>18. vs2[q + 1] = v /\ \A i \in 1 .. q : vs2[i] = vs[i]
  BY <1>2, <1>5, <1>13, <1>14, <1>15
<1>19. vs2 \in [1 .. q + 1 -> Text]
  <2>1. \A i \in 1 .. q + 1 : ValueOf(f, ks2[i]) \in Text
    BY <1>15, ValuesFree
  <2>2. QED BY <1>13, <2>1
<1>20. \A i \in 1 .. q + 1 : Lacks(vs2[i], "=") /\ its2[i] = Pair(ks2[i], vs2[i])
  BY <1>2, <1>3, <1>7, <1>9, <1>14, <1>15, <1>18
<1>21. ArePairs(its2, q + 1, ks2, vs2)
  BY <1>9, <1>14, <1>15, <1>17, <1>19, <1>20 DEF ArePairs
<1>22. \A key \in Keys : key \in K \cup {k} <=> \E i \in 1 .. q + 1 : ks2[i] = key
  BY <1>6, <1>14, <1>15
<1>23. BodyBy(w, f, K \cup {k}, k, q + 1, its2, ks2)
  BY <1>6, <1>11, <1>13, <1>14, <1>15, <1>21, <1>22 DEF BodyBy
<1>24. t \in Text /\ Cons("&", it) \in Text
  BY <1>6, AmpIs, ConsType DEF Splitting
<1>25. QED BY <1>2, <1>3, <1>10, <1>23, <1>24 DEF IsBody

\* The same with the sign before it that Body takes away.
Begun(w, f, K, l, q) == \E t \in Text : w = Cons("&", t) /\ IsBody(t, f, K, l, q)

LEMMA Begins ==
    ASSUME NEW f, GoodForm(f), GoodIds
    PROVE  Begun(Item("name", ValueOf(f, "name")), f, {"name"}, "name", 1)
<1>1. PICK k \in Symbol : k = "name" /\ k \in Keys
  BY KeysAre
<1>2. ValueOf(f, k) \in Text
  BY <1>1, ValuesFree
<1>3. PICK t \in Text : t = Pair(k, ValueOf(f, k))
  BY <1>2, PairType
<1>4. Item(k, ValueOf(f, k)) = Cons("&", t)
  BY <1>2, <1>3, ItemIs
<1>5. QED BY <1>1, <1>3, <1>4, BodyBegins DEF Begun

LEMMA GoesOn ==
    ASSUME NEW f, GoodForm(f), GoodIds, NEW w, NEW K, NEW l, NEW q, Begun(w, f, K, l, q),
           NEW k \in Keys, k \notin K
    PROVE  Begun(Glue(w, Item(k, ValueOf(f, k))), f, K \cup {k}, k, q + 1)
<1>1. PICK t \in Text : w = Cons("&", t) /\ IsBody(t, f, K, l, q)
  BY DEF Begun
<1>2. k \in Symbol /\ ValueOf(f, k) \in Text
  BY KeysAre, ValuesFree
<1>3. PICK i \in Text : i = Cons("&", Pair(k, ValueOf(f, k)))
  BY <1>1, BodyGoesOn
<1>4. Item(k, ValueOf(f, k)) = i
  BY <1>2, <1>3, ItemIs
<1>5. PICK u \in Text : u = Glue(t, i)
  BY GlueType
<1>6. IsBody(u, f, K \cup {k}, k, q + 1)
  BY <1>1, <1>3, <1>5, BodyGoesOn
<1>7. PICK a \in Symbol : a = "&"
  BY AmpIs
<1>8. Glue(Cons(a, t), i) = Cons(a, u)
  BY <1>5, GlueNext
<1>9. QED BY <1>1, <1>4, <1>5, <1>6, <1>7, <1>8 DEF Begun

BodyKeys(f) == IF f.fill.deepfry THEN Keys ELSE Keys \ {"deepfry"}

LEMMA BodyIs ==
    ASSUME NEW f, GoodForm(f), GoodIds
    PROVE  \E q \in {6, 7} : IsBody(Body(f), f, BodyKeys(f), "meme_id", q)
<1>1. PICK a, b, c, d, e, g, h \in Keys :
         /\ a = "name" /\ b = "image" /\ c = "deepfry" /\ d = "top"
         /\ e = "bottom" /\ g = "posttype" /\ h = "meme_id"
  BY KeysAre
<1>2. /\ b # a /\ c \notin {a, b} /\ d \notin {a, b, c} /\ e \notin {a, b, c, d}
      /\ g \notin {a, b, c, d, e} /\ h \notin {a, b, c, d, e, g}
  BY <1>1
<1>3. PICK A, B, C, D, E, G, H :
         /\ A = Item(a, ValueOf(f, a)) /\ B = Item(b, ValueOf(f, b))
         /\ C = Item(c, ValueOf(f, c)) /\ D = Item(d, ValueOf(f, d))
         /\ E = Item(e, ValueOf(f, e)) /\ G = Item(g, ValueOf(f, g))
         /\ H = Item(h, ValueOf(f, h))
  OBVIOUS
<1>4. PICK w1 : w1 = A
  OBVIOUS
<1>5. PICK w2 : w2 = Glue(w1, B)
  OBVIOUS
<1>6. PICK w3 : w3 = IF f.fill.deepfry THEN Glue(w2, C) ELSE Glue(w2, << >>)
  OBVIOUS
<1>7. PICK w4 : w4 = Glue(w3, D)
  OBVIOUS
<1>8. PICK w5 : w5 = Glue(w4, E)
  OBVIOUS
<1>9. PICK w6 : w6 = Glue(w5, G)
  OBVIOUS
<1>10. PICK w7 : w7 = Glue(w6, H)
  OBVIOUS
<1>11. Body(f) = Tail(w7)
  <2>1. /\ A = Item("name", Encoded(f.fill.name)) /\ B = Item("image", f.fill.image)
        /\ C = Item("deepfry", <<"True">>) /\ D = Item("top", Encoded(f.fill.top))
        /\ E = Item("bottom", Encoded(f.fill.bottom))
        /\ G = Item("posttype", <<IF f.id = << >> THEN "new" ELSE "edit">>)
        /\ H = Item("meme_id", IF f.id = << >> THEN IdTexts[1] ELSE f.id)
    BY <1>1, <1>3, ValuesAre
  <2>2. PICK X : X = IF f.fill.deepfry THEN C ELSE << >>
    OBVIOUS
  <2>3. w3 = Glue(w2, X)
    BY <1>6, <2>2
  <2>4. Body(f) = Tail(((((((A \o B) \o X) \o D) \o E) \o G) \o H))
    BY <2>1, <2>2, Zenon DEF Body
  <2>5. QED BY <2>3, <2>4, <1>4, <1>5, <1>7, <1>8, <1>9, <1>10 DEF Glue
<1>12. Begun(w1, f, {a}, a, 1)
  BY <1>1, <1>3, <1>4, Begins
<1>13. Begun(w2, f, {a, b}, b, 2)
  <2>1. {a} \cup {b} = {a, b} /\ 1 + 1 = 2 /\ b \notin {a}
    BY <1>2
  <2>2. Begun(w2, f, {a} \cup {b}, b, 1 + 1)
    BY <1>3, <1>5, <1>12, <2>1, GoesOn
  <2>3. QED BY <2>1, <2>2
<1>14. ASSUME NEW S, NEW l, NEW q \in Nat, Begun(w3, f, S, l, q), d \notin S, e \notin S,
              g \notin S, h \notin S
       PROVE  IsBody(Body(f), f, S \cup {d, e, g, h}, h, q + 4)
  <2>1. Begun(w4, f, S \cup {d}, d, q + 1)
    BY <1>3, <1>7, <1>14, GoesOn
  <2>2. PICK S2 : S2 = S \cup {d}
    OBVIOUS
  <2>3. e \notin S2 /\ g \notin S2 /\ h \notin S2
    BY <1>2, <1>14, <2>2
  <2>4. Begun(w5, f, S2 \cup {e}, e, (q + 1) + 1)
    BY <1>3, <1>8, <2>1, <2>2, <2>3, GoesOn
  <2>5. PICK S3 : S3 = S2 \cup {e}
    OBVIOUS
  <2>6. g \notin S3 /\ h \notin S3
    BY <1>2, <2>3, <2>5
  <2>7. Begun(w6, f, S3 \cup {g}, g, ((q + 1) + 1) + 1)
    BY <1>3, <1>9, <2>4, <2>5, <2>6, GoesOn
  <2>8. PICK S4 : S4 = S3 \cup {g}
    OBVIOUS
  <2>9. h \notin S4
    BY <1>2, <2>6, <2>8
  <2>10. Begun(w7, f, S4 \cup {h}, h, (((q + 1) + 1) + 1) + 1)
    BY <1>3, <1>10, <2>7, <2>8, <2>9, GoesOn
  <2>11. (((q + 1) + 1) + 1) + 1 = q + 4
    OBVIOUS
  <2>12. S4 \cup {h} = S \cup {d, e, g, h}
    BY <2>2, <2>5, <2>8
  <2>13. Begun(w7, f, S \cup {d, e, g, h}, h, q + 4)
    BY <2>10, <2>11, <2>12
  <2>14. PICK t \in Text : w7 = Cons("&", t) /\ IsBody(t, f, S \cup {d, e, g, h}, h, q + 4)
    BY <2>13 DEF Begun
  <2>15. Tail(w7) = t
    BY <2>14, AmpIs, TailIs
  <2>16. QED BY <1>11, <2>14, <2>15
<1>15. CASE f.fill.deepfry
  <2>1. {a, b} \cup {c} = {a, b, c} /\ 2 + 1 = 3 /\ 3 \in Nat /\ 3 + 4 = 7
    OBVIOUS
  <2>2. c \notin {a, b} /\ d \notin {a, b, c} /\ e \notin {a, b, c} /\ g \notin {a, b, c}
        /\ h \notin {a, b, c}
    BY <1>2
  <2>3. Begun(Glue(w2, C), f, {a, b} \cup {c}, c, 2 + 1)
    BY <1>3, <1>13, <2>2, GoesOn
  <2>4. Begun(w3, f, {a, b, c}, c, 3)
    BY <1>6, <1>15, <2>1, <2>3
  <2>5. IsBody(Body(f), f, {a, b, c} \cup {d, e, g, h}, h, 3 + 4)
    BY <1>14, <2>1, <2>2, <2>4
  <2>6. {a, b, c} \cup {d, e, g, h} = BodyKeys(f)
    BY <1>1, <1>15, KeysAre DEF BodyKeys
  <2>7. QED BY <1>1, <2>1, <2>5, <2>6
<1>16. CASE ~f.fill.deepfry
  <2>1. 2 \in Nat /\ 2 + 4 = 6
    OBVIOUS
  <2>2. d \notin {a, b} /\ e \notin {a, b} /\ g \notin {a, b} /\ h \notin {a, b}
    BY <1>2
  <2>3. PICK t \in Text : w2 = Cons("&", t) /\ IsBody(t, f, {a, b}, b, 2)
    BY <1>13 DEF Begun
  <2>4. w2 \in Text
    BY <2>3, AmpIs, ConsType
  <2>5. w3 = w2
    BY <1>6, <1>16, <2>4, GlueNothing
  <2>6. IsBody(Body(f), f, {a, b} \cup {d, e, g, h}, h, 2 + 4)
    BY <1>13, <1>14, <2>1, <2>2, <2>5
  <2>7. {a, b} \cup {d, e, g, h} = BodyKeys(f)
    BY <1>1, <1>16, KeysAre DEF BodyKeys
  <2>8. QED BY <1>1, <2>1, <2>6, <2>7
<1>17. QED BY <1>15, <1>16 DEF GoodForm

------------------------------------------------------------------------------
(***************************************************************************)
(* What is stored of a form that was sent whole.                           *)
(***************************************************************************)
LEMMA FinishedIs ==
    ASSUME NEW map, DOMAIN map = Keys
    PROVE  /\ Finished(map) = [key \in Keys |-> Finished(map)[key]]
           /\ \A key \in Texts : Finished(map)[key] = HtmlEncode(map[key])
           /\ Finished(map)["image"]
                = <<"meme_templates/">> \o (IF map.deepfry = <<"True">> THEN <<"df-">> ELSE << >>)
                                        \o map.image
           /\ \A key \in {"deepfry", "posttype", "meme_id"} : Finished(map)[key] = map[key]
<1> DEFINE F(key) == CASE key \in Texts -> HtmlEncode(map[key])
                       [] key = "image" -> <<"meme_templates/">>
                             \o (IF map.deepfry = <<"True">> THEN <<"df-">> ELSE << >>)
                             \o map.image
                       [] OTHER -> map[key]
<1>1. Finished(map) = [key \in Keys |-> F(key)]
  BY DEF Finished
<1>2. \A key \in Keys : Finished(map)[key] = F(key)
  <2> HIDE DEF F
  <2>1. QED BY <1>1
<1>3. \A key \in Texts : F(key) = HtmlEncode(map[key]) /\ key \in Keys
  BY DEF Texts, Keys, Stored
<1>4. "image" \notin Texts /\ "image" \in Keys
  BY DEF Texts, Keys, Stored
<1>5. F("image") = <<"meme_templates/">> \o (IF map.deepfry = <<"True">> THEN <<"df-">> ELSE << >>)
                                         \o map.image
  BY <1>4
<1>6. \A key \in {"deepfry", "posttype", "meme_id"} : key \notin Texts /\ key # "image" /\ key \in Keys
  BY DEF Texts, Keys, Stored
<1>7. \A key \in {"deepfry", "posttype", "meme_id"} : F(key) = map[key]
  BY <1>6
<1> HIDE DEF F
<1>8. Finished(map) = [key \in Keys |-> Finished(map)[key]]
  BY <1>1, <1>2
<1>9. QED BY <1>2, <1>3, <1>4, <1>5, <1>6, <1>7, <1>8

DecodedValue(f, key) == Plain(UrlDecode(ValueOf(f, key)))

LEMMA WholeMap ==
    ASSUME NEW f, GoodForm(f), GoodIds, NEW its, NEW ks, NEW q,
           BodyBy(Body(f), f, BodyKeys(f), "meme_id", q, its, ks)
    PROVE  /\ \A key \in Keys \ {"deepfry"} : MapOf(its)[key] = DecodedValue(f, key)
           /\ MapOf(its)["deepfry"] = IF f.fill.deepfry THEN DecodedValue(f, "deepfry") ELSE << >>
<1>1. PICK vs : vs = [i \in 1 .. q |-> ValueOf(f, ks[i])]
  OBVIOUS
<1>2. /\ ArePairs(its, q, ks, vs)
      /\ \A key \in Keys : key \in BodyKeys(f) <=> \E i \in 1 .. q : ks[i] = key
  BY <1>1 DEF BodyBy
<1>3. ASSUME NEW key \in Keys, key \in BodyKeys(f)
      PROVE  MapOf(its)[key] = DecodedValue(f, key)
  <2>1. PICK i \in 1 .. q : ks[i] = key
    BY <1>2, <1>3
  <2>2. vs[i] = ValueOf(f, key)
    BY <1>1, <2>1
  <2>3. QED BY <1>2, <2>1, <2>2, MapOfPairs DEF DecodedValue
<1>4. ASSUME NEW key \in Keys, key \notin BodyKeys(f)
      PROVE  MapOf(its)[key] = << >>
  BY <1>2, <1>4, MapOfPairs
<1>5. /\ \A key \in Keys \ {"deepfry"} : key \in BodyKeys(f)
      /\ "deepfry" \in Keys /\ ("deepfry" \in BodyKeys(f) <=> f.fill.deepfry)
  BY KeysAre DEF BodyKeys, GoodForm
<1>6. QED BY <1>3, <1>4, <1>5 DEF GoodForm

LEMMA ImageValue ==
    ASSUME NEW f, GoodForm(f), GoodIds
    PROVE  /\ DecodedValue(f, "image") = f.fill.image
           /\ DecodedValue(f, "deepfry") = <<"True">>
           /\ DecodedValue(f, "posttype") = <<IF f.id = << >> THEN "new" ELSE "edit">>
           /\ DecodedValue(f, "meme_id") = IF f.id = << >> THEN IdTexts[1] ELSE f.id
<1>1. DecodedValue(f, "image") = f.fill.image
  BY ValuesAre, PlainBare DEF DecodedValue, GoodForm
<1>2. DecodedValue(f, "deepfry") = <<"True">>
  BY ValuesAre, ShortBare, PlainBare DEF DecodedValue
<1>3. CASE f.id = << >>
  <2>1. DecodedValue(f, "posttype") = <<"new">>
    BY <1>3, ValuesAre, ShortBare, PlainBare DEF DecodedValue
  <2>2. DecodedValue(f, "meme_id") = IdTexts[1]
    BY <1>3, ValuesAre, PlainBare DEF DecodedValue, GoodIds
  <2>3. QED BY <1>1, <1>2, <1>3, <2>1, <2>2
<1>4. CASE f.id # << >>
  <2>1. DecodedValue(f, "posttype") = <<"edit">>
    BY <1>4, ValuesAre, ShortBare, PlainBare DEF DecodedValue
  <2>2. DecodedValue(f, "meme_id") = f.id
    BY <1>4, ValuesAre, PlainBare DEF DecodedValue, GoodForm
  <2>3. QED BY <1>1, <1>2, <1>4, <2>1, <2>2
<1>5. QED BY <1>3, <1>4

\* A form that is sent whole.
Whole(map, f) ==
    /\ map = [key \in Keys |-> map[key]]
    /\ \A key \in Texts : map[key] = HtmlEncode(Plain(UrlDecode(Encoded(f.fill[key]))))
    /\ map.image = <<"meme_templates/">> \o (IF f.fill.deepfry THEN <<"df-">> ELSE << >>)
                                         \o f.fill.image
    /\ map.posttype = <<IF f.id = << >> THEN "new" ELSE "edit">>
    /\ map.meme_id = IF f.id = << >> THEN IdTexts[1] ELSE f.id

LEMMA WholePost ==
    ASSUME NEW f, GoodForm(f), GoodIds
    PROVE  Whole(ParseRequestBody(Body(f)), f) /\ ~OutOfRange(Body(f))
<1>1. PICK q \in {6, 7} : IsBody(Body(f), f, BodyKeys(f), "meme_id", q)
  BY BodyIs
<1>2. PICK its, ks : BodyBy(Body(f), f, BodyKeys(f), "meme_id", q, its, ks)
  BY <1>1 DEF IsBody
<1>3. PICK M : M = MapOf(its)
  OBVIOUS
<1>4. ParseRequestBody(Body(f)) = Finished(M) /\ ~OutOfRange(Body(f))
  <2>1. PICK vs : vs = [i \in 1 .. q |-> ValueOf(f, ks[i])]
    OBVIOUS
  <2>2. Splitting(Body(f), its) /\ ArePairs(its, q, ks, vs)
    BY <1>2, <2>1 DEF BodyBy
  <2>3. q >= 3
    OBVIOUS
  <2>4. QED BY <1>3, <2>2, <2>3, WholeParsed
<1>5. DOMAIN M = Keys
  BY <1>3, MapOfDomain
<1>6. /\ \A key \in Keys \ {"deepfry"} : M[key] = DecodedValue(f, key)
      /\ M["deepfry"] = IF f.fill.deepfry THEN DecodedValue(f, "deepfry") ELSE << >>
  BY <1>2, <1>3, WholeMap
<1>7. PICK F : F = Finished(M)
  OBVIOUS
<1>8. /\ F = [key \in Keys |-> F[key]]
      /\ \A key \in Texts : F[key] = HtmlEncode(M[key])
      /\ F["image"] = <<"meme_templates/">>
                        \o (IF M.deepfry = <<"True">> THEN <<"df-">> ELSE << >>) \o M.image
      /\ \A key \in {"deepfry", "posttype", "meme_id"} : F[key] = M[key]
  BY <1>5, <1>7, FinishedIs
<1>9. /\ M["image"] = f.fill.image
      /\ M["posttype"] = <<IF f.id = << >> THEN "new" ELSE "edit">>
      /\ M["meme_id"] = IF f.id = << >> THEN IdTexts[1] ELSE f.id
      /\ M["deepfry"] = IF f.fill.deepfry THEN <<"True">> ELSE << >>
  <2>1. /\ "image" \in Keys \ {"deepfry"} /\ "posttype" \in Keys \ {"deepfry"}
        /\ "meme_id" \in Keys \ {"deepfry"}
    BY KeysAre
  <2>2. QED BY <1>6, <2>1, ImageValue
<1>10. M["deepfry"] = <<"True">> <=> f.fill.deepfry
  <2>1. <<"True">> # << >>
    BY NotEmpty
  <2>2. QED BY <1>9, <2>1
<1>11. F["image"] = <<"meme_templates/">>
                      \o (IF f.fill.deepfry THEN <<"df-">> ELSE << >>) \o f.fill.image
  BY <1>8, <1>9, <1>10
<1>12. ASSUME NEW key \in Texts
       PROVE  F[key] = HtmlEncode(Plain(UrlDecode(Encoded(f.fill[key]))))
  <2>1. key \in Keys \ {"deepfry"}
    BY DEF Texts, Keys, Stored
  <2>2. ValueOf(f, key) = Encoded(f.fill[key])
    BY ValuesAre DEF Texts
  <2>3. QED BY <1>6, <1>8, <2>1, <2>2 DEF DecodedValue
<1>13. F["posttype"] = M["posttype"] /\ F["meme_id"] = M["meme_id"]
  BY <1>8
<1>14. Whole(F, f)
  BY <1>8, <1>9, <1>11, <1>12, <1>13 DEF Whole
<1>15. QED BY <1>4, <1>7, <1>14

------------------------------------------------------------------------------
\* The rows of the table: a whole one has texts that were encoded, and its image
\* has a path before it.
Bared(t) == t \in Text /\ Bare(t) /\ Lacks(t, "meme_templates/")
Encodes(row) == \A key \in Texts : \E x \in Text : row[key] = HtmlEncode(x)
WholeRow(row) == Encodes(row) /\ \E w : Bared(w) /\ row.image = Cons("meme_templates/", w)
RowIs(row) == row \in [Stored -> Text] /\ (Bared(row.image) \/ WholeRow(row))

\* What a map has that is as good as a form.
MapIs(map) == map \in [Keys -> Text] /\ Bared(map.image)

LEMMA NothingBared == Bared(<< >>)
<1>1. << >> \in Text /\ Lacks(<< >>, "meme_templates/") /\ Len(<< >>) = 0
  BY LacksNothing
<1>2. DOMAIN << >> = 1 .. 0 /\ \A i \in 1 .. 0 : FALSE
  BY <1>1, TextDomain
<1>3. Bare(<< >>)
  BY <1>2 DEF Bare
<1>4. QED BY <1>1, <1>3 DEF Bared

LEMMA BaredNext ==
    ASSUME NEW s \in Symbol, s \notin {"&", "=", "%", "+", "meme_templates/"}, NEW t, Bared(t)
    PROVE  Bared(Cons(s, t))
<1>1. t \in Text /\ Bare(t) /\ Lacks(t, "meme_templates/")
  BY DEF Bared
<1>2. PICK w : w = Cons(s, t)
  OBVIOUS
<1>3. w \in Text /\ Lacks(w, "meme_templates/")
  BY <1>1, <1>2, ConsType, LacksNext
<1>4. ASSUME NEW a \in {"&", "=", "%", "+"} PROVE Lacks(w, a)
  <2>1. Lacks(t, a)
    BY <1>1, TextDomain DEF Bare, Lacks
  <2>2. QED BY <1>1, <1>2, <2>1, LacksNext
<1>5. Bare(w)
  BY <1>3, <1>4, TextDomain DEF Bare, Lacks
<1>6. QED BY <1>2, <1>3, <1>5 DEF Bared

LEMMA BaredPrefix ==
    ASSUME NEW t, Bared(t), NEW n \in 0 .. Len(t)
    PROVE  Bared(Prefix(t, n))
BY PrefixIs, PrefixBare, PrefixLacks DEF Bared

\* The image of a map, with its path before it.
LEMMA PathIs ==
    ASSUME NEW t, Bared(t), NEW fried \in BOOLEAN
    PROVE  \E w : /\ Bared(w)
                  /\ w = IF fried THEN Cons("df-", t) ELSE t
                  /\ <<"meme_templates/">> \o (IF fried THEN <<"df-">> ELSE << >>) \o t
                       = Cons("meme_templates/", w)
<1>1. PICK m, d \in Symbol : m = "meme_templates/" /\ d = "df-"
  BY DEF Symbol, Literals
<1>2. t \in Text
  BY DEF Bared
<1>3. PICK x \in Text : x = <<m>>
  BY OneSymbol
<1>4. \A u : Cons(m, u) = Glue(x, u)
  BY <1>3 DEF Cons, Glue
<1>5. CASE fried
  <2>1. PICK y \in Text : y = <<d>>
    BY OneSymbol
  <2>2. PICK w : w = Cons(d, t)
    OBVIOUS
  <2>3. Bared(w)
    BY <1>1, <2>2, BaredNext
  <2>4. Glue(Glue(x, y), t) = Glue(x, Glue(y, t))
    BY <1>2, GluesAssociate
  <2>5. Glue(y, t) = w
    BY <2>1, <2>2 DEF Glue, Cons
  <2>6. Glue(Glue(x, y), t) = Cons(m, w)
    BY <1>4, <2>4, <2>5
  <2>7. <<"meme_templates/">> \o (IF fried THEN <<"df-">> ELSE << >>) \o t = Glue(Glue(x, y), t)
    BY <1>1, <1>3, <1>5, <2>1 DEF Glue
  <2>8. QED BY <1>1, <1>5, <2>2, <2>3, <2>6, <2>7
<1>6. CASE ~fried
  <2>1. PICK y \in Text : y = << >>
    BY LacksNothing
  <2>2. Glue(x, y) = x
    BY <2>1, GlueNothing
  <2>3. <<"meme_templates/">> \o (IF fried THEN <<"df-">> ELSE << >>) \o t = Glue(Glue(x, y), t)
    BY <1>1, <1>3, <1>6, <2>1 DEF Glue
  <2>4. Glue(Glue(x, y), t) = Cons(m, t)
    BY <1>4, <2>2
  <2>5. QED BY <1>1, <1>6, <2>3, <2>4
<1>7. QED BY <1>5, <1>6

LEMMA StoredAre ==
    /\ Stored \subseteq Keys /\ Texts \subseteq Stored /\ "image" \in Stored /\ "image" \notin Texts
    /\ \A key \in Stored : key \in Texts \/ key = "image"
    /\ "deepfry" \in Keys /\ "posttype" \in Keys /\ "meme_id" \in Keys
BY DEF Stored, Keys, Texts

LEMMA EncodeType ==
    ASSUME NEW t \in Text
    PROVE  HtmlEncode(t) \in Text
<1>1. HtmlEncode(t) = Enc(Written3, t)
  BY HtmlEncodeIs
<1>2. PICK K \in SUBSET Written3 : K = Written3
  OBVIOUS
<1>3. EncOf(K) \in [Symbol -> Text]
  BY EncOfType
<1>4. Enc(K, t) \in Text
  BY <1>3, SpreadType DEF Enc
<1>5. QED BY <1>1, <1>2, <1>4

LEMMA RowOfMap ==
    ASSUME NEW map, MapIs(map)
    PROVE  RowIs(Row(map)) /\ RowIs(Row(Finished(map)))
<1>1. map \in [Keys -> Text] /\ DOMAIN map = Keys /\ Bared(map["image"])
  BY DEF MapIs
<1>2. RowIs(Row(map))
  <2>1. PICK r : r = Row(map)
    OBVIOUS
  <2>2. r = [key \in Stored |-> map[key]]
    BY <2>1 DEF Row
  <2>3. r \in [Stored -> Text] /\ r["image"] = map["image"]
    BY <1>1, <2>2, StoredAre
  <2>4. QED BY <1>1, <2>1, <2>3 DEF RowIs
<1>3. PICK F : F = Finished(map)
  OBVIOUS
<1>4. PICK r : r = Row(F)
  OBVIOUS
<1>5. r = [key \in Stored |-> F[key]]
  BY <1>4 DEF Row
<1>6. /\ \A key \in Texts : F[key] = HtmlEncode(map[key])
      /\ F["image"] = <<"meme_templates/">>
                        \o (IF map.deepfry = <<"True">> THEN <<"df-">> ELSE << >>) \o map.image
  BY <1>1, <1>3, FinishedIs
<1>7. PICK fried \in BOOLEAN : fried <=> map.deepfry = <<"True">>
  OBVIOUS
<1>8. F["image"] = <<"meme_templates/">> \o (IF fried THEN <<"df-">> ELSE << >>) \o map["image"]
  BY <1>6, <1>7
<1>9. PICK w : Bared(w) /\ F["image"] = Cons("meme_templates/", w)
  <2>1. PICK t : t = map["image"] /\ Bared(t)
    BY <1>1
  <2>2. \E w : /\ Bared(w)
               /\ <<"meme_templates/">> \o (IF fried THEN <<"df-">> ELSE << >>) \o t
                    = Cons("meme_templates/", w)
    <3>1. \E w : /\ Bared(w)
                 /\ w = IF fried THEN Cons("df-", t) ELSE t
                 /\ <<"meme_templates/">> \o (IF fried THEN <<"df-">> ELSE << >>) \o t
                       = Cons("meme_templates/", w)
      BY <2>1, PathIs
    <3>2. QED BY <3>1
  <2>3. PICK p : p = <<"meme_templates/">> \o (IF fried THEN <<"df-">> ELSE << >>) \o t
    OBVIOUS
  <2>4. \E w : Bared(w) /\ p = Cons("meme_templates/", w)
    BY <2>2, <2>3
  <2>5. F["image"] = p
    BY <1>8, <2>1, <2>3
  <2>6. QED BY <2>4, <2>5
<1>10. F["image"] \in Text
  <2>1. "meme_templates/" \in Symbol
    BY DEF Symbol, Literals
  <2>2. QED BY <1>9, <2>1, ConsType DEF Bared
<1>11. \A key \in Texts : map[key] \in Text /\ F[key] \in Text
  <2> TAKE key \in Texts
  <2>1. map[key] \in Text
    BY <1>1, StoredAre
  <2>2. QED BY <1>6, <2>1, EncodeType
<1>12. \A key \in Stored : F[key] \in Text /\ r[key] = F[key]
  BY <1>5, <1>10, <1>11, StoredAre
<1>13. r \in [Stored -> Text]
  BY <1>5, <1>12
<1>14. WholeRow(r)
  <2>1. r["image"] = Cons("meme_templates/", w)
    BY <1>9, <1>12, StoredAre
  <2>2. \A key \in Texts : r[key] = HtmlEncode(map[key])
    BY <1>6, <1>12, StoredAre
  <2>3. Encodes(r)
    BY <1>11, <2>2 DEF Encodes
  <2>4. QED BY <1>9, <2>1, <2>3 DEF WholeRow
<1>15. RowIs(r)
  BY <1>13, <1>14 DEF RowIs
<1>16. QED BY <1>2, <1>3, <1>4, <1>15

------------------------------------------------------------------------------
(***************************************************************************)
(* What is stored of one that was cut off: it has no whole id.             *)
(***************************************************************************)
\* A part of a value, or nothing.
PartOf(x, f, key) ==
    \/ x = << >>
    \/ \E l \in 0 .. Len(ValueOf(f, key)) :
          /\ x = Plain(UrlDecode(Prefix(ValueOf(f, key), l)))
          /\ key = "meme_id" => l < Len(ValueOf(f, key))

LEMMA PartMap ==
    ASSUME NEW f, NEW its, NEW q, NEW ks, NEW vs, vs = [i \in 1 .. q |-> ValueOf(f, ks[i])],
           ArePairs(its, q, ks, vs), 1 <= q, ks[q] = "meme_id",
           NEW ps, NEW j, NEW ws, IsPart(ps, j, ws, q, ks, vs), NEW key \in Keys
    PROVE  PartOf(MapOf(ps)[key], f, key)
<1>1. PICK kk : kk = [i \in 1 .. j |-> ks[i]]
  OBVIOUS
<1>2. /\ ArePairs(ps, j, kk, ws) /\ j \in 0 .. q
      /\ \A i \in 1 .. j : \E l \in 0 .. Len(vs[i]) :
            ws[i] = Prefix(vs[i], l) /\ (i = q => l < Len(vs[i]))
  BY <1>1 DEF IsPart
<1>3. q \in Nat /\ \A i, k \in 1 .. q : ks[i] = ks[k] => i = k
  BY DEF ArePairs
<1>4. CASE \E i \in 1 .. j : kk[i] = key
  <2>1. PICK i \in 1 .. j : kk[i] = key
    BY <1>4
  <2>2. i \in 1 .. q /\ ks[i] = key /\ q \in 1 .. q
    BY <1>1, <1>2, <1>3, <2>1
  <2>3. vs[i] = ValueOf(f, key)
    BY <2>2
  <2>4. MapOf(ps)[key] = Plain(UrlDecode(ws[i]))
    BY <1>2, <2>1, MapOfPairs
  <2>5. PICK l \in 0 .. Len(vs[i]) : ws[i] = Prefix(vs[i], l) /\ (i = q => l < Len(vs[i]))
    BY <1>2, <2>1
  <2>6. key = "meme_id" => i = q
    BY <1>3, <2>2
  <2>7. QED BY <2>3, <2>4, <2>5, <2>6 DEF PartOf
<1>5. CASE \A i \in 1 .. j : kk[i] # key
  <2>1. MapOf(ps)[key] = << >>
    BY <1>2, <1>5, MapOfPairs
  <2>2. QED BY <2>1 DEF PartOf
<1>6. QED BY <1>4, <1>5

LEMMA PartType ==
    ASSUME NEW f, GoodForm(f), GoodIds, NEW key \in Keys, NEW x, PartOf(x, f, key)
    PROVE  x \in Text
<1>1. CASE x = << >>
  BY <1>1, LacksNothing
<1>2. CASE \E l \in 0 .. Len(ValueOf(f, key)) : x = Plain(UrlDecode(Prefix(ValueOf(f, key), l)))
  <2>1. PICK v \in Text : v = ValueOf(f, key)
    BY ValuesFree
  <2>2. PICK l \in 0 .. Len(v) : x = Plain(UrlDecode(Prefix(v, l)))
    BY <1>2, <2>1
  <2>3. QED BY <2>2, PrefixIs, DecodeType, PlainType
<1>3. QED BY <1>1, <1>2 DEF PartOf

LEMMA PartBare ==
    ASSUME NEW f, NEW key, NEW v \in Text, v = ValueOf(f, key), Bare(v),
           NEW x, PartOf(x, f, key)
    PROVE  x = << >> \/ \E l \in 0 .. Len(v) : x = Prefix(v, l) /\ (key = "meme_id" => l < Len(v))
<1>1. CASE x = << >>
  BY <1>1
<1>2. CASE x # << >>
  <2>1. PICK l \in 0 .. Len(v) : /\ x = Plain(UrlDecode(Prefix(v, l)))
                                 /\ key = "meme_id" => l < Len(v)
    BY <1>2 DEF PartOf
  <2>2. Prefix(v, l) \in Text /\ Bare(Prefix(v, l))
    BY PrefixIs, PrefixBare
  <2>3. x = Prefix(v, l)
    BY <2>1, <2>2, PlainBare
  <2>4. QED BY <2>1, <2>3
<1>3. QED BY <1>1, <1>2

\* What a body that was cut off has: a part of the image, and an edit only with a
\* part of the id.
CutTo(map, f) ==
    map.posttype = <<"edit">> => \E l \in 0 .. Len(f.id) - 1 : map.meme_id = Prefix(f.id, l)

LEMMA PartsFit ==
    ASSUME NEW f, GoodForm(f), GoodIds, NEW map, map = [key \in Keys |-> map[key]],
           \A key \in Keys : PartOf(map[key], f, key)
    PROVE  MapIs(map) /\ CutTo(map, f)
<1>1. map \in [Keys -> Text]
  BY PartType
<1>2. Bared(map["image"])
  <2>1. PICK v \in Text : v = f.fill.image /\ Bared(v) /\ v = ValueOf(f, "image")
    BY ValuesAre DEF GoodForm, Bared
  <2>2. PartOf(map["image"], f, "image")
    BY KeysAre
  <2>3. map["image"] = << >> \/ \E l \in 0 .. Len(v) : map["image"] = Prefix(v, l)
    BY <2>1, <2>2, PartBare DEF Bared
  <2>4. QED BY <2>1, <2>3, NothingBared, BaredPrefix
<1>3. CutTo(map, f)
  <2>1. SUFFICES ASSUME map["posttype"] = <<"edit">>
                 PROVE  \E l \in 0 .. Len(f.id) - 1 : map["meme_id"] = Prefix(f.id, l)
    BY DEF CutTo
  <2>2. PartOf(map["posttype"], f, "posttype") /\ PartOf(map["meme_id"], f, "meme_id")
    BY KeysAre
  <2>3. f.id # << >>
    <3>1. SUFFICES ASSUME f.id = << >>
                   PROVE  FALSE
      OBVIOUS
    <3>2. PICK v \in Text : /\ Bare(v) /\ v = ValueOf(f, "posttype") /\ Len(v) = 1
                            /\ v[1] = "new"
      BY <3>1, ValuesAre, ShortBare, OneSymbol
    <3>3. PICK e \in Text : /\ map["posttype"] = e /\ Len(e) = 1 /\ e[1] = "edit" /\ e # << >>
      BY <2>1, ShortBare, OneSymbol, NotEmpty
    <3>4. PICK l \in 0 .. Len(v) : e = Prefix(v, l)
      <4>1. PICK k : k = "posttype"
        OBVIOUS
      <4>2. PartOf(e, f, k) /\ v = ValueOf(f, k)
        BY <2>1, <2>2, <3>2, <3>3, <4>1
      <4>3. e = << >> \/ \E l \in 0 .. Len(v) : e = Prefix(v, l) /\ (k = "meme_id" => l < Len(v))
        BY <3>2, <4>2, PartBare
      <4>4. QED BY <3>3, <4>3
    <3>5. l = 1 /\ e[1] = v[1]
      BY <3>2, <3>3, <3>4, PrefixIs
    <3>6. QED BY <3>2, <3>3, <3>5
  <2>4. PICK v \in Text : v = f.id /\ Bare(v) /\ v = ValueOf(f, "meme_id") /\ v # << >>
    BY <2>3, ValuesAre DEF GoodForm
  <2>5. \E l \in 0 .. Len(v) - 1 : map["meme_id"] = Prefix(v, l)
    <3>1. Len(v) \in Nat \ {0}
      BY <2>4, EmptySeq
    <3>2. map["meme_id"] = << >>
          \/ \E l \in 0 .. Len(v) : map["meme_id"] = Prefix(v, l) /\ l < Len(v)
      BY <2>2, <2>4, PartBare
    <3>3. CASE map["meme_id"] = << >>
      BY <3>1, <3>3, PrefixEnds
    <3>4. CASE \E l \in 0 .. Len(v) : map["meme_id"] = Prefix(v, l) /\ l < Len(v)
      <4>1. PICK l \in 0 .. Len(v) : map["meme_id"] = Prefix(v, l) /\ l < Len(v)
        BY <3>4
      <4>2. l \in 0 .. Len(v) - 1
        BY <3>1, <4>1
      <4>3. QED BY <4>1, <4>2
    <3>5. QED BY <3>2, <3>3, <3>4
  <2>6. QED BY <2>4, <2>5
<1>4. QED BY <1>1, <1>2, <1>3 DEF MapIs

LEMMA CutPost ==
    ASSUME NEW f, GoodForm(f), GoodIds, NEW n \in 0 .. Len(Body(f)) - 1
    PROVE  /\ RowIs(Row(ParseRequestBody(Prefix(Body(f), n))))
           /\ CutTo(ParseRequestBody(Prefix(Body(f), n)), f)
<1>1. PICK map : map = ParseRequestBody(Prefix(Body(f), n))
  OBVIOUS
<1>2. PICK q \in {6, 7} : IsBody(Body(f), f, BodyKeys(f), "meme_id", q)
  BY BodyIs
<1>3. PICK its, ks : BodyBy(Body(f), f, BodyKeys(f), "meme_id", q, its, ks)
  BY <1>2 DEF IsBody
<1>4. PICK vs : vs = [i \in 1 .. q |-> ValueOf(f, ks[i])]
  OBVIOUS
<1>5. /\ Splitting(Body(f), its) /\ ArePairs(its, q, ks, vs) /\ 1 <= q
      /\ ks[1] = "name" /\ ks[q] = "meme_id"
  BY <1>3, <1>4 DEF BodyBy
<1>6. CutInto(map, q, ks, vs)
  BY <1>1, <1>5, CutParsed
<1>7. ASSUME NEW ps, NEW j, NEW ws, IsPart(ps, j, ws, q, ks, vs),
             map = MapOf(ps) \/ map = Finished(MapOf(ps))
      PROVE  RowIs(Row(map)) /\ CutTo(map, f)
  <2>1. PICK M : M = MapOf(ps)
    OBVIOUS
  <2>2. M = [key \in Keys |-> M[key]] /\ DOMAIN M = Keys
    BY <2>1, MapOfDomain
  <2>3. \A key \in Keys : PartOf(M[key], f, key)
    BY <1>4, <1>5, <1>7, <2>1, PartMap
  <2>4. MapIs(M) /\ CutTo(M, f)
    BY <2>2, <2>3, PartsFit
  <2>5. RowIs(Row(map))
    BY <1>7, <2>1, <2>4, RowOfMap
  <2>6. map["posttype"] = M["posttype"] /\ map["meme_id"] = M["meme_id"]
    <3>1. Finished(M)["posttype"] = M["posttype"] /\ Finished(M)["meme_id"] = M["meme_id"]
      BY <2>2, FinishedIs
    <3>2. QED BY <1>7, <2>1, <3>1
  <2>7. CutTo(map, f)
    BY <2>4, <2>6 DEF CutTo
  <2>8. QED BY <2>5, <2>7
<1>8. ASSUME NEW x \in Text, map = Blank(x)
      PROVE  RowIs(Row(map)) /\ CutTo(map, f)
  <2>1. /\ map \in [Keys -> Text] /\ map["image"] = << >> /\ map["posttype"] = << >>
    BY <1>8, KeysAre, LacksNothing DEF Blank
  <2>2. MapIs(map)
    BY <2>1, NothingBared DEF MapIs
  <2>3. << >> # <<"edit">>
    BY NotEmpty
  <2>4. CutTo(map, f)
    BY <2>1, <2>3 DEF CutTo
  <2>5. QED BY <2>2, <2>4, RowOfMap
<1>9. QED BY <1>1, <1>6, <1>7, <1>8 DEF CutInto

------------------------------------------------------------------------------
(***************************************************************************)
(* Hard spaces, and what a page shows of a stored text.                    *)
(***************************************************************************)
\* Texts with hard spaces for spaces.
SoftenedTo(t, u) ==
    /\ u \in Text /\ Len(u) = Len(t)
    /\ \A i \in 1 .. Len(t) : u[i] = IF t[i] = "hard" THEN " " ELSE t[i]

LEMMA SoftenedAt ==
    ASSUME NEW t \in Text
    PROVE  SoftenedTo(t, Softened(t))
<1> DEFINE S == {u \in Text : SoftenedTo(u, Softened(u))}
<1>1. << >> \in S
  <2>1. Len(<< >>) = 0 /\ << >> \in Text /\ 1 .. 0 = {}
    BY LacksNothing
  <2>2. SoftenedTo(<< >>, << >>)
    BY <2>1 DEF SoftenedTo
  <2>3. QED BY <2>1, <2>2, SpacedNothing
<1>2. ASSUME NEW s \in Symbol, NEW u \in S PROVE Cons(s, u) \in S
  <2>1. u \in Text /\ Cons(s, u) \in Text /\ SoftenedTo(u, Softened(u))
    BY ConsType
  <2>2. PICK v : v = Softened(u)
    OBVIOUS
  <2>3. v \in Text /\ Len(v) = Len(u)
        /\ \A i \in 1 .. Len(u) : v[i] = IF u[i] = "hard" THEN " " ELSE u[i]
    BY <2>1, <2>2 DEF SoftenedTo
  <2>4. PICK q \in Symbol : q = IF s = "hard" THEN " " ELSE s
    BY DEF Symbol, Literals
  <2>5. Softened(Cons(s, u)) = Cons(q, v)
    BY <2>1, <2>2, <2>4, SpacedNext
  <2>6. IsNext(Cons(s, u), s, u) /\ IsNext(Cons(q, v), q, v)
    BY <2>1, <2>3, NextIs
  <2>7. PICK w, x \in Text : w = Cons(s, u) /\ x = Cons(q, v)
    BY <2>1, <2>3, ConsType
  <2>8. /\ Len(w) = 1 + Len(u) /\ w[1] = s /\ \A j \in 1 .. Len(u) : w[1 + j] = u[j]
        /\ Len(x) = 1 + Len(v) /\ x[1] = q /\ \A j \in 1 .. Len(v) : x[1 + j] = v[j]
        /\ Len(u) \in Nat
    BY <2>6, <2>7 DEF IsNext
  <2>9. ASSUME NEW i \in 1 .. Len(w)
        PROVE  x[i] = IF w[i] = "hard" THEN " " ELSE w[i]
    <3>1. CASE i = 1
      BY <2>4, <2>8, <3>1
    <3>2. CASE i # 1
      <4>1. PICK j \in 1 .. Len(u) : i = 1 + j
        <5>1. i - 1 \in 1 .. Len(u) /\ i = 1 + (i - 1)
          BY <2>8, <3>2
        <5>2. QED BY <5>1
      <4>2. x[i] = v[j] /\ w[i] = u[j]
        BY <2>3, <2>8, <4>1
      <4>3. QED BY <2>3, <4>1, <4>2
    <3>3. QED BY <3>1, <3>2
  <2>10. SoftenedTo(w, x)
    BY <2>3, <2>8, <2>9 DEF SoftenedTo
  <2>11. QED BY <2>1, <2>5, <2>7, <2>10
<1>3. S \in SUBSET Text
  OBVIOUS
<1> HIDE DEF S
<1>4. t \in S
  BY <1>1, <1>2, <1>3, TextInduction
<1>5. QED BY <1>4 DEF S

\* What a text has but spaces, it has without the hard ones as well.
LEMMA SoftenedLacks ==
    ASSUME NEW t \in Text, NEW p, p # "hard", p # " ", Lacks(Softened(t), p)
    PROVE  Lacks(t, p)
<1>1. PICK u : u = Softened(t) /\ SoftenedTo(t, u)
  BY SoftenedAt
<1>2. QED BY <1>1 DEF Lacks, SoftenedTo

Firm(s) == s # "hard"
LEMMA SoftenedFirm ==
    ASSUME NEW t, NEW u, SoftenedTo(t, u)
    PROVE  /\ u \in Text /\ Len(u) = Len(t)
           /\ \A i \in 1 .. Len(t) : Firm(t[i]) => u[i] = t[i]
BY DEF SoftenedTo, Firm

LEMMA SoftenedHas ==
    ASSUME NEW t \in Text, NEW a \in Symbol, NEW b \in Symbol,
           Firm(a), Firm(b), Has(t, <<a, b>>)
    PROVE  Has(Softened(t), <<a, b>>)
<1>1. PICK u : u = Softened(t) /\ SoftenedTo(t, u)
  BY SoftenedAt
<1>2. PICK p \in Text : p = <<a, b>> /\ Len(p) = 2 /\ p[1] = a /\ p[2] = b
  BY TwoIsCons
<1>3. /\ Len(t) \in Nat /\ DOMAIN t = 1 .. Len(t)
      /\ u \in Text /\ DOMAIN u = 1 .. Len(u) /\ Len(u) = Len(t)
  BY <1>1, TextDomain, SoftenedFirm
<1>4. PICK i \in 1 .. Len(t) : IsAt(t, i, p)
  BY <1>2, <1>3 DEF Has
<1>5. i + Len(p) <= Len(t) + 1 /\ \A j \in 1 .. Len(p) : t[i + j - 1] = p[j]
  BY <1>4, IsAtIs
<1>10. Len(p) = 2 /\ p[1] = a /\ p[2] = b
  BY <1>2
<1>0. Len(p) = 2 /\ \A j \in 1 .. 2 : Firm(p[j])
  <2>1. \A j \in 1 .. 2 : j = 1 \/ j = 2
    OBVIOUS
  <2>2. QED BY <1>10, <2>1
<1>11. Len(t) \in Nat
  BY <1>3
<1>6. ASSUME NEW j \in 1 .. Len(p) PROVE u[i + j - 1] = p[j]
  <2>0. j \in 1 .. 2 /\ i + 2 <= Len(t) + 1
    BY <1>0, <1>5
  <2>1. i + j - 1 \in 1 .. Len(t)
    BY <1>11, <2>0
  <2>2. t[i + j - 1] = p[j] /\ Firm(p[j])
    BY <1>0, <1>5, <2>0
  <2>3. QED BY <1>1, <2>1, <2>2, SoftenedFirm
<1>7. i \in 1 .. Len(u) /\ i + Len(p) <= Len(u) + 1
  BY <1>3, <1>5
<1>8. IsAt(u, i, p)
  BY <1>3, <1>6, <1>7, IsAtIs
<1>9. QED BY <1>1, <1>2, <1>3, <1>7, <1>8 DEF Has

LEMMA SoftenedNames ==
    ASSUME NEW t \in Text, NamesEntity(t)
    PROVE  NamesEntity(Softened(t))
<1>1. PICK u : u = Softened(t) /\ SoftenedTo(t, u)
  BY SoftenedAt
<1>2. /\ Len(t) \in Nat /\ DOMAIN t = 1 .. Len(t)
      /\ u \in Text /\ DOMAIN u = 1 .. Len(u) /\ Len(u) = Len(t)
  BY <1>1, TextDomain DEF SoftenedTo
<1>3. PICK i \in 1 .. Len(t) : i < Len(t) /\ t[i] = "&" /\ t[i + 1] \in Names
  BY <1>2, EntitiesAre DEF NamesEntity
<1>4. i + 1 \in 1 .. Len(t) /\ t[i] # "hard" /\ t[i + 1] # "hard"
  BY <1>2, <1>3 DEF Names
<1>5. u[i] = t[i] /\ u[i + 1] = t[i + 1]
  BY <1>1, <1>4 DEF SoftenedTo
<1>6. QED BY <1>1, <1>2, <1>3, <1>5, EntitiesAre DEF NamesEntity

------------------------------------------------------------------------------
\* Texts that come through a body and a page as they are.
Passing(t) ==
    Lacks(t, "+") /\ ~Has(t, SlashCode) /\ \A f \in Stored : Lacks(t, Placeholder[f])

LEMMA PlaceholdersAre ==
    ASSUME NEW f \in Stored
    PROVE  /\ Placeholder[f] \in Symbol /\ Placeholder[f] \in Range(Placeholder)
           /\ Placeholder[f] \notin {"hard", " ", "&", ";"} /\ Placeholder[f] \notin Names
<1>1. /\ Placeholder["name"] = "meme_object_name" /\ Placeholder["image"] = "meme_object_img"
      /\ Placeholder["top"] = "meme_object_top" /\ Placeholder["bottom"] = "meme_object_bot"
  BY DEF Placeholder
<1>2. f \in {"name", "image", "top", "bottom"}
  BY DEF Stored, Texts
<1>3. Placeholder[f] \in {"meme_object_name", "meme_object_img", "meme_object_top",
                          "meme_object_bot"}
  BY <1>1, <1>2
<1>4. Placeholder[f] \in Symbol
  BY <1>3 DEF Symbol, Literals
<1>5. Placeholder[f] \in Range(Placeholder)
  BY FieldsAre DEF Range
<1>6. Placeholder[f] \notin {"hard", " ", "&", ";"} /\ Placeholder[f] \notin Names
  BY <1>3 DEF Names
<1>7. QED BY <1>4, <1>5, <1>6

LEMMA TamePasses ==
    ASSUME NEW t \in Text, Tame(t)
    PROVE  Passing(t)
<1>1. ~Has(t, <<"+">>) /\ ~Has(t, SlashCode) /\ Range(t) \cap Range(Placeholder) = {}
  BY DEF Tame, HasPlaceholder, SlashCode
<1>2. Lacks(t, "+")
  BY <1>1, HasNone
<1>3. ASSUME NEW f \in Stored PROVE Lacks(t, Placeholder[f])
  <2>1. Placeholder[f] \in Range(Placeholder)
    BY PlaceholdersAre
  <2>2. \A i \in 1 .. Len(t) : t[i] \in Range(t)
    BY TextDomain DEF Range
  <2>3. QED BY <1>1, <2>1, <2>2 DEF Lacks
<1>4. QED BY <1>1, <1>2, <1>3 DEF Passing

LEMMA SoftenedPasses ==
    ASSUME NEW t \in Text, Passing(Softened(t))
    PROVE  Passing(t)
<1>1. Lacks(t, "+")
  BY SoftenedLacks DEF Passing
<1>2. ~Has(t, SlashCode)
  <2>1. PICK a, b \in Symbol : a = "%" /\ b = "2F"
    BY SlashCodeIs
  <2>2. Has(t, <<a, b>>) => Has(Softened(t), <<a, b>>)
    BY <2>1, SoftenedHas DEF Firm
  <2>3. QED BY <2>1, <2>2 DEF SlashCode, Passing
<1>3. ASSUME NEW f \in Stored PROVE Lacks(t, Placeholder[f])
  BY PlaceholdersAre, SoftenedLacks DEF Passing
<1>4. QED BY <1>1, <1>2, <1>3 DEF Passing

LEMMA InPageKeeps ==
    ASSUME NEW row, NEW field \in Stored, \A f \in Stored : row[f] \in Text,
           \A f \in Stored : Lacks(row[field], Placeholder[f])
    PROVE  InPage(row, field) = row[field]
<1>1. PICK x \in Text : x = row[field]
  OBVIOUS
<1>2. PICK V : V = {x}
  OBVIOUS
<1>3. ASSUME NEW t \in V, NEW f \in Stored
      PROVE  FieldPut(t, row, f) \in V
  <2>1. t = x
    BY <1>2
  <2>2. PICK c \in Symbol : c = Placeholder[f]
    BY PlaceholdersAre
  <2>3. PICK p \in Text : p = <<c>> /\ p # << >>
    BY OneSymbol, NotEmpty
  <2>4. ~Has(x, p)
    BY <1>1, <2>2, <2>3, HasNone
  <2>5. row[f] \in Text
    OBVIOUS
  <2>6. ReplacedAll(x, p, row[f]) = x
    BY <2>3, <2>4, <2>5, ReplacedKeeps
  <2>7. QED BY <1>2, <2>1, <2>2, <2>3, <2>6 DEF FieldPut
<1>4. row[field] \in V
  BY <1>1, <1>2
<1>5. InPage(row, field) \in V
  BY <1>3, <1>4, InPageIn
<1>6. QED BY <1>1, <1>2, <1>5

\* HtmlEncode puts in no placeholder.
LEMMA EncodedPlaceholders ==
    ASSUME NEW t \in Text, NEW f \in Stored, Lacks(t, Placeholder[f])
    PROVE  Lacks(HtmlEncode(t), Placeholder[f])
<1>1. PICK K \in SUBSET Written3 : K = Written3
  OBVIOUS
<1>2. PICK p : p = Placeholder[f] /\ p # "&" /\ p # ";" /\ p \notin Names
  BY PlaceholdersAre
<1>3. Lacks(Enc(K, t), p)
  BY <1>2, EncLacks
<1>4. QED BY <1>1, <1>2, <1>3, HtmlEncodeIs

\* The value of an input.
PlacesOf(t, c) == {i \in 1 .. Len(t) : t[i] = c}
LEMMA InputValueIs ==
    \A t : InputValue(t) = Shown(Prefix(t, FirstOf(PlacesOf(t \o <<"\"">>, "\"")) - 1))
BY DEF InputValue, SelectInSeq, FirstOf, PlacesOf, Prefix

LEMMA PlaceBefore ==
    ASSUME NEW t \in Text, NEW c \in Symbol
    PROVE  \E n \in 0 .. Len(t) : /\ n = FirstOf(PlacesOf(t \o <<c>>, c)) - 1
                                  /\ Lacks(t, c) => n = Len(t)
<1>1. PICK q \in Text : q = <<c>>
  BY OneSymbol
<1>2. Len(q) = 1 /\ q[1] = c
  BY <1>1, OneSymbol
<1>3. PICK w : w = t \o q
  OBVIOUS
<1>4. IsJoin(w, t, q)
  BY <1>3, JoinIs
<1>5. /\ Len(w) = Len(t) + 1 /\ Len(t) \in Nat /\ w[Len(t) + 1] = c
      /\ \A i \in 1 .. Len(t) : w[i] = t[i]
  <2>1. Len(w) = Len(t) + 1 /\ Len(t) \in Nat /\ 1 \in 1 .. Len(q)
    BY <1>2, <1>4 DEF IsJoin
  <2>2. w[Len(t) + 1] = q[1]
    BY <1>4, <2>1 DEF IsJoin
  <2>3. QED BY <1>2, <1>4, <2>1, <2>2 DEF IsJoin
<1>6. PICK I \in SUBSET Nat : I = PlacesOf(w, c)
  <2>1. PlacesOf(w, c) \in SUBSET (1 .. Len(w))
    BY DEF PlacesOf
  <2>2. 1 .. Len(w) \in SUBSET Nat
    BY <1>5
  <2>3. PlacesOf(w, c) \in SUBSET Nat
    BY <2>1, <2>2
  <2>4. QED BY <2>3
<1>7. Len(t) + 1 \in I
  BY <1>5, <1>6 DEF PlacesOf
<1>8. FirstOf(I) \in I /\ \A i \in I : FirstOf(I) <= i
  BY <1>7, FirstOfIs
<1>9. FirstOf(I) \in 1 .. Len(t) + 1 /\ w[FirstOf(I)] = c
  BY <1>5, <1>6, <1>8 DEF PlacesOf
<1>10. PICK n \in 0 .. Len(t) : n = FirstOf(I) - 1
  <2>1. FirstOf(I) - 1 \in 0 .. Len(t)
    BY <1>5, <1>9
  <2>2. QED BY <2>1
<1>11. Lacks(t, c) => n = Len(t)
  <2>1. FirstOf(I) # Len(t) + 1 => FirstOf(I) \in 1 .. Len(t)
    BY <1>5, <1>9
  <2>2. Lacks(t, c) => FirstOf(I) = Len(t) + 1
    BY <1>5, <1>9, <2>1 DEF Lacks
  <2>3. QED BY <1>5, <1>10, <2>2
<1>12. QED BY <1>1, <1>3, <1>6, <1>10, <1>11

LEMMA InputEnds ==
    ASSUME NEW t \in Text
    PROVE  \E n \in 0 .. Len(t) : /\ InputValue(t) = Shown(Prefix(t, n))
                                  /\ Lacks(t, "\"") => n = Len(t)
<1>1. PICK c \in Symbol : c = "\""
  BY DEF Symbol, Literals
<1>2. InputValue(t) = Shown(Prefix(t, FirstOf(PlacesOf(t \o <<c>>, c)) - 1))
  BY <1>1, InputValueIs
<1>3. PICK n \in 0 .. Len(t) : /\ n = FirstOf(PlacesOf(t \o <<c>>, c)) - 1
                               /\ Lacks(t, c) => n = Len(t)
  BY PlaceBefore
<1>4. InputValue(t) = Shown(Prefix(t, n))
  BY <1>2, <1>3
<1>5. QED BY <1>1, <1>3, <1>4

LEMMA InputType ==
    ASSUME NEW t \in Text
    PROVE  InputValue(t) \in Text
BY InputEnds, PrefixIs, ShownType

LEMMA InputKeeps ==
    ASSUME NEW t \in Text, Lacks(t, "\""), ~NamesEntity(t)
    PROVE  InputValue(t) = t
BY InputEnds, PrefixEnds, ShownKeeps

------------------------------------------------------------------------------
(***************************************************************************)
(* What an edit form is filled with, and what a post makes of it again.    *)
(***************************************************************************)
LEMMA FillType ==
    ASSUME NEW f, GoodForm(f), NEW key \in Texts
    PROVE  f.fill[key] \in Text
BY DEF GoodForm, Texts

LEMMA PassingComes ==
    ASSUME NEW t \in Text, Passing(t)
    PROVE  Plain(UrlDecode(Encoded(t))) = t
BY PlainEncoded DEF Passing

LEMMA WholeRowIs ==
    ASSUME NEW f, GoodForm(f), NEW map, Whole(map, f)
    PROVE  RowIs(Row(map)) /\ \A key \in Stored : Row(map)[key] = map[key]
<1>1. PICK r : r = Row(map)
  OBVIOUS
<1>2. r = [key \in Stored |-> map[key]] /\ \A key \in Stored : r[key] = map[key]
  BY <1>1 DEF Row
<1>3. ASSUME NEW key \in Texts
      PROVE  \E x \in Text : map[key] = HtmlEncode(x)
  <2>1. PICK t \in Text : t = f.fill[key]
    BY FillType
  <2>2. map[key] = HtmlEncode(Plain(UrlDecode(Encoded(t))))
    BY <2>1 DEF Whole
  <2>3. Plain(UrlDecode(Encoded(t))) \in Text
    BY EncodedType, DecodeType, PlainType
  <2>4. QED BY <2>2, <2>3
<1>4. PICK w : Bared(w) /\ map["image"] = Cons("meme_templates/", w)
  <2>1. PICK t : t = f.fill.image /\ Bared(t)
    BY DEF GoodForm, Bared
  <2>2. PICK fried \in BOOLEAN : fried = f.fill.deepfry
    BY DEF GoodForm
  <2>3. \E w : /\ Bared(w)
               /\ w = IF fried THEN Cons("df-", t) ELSE t
               /\ <<"meme_templates/">> \o (IF fried THEN <<"df-">> ELSE << >>) \o t
                     = Cons("meme_templates/", w)
    BY <2>1, PathIs
  <2>4. PICK p : p = <<"meme_templates/">> \o (IF fried THEN <<"df-">> ELSE << >>) \o t
    OBVIOUS
  <2>5. map["image"] = p
    BY <2>1, <2>2, <2>4 DEF Whole
  <2>6. QED BY <2>3, <2>4, <2>5
<1>5. map["image"] \in Text
  <2>1. "meme_templates/" \in Symbol
    BY DEF Symbol, Literals
  <2>2. QED BY <1>4, <2>1, ConsType DEF Bared
<1>6. \A key \in Texts : map[key] \in Text
  BY <1>3, EncodeType
<1>7. r \in [Stored -> Text]
  BY <1>2, <1>5, <1>6, StoredAre
<1>8. WholeRow(r)
  <2>1. Encodes(r)
    BY <1>2, <1>3, StoredAre DEF Encodes
  <2>2. r["image"] = map["image"]
    BY <1>2, StoredAre
  <2>3. QED BY <1>4, <2>1, <2>2 DEF WholeRow
<1>9. QED BY <1>1, <1>2, <1>7, <1>8 DEF RowIs

\* What was typed is on the page.
LEMMA WholeShown ==
    ASSUME NEW f, GoodForm(f), NEW map, Whole(map, f), NEW key \in Texts, Tame(f.fill[key])
    PROVE  Visible(InPage(Row(map), key)) = Softened(f.fill[key])
<1>1. PICK t \in Text : t = f.fill[key] /\ Passing(t)
  BY FillType, TamePasses
<1>2. PICK r \in [Stored -> Text] : r = Row(map) /\ r[key] = map[key]
  BY WholeRowIs, StoredAre DEF RowIs
<1>3. map[key] = HtmlEncode(t)
  BY <1>1, PassingComes DEF Whole
<1>4. PICK x \in Text : x = HtmlEncode(t)
  BY EncodeType
<1>5. \A f2 \in Stored : Lacks(x, Placeholder[f2])
  BY <1>1, <1>4, EncodedPlaceholders DEF Passing
<1>6. key \in Stored /\ r[key] = x
  BY <1>2, <1>3, <1>4, StoredAre
<1>7. InPage(r, key) = x
  BY <1>5, <1>6, InPageKeeps
<1>8. QED BY <1>1, <1>2, <1>4, <1>7, ShownEncoded DEF Visible

------------------------------------------------------------------------------
\* The edit form.
Decoded(row) == [key \in Stored |-> IF key = "image" THEN row.image ELSE HtmlDecode(row[key])]
Stripped(row) == IF Has(row.image, <<"meme_templates/">>) THEN Tail(row.image) ELSE row.image
Fried(w) == w # << >> /\ w[1] = "df-"
Unfried(w) == IF Fried(w) THEN Tail(w) ELSE w

LEMMA EditFillIs ==
    ASSUME NEW row
    PROVE  /\ \A key \in Texts : EditFill(row)[key] = InputValue(InPage(Decoded(row), key))
           /\ EditFill(row).image = Unfried(Stripped(row))
           /\ EditFill(row).deepfry = Fried(Stripped(row))
<1>1. PICK E : E = EditFill(row)
  OBVIOUS
<1>2. E = [name    |-> InputValue(InPage(Decoded(row), "name")),
           top     |-> InputValue(InPage(Decoded(row), "top")),
           bottom  |-> InputValue(InPage(Decoded(row), "bottom")),
           image   |-> Unfried(Stripped(row)),
           deepfry |-> Fried(Stripped(row))]
  BY <1>1 DEF EditFill, Decoded, Stripped, Fried, Unfried
<1>3. /\ E["name"] = InputValue(InPage(Decoded(row), "name"))
      /\ E["top"] = InputValue(InPage(Decoded(row), "top"))
      /\ E["bottom"] = InputValue(InPage(Decoded(row), "bottom"))
  BY <1>2
<1>4. \A key \in Texts : E[key] = InputValue(InPage(Decoded(row), key))
  <2> TAKE key \in Texts
  <2>1. key = "name" \/ key = "top" \/ key = "bottom"
    BY DEF Texts
  <2>2. CASE key = "name"
    BY <1>3, <2>2
  <2>3. CASE key = "top"
    BY <1>3, <2>3
  <2>4. CASE key = "bottom"
    BY <1>3, <2>4
  <2>5. QED BY <2>1, <2>2, <2>3, <2>4
<1>5. E.image = Unfried(Stripped(row)) /\ E.deepfry = Fried(Stripped(row))
  BY <1>2
<1>6. QED BY <1>1, <1>4, <1>5

LEMMA DecodedType ==
    ASSUME NEW row \in [Stored -> Text]
    PROVE  Decoded(row) \in [Stored -> Text]
           /\ \A key \in Texts : Decoded(row)[key] = HtmlDecode(row[key])
BY HtmlDecodeType, StoredAre DEF Decoded

\* The path is taken off again, and so is the mark of a fried image.
LEMMA BaredRest ==
    ASSUME NEW s \in Symbol, NEW t \in Text, Bared(Cons(s, t))
    PROVE  Bared(t)
<1>1. PICK w : w = Cons(s, t)
  OBVIOUS
<1>2. IsNext(w, s, t)
  BY <1>1, NextIs
<1>3. /\ DOMAIN w = 1 .. 1 + Len(t) /\ DOMAIN t = 1 .. Len(t) /\ Len(t) \in Nat
      /\ \A j \in 1 .. Len(t) : w[1 + j] = t[j]
  BY <1>2 DEF IsNext
<1>4. \A j \in 1 .. Len(t) : 1 + j \in DOMAIN w
  BY <1>3
<1>5. Bare(t)
  BY <1>1, <1>3, <1>4 DEF Bared, Bare
<1>6. Lacks(t, "meme_templates/")
  <2>1. "meme_templates/" \in Symbol /\ Lacks(w, "meme_templates/")
    BY <1>1 DEF Bared, Symbol, Literals
  <2>2. QED BY <1>1, <2>1, LacksNext
<1>7. QED BY <1>5, <1>6 DEF Bared

LEMMA UnfriedIs ==
    ASSUME NEW w, Bared(w)
    PROVE  /\ Bared(Unfried(w)) /\ Fried(w) \in BOOLEAN
           /\ w = IF Fried(w) THEN Cons("df-", Unfried(w)) ELSE Unfried(w)
<1>1. CASE Fried(w)
  <2>1. w \in Text /\ w # << >> /\ w[1] = "df-"
    BY <1>1 DEF Bared, Fried
  <2>2. PICK s \in Symbol, u \in Text : w = Cons(s, u)
    BY <2>1, NextExists
  <2>3. PICK x : x = Cons(s, u)
    OBVIOUS
  <2>4. IsNext(x, s, u)
    BY <2>3, NextIs
  <2>5. x[1] = s
    BY <2>4 DEF IsNext
  <2>6. s = "df-" /\ Tail(x) = u
    BY <2>1, <2>2, <2>3, <2>5, TailIs
  <2>7. Bared(u)
    BY <2>2, BaredRest
  <2>8. Unfried(w) = u
    BY <1>1, <2>2, <2>3, <2>6 DEF Unfried
  <2>9. QED BY <1>1, <2>2, <2>6, <2>7, <2>8
<1>3. Fried(w) \in BOOLEAN
  BY DEF Fried
<1>2. CASE ~Fried(w)
  <2>1. Unfried(w) = w
    BY <1>2 DEF Unfried
  <2>2. QED BY <1>2, <1>3, <2>1
<1>4. QED BY <1>1, <1>2, <1>3

LEMMA StrippedIs ==
    ASSUME NEW row, RowIs(row)
    PROVE  /\ Bared(Stripped(row))
           /\ Has(row.image, <<"meme_templates/">>) =>
                 WholeRow(row) /\ row.image = Cons("meme_templates/", Stripped(row))
<1>1. PICK m \in Symbol : m = "meme_templates/"
  BY DEF Symbol, Literals
<1>2. PICK i \in Text : i = row["image"]
  BY StoredAre DEF RowIs
<1>3. Has(i, <<m>>) <=> ~Lacks(i, m)
  BY HasNone
<1>4. CASE Bared(i)
  <2>1. Lacks(i, m)
    BY <1>1, <1>4 DEF Bared
  <2>2. QED BY <1>1, <1>2, <1>3, <1>4, <2>1 DEF Stripped
<1>5. CASE WholeRow(row)
  <2>1. PICK w : Bared(w) /\ i = Cons(m, w)
    BY <1>1, <1>2, <1>5 DEF WholeRow
  <2>2. ~Lacks(i, m) /\ Tail(i) = w
    BY <2>1, LacksNext, TailIs DEF Bared
  <2>3. Stripped(row) = w
    BY <1>1, <1>2, <1>3, <2>2 DEF Stripped
  <2>4. QED BY <1>1, <1>2, <1>5, <2>1, <2>3
<1>6. QED BY <1>2, <1>4, <1>5 DEF RowIs

\* So an edit form is like any other.
LEMMA EditGood ==
    ASSUME NEW row, RowIs(row), NEW f, f.fill = EditFill(row), f.id \in Text, Bare(f.id)
    PROVE  GoodForm(f)
<1>1. row \in [Stored -> Text]
  BY DEF RowIs
<1>2. PICK E : E = EditFill(row)
  OBVIOUS
<1>3. ASSUME NEW key \in Texts PROVE E[key] \in Text
  <2>1. E[key] = InputValue(InPage(Decoded(row), key))
    BY <1>2, EditFillIs
  <2>2. InPage(Decoded(row), key) \in Text
    BY <1>1, DecodedType, InPageType, StoredAre
  <2>3. QED BY <2>1, <2>2, InputType
<1>4. E["name"] \in Text /\ E["top"] \in Text /\ E["bottom"] \in Text
  BY <1>3 DEF Texts
<1>5. PICK w : w = Stripped(row) /\ Bared(w)
  BY StrippedIs
<1>6. E.image = Unfried(w) /\ E.deepfry = Fried(w)
  BY <1>2, <1>5, EditFillIs
<1>7. Bared(E.image) /\ E.deepfry \in BOOLEAN
  BY <1>5, <1>6, UnfriedIs
<1>8. QED BY <1>2, <1>4, <1>7 DEF GoodForm, Bared

\* What the edit form has of a text is what was typed.
LEMMA EditText ==
    ASSUME NEW row, RowIs(row), WholeRow(row), NEW key \in Texts,
           Returned(Visible(row[key]))
    PROVE  \E x \in Text : /\ row[key] = HtmlEncode(x) /\ Passing(x)
                           /\ EditFill(row)[key] = x
<1>1. PICK x \in Text : row[key] = HtmlEncode(x)
  BY DEF WholeRow, Encodes
<1>2. PICK v \in Text : v = Softened(x) /\ Returned(v)
  <2>1. Visible(row[key]) = Softened(x)
    BY <1>1, ShownEncoded DEF Visible
  <2>2. Softened(x) \in Text
    BY SoftenedAt DEF SoftenedTo
  <2>3. QED BY <2>1, <2>2
<1>3. Passing(x)
  BY <1>2, TamePasses, SoftenedPasses DEF Returned
<1>4. Lacks(x, "\"")
  <2>0. "\"" # "hard" /\ "\"" # " "
    OBVIOUS
  <2>1. PICK c : c = "\"" /\ c # "hard" /\ c # " "
    BY <2>0
  <2>2. ~Has(v, <<c>>)
    BY <1>2, <2>1 DEF Returned
  <2>3. Lacks(v, c)
    BY <2>2, HasNone
  <2>4. Lacks(x, c)
    BY <1>2, <2>1, <2>3, SoftenedLacks
  <2>5. QED BY <2>1, <2>4
<1>5. ~NamesEntity(x)
  BY <1>2, SoftenedNames DEF Returned
<1>6. HtmlDecode(row[key]) = x
  <2>1. PICK K \in SUBSET Written3 : K = Written3
    OBVIOUS
  <2>2. row[key] = Enc(K, x)
    BY <1>1, <2>1, HtmlEncodeIs
  <2>3. QED BY <1>5, <2>2, HtmlDecodeEnc
<1>7. PICK D \in [Stored -> Text] : D = Decoded(row) /\ D[key] = x
  BY <1>6, DecodedType DEF RowIs
<1>8. key \in Stored
  BY StoredAre
<1>9. InPage(D, key) = x
  BY <1>3, <1>7, <1>8, InPageKeeps DEF Passing
<1>10. EditFill(row)[key] = x
  BY <1>4, <1>5, <1>7, <1>9, EditFillIs, InputKeeps
<1>11. QED BY <1>1, <1>3, <1>10

\* Sent as it came, it changes nothing.
LEMMA EditSame ==
    ASSUME NEW row, RowIs(row), Has(row.image, <<"meme_templates/">>),
           \A key \in Texts : Returned(Visible(row[key])),
           NEW f, GoodForm(f), f.fill = EditFill(row), NEW map, Whole(map, f)
    PROVE  Row(map) = row
<1>1. WholeRow(row) /\ row.image = Cons("meme_templates/", Stripped(row))
  BY StrippedIs
<1>2. PICK r : r = Row(map) /\ RowIs(r) /\ \A key \in Stored : r[key] = map[key]
  BY WholeRowIs
<1>3. ASSUME NEW key \in Texts PROVE r[key] = row[key]
  <2>1. PICK x \in Text : /\ row[key] = HtmlEncode(x) /\ Passing(x)
                          /\ f.fill[key] = x
    BY <1>1, EditText
  <2>2. map[key] = HtmlEncode(Plain(UrlDecode(Encoded(x))))
    BY <2>1 DEF Whole
  <2>3. Plain(UrlDecode(Encoded(x))) = x
    BY <2>1, PassingComes
  <2>4. QED BY <1>2, <2>1, <2>2, <2>3, StoredAre
<1>4. r["image"] = row["image"]
  <2>1. PICK w : w = Stripped(row) /\ Bared(w)
    BY StrippedIs
  <2>2. PICK t : t = Unfried(w) /\ Bared(t)
    BY <2>1, UnfriedIs
  <2>3. PICK fried \in BOOLEAN : fried = Fried(w)
    BY <2>1, UnfriedIs
  <2>4. w = IF fried THEN Cons("df-", t) ELSE t
    BY <2>1, <2>2, <2>3, UnfriedIs
  <2>5. \E z : /\ Bared(z)
               /\ z = IF fried THEN Cons("df-", t) ELSE t
               /\ <<"meme_templates/">> \o (IF fried THEN <<"df-">> ELSE << >>) \o t
                     = Cons("meme_templates/", z)
    BY <2>2, PathIs
  <2>6. PICK p : p = <<"meme_templates/">> \o (IF fried THEN <<"df-">> ELSE << >>) \o t
    OBVIOUS
  <2>7. p = Cons("meme_templates/", w)
    BY <2>4, <2>5, <2>6
  <2>8. f.fill.image = t /\ f.fill.deepfry = fried
    BY <2>1, <2>2, <2>3, EditFillIs
  <2>9. map["image"] = p
    BY <2>6, <2>8 DEF Whole
  <2>10. QED BY <1>1, <1>2, <2>1, <2>7, <2>9, StoredAre
<1>5. \A key \in Stored : r[key] = row[key]
  BY <1>3, <1>4, StoredAre
<1>6. r \in [Stored -> Text] /\ row \in [Stored -> Text]
  BY <1>2 DEF RowIs
<1>7. r = row
  BY <1>5, <1>6
<1>8. QED BY <1>2, <1>7

------------------------------------------------------------------------------
(***************************************************************************)
(* LIKE, for a pattern between two percent signs.                          *)
(***************************************************************************)
\* LIKE: where the rest of the pattern fits.
Rest(f, t, p, w, i) ==
    IF i > Len(p) THEN {Len(t) + 1}
    ELSE {j \in 1 .. Len(t) + 1 : \E k \in f[i + 1] :
             \/ p[i] = w /\ j <= k
             \/ p[i] # w /\ k = j + 1 /\ p[i] = t[j]}
Rests(f, t, p, w) == f = [i \in 1 .. Len(p) + 1 |-> Rest(f, t, p, w, i)]

LEMMA LikeDef ==
    ASSUME NEW t, NEW p
    PROVE  Like(t, p) <=> 1 \in (CHOOSE f : Rests(f, t, p, "%"))[1]
BY DEF Like, Rests, Rest

LEMMA RestsExist ==
    ASSUME NEW t \in Text, NEW p \in Text, NEW w
    PROVE  \E f : Rests(f, t, p, w)
<1>1. PICK n \in Nat : n = Len(p)
  BY TextDomain
<1>2. PICK m \in Nat : m = Len(t)
  BY TextDomain
<1> DEFINE V == SUBSET (1 .. m + 1)
           F == [1 .. n + 1 -> V]
           At(f, i) == Rest(f, t, p, w, i)
           G == [f \in F |-> [i \in 1 .. n + 1 |-> At(f, i)]]
<1>3. \A f \in F : \A i \in 1 .. n + 1 : At(f, i) \in V
  BY <1>1, <1>2 DEF Rest
<1>4. \A f, g \in F : \A k \in 1 .. n + 1 :
         (\A j \in k + 1 .. n + 1 : f[j] = g[j]) => At(f, k) = At(g, k)
  <2> TAKE f, g \in F
  <2> TAKE k \in 1 .. n + 1
  <2> HAVE \A j \in k + 1 .. n + 1 : f[j] = g[j]
  <2>1. CASE k > n
    BY <1>1, <2>1 DEF Rest
  <2>2. CASE ~(k > n)
    <3>1. k + 1 \in k + 1 .. n + 1
      BY <2>2
    <3>2. f[k + 1] = g[k + 1]
      BY <3>1
    <3>3. QED BY <1>1, <2>2, <3>2 DEF Rest
  <2>3. QED BY <2>1, <2>2
<1> HIDE DEF At
<1>5. \A f \in F : G[f] \in F /\ \A k \in 1 .. n + 1 : G[f][k] = At(f, k)
  BY <1>3
<1>6. G \in [F -> F]
  BY <1>5
<1>7. V # {}
  OBVIOUS
<1> HIDE DEF G, V
<1>8. LooksAhead(n + 1, V, G)
  BY <1>4, <1>5, <1>6, <1>7 DEF LooksAhead
<1>9. PICK f \in F : f = G[f]
  BY <1>8, BackwardRecursion
<1>10. f = [i \in 1 .. n + 1 |-> At(f, i)]
  BY <1>9 DEF G
<1>11. QED BY <1>1, <1>10 DEF At, Rests

\* A text with what is between the signs is like that pattern.
IsPattern(p, w, b) ==
    /\ Len(p) = Len(b) + 2 /\ p[1] = w /\ p[Len(b) + 2] = w
    /\ \A q \in 1 .. Len(b) : p[1 + q] = b[q]
HasInside(t, n, b) ==
    /\ n + Len(b) <= Len(t) /\ \A q \in 1 .. Len(b) : t[n + q] = b[q]

LEMMA LikePart ==
    ASSUME NEW t \in Text, NEW n \in Nat, NEW b \in Text, HasInside(t, n, b),
           NEW p \in Text, NEW w, IsPattern(p, w, b), NEW f, Rests(f, t, p, w)
    PROVE  1 \in f[1]
<1>1. PICK l \in Nat : l = Len(b)
  BY TextDomain
<1>2. PICK m \in Nat : m = Len(t)
  BY TextDomain
<1>3. /\ Len(p) = l + 2 /\ p[1] = w /\ p[l + 2] = w
      /\ \A q \in 1 .. l : p[1 + q] = b[q]
      /\ n + l <= m /\ \A q \in 1 .. l : t[n + q] = b[q]
  BY <1>1, <1>2 DEF IsPattern, HasInside
<1>4. \A i \in 1 .. l + 3 : f[i] = Rest(f, t, p, w, i)
  BY <1>3 DEF Rests
<1>5. f[l + 3] = {m + 1}
  <2>1. l + 3 > l + 2 /\ l + 3 \in 1 .. l + 3
    OBVIOUS
  <2>2. QED BY <1>2, <1>3, <1>4, <2>1 DEF Rest
<1>6. \A i \in 1 .. l + 2 : \A j \in 1 .. m + 1 : \A k \in f[i + 1] :
         \/ p[i] = w /\ j <= k
         \/ p[i] # w /\ k = j + 1 /\ p[i] = t[j]
         => j \in f[i]
  <2> TAKE i \in 1 .. l + 2
  <2>1. i \in 1 .. l + 3 /\ ~(i > l + 2)
    OBVIOUS
  <2>2. f[i] = {j \in 1 .. m + 1 : \E k \in f[i + 1] :
                   \/ p[i] = w /\ j <= k
                   \/ p[i] # w /\ k = j + 1 /\ p[i] = t[j]}
    BY <1>2, <1>3, <1>4, <2>1 DEF Rest
  <2>3. QED BY <2>2
<1> DEFINE T == {q \in 1 .. l + 1 : n + q \in f[1 + q]}
<1>7. T \in SUBSET (1 .. l + 1)
  OBVIOUS
<1>8. ASSUME NEW q \in 1 .. l + 1, q + 1 .. l + 1 \subseteq T
      PROVE  q \in T
  <2>1. /\ 1 + q \in 1 .. l + 2 /\ n + q \in 1 .. m + 1
        /\ (1 + q) + 1 = q + 2
    BY <1>3
  <2>2. CASE q = l + 1
    <3>1. p[1 + q] = w /\ m + 1 \in f[(1 + q) + 1] /\ n + q <= m + 1
      BY <1>3, <1>5, <2>2
    <3>2. n + q \in f[1 + q]
      BY <1>6, <2>1, <3>1
    <3>3. QED BY <3>2
  <2>3. CASE q # l + 1
    <3>1. q + 1 \in T
      BY <1>8, <2>3
    <3>2. n + (q + 1) \in f[1 + (q + 1)]
      BY <3>1
    <3>3. 1 + (q + 1) = (1 + q) + 1 /\ n + (q + 1) = (n + q) + 1 /\ q \in 1 .. l
      BY <2>3
    <3>4. (n + q) + 1 \in f[(1 + q) + 1]
      BY <3>2, <3>3
    <3>5. p[1 + q] = t[n + q]
      BY <1>3, <3>3
    <3>6. n + q <= (n + q) + 1
      OBVIOUS
    <3>7. n + q \in f[1 + q]
      BY <1>6, <2>1, <3>4, <3>5, <3>6
    <3>8. QED BY <3>7
  <2>4. QED BY <2>2, <2>3
<1> HIDE DEF T
<1>9. T = 1 .. l + 1
  BY <1>7, <1>8, BackwardInduction
<1>10. 1 \in T
  BY <1>9
<1>11. n + 1 \in f[1 + 1]
  BY <1>10 DEF T
<1>12. 1 \in 1 .. l + 2 /\ 1 \in 1 .. m + 1 /\ 1 <= n + 1
  OBVIOUS
<1>13. QED BY <1>3, <1>6, <1>11, <1>12

LEMMA LikeInside ==
    ASSUME NEW a \in Text, NEW b \in Text, NEW c \in Text, NEW w \in Symbol, w = "%"
    PROVE  Like(Glue(a, Glue(b, c)), Glue(Glue(<<w>>, b), <<w>>))
<1>1. PICK x \in Text : x = <<w>>
  BY OneSymbol
<1>2. Len(x) = 1 /\ x[1] = w
  BY <1>1, OneSymbol
<1>3. PICK bc : bc = Glue(b, c)
  OBVIOUS
<1>4. IsJoin(bc, b, c)
  BY <1>3, JoinIs DEF Glue
<1>5. bc \in Text
  BY <1>4 DEF IsJoin
<1>6. PICK t : t = Glue(a, bc)
  OBVIOUS
<1>7. IsJoin(t, a, bc)
  BY <1>5, <1>6, JoinIs DEF Glue
<1>8. PICK xb : xb = Glue(x, b)
  OBVIOUS
<1>9. IsJoin(xb, x, b)
  BY <1>8, JoinIs DEF Glue
<1>10. xb \in Text
  BY <1>9 DEF IsJoin
<1>11. PICK p : p = Glue(xb, x)
  OBVIOUS
<1>12. IsJoin(p, xb, x)
  BY <1>10, <1>11, JoinIs DEF Glue
<1>13. /\ Len(a) \in Nat /\ Len(b) \in Nat /\ Len(c) \in Nat /\ Len(bc) = Len(b) + Len(c)
       /\ Len(xb) = 1 + Len(b) /\ Len(p) = Len(xb) + 1 /\ Len(t) = Len(a) + Len(bc)
  BY <1>2, <1>4, <1>7, <1>9, <1>12 DEF IsJoin
<1>14. HasInside(t, Len(a), b)
  <2>1. \A q \in 1 .. Len(b) : q \in 1 .. Len(bc) /\ bc[q] = b[q]
    BY <1>4, <1>13 DEF IsJoin
  <2>2. \A q \in 1 .. Len(bc) : t[Len(a) + q] = bc[q]
    BY <1>7 DEF IsJoin
  <2>3. QED BY <1>13, <2>1, <2>2 DEF HasInside
<1>15. IsPattern(p, w, b)
  <2>1. Len(p) = Len(b) + 2
    BY <1>13
  <2>2. \A i \in 1 .. 1 + Len(b) : p[i] = xb[i]
    BY <1>12, <1>13 DEF IsJoin
  <2>3. 1 \in 1 .. Len(x)
    BY <1>2
  <2>4. xb[1] = x[1]
    BY <1>9, <2>3 DEF IsJoin
  <2>5. p[1] = w
    BY <1>2, <1>13, <2>2, <2>4
  <2>6. p[Len(xb) + 1] = x[1]
    BY <1>12, <2>3 DEF IsJoin
  <2>7. p[Len(b) + 2] = w
    <3>1. Len(xb) + 1 = Len(b) + 2
      BY <1>13
    <3>2. QED BY <1>2, <2>6, <3>1
  <2>8. \A q \in 1 .. Len(b) : xb[1 + q] = b[q]
    BY <1>2, <1>9 DEF IsJoin
  <2>9. \A q \in 1 .. Len(b) : 1 + q \in 1 .. 1 + Len(b)
    BY <1>13
  <2>10. \A q \in 1 .. Len(b) : p[1 + q] = b[q]
    BY <2>2, <2>8, <2>9
  <2>11. QED BY <2>1, <2>5, <2>7, <2>10 DEF IsPattern
<1>16. t \in Text /\ p \in Text
  BY <1>7, <1>12 DEF IsJoin
<1>17. PICK f : f = CHOOSE g : Rests(g, t, p, w)
  OBVIOUS
<1>18. Rests(f, t, p, w)
  BY <1>16, <1>17, RestsExist
<1>19. 1 \in f[1]
  BY <1>13, <1>14, <1>15, <1>16, <1>18, LikePart
<1>20. Like(t, p)
  BY <1>17, <1>19, LikeDef
<1>21. QED BY <1>1, <1>3, <1>6, <1>8, <1>11, <1>20

------------------------------------------------------------------------------
(***************************************************************************)
(* Search terms are encoded as the texts are.                              *)
(***************************************************************************)
LEMMA SpreadGlue ==
    ASSUME NEW P \in [Symbol -> Text], NEW s \in Text, NEW t \in Text
    PROVE  SpreadBy(P, Glue(s, t)) = Glue(SpreadBy(P, s), SpreadBy(P, t))
<1> DEFINE S == {u \in Text : SpreadBy(P, Glue(u, t)) = Glue(SpreadBy(P, u), SpreadBy(P, t))}
<1>1. PICK y \in Text : y = SpreadBy(P, t)
  BY SpreadType
<1>2. << >> \in S
  <2>1. PICK e \in Text : e = << >>
    BY LacksNothing
  <2>2. Glue(e, t) = t /\ Glue(e, y) = y
    BY <2>1, GlueNothing
  <2>3. SpreadBy(P, e) = e
    BY <2>1, SpreadNothing
  <2>4. e \in S
    BY <1>1, <2>2, <2>3
  <2>5. QED BY <2>1, <2>4
<1>3. ASSUME NEW c \in Symbol, NEW u \in S PROVE Cons(c, u) \in S
  <2>1. u \in Text /\ Cons(c, u) \in Text
    BY ConsType
  <2>2. PICK x, z \in Text : x = SpreadBy(P, u) /\ z = P[c]
    BY <2>1, SpreadType
  <2>3. SpreadBy(P, Glue(u, t)) = Glue(x, y)
    BY <1>1, <2>2
  <2>4. Glue(Cons(c, u), t) = Cons(c, Glue(u, t)) /\ Glue(u, t) \in Text
    BY <2>1, GlueNext, GlueType
  <2>5. SpreadBy(P, Glue(Cons(c, u), t)) = Glue(z, Glue(x, y))
    BY <2>2, <2>3, <2>4, SpreadNext
  <2>6. SpreadBy(P, Cons(c, u)) = Glue(z, x)
    BY <2>1, <2>2, SpreadNext
  <2>7. Glue(Glue(z, x), y) = Glue(z, Glue(x, y))
    BY GluesAssociate
  <2>8. QED BY <1>1, <2>1, <2>5, <2>6, <2>7
<1>4. S \in SUBSET Text
  OBVIOUS
<1> HIDE DEF S
<1>5. s \in S
  BY <1>2, <1>3, <1>4, TextInduction
<1>6. QED BY <1>5 DEF S

LEMMA EncodeGlue ==
    ASSUME NEW s \in Text, NEW t \in Text
    PROVE  HtmlEncode(Glue(s, t)) = Glue(HtmlEncode(s), HtmlEncode(t))
<1>1. PICK K \in SUBSET Written3 : K = Written3
  OBVIOUS
<1>2. Glue(s, t) \in Text
  BY GlueType
<1>3. EncOf(K) \in [Symbol -> Text]
  BY EncOfType
<1>4. Enc(K, Glue(s, t)) = Glue(Enc(K, s), Enc(K, t))
  BY <1>3, SpreadGlue DEF Enc
<1>5. QED BY <1>1, <1>2, <1>4, HtmlEncodeIs

\* A text that has another one is that with something before it and after it.
LEMMA HasParts ==
    ASSUME NEW x \in Text, NEW p \in Text, Has(x, p)
    PROVE  \E a, c \in Text : x = Glue(a, Glue(p, c))
<1>1. PICK n \in Nat : n = Len(x) /\ DOMAIN x = 1 .. n
  BY TextDomain
<1>2. PICK l \in Nat : l = Len(p)
  BY TextDomain
<1>3. PICK i \in 1 .. n : IsAt(x, i, p)
  BY <1>1 DEF Has
<1>4. i + l <= n + 1 /\ \A j \in 1 .. l : x[i + j - 1] = p[j]
  BY <1>1, <1>2, <1>3, IsAtIs
<1>5. PICK k \in 0 .. n : k = i - 1 /\ k + l \in Nat /\ k + l <= n
  <2>1. i - 1 \in 0 .. n /\ (i - 1) + l \in Nat /\ (i - 1) + l <= n
    BY <1>4
  <2>2. QED BY <2>1
<1>6. PICK a : a = Prefix(x, k)
  OBVIOUS
<1>7. a \in Text /\ Len(a) = k /\ \A j \in 1 .. k : a[j] = x[j]
  BY <1>1, <1>6, PrefixIs
<1>8. PICK c : c = SubSeq(x, (k + l) + 1, Len(x))
  OBVIOUS
<1>9. c \in Text /\ Len(c) = n - (k + l) /\ \A j \in 1 .. n - (k + l) : c[j] = x[(k + l) + j]
  BY <1>1, <1>5, <1>8, SuffixIs DEF Text
<1>10. PICK pc : pc = Glue(p, c)
  OBVIOUS
<1>11. IsJoin(pc, p, c)
  BY <1>9, <1>10, JoinIs DEF Glue
<1>12. pc \in Text
  BY <1>11 DEF IsJoin
<1>13. PICK w : w = Glue(a, pc)
  OBVIOUS
<1>14. IsJoin(w, a, pc)
  BY <1>7, <1>12, <1>13, JoinIs DEF Glue
<1>15. Len(pc) = n - k /\ Len(w) = n /\ w \in Text
  BY <1>2, <1>5, <1>7, <1>9, <1>11, <1>14 DEF IsJoin
<1>16. ASSUME NEW j \in 1 .. n PROVE w[j] = x[j]
  <2>1. CASE j <= k
    <3>1. j \in 1 .. k
      BY <2>1
    <3>2. QED BY <1>7, <1>14, <3>1 DEF IsJoin
  <2>2. CASE k < j /\ j <= k + l
    <3>1. PICK q \in 1 .. l : j = k + q
      <4>1. j - k \in 1 .. l /\ j = k + (j - k)
        BY <2>2
      <4>2. QED BY <4>1
    <3>2. q \in 1 .. Len(pc) /\ pc[q] = p[q]
      BY <1>2, <1>5, <1>11, <1>15, <3>1 DEF IsJoin
    <3>3. w[j] = p[q]
      BY <1>7, <1>14, <3>1, <3>2 DEF IsJoin
    <3>4. i + q - 1 = j
      BY <1>5, <3>1
    <3>5. QED BY <1>4, <3>1, <3>3, <3>4
  <2>3. CASE k + l < j
    <3>1. PICK q \in 1 .. n - (k + l) : j = (k + l) + q
      <4>1. j - (k + l) \in 1 .. n - (k + l) /\ j = (k + l) + (j - (k + l))
        BY <1>5, <2>3
      <4>2. QED BY <4>1
    <3>2. pc[l + q] = c[q]
      BY <1>2, <1>9, <1>11, <3>1 DEF IsJoin
    <3>3. l + q \in 1 .. Len(pc)
      BY <1>5, <1>15, <3>1
    <3>4. w[k + (l + q)] = pc[l + q]
      BY <1>7, <1>14, <3>3 DEF IsJoin
    <3>5. k + (l + q) = j
      BY <3>1
    <3>6. QED BY <1>9, <3>1, <3>2, <3>4, <3>5
  <2>4. QED BY <1>5, <2>1, <2>2, <2>3
<1>17. w = x
  BY <1>1, <1>15, <1>16, TextsEqual
<1>18. QED BY <1>7, <1>9, <1>10, <1>13, <1>17

\* What is searched for.
LEMMA SearchTermIs ==
    ASSUME NEW t \in Text, ~NamesEntity(t)
    PROVE  SearchTerm(Encoded(t)) = HtmlEncode(t)
<1>1. SearchTerm(Encoded(t)) = HtmlEncode(HtmlDecode(UrlDecode(Spaced(Encoded(t)))))
  BY DEF SearchTerm, Spaced
<1>2. UrlDecode(Spaced(Encoded(t))) = t
  BY EncodedDecodes
<1>3. HtmlDecode(t) = t
  <2>1. PICK K \in SUBSET Written3 : K = {}
    OBVIOUS
  <2>2. HtmlDecode(Enc(K, t)) = t
    BY HtmlDecodeEnc
  <2>3. QED BY <2>1, <2>2, EncNone
<1>4. QED BY <1>1, <1>2, <1>3

LEMMA EncKeeps ==
    ASSUME NEW K \in SUBSET Written3, NEW p, p \notin K, NEW t \in Text, Lacks(Enc(K, t), p)
    PROVE  Lacks(t, p)
<1> DEFINE S == {u \in Text : Lacks(Enc(K, u), p) => Lacks(u, p)}
<1>1. << >> \in S
  BY LacksNothing
<1>2. ASSUME NEW s \in Symbol, NEW u \in S PROVE Cons(s, u) \in S
  <2>1. u \in Text /\ Cons(s, u) \in Text
    BY ConsType
  <2>2. SUFFICES ASSUME Lacks(Enc(K, Cons(s, u)), p)
                 PROVE  Lacks(Cons(s, u), p)
    BY <2>1
  <2>3. PICK x \in Text : x = Enc(K, u)
    BY <2>1, EncNext
  <2>4. CASE s \in K
    <3>1. PICK e \in Names : e = EntityOf[s]
      BY <2>4, EntitiesAre
    <3>2. PICK a, semi \in Symbol : a = "&" /\ semi = ";"
      BY EntitiesAre
    <3>3. e \in Symbol
      BY <3>1, EntitiesAre
    <3>4. PICK z \in Text : z = Cons(semi, x)
      BY ConsType
    <3>5. PICK v \in Text : v = Cons(e, z)
      BY <3>3, ConsType
    <3>6. Enc(K, Cons(s, u)) = Cons(a, v)
      <4>1. Enc(K, Cons(s, u)) = Cons("&", Cons(EntityOf[s], Cons(";", Enc(K, u))))
        BY <2>1, <2>4, EncNext
      <4>2. QED BY <2>3, <3>1, <3>2, <3>4, <3>5, <4>1
    <3>7. Lacks(v, p)
      BY <2>2, <3>6, LacksNext
    <3>8. Lacks(z, p)
      BY <3>3, <3>5, <3>7, LacksNext
    <3>9. Lacks(x, p)
      BY <3>4, <3>8, LacksNext
    <3>10. Lacks(u, p) /\ s # p
      BY <2>3, <2>4, <3>9
    <3>11. QED BY <2>1, <3>10, LacksNext
  <2>5. CASE s \notin K
    <3>1. Enc(K, Cons(s, u)) = Cons(s, x)
      BY <2>1, <2>3, <2>5, EncNext
    <3>2. s # p /\ Lacks(x, p)
      BY <2>2, <2>3, <3>1, LacksNext
    <3>3. QED BY <2>1, <2>3, <3>2, LacksNext
  <2>6. QED BY <2>4, <2>5
<1>3. S \in SUBSET Text
  OBVIOUS
<1> HIDE DEF S
<1>4. t \in S
  BY <1>1, <1>2, <1>3, TextInduction
<1>5. QED BY <1>4 DEF S

\* A term that a meme shows is found.
LEMMA TermFound ==
    ASSUME NEW term \in Text, ~NamesEntity(term), NEW row, RowIs(row),
           Has(row.image, <<"meme_templates/">>), NEW key \in Texts,
           Has(Visible(row[key]), term), ~Has(row[key], <<"hard">>)
    PROVE  Like(row[key], <<"%">> \o SearchTerm(Encoded(term)) \o <<"%">>)
<1>1. WholeRow(row)
  BY StrippedIs
<1>2. PICK x \in Text : row[key] = HtmlEncode(x)
  BY <1>1 DEF WholeRow, Encodes
<1>3. Visible(row[key]) = Softened(x)
  BY <1>2, ShownEncoded DEF Visible
<1>4. PICK h, s \in Symbol : h = "hard" /\ s = " "
  BY DEF Symbol, Literals
<1>5. h \notin Written3
  BY <1>4 DEF Written3
<1>6. Lacks(x, h)
  <2>1. PICK K \in SUBSET Written3 : K = Written3
    OBVIOUS
  <2>2. PICK y \in Text : y = HtmlEncode(x) /\ y = Enc(K, x)
    BY <2>1, EncodeType, HtmlEncodeIs
  <2>3. Lacks(y, h)
    BY <1>2, <1>4, <2>2, HasNone
  <2>4. QED BY <1>5, <2>1, <2>2, <2>3, EncKeeps
<1>7. Softened(x) = x
  <2>1. PICK p, q \in Text : p = <<h>> /\ q = <<s>> /\ p # << >>
    BY OneSymbol, NotEmpty
  <2>2. ~Has(x, p)
    BY <1>6, <2>1, HasNone
  <2>3. ReplacedAll(x, p, q) = x
    BY <2>1, <2>2, ReplacedKeeps
  <2>4. QED BY <1>4, <2>1, <2>3 DEF Softened
<1>8. PICK a, c \in Text : x = Glue(a, Glue(term, c))
  BY <1>3, <1>7, HasParts
<1>9. Glue(term, c) \in Text
  BY GlueType
<1>10. PICK ea, et, ec \in Text :
          ea = HtmlEncode(a) /\ et = HtmlEncode(term) /\ ec = HtmlEncode(c)
  BY EncodeType
<1>11. row[key] = Glue(ea, Glue(et, ec))
  BY <1>2, <1>8, <1>9, <1>10, EncodeGlue
<1>12. PICK w \in Symbol : w = "%"
  BY SlashCodeIs
<1>13. Like(row[key], Glue(Glue(<<w>>, et), <<w>>))
  BY <1>11, <1>12, LikeInside
<1>14. SearchTerm(Encoded(term)) = et
  BY <1>10, SearchTermIs
<1>15. PICK p : p = SearchTerm(Encoded(term))
  OBVIOUS
<1>16. Glue(Glue(<<w>>, et), <<w>>) = <<"%">> \o p \o <<"%">>
  BY <1>12, <1>14, <1>15, Zenon DEF Glue
<1>17. QED BY <1>13, <1>15, <1>16

------------------------------------------------------------------------------
(***************************************************************************)
(* Ids, and the invariant.                                                 *)
(***************************************************************************)
\* What is a sequence of strings is a text.
LEMMA StringsAreTexts == Seq(STRING) \subseteq Text
<1>1. STRING \subseteq Symbol
  BY DEF Symbol
<1>2. ASSUME NEW t \in Seq(STRING) PROVE t \in Text
  <2>1. PICK n \in Nat : n = Len(t)
    OBVIOUS
  <2>2. t \in [1 .. n -> STRING]
    BY <2>1
  <2>3. t \in [1 .. n -> Symbol]
    BY <1>1, <2>2
  <2>4. [1 .. n -> Symbol] \subseteq Text
    <3>1. PICK S : S = Symbol
      OBVIOUS
    <3>2. [1 .. n -> S] \subseteq Seq(S)
      OBVIOUS
    <3>3. QED BY <3>1, <3>2 DEF Text
  <2>5. QED BY <2>3, <2>4
<1>3. QED BY <1>2

Ids == DOMAIN IdTexts
LEMMA IdsAre ==
    /\ Len(IdTexts) \in Nat /\ Ids = 1 .. Len(IdTexts)
    /\ MaxPosts \in Nat /\ MaxPosts <= Len(IdTexts)
    /\ \A i \in Ids : IdTexts[i] \in Text /\ Bare(IdTexts[i])
<1>1. IdTexts \in Seq(Seq(STRING)) /\ \A i \in DOMAIN IdTexts : Bare(IdTexts[i])
  BY IdShape
<1>2. Len(IdTexts) \in Nat /\ Ids = 1 .. Len(IdTexts)
  BY <1>1 DEF Ids
<1>3. \A i \in Ids : IdTexts[i] \in Seq(STRING)
  BY <1>1, <1>2
<1>4. QED BY <1>1, <1>2, <1>3, StringsAreTexts, PostBound DEF Ids

\* No id is a part of another one, nor of itself.
LEMMA NoIdInside ==
    ASSUME NEW i \in Ids, NEW l \in 0 .. Len(IdTexts[i]), NEW j \in Ids,
           IdTexts[j] = Prefix(IdTexts[i], l)
    PROVE  i = j /\ l = Len(IdTexts[i])
<1>1. PICK s, t \in Text : s = IdTexts[j] /\ t = IdTexts[i]
  BY IdsAre
<1>2. s = Prefix(t, l) /\ Len(s) = l /\ Len(t) \in Nat
  BY <1>1, PrefixIs, TextDomain
<1>3. Len(s) <= Len(t)
  BY <1>1, <1>2
<1>4. Prefix(s, Len(s)) = Prefix(t, Len(s))
  BY <1>2, PrefixEnds
<1>5. IsPrefix(s, t)
  BY <1>3, <1>4 DEF IsPrefix, Prefix
<1>6. i = j
  BY <1>1, <1>5, IdShape DEF Ids
<1>7. QED BY <1>1, <1>2, <1>6

LEMMA PrefixPrefix ==
    ASSUME NEW t \in Text, NEW n \in 0 .. Len(t), NEW l \in 0 .. n
    PROVE  Prefix(Prefix(t, n), l) = Prefix(t, l) /\ l \in 0 .. Len(t)
<1>1. PICK u : u = Prefix(t, n)
  OBVIOUS
<1>2. u \in Text /\ Len(u) = n /\ (\A i \in 1 .. n : u[i] = t[i]) /\ Len(t) \in Nat
  BY <1>1, PrefixIs, TextDomain
<1>3. l \in 0 .. Len(u) /\ l \in 0 .. Len(t)
  BY <1>2
<1>4. PICK v, w : v = Prefix(u, l) /\ w = Prefix(t, l)
  OBVIOUS
<1>5. /\ v \in Text /\ Len(v) = l /\ \A i \in 1 .. l : v[i] = u[i]
      /\ w \in Text /\ Len(w) = l /\ \A i \in 1 .. l : w[i] = t[i]
  BY <1>2, <1>3, <1>4, PrefixIs
<1>6. \A i \in 1 .. l : i \in 1 .. n
  OBVIOUS
<1>7. v = w
  BY <1>2, <1>5, <1>6, TextsEqual
<1>8. QED BY <1>1, <1>3, <1>4, <1>7

\* What ids memes have: one of IdTexts or a part of it.
IdIs(id) ==
    /\ id \in Text /\ Bare(id)
    /\ \E i \in Ids : \E l \in 0 .. Len(IdTexts[i]) : id = Prefix(IdTexts[i], l)

LEMMA WholeId ==
    ASSUME NEW i \in Ids
    PROVE  IdIs(IdTexts[i])
<1>1. PICK t \in Text : t = IdTexts[i] /\ Bare(t) /\ Len(t) \in Nat
  BY IdsAre, TextDomain
<1>2. t = Prefix(t, Len(t)) /\ Len(t) \in 0 .. Len(t)
  BY <1>1, PrefixEnds
<1>3. QED BY <1>1, <1>2 DEF IdIs

LEMMA PartOfId ==
    ASSUME NEW id, IdIs(id), NEW l \in 0 .. Len(id) - 1
    PROVE  IdIs(Prefix(id, l)) /\ \A j \in Ids : Prefix(id, l) # IdTexts[j]
<1>1. PICK i \in Ids, n \in Nat : n \in 0 .. Len(IdTexts[i]) /\ id = Prefix(IdTexts[i], n)
  BY IdsAre, TextDomain DEF IdIs
<1>2. PICK t \in Text : t = IdTexts[i] /\ Len(t) \in Nat
  BY IdsAre, TextDomain
<1>3. n \in 0 .. Len(t) /\ id = Prefix(t, n) /\ Len(id) = n
  BY <1>1, <1>2, PrefixIs
<1>4. l \in 0 .. n /\ l < n /\ l \in 0 .. Len(id)
  BY <1>3
<1>5. Prefix(id, l) = Prefix(t, l) /\ l \in 0 .. Len(t)
  BY <1>3, <1>4, PrefixPrefix
<1>6. Prefix(id, l) \in Text /\ Bare(Prefix(id, l))
  BY <1>4, PrefixIs, PrefixBare DEF IdIs
<1>7. IdIs(Prefix(id, l))
  BY <1>2, <1>5, <1>6 DEF IdIs
<1>8. l # Len(t)
  BY <1>2, <1>3, <1>4
<1>9. \A j \in Ids : Prefix(id, l) # IdTexts[j]
  BY <1>2, <1>5, <1>8, NoIdInside
<1>10. QED BY <1>7, <1>9

------------------------------------------------------------------------------
\* The invariant.
MemesOK ==
    /\ memes = [id \in DOMAIN memes |-> memes[id]]
    /\ \A id \in DOMAIN memes : IdIs(id) /\ RowIs(memes[id])
InOrder(k) == \A i \in Ids : IdTexts[i] \in DOMAIN memes <=> i <= k
IdsInOrder == \E k \in 0 .. posts : InOrder(k)
FormOK ==
    form # NoForm =>
        /\ GoodForm(form)
        /\ ~form.typed => form.id # << >> /\ form.fill = EditFill(memes[form.id])
LastOK ==
    last.op = "search" => last.form.fill \in Text /\ last.found = Found(last.form.fill)
FormShape == form = [id |-> form.id, typed |-> form.typed, fill |-> form.fill]

IInv == TypeOK /\ FormShape /\ MemesOK /\ IdsInOrder /\ FormOK /\ LastOK /\ ShownAsTyped

\* The id that is next is free.
LEMMA NextIdIs ==
    ASSUME NEW k \in Nat, InOrder(k), k < Len(IdTexts)
    PROVE  k + 1 \in Ids /\ NextId = IdTexts[k + 1] /\ NextId \notin DOMAIN memes
<1>1. PICK n \in Nat : n = Len(IdTexts) /\ Ids = 1 .. n
  BY IdsAre
<1>2. {i \in Ids : IdTexts[i] \in DOMAIN memes} = 1 .. k
  BY <1>1 DEF InOrder
<1>3. Cardinality(1 .. k) = k
  <2>1. 1 \in Int /\ k \in Int
    OBVIOUS
  <2>2. Cardinality(1 .. k) = IF 1 > k THEN 0 ELSE k - 1 + 1
    BY <2>1, FS_Interval
  <2>3. QED BY <2>2
<1>4. NextId = IdTexts[1 + k]
  BY <1>2, <1>3 DEF NextId, Ids
<1>5. 1 + k = k + 1 /\ k + 1 \in Ids /\ ~(k + 1 <= k)
  BY <1>1
<1>6. QED BY <1>4, <1>5 DEF InOrder

Stores(id, row) ==
    memes' = [i \in DOMAIN memes \cup {id} |-> IF i = id THEN row ELSE memes[i]]
Fits(id) == id \in DOMAIN memes \/ id = NextId \/ (IdIs(id) /\ \A j \in Ids : id # IdTexts[j])

LEMMA StoreStep ==
    ASSUME MemesOK, IdsInOrder, posts \in Nat, posts < MaxPosts, posts' = posts + 1,
           NEW id, Fits(id), NEW row, RowIs(row), Stores(id, row)
    PROVE  MemesOK' /\ IdsInOrder'
<1>1. PICK k \in 0 .. posts : InOrder(k)
  BY DEF IdsInOrder
<1>2. k \in Nat /\ k < Len(IdTexts) /\ k \in 0 .. posts' /\ k + 1 \in 0 .. posts'
  BY IdsAre
<1>3. k + 1 \in Ids /\ NextId = IdTexts[k + 1] /\ NextId \notin DOMAIN memes
  BY <1>1, <1>2, NextIdIs
<1>4. PICK m : m = memes'
  OBVIOUS
<1>5. m = [i \in DOMAIN memes \cup {id} |-> IF i = id THEN row ELSE memes[i]]
  BY <1>4 DEF Stores
<1>6. /\ DOMAIN m = DOMAIN memes \cup {id} /\ m[id] = row
      /\ \A i \in DOMAIN memes : i # id => m[i] = memes[i]
      /\ m = [i \in DOMAIN m |-> m[i]]
  BY <1>5
<1>7. IdIs(id)
  BY <1>3, WholeId DEF Fits, MemesOK
<1>8. \A i \in DOMAIN m : IdIs(i) /\ RowIs(m[i])
  BY <1>6, <1>7 DEF MemesOK
<1>9. MemesOK'
  BY <1>4, <1>6, <1>8 DEF MemesOK
<1>10. CASE id = NextId
  <2>1. \A i \in Ids : IdTexts[i] = id => i = k + 1
    <3> TAKE i \in Ids
    <3> HAVE IdTexts[i] = id
    <3>1. PICK j \in Ids : j = k + 1 /\ IdTexts[i] = IdTexts[j]
      BY <1>3, <1>10
    <3>2. PICK t \in Text : t = IdTexts[j] /\ Len(t) \in 0 .. Len(t) /\ Prefix(t, Len(t)) = t
      BY IdsAre, TextDomain, PrefixEnds
    <3>3. j = i
      BY <3>1, <3>2, NoIdInside
    <3>4. QED BY <3>1, <3>3
  <2>2. \A i \in Ids : IdTexts[i] \in DOMAIN m <=> IdTexts[i] \in DOMAIN memes \/ i = k + 1
    BY <1>3, <1>6, <1>10, <2>1
  <2>3. \A i \in Ids : i <= k + 1 <=> i <= k \/ i = k + 1
    BY <1>2, IdsAre
  <2>4. \A i \in Ids : IdTexts[i] \in DOMAIN m <=> i <= k + 1
    BY <1>1, <2>2, <2>3 DEF InOrder
  <2>5. InOrder(k + 1)'
    BY <1>4, <2>4 DEF InOrder
  <2>6. QED BY <1>2, <1>9, <2>5 DEF IdsInOrder
<1>11. CASE id # NextId
  <2>1. \A i \in Ids : IdTexts[i] \in DOMAIN m <=> IdTexts[i] \in DOMAIN memes
    BY <1>6, <1>11 DEF Fits
  <2>2. \A i \in Ids : IdTexts[i] \in DOMAIN m <=> i <= k
    BY <1>1, <2>1 DEF InOrder
  <2>3. InOrder(k)'
    BY <1>4, <2>2 DEF InOrder
  <2>4. QED BY <1>2, <1>9, <2>3 DEF IdsInOrder
<1>12. QED BY <1>10, <1>11

------------------------------------------------------------------------------
(***************************************************************************)
(* Posts.                                                                  *)
(***************************************************************************)
\* What a post does.
LastPost(op, id) == [op |-> op, form |-> form, id |-> id, found |-> {}]

LEMMA Posted ==
    ASSUME NEW op, NEW body, Post(op, body), NEW map, map = ParseRequestBody(body),
           NEW id, id = IF map.posttype = <<"edit">> THEN map.meme_id ELSE NextId
    PROVE  /\ up /\ posts < MaxPosts /\ posts' = posts + 1 /\ form' = NoForm
           /\ \/ Stores(id, Row(map)) /\ last' = LastPost(op, id) /\ up' = up
              \/ /\ OutOfRange(body) /\ memes' = memes
                 /\ last' = [Nothing EXCEPT !.op = op] /\ up' = FALSE
BY DEF Post, Stores, LastPost

LEMMA OpOf == \A op : /\ [Nothing EXCEPT !.op = op].op = op
                      /\ [Nothing EXCEPT !.op = op].found = {}
                      /\ \A id : /\ LastPost(op, id).op = op /\ LastPost(op, id).found = {}
                                 /\ LastPost(op, id).form = form /\ LastPost(op, id).id = id
BY DEF Nothing, LastPost

\* A form that passes checkform.
LEMMA CheckedForm ==
    ASSUME IInv, Checked(form), posts < MaxPosts
    PROVE  /\ GoodForm(form) /\ GoodIds /\ posts \in Nat
           /\ form.id # << >> => form.id \in DOMAIN memes /\ IdIs(form.id)
           /\ ~form.typed => form.id # << >> /\ form.fill = EditFill(memes[form.id])
           /\ \E k \in Nat : InOrder(k) /\ k < Len(IdTexts)
<1>1. form # NoForm
  BY DEF Checked
<1>2. /\ GoodForm(form)
      /\ ~form.typed => form.id # << >> /\ form.fill = EditFill(memes[form.id])
  BY <1>1 DEF IInv, FormOK
<1>3. posts \in Nat /\ 1 \in Ids
  <2>1. posts \in 0 .. MaxPosts
    BY DEF IInv, TypeOK
  <2>2. QED BY <2>1, IdsAre
<1>4. GoodIds
  BY <1>3, IdsAre DEF GoodIds
<1>5. form.id # << >> => form.id \in DOMAIN memes
  BY DEF IInv, TypeOK
<1>6. PICK k \in 0 .. posts : InOrder(k)
  BY DEF IInv, IdsInOrder
<1>7. k \in Nat /\ k < Len(IdTexts)
  BY <1>3, <1>6, IdsAre
<1>8. QED BY <1>2, <1>3, <1>4, <1>5, <1>6, <1>7 DEF IInv, MemesOK

StoredWhole(map, id) ==
    /\ GoodForm(form) /\ Whole(map, form) /\ RowIs(Row(map))
    /\ form.id # << >> => id = form.id /\ id \in DOMAIN memes
    /\ Fits(id) /\ Stores(id, Row(map)) /\ last' = LastPost("post", id)

LEMMA Submitted ==
    ASSUME IInv, Submit
    PROVE  /\ up' = TRUE /\ posts' = posts + 1 /\ posts \in Nat /\ posts < MaxPosts
           /\ form' = NoForm
           /\ ~form.typed => form.id # << >> /\ form.fill = EditFill(memes[form.id])
           /\ \E map, id : StoredWhole(map, id)
<1>1. Checked(form) /\ Post("post", Body(form))
  BY DEF Submit
<1>2. PICK map : map = ParseRequestBody(Body(form))
  OBVIOUS
<1>3. PICK id : id = IF map.posttype = <<"edit">> THEN map.meme_id ELSE NextId
  OBVIOUS
<1>4. /\ up /\ posts < MaxPosts /\ posts' = posts + 1 /\ form' = NoForm
      /\ \/ Stores(id, Row(map)) /\ last' = LastPost("post", id) /\ up' = up
         \/ OutOfRange(Body(form))
  BY <1>1, <1>2, <1>3, Posted
<1>5. /\ GoodForm(form) /\ GoodIds /\ posts \in Nat
      /\ form.id # << >> => form.id \in DOMAIN memes /\ IdIs(form.id)
      /\ ~form.typed => form.id # << >> /\ form.fill = EditFill(memes[form.id])
  BY <1>1, <1>4, CheckedForm
<1>6. Whole(map, form) /\ ~OutOfRange(Body(form))
  <2>1. PICK f : f = form
    OBVIOUS
  <2>2. Whole(ParseRequestBody(Body(f)), f) /\ ~OutOfRange(Body(f))
    BY <1>5, <2>1, WholePost
  <2>3. QED BY <1>2, <2>1, <2>2
<1>7. Stores(id, Row(map)) /\ last' = LastPost("post", id) /\ up' = up
  BY <1>4, <1>6
<1>8. RowIs(Row(map))
  <2>1. PICK f : f = form
    OBVIOUS
  <2>2. QED BY <1>5, <1>6, <2>1, WholeRowIs
<1>9. CASE form.id = << >>
  <2>1. map.posttype = <<"new">>
    BY <1>6, <1>9 DEF Whole
  <2>2. <<"new">> # <<"edit">>
    <3>1. <<"new">>[1] = "new" /\ <<"edit">>[1] = "edit" /\ "new" # "edit"
      OBVIOUS
    <3>2. QED BY <3>1
  <2>3. id = NextId
    BY <1>3, <2>1, <2>2
  <2>4. StoredWhole(map, id)
    BY <1>5, <1>6, <1>7, <1>8, <1>9, <2>3 DEF StoredWhole, Fits
  <2>5. up' = TRUE
    BY <1>4, <1>7 DEF IInv, TypeOK
  <2>6. QED BY <1>4, <1>5, <2>4, <2>5
<1>10. CASE form.id # << >>
  <2>1. map.posttype = <<"edit">> /\ map.meme_id = form.id
    BY <1>6, <1>10 DEF Whole
  <2>2. id = form.id
    BY <1>3, <2>1
  <2>3. StoredWhole(map, id)
    BY <1>5, <1>6, <1>7, <1>8, <1>10, <2>2 DEF StoredWhole, Fits
  <2>4. up' = TRUE
    BY <1>4, <1>7 DEF IInv, TypeOK
  <2>5. QED BY <1>4, <1>5, <2>3, <2>4
<1>11. QED BY <1>9, <1>10

\* A body that was cut off stores no row over one with a whole id.
StoredCut(row, id) ==
    /\ RowIs(row) /\ Fits(id) /\ Stores(id, row)
    /\ \A j \in Ids : id = IdTexts[j] => id \notin DOMAIN memes

LEMMA SubmittedCut ==
    ASSUME IInv, SubmitCut
    PROVE  /\ posts' = posts + 1 /\ posts \in Nat /\ posts < MaxPosts
           /\ form' = NoForm /\ last'.op = "cut"
           /\ memes' = memes \/ \E row, id : StoredCut(row, id)
<1>1. PICK n \in 0 .. Len(Body(form)) - 1 : Checked(form) /\ Post("cut", Prefix(Body(form), n))
  BY DEF SubmitCut, Prefix
<1>2. PICK map : map = ParseRequestBody(Prefix(Body(form), n))
  OBVIOUS
<1>3. PICK id : id = IF map.posttype = <<"edit">> THEN map.meme_id ELSE NextId
  OBVIOUS
<1>4. /\ posts < MaxPosts /\ posts' = posts + 1 /\ form' = NoForm
      /\ \/ Stores(id, Row(map)) /\ last' = LastPost("cut", id)
         \/ memes' = memes /\ last' = [Nothing EXCEPT !.op = "cut"]
  BY <1>1, <1>2, <1>3, Posted
<1>5. /\ GoodForm(form) /\ GoodIds /\ posts \in Nat
      /\ form.id # << >> => form.id \in DOMAIN memes /\ IdIs(form.id)
  BY <1>1, <1>4, CheckedForm
<1>6. PICK k \in Nat : InOrder(k) /\ k < Len(IdTexts)
  BY <1>1, <1>4, CheckedForm
<1>7. RowIs(Row(map)) /\ CutTo(map, form)
  <2>1. PICK f : f = form
    OBVIOUS
  <2>2. n \in 0 .. Len(Body(f)) - 1
    BY <2>1
  <2>3. /\ RowIs(Row(ParseRequestBody(Prefix(Body(f), n))))
        /\ CutTo(ParseRequestBody(Prefix(Body(f), n)), f)
    BY <1>5, <2>1, <2>2, CutPost
  <2>4. QED BY <1>2, <2>1, <2>3
<1>8. Fits(id) /\ \A j \in Ids : id = IdTexts[j] => id \notin DOMAIN memes
  <2>1. CASE map.posttype = <<"edit">>
    <3>1. PICK l \in 0 .. Len(form.id) - 1 : id = Prefix(form.id, l)
      BY <1>3, <1>7, <2>1 DEF CutTo
    <3>2. form.id # << >>
      <4>1. ASSUME form.id = << >> PROVE FALSE
        <5>1. Len(form.id) = 0
          BY <4>1
        <5>2. QED BY <3>1, <5>1
      <4>2. QED BY <4>1
    <3>3. PICK i : i = form.id /\ IdIs(i)
      BY <1>5, <3>2
    <3>4. IdIs(id) /\ \A j \in Ids : id # IdTexts[j]
      BY <3>1, <3>3, PartOfId
    <3>5. QED BY <3>4 DEF Fits
  <2>2. CASE map.posttype # <<"edit">>
    <3>1. id = NextId /\ id \notin DOMAIN memes
      BY <1>3, <1>6, <2>2, NextIdIs
    <3>2. QED BY <3>1 DEF Fits
  <2>3. QED BY <2>1, <2>2
<1>9. last'.op = "cut"
  <2>1. CASE last' = LastPost("cut", id)
    BY <2>1, OpOf
  <2>2. CASE last' = [Nothing EXCEPT !.op = "cut"]
    BY <2>2, OpOf
  <2>3. QED BY <1>4, <2>1, <2>2
<1>10. Stores(id, Row(map)) => StoredCut(Row(map), id)
  BY <1>7, <1>8 DEF StoredCut
<1>11. QED BY <1>4, <1>5, <1>9, <1>10

------------------------------------------------------------------------------
\* The parts of the invariant that are about shapes.
Shapes == TypeOK /\ FormShape

LEMMA NothingFound == Nothing.op = "none" /\ Nothing.found = {}
BY DEF Nothing

LEMMA PostShapes ==
    ASSUME Shapes, NEW op \in {"post", "cut"}, NEW body, Post(op, body)
    PROVE  Shapes'
<1>1. posts' \in 0 .. MaxPosts /\ form' = NoForm
  <2>1. posts < MaxPosts /\ posts' = posts + 1 /\ form' = NoForm
    BY DEF Post
  <2>2. posts \in 0 .. MaxPosts
    BY DEF Shapes, TypeOK
  <2>3. QED BY <2>1, <2>2, PostBound
<1>2. (\A id \in DOMAIN memes' : DOMAIN memes'[id] = Stored) /\ up' \in BOOLEAN
  BY DEF Shapes, TypeOK, Post, Row
<1>3. last'.op \in {"post", "cut"} /\ last'.found = {}
  <2>1. \/ \E id : last' = LastPost(op, id)
        \/ last' = [Nothing EXCEPT !.op = op]
    BY DEF Post, LastPost
  <2>2. CASE \E id : last' = LastPost(op, id)
    BY <2>2, OpOf
  <2>3. CASE last' = [Nothing EXCEPT !.op = op]
    BY <2>3, OpOf
  <2>4. QED BY <2>1, <2>2, <2>3
<1>4. form'.typed \in BOOLEAN /\ form'.id = << >> /\ FormShape'
  BY <1>1 DEF NoForm, FormShape
<1>5. QED BY <1>1, <1>2, <1>3, <1>4 DEF Shapes, TypeOK

LEMMA NextShapes ==
    ASSUME Shapes, [Next]_vars
    PROVE  Shapes'
<1>1. TypeOK /\ FormShape
  BY DEF Shapes
<1>2. CASE CreatePage
  <2>1. /\ form'.id = << >> /\ form'.typed = TRUE /\ FormShape'
        /\ last' = Nothing /\ UNCHANGED <<memes, posts, up>>
    BY <1>2 DEF CreatePage, FormShape
  <2>2. QED BY <1>1, <2>1, NothingFound DEF Shapes, TypeOK
<1>3. CASE Retype
  BY <1>1, <1>3 DEF Retype, Shapes, TypeOK, FormShape
<1>4. CASE Submit
  BY <1>4, PostShapes DEF Submit
<1>5. CASE SubmitCut
  BY <1>5, PostShapes DEF SubmitCut
<1>6. CASE Search
  <2>1. /\ last'.op = "search" /\ last'.found \subseteq DOMAIN memes
        /\ UNCHANGED <<memes, form, posts, up>>
    BY <1>6 DEF Search, Found
  <2>2. QED BY <1>1, <2>1 DEF Shapes, TypeOK, FormShape
<1>7. ASSUME NEW id \in DOMAIN memes, EditPage(id)
      PROVE  Shapes'
  <2>1. /\ form'.id = id /\ form'.typed = FALSE /\ FormShape'
        /\ last' = Nothing /\ UNCHANGED <<memes, posts, up>>
    BY <1>7 DEF EditPage, FormShape
  <2>2. QED BY <1>1, <1>7, <2>1, NothingFound DEF Shapes, TypeOK
<1>8. CASE UNCHANGED vars
  BY <1>1, <1>8 DEF vars, Shapes, TypeOK, FormShape
<1>9. QED BY <1>2, <1>3, <1>4, <1>5, <1>6, <1>7, <1>8 DEF Next

------------------------------------------------------------------------------
(***************************************************************************)
(* The steps.                                                              *)
(***************************************************************************)
\* What the user types into a form.
LEMMA TypedForm ==
    ASSUME NEW fill \in Fills, NEW f, f.fill = fill, f.id \in Text, Bare(f.id)
    PROVE  GoodForm(f)
<1>1. /\ fill \in [name : Seq(STRING), top : Seq(STRING), bottom : Seq(STRING),
                   image : Seq(STRING), deepfry : BOOLEAN]
      /\ Bare(fill.image) /\ ~Has(fill.image, <<"meme_templates/">>)
  BY FillShape
<1>2. /\ fill.name \in Text /\ fill.top \in Text /\ fill.bottom \in Text
      /\ fill.image \in Text /\ fill.deepfry \in BOOLEAN
  BY <1>1, StringsAreTexts
<1>3. Lacks(fill.image, "meme_templates/")
  BY <1>1, <1>2, HasNone
<1>4. QED BY <1>1, <1>2, <1>3 DEF GoodForm

\* The other parts, which are about what is stored.
Parts == MemesOK /\ IdsInOrder /\ FormOK /\ LastOK /\ ShownAsTyped

LEMMA NotSearched ==
    ASSUME last'.op # "search", last'.op # "post"
    PROVE  LastOK' /\ ShownAsTyped'
BY DEF LastOK, ShownAsTyped

LEMMA MemesStay ==
    ASSUME memes' = memes, posts' = posts, MemesOK, IdsInOrder
    PROVE  MemesOK' /\ IdsInOrder'
BY DEF MemesOK, IdsInOrder, InOrder

LEMMA LastStays ==
    ASSUME memes' = memes, up' = up, last' = last, LastOK, ShownAsTyped
    PROVE  LastOK' /\ ShownAsTyped'
<1>1. LastOK'
  BY DEF LastOK, Found
<1>2. ShownAsTyped'
  BY DEF ShownAsTyped
<1>3. QED BY <1>1, <1>2

LEMMA CreateStep ==
    ASSUME IInv, CreatePage
    PROVE  Parts'
<1>1. PICK fill \in Fills : form' = [id |-> << >>, typed |-> TRUE, fill |-> fill]
  BY DEF CreatePage
<1>2. memes' = memes /\ posts' = posts /\ last' = Nothing
  BY DEF CreatePage
<1>3. PICK f : f = form'
  OBVIOUS
<1>4. f.fill = fill /\ f.id = << >> /\ f.typed = TRUE
  BY <1>1, <1>3
<1>5. f.id \in Text /\ Bare(f.id)
  BY <1>4, NothingBared DEF Bared
<1>6. GoodForm(f)
  BY <1>4, <1>5, TypedForm
<1>7. FormOK'
  BY <1>3, <1>4, <1>6 DEF FormOK
<1>8. MemesOK' /\ IdsInOrder'
  BY <1>2, MemesStay DEF IInv
<1>9. LastOK' /\ ShownAsTyped'
  BY <1>2, NothingFound, NotSearched
<1>10. QED BY <1>7, <1>8, <1>9 DEF Parts

LEMMA EditStep ==
    ASSUME IInv, NEW id \in DOMAIN memes, EditPage(id)
    PROVE  Parts'
<1>1. /\ id # << >> /\ form' = [id |-> id, typed |-> FALSE, fill |-> EditFill(memes[id])]
      /\ memes' = memes /\ posts' = posts /\ last' = Nothing
  BY DEF EditPage
<1>2. PICK row : row = memes[id] /\ RowIs(row) /\ IdIs(id)
  BY DEF IInv, MemesOK
<1>3. PICK f : f = form'
  OBVIOUS
<1>4. f.fill = EditFill(row) /\ f.id = id /\ f.typed = FALSE
  BY <1>1, <1>2, <1>3
<1>5. f.id \in Text /\ Bare(f.id)
  BY <1>2, <1>4 DEF IdIs
<1>6. GoodForm(f)
  BY <1>2, <1>4, <1>5, EditGood
<1>7. FormOK'
  BY <1>1, <1>2, <1>3, <1>4, <1>6 DEF FormOK
<1>8. MemesOK' /\ IdsInOrder'
  BY <1>1, MemesStay DEF IInv
<1>9. LastOK' /\ ShownAsTyped'
  BY <1>1, NothingFound, NotSearched
<1>10. QED BY <1>7, <1>8, <1>9 DEF Parts

LEMMA RetypeStep ==
    ASSUME IInv, Retype
    PROVE  Parts'
<1>1. /\ form.id # << >> /\ memes' = memes /\ posts' = posts /\ up' = up /\ last' = last
      /\ \E fill \in Fills : form' = [form EXCEPT !.typed = TRUE, !.fill = fill]
  BY DEF Retype
<1>2. PICK fill \in Fills : form' = [form EXCEPT !.typed = TRUE, !.fill = fill]
  BY <1>1
<1>3. PICK f : f = form'
  OBVIOUS
<1>4. f.fill = fill /\ f.id = form.id /\ f.typed = TRUE
  <2>1. form = [id |-> form.id, typed |-> form.typed, fill |-> form.fill]
    BY DEF IInv, FormShape
  <2>2. QED BY <1>2, <1>3, <2>1
<1>5. form # NoForm
  BY <1>1 DEF NoForm
<1>6. f.id \in Text /\ Bare(f.id)
  BY <1>4, <1>5 DEF IInv, FormOK, GoodForm
<1>7. GoodForm(f)
  BY <1>4, <1>6, TypedForm
<1>8. FormOK'
  BY <1>3, <1>4, <1>7 DEF FormOK
<1>9. MemesOK' /\ IdsInOrder' /\ LastOK' /\ ShownAsTyped'
  BY <1>1, MemesStay, LastStays DEF IInv
<1>10. QED BY <1>8, <1>9 DEF Parts

LEMMA SearchStep ==
    ASSUME IInv, Search
    PROVE  Parts'
<1>1. PICK term \in Terms :
         last' = [op |-> "search", form |-> [NoForm EXCEPT !.fill = term],
                  id |-> << >>, found |-> Found(term)]
  BY DEF Search
<1>2. memes' = memes /\ posts' = posts /\ form' = form
  BY DEF Search
<1>3. term \in Text
  BY TermShape, StringsAreTexts
<1>4. last'.op = "search" /\ last'.form.fill = term /\ last'.found = Found(term)
  BY <1>1 DEF NoForm
<1>5. Found(term)' = Found(term)
  BY <1>2 DEF Found
<1>6. LastOK'
  BY <1>3, <1>4, <1>5 DEF LastOK
<1>7. ShownAsTyped'
  BY <1>4 DEF ShownAsTyped
<1>8. FormOK'
  BY <1>2 DEF FormOK, IInv
<1>9. MemesOK' /\ IdsInOrder'
  BY <1>2, MemesStay DEF IInv
<1>10. QED BY <1>6, <1>7, <1>8, <1>9 DEF Parts

LEMMA SubmitStep ==
    ASSUME IInv, Submit
    PROVE  Parts'
<1>1. /\ up' = TRUE /\ posts' = posts + 1 /\ posts \in Nat /\ posts < MaxPosts
      /\ form' = NoForm
  BY Submitted
<1>2. PICK map, id : StoredWhole(map, id)
  BY Submitted
<1>3. /\ GoodForm(form) /\ Whole(map, form) /\ RowIs(Row(map))
      /\ form.id # << >> => id = form.id /\ id \in DOMAIN memes
      /\ Fits(id) /\ Stores(id, Row(map)) /\ last' = LastPost("post", id)
  BY <1>2 DEF StoredWhole
<1>4. MemesOK' /\ IdsInOrder'
  BY <1>1, <1>3, StoreStep DEF IInv
<1>5. FormOK'
  BY <1>1 DEF FormOK
<1>6. last'.op = "post" /\ last'.form = form /\ last'.id = id
  BY <1>3, OpOf
<1>7. LastOK'
  BY <1>6 DEF LastOK
<1>8. PICK row : row = Row(map)
  OBVIOUS
<1>9. memes'[id] = row
  BY <1>3, <1>8 DEF Stores
<1>10. PICK f : f = form
  OBVIOUS
<1>11. \A key \in Texts : Tame(f.fill[key]) => Visible(InPage(row, key)) = Softened(f.fill[key])
  BY <1>3, <1>8, <1>10, WholeShown
<1>12. row["image"] = <<"meme_templates/">> \o (IF f.fill.deepfry THEN <<"df-">> ELSE << >>)
                                            \o f.fill.image
  <2>1. row["image"] = map["image"]
    BY <1>8, StoredAre DEF Row
  <2>2. QED BY <1>3, <1>10, <2>1 DEF Whole
<1>13. form.id \in {<< >>, id}
  BY <1>3
<1>14. last'.form.id \in {<< >>, last'.id}
  BY <1>6, <1>13
<1>15. /\ \A key \in Texts : Tame(last'.form.fill[key]) =>
             Visible(InPage(memes'[last'.id], key)) = Softened(last'.form.fill[key])
       /\ memes'[last'.id].image
            = <<"meme_templates/">> \o (IF last'.form.fill.deepfry THEN <<"df-">> ELSE << >>)
                                    \o last'.form.fill.image
  <2>1. last'.form = f /\ memes'[last'.id] = row
    BY <1>6, <1>9, <1>10
  <2>2. QED BY <1>11, <1>12, <2>1
<1>16. ShownAsTyped'
  BY <1>1, <1>14, <1>15 DEF ShownAsTyped
<1>17. QED BY <1>4, <1>5, <1>7, <1>16 DEF Parts

LEMMA SubmitCutStep ==
    ASSUME IInv, SubmitCut
    PROVE  Parts'
<1>1. /\ posts' = posts + 1 /\ posts \in Nat /\ posts < MaxPosts
      /\ form' = NoForm /\ last'.op = "cut"
      /\ memes' = memes \/ \E row, id : StoredCut(row, id)
  BY SubmittedCut
<1>2. MemesOK' /\ IdsInOrder'
  <2>1. CASE memes' = memes
    <3>1. MemesOK'
      BY <2>1 DEF IInv, MemesOK
    <3>2. PICK k \in 0 .. posts : InOrder(k)
      BY DEF IInv, IdsInOrder
    <3>3. k \in 0 .. posts' /\ InOrder(k)'
      BY <1>1, <2>1, <3>2 DEF InOrder
    <3>4. QED BY <3>1, <3>3 DEF IdsInOrder
  <2>2. CASE \E row, id : StoredCut(row, id)
    BY <1>1, <2>2, StoreStep DEF StoredCut, IInv
  <2>3. QED BY <1>1, <2>1, <2>2
<1>3. FormOK'
  BY <1>1 DEF FormOK
<1>4. LastOK' /\ ShownAsTyped'
  BY <1>1, NotSearched
<1>5. QED BY <1>2, <1>3, <1>4 DEF Parts

LEMMA NextStep ==
    ASSUME IInv, [Next]_vars
    PROVE  IInv'
<1>1. Shapes'
  BY NextShapes DEF IInv, Shapes
<1>2. Parts'
  <2>1. CASE UNCHANGED vars
    <3>1. memes' = memes /\ posts' = posts /\ up' = up /\ last' = last /\ form' = form
      BY <2>1 DEF vars
    <3>2. FormOK'
      BY <3>1 DEF FormOK, IInv
    <3>3. QED BY <3>1, <3>2, MemesStay, LastStays DEF IInv, Parts
  <2>2. QED BY <2>1, CreateStep, RetypeStep, SubmitStep, SubmitCutStep, SearchStep, EditStep
         DEF Next
<1>3. QED BY <1>1, <1>2 DEF Shapes, Parts, IInv

LEMMA Start == Init => IInv
<1> SUFFICES ASSUME Init PROVE IInv
  OBVIOUS
<1>1. memes = << >> /\ form = NoForm /\ posts = 0 /\ up = TRUE /\ last = Nothing
  BY DEF Init
<1>2. DOMAIN memes = {}
  BY <1>1
<1>3. TypeOK /\ FormShape
  BY <1>1, <1>2, PostBound DEF TypeOK, FormShape, NoForm, Nothing
<1>4. MemesOK
  BY <1>1, <1>2 DEF MemesOK
<1>5. IdsInOrder
  <2>1. InOrder(0)
    BY <1>2, IdsAre DEF InOrder
  <2>2. 0 \in 0 .. posts
    BY <1>1
  <2>3. QED BY <2>1, <2>2 DEF IdsInOrder
<1>6. FormOK /\ LastOK /\ ShownAsTyped
  BY <1>1, NothingFound DEF FormOK, LastOK, ShownAsTyped
<1>7. QED BY <1>3, <1>4, <1>5, <1>6 DEF IInv

LEMMA Always == Spec => []IInv
<1>1. IInv /\ [Next]_vars => IInv'
  BY NextStep
<1>2. QED BY <1>1, Start, PTL DEF Spec

------------------------------------------------------------------------------
\* A cut step changes no row with a whole id.
CutStep == last'.op = "cut" => \A id \in DOMAIN memes \cap Range(IdTexts) :
                                   memes'[id] = memes[id]

LEMMA PostsChange ==
    ASSUME [Next]_vars, posts' # posts
    PROVE  Submit \/ SubmitCut
BY DEF Next, vars, CreatePage, Retype, Search, EditPage

LEMMA MemesChange ==
    ASSUME [Next]_vars, memes' # memes
    PROVE  Submit \/ SubmitCut
BY DEF Next, vars, CreatePage, Retype, Search, EditPage

LEMMA CutKeeps == IInv /\ [Next]_vars => CutStep
<1> SUFFICES ASSUME IInv, [Next]_vars, last'.op = "cut",
                    NEW id \in DOMAIN memes \cap Range(IdTexts)
             PROVE  memes'[id] = memes[id]
  BY DEF CutStep
<1>1. PICK j \in Ids : id = IdTexts[j]
  BY DEF Range, Ids
<1>2. CASE memes' = memes
  BY <1>2
<1>3. CASE SubmitCut /\ memes' # memes
  <2>1. PICK row, i : StoredCut(row, i)
    BY <1>3, SubmittedCut
  <2>2. i # id
    BY <1>1, <2>1 DEF StoredCut
  <2>3. QED BY <2>1, <2>2 DEF StoredCut, Stores
<1>4. CASE Submit
  <2>1. PICK map, i : last' = LastPost("post", i)
    BY <1>4, Submitted DEF StoredWhole
  <2>2. last'.op = "post"
    BY <2>1, OpOf
  <2>3. QED BY <2>2
<1>5. QED BY <1>2, <1>3, <1>4, MemesChange

\* Nor does an edit form that is sent as it came.
KeepStep ==
    LET row == memes[form.id]
    IN  (/\ form.id # << >> /\ ~form.typed
         /\ posts' # posts /\ last'.op = "post"
         /\ Has(row.image, <<"meme_templates/">>)
         /\ \A key \in Texts : Returned(Visible(row[key])))
        => memes' = memes

LEMMA EditKeeps == IInv /\ [Next]_vars => KeepStep
<1> SUFFICES ASSUME IInv, [Next]_vars, form.id # << >>, ~form.typed,
                    posts' # posts, last'.op = "post",
                    Has(memes[form.id].image, <<"meme_templates/">>),
                    \A key \in Texts : Returned(Visible(memes[form.id][key]))
             PROVE  memes' = memes
  BY DEF KeepStep
<1>1. Submit
  <2>1. ~SubmitCut
    BY SubmittedCut
  <2>2. QED BY <2>1, PostsChange
<1>2. form.fill = EditFill(memes[form.id])
  BY <1>1, Submitted
<1>3. PICK map, id : StoredWhole(map, id)
  BY <1>1, Submitted
<1>4. /\ GoodForm(form) /\ Whole(map, form) /\ id = form.id /\ id \in DOMAIN memes
      /\ Stores(id, Row(map))
  BY <1>3 DEF StoredWhole
<1>5. PICK row : row = memes[id]
  OBVIOUS
<1>6. RowIs(row)
  BY <1>4, <1>5 DEF IInv, MemesOK
<1>7. PICK f : f = form
  OBVIOUS
<1>8. Row(map) = row
  <2>1. /\ Has(row.image, <<"meme_templates/">>)
        /\ \A key \in Texts : Returned(Visible(row[key]))
    BY <1>4, <1>5
  <2>2. GoodForm(f) /\ f.fill = EditFill(row) /\ Whole(map, f)
    BY <1>2, <1>4, <1>5, <1>7
  <2>3. QED BY <1>6, <2>1, <2>2, EditSame
<1>9. PICK m : m = memes /\ m = [i \in DOMAIN m |-> m[i]]
  BY DEF IInv, MemesOK
<1>10. memes' = [i \in DOMAIN m \cup {id} |-> IF i = id THEN m[id] ELSE m[i]]
  BY <1>4, <1>5, <1>8, <1>9 DEF Stores
<1>11. DOMAIN m \cup {id} = DOMAIN m
  BY <1>4, <1>9
<1>12. \A i \in DOMAIN m : (IF i = id THEN m[id] ELSE m[i]) = m[i]
  OBVIOUS
<1>13. memes' = [i \in DOMAIN m |-> m[i]]
  BY <1>10, <1>11, <1>12
<1>14. QED BY <1>9, <1>13

LEMMA SearchesFind == IInv => SearchFinds
<1> SUFFICES ASSUME IInv, last.op = "search", ~NamesEntity(last.form.fill),
                    NEW id \in DOMAIN memes, NEW key \in Texts,
                    Has(memes[id].image, <<"meme_templates/">>),
                    Has(Visible(memes[id][key]), last.form.fill),
                    ~Has(memes[id][key], <<"hard">>)
             PROVE  id \in last.found
  BY DEF SearchFinds
<1>1. PICK term \in Text : term = last.form.fill /\ last.found = Found(term)
  BY DEF IInv, LastOK
<1>2. PICK row : row = memes[id] /\ RowIs(row)
  BY DEF IInv, MemesOK
<1>3. Like(row[key], <<"%">> \o SearchTerm(Encoded(term)) \o <<"%">>)
  BY <1>1, <1>2, TermFound
<1>4. id \in Found(term)
  BY <1>2, <1>3 DEF Found
<1>5. QED BY <1>1, <1>4

------------------------------------------------------------------------------
\* Whatever users type, search for and cut off, every row has exactly the fields of
\* the table, an edit form is of a meme that is there, and a search finds only memes
\* that are (meme_handler.cc:262-328, :562-577, :679-791).
THEOREM TypeCorrect == Spec => []TypeOK
<1>1. IInv => TypeOK
  BY DEF IInv
<1>2. QED BY <1>1, Always, PTL

\* For every text that users type and no replacement of the code changes by mistake,
\* a meme that was posted whole looks on its page as it was typed, entities and
\* special symbols included, has the image that was selected and the id the form was
\* for, and parsing its body never reads past an item (parseRequestBody splits before
\* it decodes and encodes before it stores, meme_handler.cc:280-322; the page is put
\* together at :502-507).
THEOREM MemesShowWhatWasTyped == Spec => []ShownAsTyped
<1>1. IInv => ShownAsTyped
  BY DEF IInv
<1>2. QED BY <1>1, Always, PTL

\* An edit form that is sent as it came leaves the table as it was, as long as the
\* texts it shows are ones that decoding and the quotes of an input give back
\* (meme_handler.cc:647-656, :739-770).
THEOREM UntouchedEditsKeepTexts == Spec => EditKeepsText
<1>1. IInv /\ [Next]_vars => [KeepStep]_vars
  BY EditKeeps
<1>2. Spec => [][KeepStep]_vars
  BY <1>1, Always, PTL DEF Spec
<1>3. QED BY <1>2, PTL DEF EditKeepsText, KeepStep

\* A search finds every meme that was posted whole and shows the term, for every
\* term that names no entity: the term is decoded and encoded to what is stored of
\* the text around it, and LIKE finds it there (meme_handler.cc:562-566, :870-918).
THEOREM ShownTermsAreFound == Spec => []SearchFinds
BY SearchesFind, Always, PTL

\* Wherever a post is cut off, no meme with a whole id is changed by it: meme_id is
\* the last field of the forms, so what arrives has no id or a beginning of one, and
\* no id begins another (meme_handler.cc:262-328, :719-770).
THEOREM CutPostsNeverEdit == Spec => CutNeverEdits
<1>1. IInv /\ [Next]_vars => [CutStep]_vars
  BY CutKeeps
<1>2. Spec => [][CutStep]_vars
  BY <1>1, Always, PTL DEF Spec
<1>3. QED BY <1>2, PTL DEF CutNeverEdits, CutStep
==============================================================================
