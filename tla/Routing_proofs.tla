---------------------------- MODULE Routing_proofs ----------------------------
(***************************************************************************)
(* Theorems about Routing for every set of configurations and messages.    *)
(*                                                                         *)
(* First what the operators of the model do: sequences put together, a     *)
(* name in a text, the text a configuration prints as, what is collected   *)
(* from it, numbers, Split.  Then the theorems, each with what it needs of *)
(* the configurations: requests are read, types, prefixes, the status      *)
(* page, the port, blocks and attributes, what ends the process.           *)
(***************************************************************************)
EXTENDS Routing, TextLemmas

------------------------------------------------------------------------------
(***************************************************************************)
(* FlattenSeq puts sequences together one after the other.                 *)
(***************************************************************************)

------------------------------------------------------------------------------
(***************************************************************************)
(* A name in a text: it is nowhere, or its first place is followed by a    *)
(* blank, a value and a semicolon.                                         *)
(***************************************************************************)

\* The symbols of a configuration.
Semicolon == ";"
Space == " "
NewLine == "\n"
Tab == "    "
OpenBrace == "{"
CloseBrace == "}"
CarriageReturn == "\r"
Slash == "/"
BadWord == "bad"

LEMMA SymbolsAre ==
    /\ Semicolon \in Symbol /\ Space \in Symbol /\ NewLine \in Symbol
    /\ Tab \in Symbol /\ OpenBrace \in Symbol /\ CloseBrace \in Symbol
    /\ CarriageReturn \in Symbol /\ Slash \in Symbol /\ BadWord \in Symbol
BY DEF Symbol, Literals, Semicolon, Space, NewLine, Tab, OpenBrace, CloseBrace,
   CarriageReturn, Slash, BadWord

LEMMA SymbolsDiffer ==
    /\ Space # Semicolon /\ Space # NewLine /\ Semicolon # NewLine
    /\ CloseBrace # NewLine /\ CloseBrace # Semicolon
BY Zenon DEF Space, Semicolon, NewLine, CloseBrace

TellsAt(t, n, v, p) ==
    /\ t[p] = n /\ \A j \in 1 .. p - 1 : t[j] # n
    /\ p + Len(v) + 2 <= Len(t)
    /\ t[p + 1] = Space
    /\ \A j \in 1 .. Len(v) : t[p + 1 + j] = v[j]
    /\ t[p + Len(v) + 2] = Semicolon
Tells(t, n, v) == \E p \in 1 .. Len(t) : TellsAt(t, n, v, p)

LEMMA TellsFirst ==
    ASSUME NEW s \in Text, NEW t \in Text, NEW n, NEW v \in Text, Tells(s, n, v)
    PROVE  Tells(s \o t, n, v)
<1>1. PICK w : w = s \o t
  OBVIOUS
<1>2. IsJoin(w, s, t)
  BY <1>1, JoinIs
<1>3. PICK p \in 1 .. Len(s) : TellsAt(s, n, v, p)
  BY DEF Tells
<1>4. PICK l \in Nat : l = Len(v)
  BY DEF Text
<1>5. PICK a, b \in Nat : a = Len(s) /\ b = Len(w) /\ a <= b
  BY <1>2 DEF IsJoin
<1>6. p \in 1 .. a /\ p + l + 2 <= a /\ \A i \in 1 .. a : w[i] = s[i]
  BY <1>2, <1>3, <1>4, <1>5 DEF TellsAt, IsJoin
<1>7. /\ p \in 1 .. b /\ p + l + 2 <= b /\ p + 1 \in 1 .. a /\ p + l + 2 \in 1 .. a
      /\ \A j \in 1 .. l : p + 1 + j \in 1 .. a
      /\ \A j \in 1 .. p - 1 : j \in 1 .. a
  BY <1>5, <1>6
<1>8. TellsAt(w, n, v, p)
  BY <1>3, <1>4, <1>5, <1>6, <1>7 DEF TellsAt
<1>9. QED BY <1>1, <1>5, <1>7, <1>8 DEF Tells

LEMMA TellsSecond ==
    ASSUME NEW s \in Text, NEW t \in Text, NEW n, NEW v \in Text, Lacks(s, n),
           Tells(t, n, v)
    PROVE  Tells(s \o t, n, v)
<1>1. PICK w : w = s \o t
  OBVIOUS
<1>2. IsJoin(w, s, t)
  BY <1>1, JoinIs
<1>3. PICK p \in 1 .. Len(t) : TellsAt(t, n, v, p)
  BY DEF Tells
<1>4. PICK l \in Nat : l = Len(v)
  BY DEF Text
<1>5. PICK a, b, c \in Nat : a = Len(s) /\ b = Len(w) /\ c = Len(t) /\ b = a + c
  BY <1>2 DEF IsJoin
<1>6. /\ p \in 1 .. c /\ p + l + 2 <= c
      /\ \A i \in 1 .. c : w[a + i] = t[i]
      /\ \A i \in 1 .. a : w[i] = s[i] /\ s[i] # n
  BY <1>2, <1>3, <1>4, <1>5 DEF TellsAt, IsJoin, Lacks
<1>7. /\ a + p \in 1 .. b /\ (a + p) + l + 2 <= b
      /\ p + 1 \in 1 .. c /\ a + (p + 1) = (a + p) + 1
      /\ p + l + 2 \in 1 .. c /\ a + (p + l + 2) = (a + p) + l + 2
      /\ \A j \in 1 .. l : p + 1 + j \in 1 .. c /\ a + (p + 1 + j) = (a + p) + 1 + j
      /\ \A j \in 1 .. (a + p) - 1 : ~(j <= a) => j - a \in 1 .. p - 1 /\ j - a \in 1 .. c
                                              /\ a + (j - a) = j
  BY <1>5, <1>6
<1>8. t[p] = n /\ \A j \in 1 .. p - 1 : t[j] # n
  BY <1>3 DEF TellsAt
<1>9. \A j \in 1 .. (a + p) - 1 : w[j] # n
  <2> TAKE j \in 1 .. (a + p) - 1
  <2>1. CASE j <= a
    <3>1. j \in 1 .. a
      BY <1>5, <2>1
    <3>2. QED BY <1>6, <3>1
  <2>2. CASE ~(j <= a)
    <3>1. w[a + (j - a)] = t[j - a] /\ t[j - a] # n /\ a + (j - a) = j
      BY <1>6, <1>7, <1>8, <2>2
    <3>2. QED BY <3>1
  <2>3. QED BY <2>1, <2>2
<1>10. w[a + p] = n /\ w[(a + p) + 1] = Space /\ w[(a + p) + l + 2] = Semicolon
  <2>1. w[a + p] = t[p] /\ w[a + (p + 1)] = t[p + 1] /\ w[a + (p + l + 2)] = t[p + l + 2]
    BY <1>6, <1>7
  <2>2. t[p + 1] = Space /\ t[p + l + 2] = Semicolon
    BY <1>3, <1>4 DEF TellsAt
  <2>3. QED BY <1>7, <1>8, <2>1, <2>2
<1>11. \A j \in 1 .. l : w[(a + p) + 1 + j] = v[j]
  <2> TAKE j \in 1 .. l
  <2>1. w[a + (p + 1 + j)] = t[p + 1 + j]
    BY <1>6, <1>7
  <2>2. t[p + 1 + j] = v[j]
    BY <1>3, <1>4 DEF TellsAt
  <2>3. QED BY <1>7, <2>1, <2>2
<1>12. TellsAt(w, n, v, a + p)
  BY <1>4, <1>5, <1>7, <1>9, <1>10, <1>11 DEF TellsAt
<1>13. QED BY <1>1, <1>5, <1>7, <1>12 DEF Tells

\* In a row of texts the first that has the name tells what all of them do.
LEMMA LacksFlat ==
    ASSUME NEW ss \in Seq(Text), NEW n, \A i \in 1 .. Len(ss) : Lacks(ss[i], n)
    PROVE  FlattenSeq(ss) \in Text /\ Lacks(FlattenSeq(ss), n)
<1>0. PICK L \in Nat : L = Len(ss)
  OBVIOUS
<1>1. PICK h : Partial(Symbol, ss, h)
  BY PartialExists DEF Text
<1>2. /\ h \in [0 .. L -> Text] /\ h[0] = << >>
      /\ \A i \in 1 .. L : h[i] = h[i - 1] \o ss[i] /\ ss[i] \in Text
      /\ FlattenSeq(ss) = h[L]
  BY <1>0, <1>1 DEF Partial, Text
<1> DEFINE S == {i \in Nat : i <= L => h[i] \in Text /\ Lacks(h[i], n)}
<1>3. 0 \in S
  BY <1>2, LacksNothing
<1>4. \A i \in S : i + 1 \in S
  <2> SUFFICES ASSUME NEW i \in S, i + 1 <= L
               PROVE  h[i + 1] \in Text /\ Lacks(h[i + 1], n)
    OBVIOUS
  <2>1. i \in Nat /\ i <= L /\ i + 1 \in 1 .. L /\ (i + 1) - 1 = i
    BY <1>0
  <2>2. h[i + 1] = h[i] \o ss[i + 1] /\ ss[i + 1] \in Text /\ Lacks(ss[i + 1], n)
    BY <1>0, <1>2, <2>1
  <2>3. h[i] \in Text /\ Lacks(h[i], n)
    BY <2>1
  <2>4. QED BY <2>2, <2>3, LacksJoin
<1>5. S = Nat
  <2>1. S \in SUBSET Nat
    OBVIOUS
  <2> HIDE DEF S
  <2>2. QED BY <1>3, <1>4, <2>1, NumberInduction
<1>6. L \in S
  BY <1>0, <1>5
<1>7. QED BY <1>2, <1>6

LEMMA TellsFlat ==
    ASSUME NEW ss \in Seq(Text), NEW n, NEW v \in Text, NEW k \in 1 .. Len(ss),
           \A i \in 1 .. k - 1 : Lacks(ss[i], n), Tells(ss[k], n, v)
    PROVE  Tells(FlattenSeq(ss), n, v)
<1>0. PICK L \in Nat : L = Len(ss)
  OBVIOUS
<1>1. PICK h : Partial(Symbol, ss, h)
  BY PartialExists DEF Text
<1>2. /\ h \in [0 .. L -> Text] /\ h[0] = << >>
      /\ \A i \in 1 .. L : h[i] = h[i - 1] \o ss[i] /\ ss[i] \in Text
      /\ FlattenSeq(ss) = h[L]
  <2>1. \A i \in 1 .. L : ss[i] \in Text
    BY <1>0
  <2>2. QED BY <1>0, <1>1, <2>1 DEF Partial, Text
<1> DEFINE S == {i \in Nat : i <= L => /\ h[i] \in Text
                                       /\ i < k => Lacks(h[i], n)
                                       /\ k <= i => Tells(h[i], n, v)}
<1>3. 0 \in S
  BY <1>2, LacksNothing
<1>4. \A i \in S : i + 1 \in S
  <2> SUFFICES ASSUME NEW i \in S, i + 1 <= L
               PROVE  /\ h[i + 1] \in Text
                      /\ i + 1 < k => Lacks(h[i + 1], n)
                      /\ k <= i + 1 => Tells(h[i + 1], n, v)
    OBVIOUS
  <2>1. /\ i \in Nat /\ i <= L /\ i + 1 \in 1 .. L /\ (i + 1) - 1 = i
        /\ (i + 1 < k => i < k /\ i + 1 \in 1 .. k - 1)
    BY <1>0
  <2>2. h[i + 1] = h[i] \o ss[i + 1] /\ ss[i + 1] \in Text
    BY <1>2, <2>1
  <2>3. h[i] \in Text /\ (i < k => Lacks(h[i], n)) /\ (k <= i => Tells(h[i], n, v))
    BY <2>1
  <2>4. CASE i + 1 < k
    <3>1. Lacks(h[i], n) /\ Lacks(ss[i + 1], n)
      BY <2>1, <2>3, <2>4
    <3>2. h[i + 1] \in Text /\ Lacks(h[i + 1], n)
      BY <2>2, <2>3, <3>1, LacksJoin
    <3>3. ~(k <= i + 1)
      BY <2>1, <2>4
    <3>4. QED BY <3>2, <3>3
  <2>5. CASE i + 1 = k
    <3>1. Lacks(h[i], n) /\ Tells(ss[i + 1], n, v)
      BY <2>1, <2>3, <2>5
    <3>2. h[i + 1] \in Text /\ Tells(h[i + 1], n, v)
      BY <2>2, <2>3, <3>1, TellsSecond, JoinIs DEF IsJoin
    <3>3. ~(i + 1 < k)
      BY <2>1, <2>5
    <3>4. QED BY <3>2, <3>3
  <2>6. CASE k <= i
    <3>2. h[i] \in Text /\ Tells(h[i], n, v)
      BY <2>3, <2>6
    <3>4. h[i] \o ss[i + 1] \in Text
      BY <2>2, <3>2, JoinIs DEF IsJoin
    <3>5. Tells(h[i] \o ss[i + 1], n, v)
      BY <2>2, <3>2, TellsFirst
    <3>1. h[i + 1] \in Text /\ Tells(h[i + 1], n, v)
      BY <2>2, <3>4, <3>5, Zenon
    <3>3. ~(i + 1 < k)
      BY <2>1, <2>6
    <3>6. QED BY <3>1, <3>3
  <2>7. i + 1 < k \/ i + 1 = k \/ k <= i
    BY <2>1
  <2>8. QED BY <2>4, <2>5, <2>6, <2>7, Zenon
<1>5. S = Nat
  <2>1. S \in SUBSET Nat
    OBVIOUS
  <2> HIDE DEF S
  <2>2. QED BY <1>3, <1>4, <2>1, NumberInduction
<1>6. L \in S /\ k <= L
  BY <1>0, <1>5
<1>7. QED BY <1>2, <1>6

LEMMA ValueDef ==
    ASSUME NEW r, FirstAt(r, <<Semicolon>>) # 1
    PROVE  Value(r) = SubSeq(r, 2, FirstAt(r, <<Semicolon>>) - 1)
BY Zenon DEF Value, Semicolon

\* What is read of a name in a text that tells it.
LEMMA ValueIs ==
    ASSUME NEW t \in Text, NEW n, NEW v \in Text, Lacks(v, Semicolon), Tells(t, n, v)
    PROVE  LET rest == After(t, <<n>>)
           IN  /\ Has(t, <<n>>) /\ Has(rest, <<Semicolon>>)
               /\ rest \in Text /\ FirstAt(rest, <<Semicolon>>) = Len(v) + 2
               /\ Len(v) + 2 <= Len(rest) /\ rest[1] = Space
               /\ \A j \in 1 .. Len(v) : rest[j + 1] = v[j]
               /\ Value(rest) = v
<1>1. PICK p \in 1 .. Len(t) : TellsAt(t, n, v, p)
  BY DEF Tells
<1>2. PICK l \in Nat : l = Len(v)
  BY TextDomain
<1>3. PICK r : r = After(t, <<n>>)
  OBVIOUS
<1>4. PICK L \in Nat : L = Len(t)
  BY TextDomain
<1>5. t[p] = n /\ (\A j \in 1 .. p - 1 : t[j] # n) /\ p \in 1 .. L
  BY <1>1, <1>4 DEF TellsAt
<1>6. r \in Text /\ Len(r) = L - p /\ \A j \in 1 .. L - p : r[j] = t[p + j]
  BY <1>3, <1>4, <1>5, AfterIs
<1>7. p + l + 2 <= L /\ 1 \in 1 .. L - p /\ l + 2 \in 1 .. L - p /\ p + (l + 2) = p + l + 2
      /\ \A j \in 1 .. l : j + 1 \in 1 .. L - p /\ p + (j + 1) = p + 1 + j
  <2>1. p + l + 2 <= L
    BY <1>1, <1>2, <1>4 DEF TellsAt
  <2>2. QED BY <1>2, <1>4, <1>5, <2>1
<1>8. r[1] = Space /\ r[l + 2] = Semicolon /\ \A j \in 1 .. l : r[j + 1] = v[j]
  <2>1. r[1] = t[p + 1] /\ r[l + 2] = t[p + l + 2]
    BY <1>6, <1>7
  <2>2. \A j \in 1 .. l : r[j + 1] = t[p + 1 + j]
    BY <1>6, <1>7
  <2>3. QED BY <1>1, <1>2, <2>1, <2>2 DEF TellsAt
<1>9. l + 2 \in 1 .. Len(r) /\ \A j \in 1 .. (l + 2) - 1 : r[j] # Semicolon
  <2>1. l + 2 \in 1 .. Len(r)
    BY <1>6, <1>7
  <2>2. ASSUME NEW j \in 1 .. (l + 2) - 1 PROVE r[j] # Semicolon
    <3>1. CASE j = 1
      BY <1>8, <3>1, SymbolsDiffer
    <3>2. CASE j # 1
      <4>1. j - 1 \in 1 .. l /\ (j - 1) + 1 = j
        BY <1>2, <3>2
      <4>2. r[j] = v[j - 1]
        BY <1>8, <4>1
      <4>3. v[j - 1] # Semicolon
        BY <1>2, <4>1 DEF Lacks
      <4>4. QED BY <4>2, <4>3
    <3>3. QED BY <3>1, <3>2
  <2>3. QED BY <2>1, <2>2
<1>10. FirstAt(r, <<Semicolon>>) = l + 2
  BY <1>6, <1>8, <1>9, FirstIs
<1>11. Has(t, <<n>>) /\ Has(r, <<Semicolon>>)
  <2>1. ~Lacks(t, n) /\ ~Lacks(r, Semicolon)
    BY <1>5, <1>4, <1>8, <1>9 DEF Lacks
  <2>2. QED BY <1>6, <2>1, HasNone
<1>12. Value(r) = v
  <2>1. l + 2 # 1 /\ l + 2 - 1 = l + 1 /\ 2 \in Int /\ l + 1 \in Int
        /\ (l + 1) - 2 + 1 = l /\ (IF 2 <= l + 1 THEN (l + 1) - 2 + 1 ELSE 0) = l
    BY <1>2
  <2>2. Value(r) = SubSeq(r, 2, l + 1)
    BY <1>10, <2>1, ValueDef
  <2>3. \A i \in 2 .. l + 1 : r[i] \in Symbol
    <3>1. \A i \in 2 .. l + 1 : i \in 1 .. Len(r)
      BY <1>2, <1>9
    <3>2. QED BY <1>6, <3>1 DEF Text
  <2>4. /\ SubSeq(r, 2, l + 1) \in Seq(Symbol)
        /\ Len(SubSeq(r, 2, l + 1)) = l
        /\ \A i \in 1 .. l : SubSeq(r, 2, l + 1)[i] = r[2 + i - 1]
    BY <2>1, <2>3, SubSeqProperties
  <2>5. \A i \in 1 .. l : 2 + i - 1 = i + 1
    BY <1>2
  <2>6. \A i \in 1 .. l : SubSeq(r, 2, l + 1)[i] = v[i]
    BY <1>8, <2>4, <2>5
  <2>7. QED BY <1>2, <2>2, <2>4, <2>6, SeqEqual DEF Text
<1>13. Len(v) + 2 <= Len(r)
  BY <1>2, <1>6, <1>7
<1>14. QED BY <1>2, <1>3, <1>6, <1>8, <1>10, <1>11, <1>12, <1>13

------------------------------------------------------------------------------
(***************************************************************************)
(* Configurations and their texts.  A block is numbered after the one it   *)
(* is in, so what is defined by recursion from a block to those in it      *)
(* exists.                                                                 *)
(***************************************************************************)

Statement == [tokens : Seq(Text), child : Nat]

LEMMA ConfigIs ==
    ASSUME NEW c \in ConfigFiles
    PROVE  /\ Len(c) \in Nat \ {0} /\ DOMAIN c = 1 .. Len(c)
           /\ \A k \in 1 .. Len(c) :
                 /\ c[k] \in Seq(Statement)
                 /\ Len(c[k]) \in Nat /\ DOMAIN c[k] = 1 .. Len(c[k])
                 /\ \A i \in 1 .. Len(c[k]) :
                       /\ c[k][i] \in Statement /\ c[k][i] \in Range(c[k])
                       /\ c[k][i].tokens # << >>
                       /\ c[k][i].child \in {0} \cup (k + 1 .. Len(c))
<1> DEFINE Given == [tokens : Seq(Seq(STRING)), child : Nat]
<1>1. c \in Seq(Seq(Given)) /\ c # << >>
  BY ConfigAssumption DEF Texts
<1>5. Given \subseteq Statement
  <2>1. Seq(STRING) \subseteq Text
    BY SeqMonotonic DEF Symbol, Text
  <2>2. Seq(Seq(STRING)) \subseteq Seq(Text)
    BY <2>1, SeqMonotonic
  <2>3. QED BY <2>2 DEF Statement
<1> HIDE DEF Given
<1>2. Len(c) \in Nat \ {0} /\ DOMAIN c = 1 .. Len(c)
  BY <1>1, EmptySeq, LenProperties
<1>3. ASSUME NEW k \in 1 .. Len(c)
      PROVE  /\ c[k] \in Seq(Statement)
             /\ Len(c[k]) \in Nat /\ DOMAIN c[k] = 1 .. Len(c[k])
             /\ \A i \in 1 .. Len(c[k]) :
                   /\ c[k][i] \in Statement /\ c[k][i] \in Range(c[k])
                   /\ c[k][i].tokens # << >>
                   /\ c[k][i].child \in {0} \cup (k + 1 .. Len(c))
  <2>1. c[k] \in Seq(Statement)
    BY <1>1, <1>5, ElementOfSeq, SeqMonotonic
  <2>2. Len(c[k]) \in Nat /\ DOMAIN c[k] = 1 .. Len(c[k])
    BY <2>1, LenProperties
  <2>3. ASSUME NEW i \in 1 .. Len(c[k])
        PROVE  /\ c[k][i] \in Statement /\ c[k][i] \in Range(c[k])
               /\ c[k][i].tokens # << >>
               /\ c[k][i].child \in {0} \cup (k + 1 .. Len(c))
    <3>1. c[k][i] \in Statement
      BY <2>1, ElementOfSeq
    <3>2. c[k][i] \in Range(c[k]) /\ k \in DOMAIN c
      BY <1>2, <2>2 DEF Range
    <3>3. QED BY <3>1, <3>2, ConfigAssumption
  <2>4. QED BY <2>1, <2>2, <2>3
<1>4. QED BY <1>2, <1>3

\* The symbols that stand around the words of a statement.
Open == <<Space, OpenBrace, NewLine>>
Close == <<CloseBrace>>

LEMMA MarksAreTexts ==
    /\ Open \in Text /\ Close \in Text
    /\ <<Semicolon>> \in Text /\ <<NewLine>> \in Text /\ <<Space>> \in Text
<1>2. Close \in Text /\ <<Semicolon>> \in Text /\ <<NewLine>> \in Text
      /\ <<Space>> \in Text
  BY SymbolsAre, OneSymbol, Zenon DEF Close
<1>3. \A a, b, d \in Symbol : <<a, b, d>> \in Text
  <2> TAKE a, b, d \in Symbol
  <2>1. <<a>> \in Text /\ <<b>> \in Text /\ <<d>> \in Text
    BY OneSymbol
  <2> DEFINE S == Symbol
  <2> HIDE DEF S
  <2>2. \A x, y, z \in S : <<x, y, z>> \in Seq(S)
    OBVIOUS
  <2>3. QED BY <2>2, Zenon DEF S, Text
<1>4. Open \in Text
  BY SymbolsAre, <1>3, Zenon DEF Open
<1>5. QED BY <1>2, <1>4

LEMMA StatementIs ==
    ASSUME NEW f, NEW s, NEW d
    PROVE  StatementText(f, s, d) =
             Indent(d) \o Joined(s.tokens)
             \o (IF s.child = 0 THEN <<Semicolon>>
                 ELSE Open \o f[s.child][d + 1] \o Indent(d) \o Close)
             \o <<NewLine>>
BY Zenon DEF StatementText, Semicolon, Open, Close, NewLine, Space, OpenBrace, CloseBrace

LEMMA IndentIs ==
    ASSUME NEW d \in Nat
    PROVE  /\ Indent(d) \in Text /\ Len(Indent(d)) = d
           /\ \A i \in 1 .. d : Indent(d)[i] = Tab
<1> DEFINE S == Symbol
<1>1. Tab \in S /\ Indent(d) = [i \in 1 .. d |-> Tab]
  BY SymbolsAre, Zenon DEF Tab, Indent
<1> HIDE DEF S
<1>2. Indent(d) \in Seq(S) /\ Len(Indent(d)) = d /\ \A i \in 1 .. d : Indent(d)[i] = Tab
  BY <1>1
<1>3. QED BY <1>2 DEF S, Text

\* The words with a blank before each.
Spaced(tokens) == [i \in DOMAIN tokens |-> <<Space>> \o tokens[i]]

LEMMA JoinedIs ==
    ASSUME NEW tokens \in Seq(Text), tokens # << >>
    PROVE  /\ Spaced(tokens) \in Seq(Text) /\ Len(Spaced(tokens)) = Len(tokens)
           /\ \A i \in 1 .. Len(tokens) : Spaced(tokens)[i] = <<Space>> \o tokens[i]
           /\ FlattenSeq(Spaced(tokens)) \in Text
           /\ FlattenSeq(Spaced(tokens)) # << >>
           /\ Joined(tokens) = Tail(FlattenSeq(Spaced(tokens)))
           /\ Joined(tokens) \in Text
<1>1. Len(tokens) \in Nat \ {0} /\ DOMAIN tokens = 1 .. Len(tokens)
      /\ \A i \in 1 .. Len(tokens) : tokens[i] \in Text
  BY EmptySeq, LenProperties, ElementOfSeq
<1>2. PICK L \in Nat \ {0} : L = Len(tokens)
  BY <1>1
<1>3. \A i \in 1 .. L : <<Space>> \o tokens[i] \in Text /\ Len(<<Space>> \o tokens[i]) >= 1
  <2> TAKE i \in 1 .. L
  <2>1. <<Space>> \in Text /\ tokens[i] \in Text
    BY <1>1, <1>2, MarksAreTexts
  <2>2. IsJoin(<<Space>> \o tokens[i], <<Space>>, tokens[i])
    BY <2>1, JoinIs
  <2>3. Len(<<Space>>) = 1
    BY SymbolsAre, OneSymbol
  <2> HIDE DEF IsJoin
  <2>5. PICK w : w = <<Space>> \o tokens[i]
    OBVIOUS
  <2>6. w \in Text /\ Len(w) = Len(<<Space>>) + Len(tokens[i]) /\ Len(tokens[i]) \in Nat
    BY <2>2, <2>5 DEF IsJoin
  <2>7. w \in Text /\ Len(w) >= 1
    BY <2>3, <2>6
  <2>4. QED BY <2>5, <2>7
<1>4. PICK ss : ss = Spaced(tokens)
  OBVIOUS
<1>5. ss = [i \in 1 .. L |-> <<Space>> \o tokens[i]]
  BY <1>1, <1>2, <1>4 DEF Spaced
<1>6. ss \in Seq(Text) /\ Len(ss) = L /\ \A i \in 1 .. L : ss[i] = <<Space>> \o tokens[i]
  BY <1>3, <1>5
<1>7. PICK h : Partial(Symbol, ss, h)
  BY <1>6, PartialExists DEF Text
<1>8. /\ h \in [0 .. L -> Text] /\ h[0] = << >>
      /\ \A i \in 1 .. L : h[i] = h[i - 1] \o ss[i]
      /\ FlattenSeq(ss) = h[L]
  BY <1>6, <1>7 DEF Partial, Text
<1>9. FlattenSeq(ss) \in Text
  BY <1>8
<1>10. FlattenSeq(ss) # << >>
  <2>1. L \in 1 .. L /\ L - 1 \in 0 .. L
    OBVIOUS
  <2>2. h[L] = h[L - 1] \o ss[L] /\ h[L - 1] \in Text /\ ss[L] \in Text /\ Len(ss[L]) >= 1
    BY <1>3, <1>6, <1>8, <2>1
  <2>3. IsJoin(h[L], h[L - 1], ss[L])
    BY <2>2, JoinIs
  <2>6. PICK a, b, d : a = Len(h[L - 1]) /\ b = Len(ss[L]) /\ d = Len(h[L])
    OBVIOUS
  <2>7. a \in Nat /\ b \in Nat /\ d = a + b /\ b >= 1
    BY <2>2, <2>3, <2>6 DEF IsJoin
  <2>8. d >= 1
    BY <2>7
  <2>4. Len(h[L]) >= 1
    BY <2>6, <2>8
  <2>5. QED BY <1>8, <2>4
<1>11. Joined(tokens) = Tail(FlattenSeq(ss))
  BY <1>4, Zenon DEF Joined, Spaced, Space
<1>12. Joined(tokens) \in Text
  BY <1>9, <1>10, <1>11, HeadTailProperties DEF Text
<1>13. QED BY <1>2, <1>4, <1>6, <1>9, <1>10, <1>11, <1>12

\* What is printed behind the words.
Ending(f, s, d) ==
    IF s.child = 0 THEN <<Semicolon>>
    ELSE Open \o f[s.child][d + 1] \o Indent(d) \o Close

LEMMA EndingType ==
    ASSUME NEW s \in Statement, NEW d \in Nat, NEW f,
           s.child # 0 => f[s.child] \in [Nat -> Text]
    PROVE  Ending(f, s, d) \in Text
<1>1. CASE s.child = 0
  BY <1>1, MarksAreTexts DEF Ending
<1>2. CASE s.child # 0
  <2>1. f[s.child][d + 1] \in Text /\ Indent(d) \in Text
    BY <1>2, IndentIs
  <2>2. Open \o f[s.child][d + 1] \in Text
    BY <2>1, MarksAreTexts, JoinIs DEF IsJoin
  <2>3. Open \o f[s.child][d + 1] \o Indent(d) \in Text
    BY <2>1, <2>2, JoinIs DEF IsJoin
  <2>4. Open \o f[s.child][d + 1] \o Indent(d) \o Close \in Text
    BY <2>3, MarksAreTexts, JoinIs DEF IsJoin
  <2>5. QED BY <1>2, <2>4 DEF Ending
<1>3. QED BY <1>1, <1>2

LEMMA StatementType ==
    ASSUME NEW s \in Statement, s.tokens # << >>, NEW d \in Nat, NEW f,
           s.child # 0 => f[s.child] \in [Nat -> Text]
    PROVE  /\ StatementText(f, s, d) \in Text
           /\ Indent(d) \in Text /\ Joined(s.tokens) \in Text
           /\ Ending(f, s, d) \in Text /\ <<NewLine>> \in Text
           /\ Indent(d) \o Joined(s.tokens) \in Text
           /\ Indent(d) \o Joined(s.tokens) \o Ending(f, s, d) \in Text
           /\ StatementText(f, s, d) =
                Indent(d) \o Joined(s.tokens) \o Ending(f, s, d) \o <<NewLine>>
<1>1. /\ Indent(d) \in Text /\ Joined(s.tokens) \in Text
      /\ Ending(f, s, d) \in Text /\ <<NewLine>> \in Text
  BY IndentIs, JoinedIs, EndingType, MarksAreTexts DEF Statement
<1>2. Indent(d) \o Joined(s.tokens) \in Text
  BY <1>1, JoinIs DEF IsJoin
<1>3. Indent(d) \o Joined(s.tokens) \o Ending(f, s, d) \in Text
  BY <1>1, <1>2, JoinIs DEF IsJoin
<1>4. Indent(d) \o Joined(s.tokens) \o Ending(f, s, d) \o <<NewLine>> \in Text
  BY <1>1, <1>3, JoinIs DEF IsJoin
<1>5. StatementText(f, s, d) =
        Indent(d) \o Joined(s.tokens) \o Ending(f, s, d) \o <<NewLine>>
  BY StatementIs, Zenon DEF Ending
<1>6. QED BY <1>1, <1>2, <1>3, <1>4, <1>5

\* A block as it is printed at each depth, given those in it.
BlockText(c, f, k) ==
    [d \in Nat |-> FlattenSeq([i \in DOMAIN c[k] |-> StatementText(f, c[k][i], d)])]
Prints(c, f) == f = [k \in DOMAIN c |-> BlockText(c, f, k)]

LEMMA BlockType ==
    ASSUME NEW c \in ConfigFiles, NEW k \in 1 .. Len(c), NEW f,
           \A j \in k + 1 .. Len(c) : f[j] \in [Nat -> Text]
    PROVE  /\ BlockText(c, f, k) \in [Nat -> Text]
           /\ \A d \in Nat :
                 [i \in DOMAIN c[k] |-> StatementText(f, c[k][i], d)] \in Seq(Text)
<1>1. ASSUME NEW d \in Nat
      PROVE  [i \in DOMAIN c[k] |-> StatementText(f, c[k][i], d)] \in Seq(Text)
  <2>1. PICK n \in Nat : n = Len(c[k])
    BY ConfigIs
  <2>2. \A i \in 1 .. n : StatementText(f, c[k][i], d) \in Text
    <3> TAKE i \in 1 .. n
    <3>1. /\ c[k][i] \in Statement /\ c[k][i].tokens # << >>
          /\ c[k][i].child \in {0} \cup (k + 1 .. Len(c))
      BY <2>1, ConfigIs
    <3>2. c[k][i].child # 0 => f[c[k][i].child] \in [Nat -> Text]
      BY <3>1
    <3>3. QED BY <3>1, <3>2, StatementType
  <2>3. DOMAIN c[k] = 1 .. n
    BY <2>1, ConfigIs
  <2>4. QED BY <2>2, <2>3
<1>2. \A d \in Nat :
         FlattenSeq([i \in DOMAIN c[k] |-> StatementText(f, c[k][i], d)]) \in Text
  BY <1>1, FlattenType DEF Text
<1>3. QED BY <1>1, <1>2 DEF BlockText

LEMMA BlockSame ==
    ASSUME NEW c \in ConfigFiles, NEW k \in 1 .. Len(c), NEW f, NEW g,
           \A j \in k + 1 .. Len(c) : f[j] = g[j]
    PROVE  BlockText(c, f, k) = BlockText(c, g, k)
<1>1. \A d \in Nat : \A i \in DOMAIN c[k] :
         StatementText(f, c[k][i], d) = StatementText(g, c[k][i], d)
  <2> TAKE d \in Nat
  <2> TAKE i \in DOMAIN c[k]
  <2>1. c[k][i].child \in {0} \cup (k + 1 .. Len(c))
    BY ConfigIs
  <2>2. c[k][i].child # 0 => f[c[k][i].child] = g[c[k][i].child]
    BY <2>1
  <2>3. QED BY <2>2, StatementIs, Zenon
<1>2. \A d \in Nat :
         [i \in DOMAIN c[k] |-> StatementText(f, c[k][i], d)]
         = [i \in DOMAIN c[k] |-> StatementText(g, c[k][i], d)]
  BY <1>1
<1>3. QED BY <1>2 DEF BlockText

LEMMA TextIs ==
    ASSUME NEW c \in ConfigFiles
    PROVE  TextOf[c] = [k \in DOMAIN c |-> (CHOOSE f : Prints(c, f))[k][0]]
BY DEF TextOf, Prints, BlockText

LEMMA PrintExists ==
    ASSUME NEW c \in ConfigFiles
    PROVE  \E f : Prints(c, f)
<1>1. PICK L \in Nat : L = Len(c)
  BY ConfigIs
<1>2. DOMAIN c = 1 .. L
  BY <1>1, ConfigIs
<1> DEFINE V == [Nat -> Text]
           G == [f \in [1 .. L -> V] |-> [k \in 1 .. L |-> BlockText(c, f, k)]]
<1>3. V # {}
  <2>1. [n \in Nat |-> << >>] \in V
    BY LacksNothing
  <2>2. QED BY <2>1
<1>4. \A f \in [1 .. L -> V] : \A k \in 1 .. L : BlockText(c, f, k) \in V
  <2> TAKE f \in [1 .. L -> V]
  <2> TAKE k \in 1 .. L
  <2>1. \A j \in k + 1 .. L : f[j] \in [Nat -> Text]
    OBVIOUS
  <2>2. QED BY <1>1, <2>1, BlockType
<1>5. \A f, g \in [1 .. L -> V] : \A k \in 1 .. L :
         (\A j \in k + 1 .. L : f[j] = g[j]) => BlockText(c, f, k) = BlockText(c, g, k)
  BY <1>1, BlockSame
<1> HIDE DEF V
<1>6. G \in [[1 .. L -> V] -> [1 .. L -> V]]
  BY <1>4
<1>7. \A f \in [1 .. L -> V] : G[f] = [k \in 1 .. L |-> BlockText(c, f, k)]
  OBVIOUS
<1> HIDE DEF G
<1>8. \A f, g \in [1 .. L -> V] : \A k \in 1 .. L :
         (\A j \in k + 1 .. L : f[j] = g[j]) => G[f][k] = G[g][k]
  <2> DEFINE B(f, k) == BlockText(c, f, k)
  <2>1. \A f \in [1 .. L -> V] : \A k \in 1 .. L : G[f][k] = B(f, k)
    BY <1>7
  <2>2. \A f, g \in [1 .. L -> V] : \A k \in 1 .. L :
           (\A j \in k + 1 .. L : f[j] = g[j]) => B(f, k) = B(g, k)
    BY <1>5
  <2> HIDE DEF B
  <2>3. QED BY <2>1, <2>2
<1>9. PICK f \in [1 .. L -> V] : f = G[f]
  <2>1. LooksAhead(L, V, G)
    BY <1>3, <1>6, <1>8, Zenon DEF LooksAhead
  <2>2. QED BY <2>1, BackwardRecursion
<1>10. f = [k \in 1 .. L |-> BlockText(c, f, k)]
  BY <1>7, <1>9
<1>11. Prints(c, f)
  BY <1>2, <1>10 DEF Prints
<1>12. QED BY <1>11

\* The texts of the blocks of a configuration.
IsPrint(c, f) ==
    /\ f \in [1 .. Len(c) -> [Nat -> Text]]
    /\ \A k \in 1 .. Len(c) : f[k] = BlockText(c, f, k) /\ TextOf[c][k] = f[k][0]

LEMMA PrintIs ==
    ASSUME NEW c \in ConfigFiles
    PROVE  \E f : IsPrint(c, f)
<1>1. PICK L \in Nat : L = Len(c)
  BY ConfigIs
<1>2. DOMAIN c = 1 .. L
  BY <1>1, ConfigIs
<1>3. PICK f : f = CHOOSE g : Prints(c, g)
  OBVIOUS
<1>4. Prints(c, f)
  BY <1>3, PrintExists
<1>5. f = [k \in 1 .. L |-> BlockText(c, f, k)]
  BY <1>2, <1>4 DEF Prints
<1>6. \A k \in 1 .. L : f[k] = BlockText(c, f, k)
  <2> DEFINE B(k) == BlockText(c, f, k)
  <2>1. f = [k \in 1 .. L |-> B(k)]
    BY <1>5
  <2> HIDE DEF B
  <2>2. \A k \in 1 .. L : f[k] = B(k)
    BY <2>1
  <2>3. QED BY <2>2 DEF B
<1>7. TextOf[c] = [k \in 1 .. L |-> f[k][0]]
  BY <1>2, <1>3, TextIs
<1> DEFINE T == {k \in 1 .. L : f[k] \in [Nat -> Text]}
<1>8. T = 1 .. L
  <2>1. \A k \in 1 .. L : k + 1 .. L \subseteq T => k \in T
    <3> TAKE k \in 1 .. L
    <3> HAVE k + 1 .. L \subseteq T
    <3>1. \A j \in k + 1 .. L : f[j] \in [Nat -> Text]
      OBVIOUS
    <3>2. BlockText(c, f, k) \in [Nat -> Text]
      BY <1>1, <3>1, BlockType
    <3>3. QED BY <1>6, <3>2
  <2>2. T \in SUBSET (1 .. L)
    OBVIOUS
  <2> HIDE DEF T
  <2>3. QED BY <2>1, <2>2, BackwardInduction
<1>9. f \in [1 .. L -> [Nat -> Text]]
  <2>1. \A k \in 1 .. L : f[k] \in [Nat -> Text]
    BY <1>8
  <2>2. f = [k \in 1 .. L |-> f[k]]
    BY <1>5, <1>6
  <2>3. QED BY <2>1, <2>2
<1>10. IsPrint(c, f)
  BY <1>1, <1>6, <1>7, <1>9 DEF IsPrint
<1>11. QED BY <1>10

LEMMA TextType ==
    ASSUME NEW c \in ConfigFiles, NEW k \in 1 .. Len(c)
    PROVE  TextOf[c][k] \in Text
<1>1. PICK f : IsPrint(c, f)
  BY PrintIs
<1>2. QED BY <1>1 DEF IsPrint

------------------------------------------------------------------------------
(***************************************************************************)
(* What InOrder collects, by the same recursion.                           *)
(***************************************************************************)

\* What is collected from a block, given what is from those in it.
Picked(c, chosen, f, k) ==
    [i \in DOMAIN c[k] |->
        (IF c[k][i].child = 0 THEN << >> ELSE f[c[k][i].child])
        \o (IF c[k][i] \in chosen THEN <<c[k][i]>> ELSE << >>)]
Collects(c, chosen, f) == f = [k \in DOMAIN c |-> FlattenSeq(Picked(c, chosen, f, k))]

LEMMA OrderDef ==
    ASSUME NEW c, NEW chosen
    PROVE  InOrder(c, chosen) = (CHOOSE f : Collects(c, chosen, f))[1]
BY DEF InOrder, Collects, Picked

LEMMA PickedType ==
    ASSUME NEW c \in ConfigFiles, NEW chosen, NEW k \in 1 .. Len(c), NEW f,
           \A j \in k + 1 .. Len(c) : f[j] \in Seq(chosen)
    PROVE  /\ Picked(c, chosen, f, k) \in Seq(Seq(chosen))
           /\ Len(Picked(c, chosen, f, k)) = Len(c[k])
           /\ FlattenSeq(Picked(c, chosen, f, k)) \in Seq(chosen)
<1>1. PICK n \in Nat : n = Len(c[k])
  BY ConfigIs
<1> DEFINE inner(i) == IF c[k][i].child = 0 THEN << >> ELSE f[c[k][i].child]
           own(i) == IF c[k][i] \in chosen THEN <<c[k][i]>> ELSE << >>
<1>2. DOMAIN c[k] = 1 .. n
  BY <1>1, ConfigIs
<1>3. ASSUME NEW i \in 1 .. n PROVE inner(i) \o own(i) \in Seq(chosen)
  <2>1. c[k][i].child \in {0} \cup (k + 1 .. Len(c))
    BY <1>1, ConfigIs
  <2>2. inner(i) \in Seq(chosen)
    BY <2>1, EmptySeq
  <2>3. own(i) \in Seq(chosen)
    <3>1. CASE c[k][i] \in chosen
      <4>1. <<c[k][i]>> \in Seq(chosen)
        BY <3>1, Single
      <4>2. QED BY <3>1, <4>1
    <3>2. CASE c[k][i] \notin chosen
      BY <3>2, EmptySeq
    <3>3. QED BY <3>1, <3>2
  <2> HIDE DEF inner, own
  <2>4. QED BY <2>2, <2>3, ConcatProperties
<1>4. Picked(c, chosen, f, k) = [i \in 1 .. n |-> inner(i) \o own(i)]
  BY <1>2 DEF Picked
<1> HIDE DEF inner, own
<1>5. Picked(c, chosen, f, k) \in Seq(Seq(chosen)) /\ Len(Picked(c, chosen, f, k)) = n
  BY <1>3, <1>4
<1>6. QED BY <1>1, <1>5, FlattenType

LEMMA PickedSame ==
    ASSUME NEW c \in ConfigFiles, NEW chosen, NEW k \in 1 .. Len(c), NEW f, NEW g,
           \A j \in k + 1 .. Len(c) : f[j] = g[j]
    PROVE  Picked(c, chosen, f, k) = Picked(c, chosen, g, k)
<1>1. \A i \in DOMAIN c[k] : c[k][i].child # 0 => f[c[k][i].child] = g[c[k][i].child]
  BY ConfigIs
<1>2. QED BY <1>1 DEF Picked

LEMMA CollectExists ==
    ASSUME NEW c \in ConfigFiles, NEW chosen
    PROVE  \E f : Collects(c, chosen, f)
<1>1. PICK L \in Nat : L = Len(c)
  BY ConfigIs
<1>2. DOMAIN c = 1 .. L
  BY <1>1, ConfigIs
<1> DEFINE V == Seq(chosen)
           B(f, k) == FlattenSeq(Picked(c, chosen, f, k))
           G == [f \in [1 .. L -> V] |-> [k \in 1 .. L |-> B(f, k)]]
<1>3. V # {}
  BY EmptySeq
<1>4. \A f \in [1 .. L -> V] : \A k \in 1 .. L : B(f, k) \in V
  <2> TAKE f \in [1 .. L -> V]
  <2> TAKE k \in 1 .. L
  <2>1. \A j \in k + 1 .. L : f[j] \in Seq(chosen)
    OBVIOUS
  <2>2. QED BY <1>1, <2>1, PickedType
<1>5. \A f, g \in [1 .. L -> V] : \A k \in 1 .. L :
         (\A j \in k + 1 .. L : f[j] = g[j]) => B(f, k) = B(g, k)
  BY <1>1, PickedSame
<1> HIDE DEF V, B
<1>6. G \in [[1 .. L -> V] -> [1 .. L -> V]]
  BY <1>4
<1>7. \A f \in [1 .. L -> V] : G[f] = [k \in 1 .. L |-> B(f, k)]
  OBVIOUS
<1> HIDE DEF G
<1>8. \A f, g \in [1 .. L -> V] : \A k \in 1 .. L :
         (\A j \in k + 1 .. L : f[j] = g[j]) => G[f][k] = G[g][k]
  <2>1. \A f \in [1 .. L -> V] : \A k \in 1 .. L : G[f][k] = B(f, k)
    BY <1>7
  <2>2. QED BY <1>5, <2>1
<1>9. PICK f \in [1 .. L -> V] : f = G[f]
  <2>1. LooksAhead(L, V, G)
    BY <1>3, <1>6, <1>8, Zenon DEF LooksAhead
  <2>2. QED BY <2>1, BackwardRecursion
<1>10. f = [k \in 1 .. L |-> B(f, k)]
  BY <1>7, <1>9
<1>11. Collects(c, chosen, f)
  BY <1>2, <1>10 DEF Collects, B
<1>12. QED BY <1>11

\* What is collected from each block of a configuration.
IsOrder(c, chosen, f) ==
    /\ \A k \in 1 .. Len(c) :
          /\ f[k] \in Seq(chosen)
          /\ f[k] = FlattenSeq(Picked(c, chosen, f, k))
    /\ InOrder(c, chosen) = f[1]

LEMMA OrderIs ==
    ASSUME NEW c \in ConfigFiles, NEW chosen
    PROVE  \E f : IsOrder(c, chosen, f)
<1>1. PICK L \in Nat : L = Len(c)
  BY ConfigIs
<1>2. DOMAIN c = 1 .. L
  BY <1>1, ConfigIs
<1>3. PICK f : f = CHOOSE g : Collects(c, chosen, g)
  OBVIOUS
<1>4. Collects(c, chosen, f)
  BY <1>3, CollectExists
<1> DEFINE B(k) == FlattenSeq(Picked(c, chosen, f, k))
<1>5. f = [k \in 1 .. L |-> B(k)]
  BY <1>2, <1>4 DEF Collects
<1>6. \A k \in 1 .. L : f[k] = B(k)
  <2> HIDE DEF B
  <2>1. QED BY <1>5
<1>7. InOrder(c, chosen) = f[1]
  BY <1>3, OrderDef
<1> DEFINE T == {k \in 1 .. L : f[k] \in Seq(chosen)}
<1>8. T = 1 .. L
  <2>1. \A k \in 1 .. L : k + 1 .. L \subseteq T => k \in T
    <3> TAKE k \in 1 .. L
    <3> HAVE k + 1 .. L \subseteq T
    <3>1. \A j \in k + 1 .. L : f[j] \in Seq(chosen)
      OBVIOUS
    <3>2. B(k) \in Seq(chosen)
      BY <1>1, <3>1, PickedType
    <3>3. QED BY <1>6, <3>2
  <2>2. T \in SUBSET (1 .. L)
    OBVIOUS
  <2> HIDE DEF T
  <2>3. QED BY <2>1, <2>2, BackwardInduction
<1>9. \A k \in 1 .. L : f[k] \in Seq(chosen)
  BY <1>8
<1>10. IsOrder(c, chosen, f)
  BY <1>1, <1>6, <1>7, <1>9 DEF IsOrder
<1>11. QED BY <1>10

LEMMA OrderType ==
    ASSUME NEW c \in ConfigFiles, NEW chosen
    PROVE  InOrder(c, chosen) \in Seq(chosen)
<1>1. PICK f : IsOrder(c, chosen, f)
  BY OrderIs
<1>2. 1 \in 1 .. Len(c)
  BY ConfigIs
<1>3. QED BY <1>1, <1>2 DEF IsOrder

------------------------------------------------------------------------------
(***************************************************************************)
(* FoldLeft, and the number that a text is read as.                        *)
(***************************************************************************)

------------------------------------------------------------------------------
DigitOf(x) == CHOOSE i \in 1 .. 10 : Digits[i] = x
IsDigit(x) == x \in Range(Digits)
Number(iter, t) ==
    iter = [T \in SUBSET DOMAIN t |->
              IF T = {} THEN 0
              ELSE 10 * iter[T \ {Max(T)}] + DigitOf(t[Max(T)]) - 1]
NumberOf(t) == (CHOOSE iter : Number(iter, t))[DOMAIN t]

Visible(x) == x \notin {" ", "\n"}
From(t) == FirstOf({i \in 1 .. Len(t) : Visible(t[i])})
To(t, from) == FirstOf({i \in from .. Len(t) : ~IsDigit(t[i])})
Figures(t, from) == SubSeq(t, from, IF To(t, from) = 0 THEN Len(t) ELSE To(t, from) - 1)

LEMMA FigureIs ==
    ASSUME NEW x, IsDigit(x)
    PROVE  DigitOf(x) \in 1 .. 10
<1>1. DOMAIN Digits = 1 .. 10
  BY DEF Digits
<1>2. \E i \in 1 .. 10 : Digits[i] = x
  BY <1>1 DEF IsDigit, Range
<1>3. QED BY <1>2 DEF DigitOf

LEMMA AtoiDef ==
    ASSUME NEW t
    PROVE  Atoi(t) = IF From(t) = 0 THEN 0 ELSE NumberOf(Figures(t, From(t)))
BY Zenon DEF Atoi, SelectInSeq, SelectInSubSeq, FoldLeft, MapThenFoldSet, From, To,
   FirstOf, Visible, IsDigit, Figures, NumberOf, Number, DigitOf

LEMMA NumberExists ==
    ASSUME NEW t \in Seq(Range(Digits))
    PROVE  \E iter : Number(iter, t)
<1> DEFINE D == Range(Digits)
           E == [p \in Nat \X D |-> 10 * p[1] + DigitOf(p[2]) - 1]
<1>1. \A x \in D : DigitOf(x) \in 1 .. 10
  BY FigureIs DEF IsDigit
<1>2. E \in [Nat \X D -> Nat] /\ \A a \in Nat : \A x \in D : E[<<a, x>>] = 10 * a + DigitOf(x) - 1
  <2> HIDE DEF D
  <2>1. \A p \in Nat \X D : 10 * p[1] + DigitOf(p[2]) - 1 \in Nat
    <3> TAKE p \in Nat \X D
    <3>1. PICK a \in Nat, x \in D : p = <<a, x>>
      OBVIOUS
    <3>2. DigitOf(x) \in 1 .. 10
      BY <1>1
    <3>3. 10 * a + DigitOf(x) - 1 \in Nat
      BY <3>2
    <3>4. QED BY <3>1, <3>3
  <2>2. E \in [Nat \X D -> Nat]
    BY <2>1
  <2>3. \A a \in Nat : \A x \in D : <<a, x>> \in Nat \X D /\ <<a, x>>[1] = a /\ <<a, x>>[2] = x
    OBVIOUS
  <2>4. QED BY <2>2, <2>3
<1>3. PICK n \in Nat : n = Len(t)
  BY LenProperties
<1>4. DOMAIN t = 1 .. n /\ \A i \in 1 .. n : t[i] \in D
  BY <1>3, LenProperties, ElementOfSeq
<1> HIDE DEF D, E
<1>5. PICK f : IsFold(f, n, Nat, 0, E, t)
  <2>1. t \in Seq(D) /\ 0 \in Nat
    BY DEF D
  <2>2. QED BY <1>2, <1>3, <2>1, FoldExists
<1>6. ASSUME NEW T \in SUBSET (1 .. n)
      PROVE  f[T] = IF T = {} THEN 0 ELSE 10 * f[T \ {Max(T)}] + DigitOf(t[Max(T)]) - 1
  <2>1. CASE T = {}
    BY <1>5, <2>1 DEF IsFold
  <2>2. CASE T # {}
    <3>1. f[T] = E[<<f[T \ {Max(T)}], t[Max(T)]>>]
      BY <1>5, <2>2 DEF IsFold
    <3>2. t[Max(T)] \in D
      <4>1. Max(T) \in T
        BY <2>2, MaxExists
      <4>2. QED BY <1>4, <4>1
    <3>3. f[T \ {Max(T)}] \in Nat
      <4>1. T \ {Max(T)} \in SUBSET (1 .. n)
        OBVIOUS
      <4>2. QED BY <1>5, <4>1 DEF IsFold
    <3>4. QED BY <1>2, <2>2, <3>1, <3>2, <3>3, Zenon
  <2>3. QED BY <2>1, <2>2
<1>7. f = [T \in SUBSET (1 .. n) |-> f[T]]
  BY <1>5 DEF IsFold
<1>8. f = [T \in SUBSET (1 .. n) |->
             IF T = {} THEN 0 ELSE 10 * f[T \ {Max(T)}] + DigitOf(t[Max(T)]) - 1]
  <2> DEFINE B(T) == IF T = {} THEN 0 ELSE 10 * f[T \ {Max(T)}] + DigitOf(t[Max(T)]) - 1
  <2>1. \A T \in SUBSET (1 .. n) : f[T] = B(T)
    BY <1>6
  <2> HIDE DEF B
  <2>2. f = [T \in SUBSET (1 .. n) |-> B(T)]
    BY <1>7, <2>1
  <2>3. QED BY <2>2 DEF B
<1>9. Number(f, t)
  BY <1>4, <1>8 DEF Number
<1>10. QED BY <1>9

LEMMA Decimal == \A a \in Nat : \A d \in 1 .. 10 : 10 * a + d - 1 \in Nat
OBVIOUS

LEMMA NumberType ==
    ASSUME NEW t \in Seq(Range(Digits))
    PROVE  NumberOf(t) \in Nat /\ (t = << >> => NumberOf(t) = 0)
<1>1. PICK g : g = CHOOSE iter : Number(iter, t)
  OBVIOUS
<1>2. Number(g, t)
  BY <1>1, NumberExists
<1>3. PICK n \in Nat : n = Len(t)
  BY LenProperties
<1>4. DOMAIN t = 1 .. n /\ \A i \in 1 .. n : t[i] \in Range(Digits)
  BY <1>3, LenProperties, ElementOfSeq
<1>5. \A T \in SUBSET (1 .. n) :
         g[T] = IF T = {} THEN 0 ELSE 10 * g[T \ {Max(T)}] + DigitOf(t[Max(T)]) - 1
  <2> DEFINE B(T) == IF T = {} THEN 0 ELSE 10 * g[T \ {Max(T)}] + DigitOf(t[Max(T)]) - 1
  <2>1. g = [T \in SUBSET (1 .. n) |-> B(T)]
    BY <1>2, <1>4 DEF Number
  <2> HIDE DEF B
  <2>2. \A T \in SUBSET (1 .. n) : g[T] = B(T)
    BY <2>1
  <2>3. QED BY <2>2 DEF B
<1>6. g[{}] = 0
  BY <1>5
<1> DEFINE S == {i \in Nat : i <= n => g[1 .. i] \in Nat}
<1>7. 0 \in S
  <2>1. 1 .. 0 = {}
    OBVIOUS
  <2>2. QED BY <1>6, <2>1
<1>8. \A i \in S : i + 1 \in S
  <2> SUFFICES ASSUME NEW i \in S, i + 1 <= n PROVE g[1 .. i + 1] \in Nat
    OBVIOUS
  <2>1. i \in Nat /\ i <= n /\ i + 1 \in 1 .. n /\ (i + 1) - 1 = i
    <3>1. i \in Nat
      BY Zenon
    <3>2. QED BY <1>3, <3>1
  <2>2. g[1 .. i] \in Nat
    BY <2>1
  <2>3. PICK j : j = i + 1
    OBVIOUS
  <2>4. /\ 1 .. j \in SUBSET (1 .. n) /\ 1 .. j # {}
        /\ Max(1 .. j) = j /\ (1 .. j) \ {j} = 1 .. i
    BY <2>1, <2>3, FoldSteps
  <2>5. g[1 .. j] = 10 * g[1 .. i] + DigitOf(t[j]) - 1
    BY <1>5, <2>4
  <2>6. DigitOf(t[j]) \in 1 .. 10
    BY <1>4, <2>1, <2>3, FigureIs DEF IsDigit
  <2>8. QED BY <2>2, <2>3, <2>5, <2>6, Decimal, Zenon
<1>9. S = Nat
  <2>1. S \in SUBSET Nat
    OBVIOUS
  <2> HIDE DEF S
  <2>2. QED BY <1>7, <1>8, <2>1, NumberInduction
<1>10. g[1 .. n] \in Nat
  <2>1. n \in S
    BY <1>9
  <2>2. QED BY <2>1
<1>11. NumberOf(t) = g[1 .. n]
  BY <1>1, <1>4 DEF NumberOf
<1>12. t = << >> => NumberOf(t) = 0
  <2> HAVE t = << >>
  <2>1. n = 0 /\ 1 .. 0 = {}
    BY <1>3
  <2>2. QED BY <1>6, <1>11, <2>1
<1>13. QED BY <1>10, <1>11, <1>12

\* What is read as a number are digits.
LEMMA FiguresAre ==
    ASSUME NEW t \in Text, From(t) # 0
    PROVE  /\ From(t) \in 1 .. Len(t) /\ Visible(t[From(t)])
           /\ \A i \in 1 .. From(t) - 1 : ~Visible(t[i])
           /\ LET to == To(t, From(t))
                  end == IF to = 0 THEN Len(t) ELSE to - 1
              IN  /\ to = 0 \/ to \in From(t) .. Len(t)
                  /\ \A i \in From(t) .. end : IsDigit(t[i])
                  /\ to # 0 => ~IsDigit(t[to])
           /\ Figures(t, From(t)) \in Seq(Range(Digits))
<1>1. PICK L \in Nat : L = Len(t)
  BY TextDomain
<1> DEFINE I == {i \in 1 .. L : Visible(t[i])}
<1>2. PICK from : from = From(t)
  OBVIOUS
<1>3. from = FirstOf(I) /\ I \in SUBSET Nat
  BY <1>1, <1>2 DEF From
<1>4. I # {} /\ from \in I /\ \A i \in I : from <= i
  <2> HIDE DEF I
  <2>1. QED BY <1>2, <1>3, FirstOfIs
<1>5. from \in 1 .. L /\ Visible(t[from]) /\ \A i \in 1 .. from - 1 : ~Visible(t[i])
  <2>1. from \in 1 .. L /\ Visible(t[from])
    BY <1>4
  <2>2. ASSUME NEW i \in 1 .. from - 1 PROVE ~Visible(t[i])
    <3>1. i \in 1 .. L /\ ~(from <= i)
      BY <2>1
    <3>2. QED BY <1>4, <3>1
  <2>3. QED BY <2>1, <2>2
<1> HIDE DEF I
<1> DEFINE J == {i \in from .. L : ~IsDigit(t[i])}
<1>6. PICK to : to = To(t, from)
  OBVIOUS
<1>7. to = FirstOf(J) /\ J \in SUBSET Nat
  BY <1>1, <1>5, <1>6 DEF To
<1>8. PICK end : end = IF to = 0 THEN L ELSE to - 1
  OBVIOUS
<1>9. /\ to = 0 \/ to \in from .. L
      /\ \A i \in from .. end : IsDigit(t[i])
      /\ to # 0 => ~IsDigit(t[to])
      /\ end \in Int /\ end <= L
  <2>1. CASE J = {}
    <3>1. to = 0 /\ end = L
      BY <1>7, <1>8, <2>1, FirstOfIs
    <3>2. \A i \in from .. L : IsDigit(t[i])
      BY <2>1
    <3>3. QED BY <3>1, <3>2
  <2>2. CASE J # {}
    <3>1. to \in J /\ \A i \in J : to <= i
      <4> HIDE DEF J
      <4>1. QED BY <1>7, <2>2, FirstOfIs
    <3>2. to \in from .. L /\ ~IsDigit(t[to]) /\ to # 0 /\ to \in Nat
      BY <1>5, <3>1
    <3>3. end = to - 1
      BY <1>8, <3>2
    <3>4. ASSUME NEW i \in from .. end PROVE IsDigit(t[i])
      <4>1. i \in from .. L /\ ~(to <= i)
        BY <1>5, <3>2, <3>3
      <4>2. QED BY <3>1, <4>1
    <3>5. end \in Int /\ end <= L
      BY <3>2, <3>3
    <3>6. QED BY <3>2, <3>4, <3>5
  <2>3. QED BY <2>1, <2>2
<1>10. Figures(t, from) \in Seq(Range(Digits))
  <2>1. \A i \in from .. end : t[i] \in Range(Digits)
    BY <1>9 DEF IsDigit
  <2>2. from \in Int
    BY <1>5
  <2>3. SubSeq(t, from, end) \in Seq(Range(Digits))
    BY <1>9, <2>1, <2>2, SubSeqProperties
  <2>4. Figures(t, from) = SubSeq(t, from, end)
    BY <1>1, <1>6, <1>8 DEF Figures
  <2>5. QED BY <2>3, <2>4
<1>11. QED BY <1>1, <1>2, <1>5, <1>6, <1>8, <1>9, <1>10

LEMMA AtoiType ==
    ASSUME NEW t \in Text
    PROVE  Atoi(t) \in Nat
<1>1. From(t) # 0 => NumberOf(Figures(t, From(t))) \in Nat
  BY FiguresAre, NumberType
<1>2. QED BY <1>1, AtoiDef

LEMMA SemicolonEnds == ~IsDigit(Semicolon) /\ Visible(Semicolon)
<1>1. Range(Digits) = {"0", "1", "2", "3", "4", "5", "6", "7", "8", "9"}
  BY DEF Range, Digits
<1>2. ~IsDigit(Semicolon)
  BY <1>1, Zenon DEF IsDigit, Semicolon
<1>3. QED BY <1>2, Zenon DEF Visible, Semicolon

\* A semicolon ends a number.
LEMMA AtoiEnds ==
    ASSUME NEW t \in Text, NEW u \in Text, Len(u) = Len(t) + 1,
           \A i \in 1 .. Len(t) : u[i] = t[i], u[Len(u)] = Semicolon
    PROVE  Atoi(u) = Atoi(t)
<1>1. PICK L \in Nat : L = Len(t)
  BY TextDomain
<1>2. Len(u) = L + 1 /\ u[L + 1] = Semicolon /\ \A i \in 1 .. L : u[i] = t[i]
  BY <1>1
<1>3. ~IsDigit(u[L + 1]) /\ Visible(u[L + 1])
  BY <1>2, SemicolonEnds
<1>4. CASE From(t) # 0
  <2>1. PICK from : from = From(t)
    OBVIOUS
  <2>2. from \in 1 .. L /\ Visible(t[from]) /\ \A i \in 1 .. from - 1 : ~Visible(t[i])
    BY <1>1, <1>4, <2>1, FiguresAre
  <2>3. from = From(u)
    <3> DEFINE I == {i \in 1 .. L + 1 : Visible(u[i])}
    <3>1. from \in I
      BY <1>2, <2>2
    <3>2. \A i \in I : from <= i
      <4> TAKE i \in I
      <4>1. i \in 1 .. L + 1 /\ Visible(u[i])
        OBVIOUS
      <4>2. i \notin 1 .. from - 1
        BY <1>2, <2>2, <4>1
      <4>3. QED BY <2>2, <4>1, <4>2
    <3>3. I \in SUBSET Nat
      OBVIOUS
    <3>4. From(u) = FirstOf(I)
      BY <1>2 DEF From
    <3> HIDE DEF I
    <3>5. QED BY <3>1, <3>2, <3>3, <3>4, FirstOfGiven
  <2>4. PICK to : to = To(t, from)
    OBVIOUS
  <2>5. PICK end : end = IF to = 0 THEN L ELSE to - 1
    OBVIOUS
  <2>6. /\ to = 0 \/ to \in from .. L
        /\ \A i \in from .. end : IsDigit(t[i])
        /\ to # 0 => ~IsDigit(t[to])
    BY <1>1, <1>4, <2>1, <2>4, <2>5, FiguresAre
  <2>7. end \in Nat /\ end <= L /\ ~IsDigit(u[end + 1])
    <3>1. CASE to = 0
      BY <1>3, <2>5, <3>1
    <3>2. CASE to # 0
      <4>1. to \in from .. L /\ to \in 1 .. L /\ end = to - 1 /\ end + 1 = to
        BY <2>2, <2>5, <2>6, <3>2
      <4>2. QED BY <1>2, <2>6, <3>2, <4>1
    <3>3. QED BY <3>1, <3>2
  <2>8. To(u, from) = end + 1
    <3> DEFINE J == {i \in from .. L + 1 : ~IsDigit(u[i])}
    <3>1. end + 1 \in J
      <4>1. from <= end + 1
        BY <2>2, <2>5, <2>6
      <4>2. QED BY <2>2, <2>7, <4>1
    <3>2. \A i \in J : end + 1 <= i
      <4> TAKE i \in J
      <4>1. i \in from .. L + 1 /\ ~IsDigit(u[i])
        OBVIOUS
      <4>2. ~(i <= end)
        <5> SUFFICES ASSUME i <= end PROVE FALSE
          OBVIOUS
        <5>1. i \in from .. end /\ i \in 1 .. L
          BY <2>2, <2>7, <4>1
        <5>2. QED BY <1>2, <2>6, <4>1, <5>1
      <4>3. QED BY <2>2, <2>7, <4>1, <4>2
    <3>3. J \in SUBSET Nat
      BY <2>2
    <3>4. To(u, from) = FirstOf(J)
      BY <1>2 DEF To
    <3> HIDE DEF J
    <3>5. QED BY <3>1, <3>2, <3>3, <3>4, FirstOfGiven
  <2>9. Figures(u, from) = SubSeq(u, from, end) /\ Figures(t, from) = SubSeq(t, from, end)
    <3>1. end + 1 # 0 /\ (end + 1) - 1 = end
      BY <2>7
    <3>2. Figures(u, from) = SubSeq(u, from, end)
      <4>1. PICK k : k = end + 1
        OBVIOUS
      <4>2. To(u, from) = k
        BY <2>8, <4>1, Zenon
      <4>3. k # 0
        BY <3>1, <4>1, Zenon
      <4>4. k - 1 = end
        BY <3>1, <4>1, Zenon
      <4>5. QED BY <4>2, <4>3, <4>4, Zenon DEF Figures
    <3>3. Figures(t, from) = SubSeq(t, from, end)
      BY <1>1, <2>4, <2>5 DEF Figures
    <3>4. QED BY <3>2, <3>3
  <2>10. SubSeq(u, from, end) = SubSeq(t, from, end)
    <3>1. \A i \in from .. end : u[i] = t[i]
      BY <1>2, <2>2, <2>7
    <3>2. from \in Int /\ end \in Int
      BY <2>2, <2>7
    <3>3. QED BY <3>1, <3>2
  <2>11. QED BY <1>4, <2>1, <2>2, <2>3, <2>9, <2>10, AtoiDef, Zenon
<1>5. CASE From(t) = 0
  <2>1. \A i \in 1 .. L : ~Visible(t[i])
    <3> DEFINE I == {i \in 1 .. L : Visible(t[i])}
    <3>1. From(t) = FirstOf(I) /\ I \in SUBSET Nat /\ 0 \notin I
      BY <1>1 DEF From
    <3>2. I = {}
      <4> HIDE DEF I
      <4>1. QED BY <1>5, <3>1, FirstOfIs
    <3>3. QED BY <3>2
  <2>2. From(u) = L + 1
    <3> DEFINE I == {i \in 1 .. L + 1 : Visible(u[i])}
    <3>1. L + 1 \in I /\ I \in SUBSET Nat
      BY <1>3
    <3>2. \A i \in I : L + 1 <= i
      <4> TAKE i \in I
      <4>1. i \notin 1 .. L /\ i \in 1 .. L + 1
        BY <1>2, <2>1
      <4>2. QED BY <4>1
    <3>3. From(u) = FirstOf(I)
      BY <1>2 DEF From
    <3> HIDE DEF I
    <3>4. QED BY <3>1, <3>2, <3>3, FirstOfGiven
  <2>3. To(u, L + 1) = L + 1
    <3> DEFINE J == {i \in L + 1 .. L + 1 : ~IsDigit(u[i])}
    <3>1. L + 1 \in J /\ J \in SUBSET Nat /\ \A i \in J : L + 1 <= i
      BY <1>3
    <3>2. To(u, L + 1) = FirstOf(J)
      BY <1>2 DEF To
    <3> HIDE DEF J
    <3>3. QED BY <3>1, <3>2, FirstOfGiven
  <2>4. Figures(u, L + 1) = << >>
    <3>1. L + 1 # 0 /\ L + 1 - 1 = L /\ L < L + 1 /\ L \in Int /\ L + 1 \in Int
      OBVIOUS
    <3>2. Figures(u, L + 1) = SubSeq(u, L + 1, L)
      BY <2>3, <3>1 DEF Figures
    <3>3. QED BY <3>1, <3>2, SubSeqEmpty
  <2>5. NumberOf(<< >>) = 0
    BY NumberType, EmptySeq
  <2>6. L + 1 # 0
    OBVIOUS
  <2>7. QED BY <1>5, <2>2, <2>4, <2>5, <2>6, AtoiDef, Zenon
<1>6. QED BY <1>4, <1>5

------------------------------------------------------------------------------
(***************************************************************************)
(* Requests: a message is split into its lines, and the first of them      *)
(* into its words.                                                         *)
(***************************************************************************)

Ends == {CarriageReturn, NewLine}
Blanks == {Space}

LEMMA EndsAre ==
    /\ Ends = LineEnds /\ Ends = {"\r", "\n"} /\ Blanks = {" "}
    /\ Crlf = <<CarriageReturn, NewLine>> /\ Crlf \in Text /\ Len(Crlf) = 2
    /\ Crlf[1] = CarriageReturn /\ Crlf[2] = NewLine /\ Only(Crlf, Ends)
    /\ Crlf # << >>
<1>1. Ends = LineEnds /\ Ends = {"\r", "\n"} /\ Blanks = {" "}
      /\ Crlf = <<CarriageReturn, NewLine>>
  BY Zenon DEF Ends, Blanks, LineEnds, CarriageReturn, NewLine, Space, Crlf
<1>2. \A S : \A a, b \in S : /\ <<a, b>> \in Seq(S) /\ Len(<<a, b>>) = 2
                             /\ <<a, b>>[1] = a /\ <<a, b>>[2] = b /\ <<a, b>> # << >>
  OBVIOUS
<1>3. CarriageReturn \in Symbol /\ NewLine \in Symbol
  BY SymbolsAre
<1>4. /\ Crlf \in Text /\ Len(Crlf) = 2
      /\ Crlf[1] = CarriageReturn /\ Crlf[2] = NewLine /\ Crlf # << >>
  BY <1>1, <1>2, <1>3, Zenon DEF Text
<1>5. Only(Crlf, Ends)
  <2>1. \A i \in 1 .. 2 : i = 1 \/ i = 2
    OBVIOUS
  <2>2. CarriageReturn \in Ends /\ NewLine \in Ends
    BY DEF Ends
  <2>3. QED BY <1>4, <2>1, <2>2, Zenon DEF Only
<1>6. QED BY <1>1, <1>4, <1>5

Word(t) == t \in Text /\ Without(t, Ends) /\ Without(t, Blanks)

LEMMA MessageIs ==
    ASSUME NEW m \in Messages
    PROVE  /\ m.before \in Text /\ m.body \in Text /\ m.headers \in Seq(Text)
           /\ m.gap \in Text /\ m.gap # << >> /\ Only(m.gap, Blanks) /\ Without(m.gap, Ends)
           /\ Word(m.method) /\ Word(m.uri) /\ Word(m.version)
           /\ m.before # << >> => m.before[1] \in Ends
<1>1. IsMessage(m)
  BY MessageAssumption
<1>2. Seq(STRING) \subseteq Text
  BY SeqMonotonic DEF Symbol, Text
<1>3. Seq(Seq(STRING)) \subseteq Seq(Text)
  BY <1>2, SeqMonotonic
<1> DEFINE S == Seq(STRING)
           SS == Seq(S)
<1>4. /\ m.before \in S /\ m.method \in S /\ m.gap \in S /\ m.uri \in S
      /\ m.version \in S /\ m.headers \in SS /\ m.body \in S
  <2>1. m \in [before : S, method : S, gap : S, uri : S, version : S, headers : SS, body : S]
    BY <1>1 DEF IsMessage
  <2> HIDE DEF S, SS
  <2>2. QED BY <2>1
<1>5. /\ m.before \in Text /\ m.method \in Text /\ m.gap \in Text /\ m.uri \in Text
      /\ m.version \in Text /\ m.headers \in Seq(Text) /\ m.body \in Text
  BY <1>2, <1>3, <1>4
<1>6. ASSUME NEW t \in Text, NEW D, Range(t) \cap D = {}
      PROVE  Without(t, D)
  <2>1. ASSUME NEW i \in 1 .. Len(t) PROVE t[i] \notin D
    <3>1. i \in DOMAIN t
      BY TextDomain
    <3>2. t[i] \in Range(t)
      BY <3>1 DEF Range
    <3>3. QED BY <1>6, <3>2
  <2>2. QED BY <2>1 DEF Without
<1>7. ASSUME NEW t \in {m.method, m.uri, m.version}
      PROVE  Word(t)
  <2>1. t \in Text /\ Range(t) \cap (LineEnds \cup {" "}) = {}
    BY <1>1, <1>5, <1>7 DEF IsMessage
  <2>2. Range(t) \cap (Ends \cup Blanks) = {}
    BY <2>1, EndsAre, Zenon
  <2>3. Range(t) \cap Ends = {} /\ Range(t) \cap Blanks = {}
    BY <2>2
  <2>4. QED BY <1>6, <2>1, <2>3 DEF Word
<1>8. Only(m.gap, Blanks) /\ Without(m.gap, Ends)
  <2>1. Range(m.gap) = Blanks
    BY <1>1, EndsAre, Zenon DEF IsMessage
  <2>2. PICK t \in Text : t = m.gap
    BY <1>5
  <2>3. \A i \in 1 .. Len(t) : t[i] \in Blanks
    <3> TAKE i \in 1 .. Len(t)
    <3>1. i \in DOMAIN t
      BY TextDomain
    <3>2. t[i] \in Range(t)
      BY <3>1 DEF Range
    <3>3. QED BY <2>1, <2>2, <3>2
  <2>4. Space \notin Ends
    BY Zenon DEF Ends, Space, CarriageReturn, NewLine
  <2>5. \A i \in 1 .. Len(t) : t[i] \notin Ends
    BY <2>3, <2>4 DEF Blanks
  <2>6. QED BY <2>2, <2>3, <2>5 DEF Only, Without
<1>9. m.gap # << >> /\ (m.before # << >> => m.before[1] \in Ends)
  BY <1>1, EndsAre, Zenon DEF IsMessage
<1>10. QED BY <1>5, <1>7, <1>8, <1>9

\* An empty line, and what comes behind it.
LEMMA EmptyLine ==
    ASSUME NEW a \in Text, NEW b \in Text
    PROVE  LET t == a \o Crlf \o Crlf \o b
           IN  /\ t \in Text
               /\ Has(t, <<"\r", "\n", "\r", "\n">>) /\ Has(t, <<"\n">>)
<1>1. PICK c, d, t : c = a \o Crlf /\ d = c \o Crlf /\ t = d \o b
  OBVIOUS
<1>2. IsJoin(c, a, Crlf) /\ IsJoin(d, c, Crlf) /\ IsJoin(t, d, b)
  <2>1. Crlf \in Text
    BY EndsAre
  <2>2. \A u, v \in Text : IsJoin(u \o v, u, v) /\ u \o v \in Text
    BY JoinIs DEF IsJoin
  <2>3. c \in Text
    BY <1>1, <2>1, <2>2
  <2>4. d \in Text
    BY <1>1, <2>1, <2>2, <2>3
  <2>5. QED BY <1>1, <2>1, <2>2, <2>3, <2>4
<1>3. PICK n, k \in Nat : n = Len(a) /\ k = Len(b)
  BY TextDomain
<1>4. /\ Len(c) = n + 2 /\ Len(d) = (n + 2) + 2 /\ Len(t) = ((n + 2) + 2) + k
      /\ t \in Text
  BY <1>2, <1>3, EndsAre DEF IsJoin
<1>5. \A i \in 1 .. (n + 2) + 2 : t[i] = d[i]
  BY <1>2, <1>4 DEF IsJoin
<1>6. \A i \in 1 .. n + 2 : d[i] = c[i]
  BY <1>2, <1>4 DEF IsJoin
<1>7. \A j \in 1 .. 2 : c[n + j] = Crlf[j] /\ d[(n + 2) + j] = Crlf[j]
  BY <1>2, <1>3, <1>4, EndsAre DEF IsJoin
<1>8. /\ t[n + 1] = Crlf[1] /\ t[n + 2] = Crlf[2]
      /\ t[(n + 2) + 1] = Crlf[1] /\ t[(n + 2) + 2] = Crlf[2]
  <2>1. /\ n + 1 \in 1 .. (n + 2) + 2 /\ n + 2 \in 1 .. (n + 2) + 2
        /\ (n + 2) + 1 \in 1 .. (n + 2) + 2 /\ (n + 2) + 2 \in 1 .. (n + 2) + 2
        /\ n + 1 \in 1 .. n + 2 /\ n + 2 \in 1 .. n + 2 /\ 1 \in 1 .. 2 /\ 2 \in 1 .. 2
    OBVIOUS
  <2>2. QED BY <1>5, <1>6, <1>7, <2>1
<1> DEFINE P == <<CarriageReturn, NewLine, CarriageReturn, NewLine>>
<1>9. /\ P \in Text /\ Len(P) = 4
      /\ P[1] = CarriageReturn /\ P[2] = NewLine /\ P[3] = CarriageReturn /\ P[4] = NewLine
  <2>1. \A S : \A x, y \in S :
           /\ <<x, y, x, y>> \in Seq(S) /\ Len(<<x, y, x, y>>) = 4
           /\ <<x, y, x, y>>[1] = x /\ <<x, y, x, y>>[2] = y
           /\ <<x, y, x, y>>[3] = x /\ <<x, y, x, y>>[4] = y
    OBVIOUS
  <2>2. QED BY <2>1, SymbolsAre, Zenon DEF Text
<1>10. P = <<"\r", "\n", "\r", "\n">>
  BY Zenon DEF CarriageReturn, NewLine
<1> HIDE DEF P
<1>11. SubSeq(t, n + 1, (n + 1) + 4 - 1) = P
  <2>1. /\ n + 1 \in Int /\ (n + 1) + 4 - 1 \in Int
        /\ (IF n + 1 <= (n + 1) + 4 - 1 THEN ((n + 1) + 4 - 1) - (n + 1) + 1 ELSE 0) = 4
        /\ ((n + 1) + 4 - 1) - (n + 1) + 1 = 4
        /\ \A i \in n + 1 .. (n + 1) + 4 - 1 : i \in 1 .. Len(t)
    BY <1>4
  <2>2. \A i \in n + 1 .. (n + 1) + 4 - 1 : t[i] \in Symbol
    BY <1>4, <2>1, TextSymbols
  <2>3. PICK u : u = SubSeq(t, n + 1, (n + 1) + 4 - 1)
    OBVIOUS
  <2>4. u \in Seq(Symbol) /\ Len(u) = 4 /\ \A i \in 1 .. 4 : u[i] = t[(n + 1) + i - 1]
    BY <2>1, <2>2, <2>3, SubSeqProperties
  <2>5. /\ 1 \in 1 .. 4 /\ 2 \in 1 .. 4 /\ 3 \in 1 .. 4 /\ 4 \in 1 .. 4
        /\ (n + 1) + 1 - 1 = n + 1 /\ (n + 1) + 2 - 1 = n + 2
        /\ (n + 1) + 3 - 1 = (n + 2) + 1 /\ (n + 1) + 4 - 1 = (n + 2) + 2
    OBVIOUS
  <2>6. u[1] = P[1] /\ u[2] = P[2] /\ u[3] = P[3] /\ u[4] = P[4]
    BY <1>8, <1>9, <2>4, <2>5, EndsAre
  <2>7. \A i \in 1 .. 4 : i = 1 \/ i = 2 \/ i = 3 \/ i = 4
    OBVIOUS
  <2>8. \A i \in 1 .. 4 : u[i] = P[i]
    BY <2>6, <2>7
  <2>9. P \in Seq(Symbol)
    BY <1>9 DEF Text
  <2>10. QED BY <1>9, <2>3, <2>4, <2>8, <2>9, SeqEqual
<1>12. Has(t, P)
  <2>1. n + 1 \in DOMAIN t
    BY <1>4, TextDomain
  <2>2. (n + 1) + Len(P) <= Len(t) + 1
    BY <1>4, <1>9
  <2>3. IsAt(t, n + 1, P)
    BY <1>9, <1>11, <2>2 DEF IsAt
  <2>4. QED BY <2>1, <2>3 DEF Has
<1>13. Has(t, <<NewLine>>)
  <2>1. n + 2 \in 1 .. Len(t)
    BY <1>4
  <2>2. t[n + 2] = NewLine
    BY <1>8, EndsAre
  <2>3. ~Lacks(t, NewLine)
    BY <2>1, <2>2 DEF Lacks
  <2>4. QED BY <1>4, <2>3, HasNone
<1>14. Has(t, <<"\r", "\n", "\r", "\n">>) /\ Has(t, <<"\n">>)
  BY <1>10, <1>12, <1>13, Zenon DEF NewLine
<1>15. QED BY <1>1, <1>4, <1>14

\* The first token of a text that begins with a delimiter is empty.
LEMMA EmptyFirst ==
    ASSUME NEW D, NEW t \in Text, t # << >>, t[1] \in D
    PROVE  Split(t, D)[1] = << >>
<1>1. PICK s \in Symbol, u \in Text : t = <<s>> \o u /\ s = t[1]
  <2>1. t \in Seq(Symbol) /\ Len(t) \in Nat \ {0}
    BY EmptySeq DEF Text
  <2>2. SubSeq(t, 1, Len(t)) = <<t[1]>> \o SubSeq(t, 1 + 1, Len(t)) /\ SubSeq(t, 1, Len(t)) = t
    <3>1. 1 \in 1 .. Len(t) /\ Len(t) \in 1 .. Len(t)
      BY <2>1
    <3>2. QED BY <2>1, <3>1, SubSeqRecursiveFirst, SubSeqFull
  <2>3. SubSeq(t, 1 + 1, Len(t)) \in Text
    <3>1. 1 \in Nat /\ 1 <= Len(t)
      BY <2>1
    <3>2. QED BY <2>1, <3>1, SuffixIs DEF Text
  <2>4. t[1] \in Symbol
    <3>1. 1 \in 1 .. Len(t)
      BY <2>1
    <3>2. QED BY <3>1, TextSymbols
  <2>5. QED BY <2>2, <2>3, <2>4
<1>2. PICK z : z = Split(t, D)
  OBVIOUS
<1>3. Runs(D, << << >> >>, <<s>> \o u, z)
  BY <1>1, <1>2, SplitRuns
<1>4. <<s>> \in Text /\ Len(<<s>>) = 1 /\ <<s>>[1] = s
  BY OneSymbol
<1>5. PICK y : Runs(D, << << >> >>, <<s>>, y) /\ Runs(D, y, u, z)
  BY <1>1, <1>3, <1>4, RunsApart
<1>6. << << >> >> \in Tokens /\ << >> \in Text /\ << << >> >> \in Seq(Text)
      /\ Len(<< << >> >>) = 1 /\ << << >> >>[1] = << >>
  BY StartIs, LacksNothing, Single
<1>7. y = Append(<< << >> >>, << >>)
  <2>1. <<s>> # << >>
    BY <1>4
  <2>2. \A i \in 1 .. 1 : i = 1
    OBVIOUS
  <2>3. Only(<<s>>, D)
    BY <1>1, <1>4, <2>2 DEF Only
  <2>4. Runs(D, << << >> >>, <<s>>,
             IF Len(<< << >> >>) > 1 /\ Last(<< << >> >>) = << >> THEN << << >> >>
             ELSE Append(<< << >> >>, << >>))
    BY <1>4, <1>6, <2>1, <2>3, BlankRuns
  <2>5. Runs(D, << << >> >>, <<s>>, Append(<< << >> >>, << >>))
    BY <1>6, <2>4
  <2>6. QED BY <1>4, <1>5, <2>5, RunsSame
<1>8. Len(y) = 2 /\ y[1] = << >>
  <2>1. 1 \in 1 .. 1
    OBVIOUS
  <2>2. QED BY <1>6, <1>7, <2>1, AppendProperties
<1>9. z[1] = y[1]
  <2>1. 1 \in 1 .. Len(y) - 1
    BY <1>8
  <2>2. QED BY <1>1, <1>5, <2>1, FrozenRuns
<1>10. QED BY <1>2, <1>8, <1>9

Line(m) == m.before \o m.method \o m.gap \o m.uri \o <<Space>> \o m.version
Heads(m) == FlattenSeq([i \in DOMAIN m.headers |-> m.headers[i] \o Crlf])

\* The parts of a request line.
LEMMA LineSplit ==
    ASSUME NEW m \in Messages, m.before = << >>
    PROVE  /\ Line(m) \in Text /\ Without(Line(m), Ends)
           /\ LET part == Split(Line(m), Blanks)
              IN  /\ m.uri # << >> => /\ Len(part) = 3 /\ part[1] = m.method
                                      /\ part[2] = m.uri /\ part[3] = m.version
                  /\ m.uri = << >> => Len(part) = 2
<1>1. PICK w, g, u, v \in Text :
         w = m.method /\ g = m.gap /\ u = m.uri /\ v = m.version
  BY MessageIs DEF Word
<1>2. /\ Without(w, Blanks) /\ Without(u, Blanks) /\ Without(v, Blanks)
      /\ Without(w, Ends) /\ Without(u, Ends) /\ Without(v, Ends) /\ Without(g, Ends)
      /\ g # << >> /\ Only(g, Blanks)
  BY <1>1, MessageIs DEF Word
<1>3. PICK b : b = <<Space>>
  OBVIOUS
<1>4. b \in Text /\ b # << >> /\ Only(b, Blanks) /\ Without(b, Ends)
  <2>1. b \in Text /\ Len(b) = 1 /\ b[1] = Space
    BY <1>3, SymbolsAre, OneSymbol
  <2>2. Space \in Blanks
    BY DEF Blanks
  <2>3. Space \notin Ends
    BY Zenon DEF Ends, Space, CarriageReturn, NewLine
  <2>4. \A i \in 1 .. 1 : i = 1
    OBVIOUS
  <2>5. QED BY <2>1, <2>2, <2>3, <2>4 DEF Only, Without
<1>5. Line(m) = w \o g \o u \o b \o v
  <2>1. w \in Seq(Symbol)
    BY DEF Text
  <2>2. << >> \o w = w
    BY <2>1, ConcatEmptySeq
  <2>3. QED BY <1>1, <1>3, <2>2 DEF Line
<1>6. PICK t2, t3, t4, t5 : t2 = w \o g /\ t3 = t2 \o u /\ t4 = t3 \o b /\ t5 = t4 \o v
  OBVIOUS
<1>7. t2 \in Text /\ Without(t2, Ends)
  BY <1>2, <1>6, FreeJoin
<1>8. t3 \in Text /\ Without(t3, Ends)
  BY <1>2, <1>6, <1>7, FreeJoin
<1>9. t4 \in Text /\ Without(t4, Ends)
  BY <1>4, <1>6, <1>8, FreeJoin
<1>10. t5 \in Text /\ Without(t5, Ends) /\ Line(m) = t5
  BY <1>2, <1>5, <1>6, <1>9, FreeJoin
<1>11. PICK f : f = <<w>>
  OBVIOUS
<1>12. f \in Seq(Text) /\ Len(f) = 1 /\ f[1] = w /\ f \in Tokens
  <2>1. f \in Seq(Text) /\ Len(f) = 1 /\ f[1] = w
    BY <1>11, Single
  <2>2. f # << >>
    BY <1>11, NotEmpty
  <2>3. QED BY <2>1, <2>2 DEF Tokens
<1>13. << >> \in Text
  BY LacksNothing
<1>14. Runs(Blanks, << << >> >>, w, f)
  BY <1>2, <1>11, FirstWord
<1>15. Runs(Blanks, f, g, Append(f, << >>))
  <2>1. ~(Len(f) > 1)
    BY <1>12
  <2>2. QED BY <1>2, <1>12, <2>1, BlankRuns
<1>16. Runs(Blanks, Append(f, << >>), u, Append(f, u))
  BY <1>2, <1>12, NextWord
<1>17. Runs(Blanks, << << >> >>, t3, Append(f, u))
  <2>1. Runs(Blanks, << << >> >>, t2, Append(f, << >>))
    BY <1>6, <1>14, <1>15, RunsJoin
  <2>2. QED BY <1>6, <1>7, <1>16, <2>1, RunsJoin
<1>18. /\ Append(f, u) \in Tokens /\ Append(f, u) \in Seq(Text)
       /\ Len(Append(f, u)) = 2 /\ Last(Append(f, u)) = u
       /\ Append(f, u)[1] = w /\ Append(f, u)[2] = u
  <2>1. Append(f, u) \in Tokens /\ Last(Append(f, u)) = u
    BY <1>12, PutIs
  <2>2. /\ Len(Append(f, u)) = Len(f) + 1 /\ Append(f, u)[Len(f) + 1] = u
        /\ \A i \in 1 .. Len(f) : Append(f, u)[i] = f[i]
    BY <1>12, AppendIs
  <2>3. Len(Append(f, u)) = 2 /\ Append(f, u)[1] = w /\ Append(f, u)[2] = u
    BY <1>12, <2>2
  <2>4. QED BY <2>1, <2>3 DEF Tokens
<1>19. PICK x : x = Append(f, u)
  OBVIOUS
<1>20. ASSUME u # << >>
       PROVE  LET part == Split(Line(m), Blanks)
              IN  Len(part) = 3 /\ part[1] = w /\ part[2] = u /\ part[3] = v
  <2>1. Runs(Blanks, x, b, Append(x, << >>))
    <3>1. ~(Len(x) > 1 /\ Last(x) = << >>)
      BY <1>18, <1>19, <1>20
    <3>2. QED BY <1>4, <1>18, <1>19, <3>1, BlankRuns
  <2>2. Runs(Blanks, Append(x, << >>), v, Append(x, v))
    BY <1>2, <1>18, <1>19, NextWord
  <2>3. Runs(Blanks, << << >> >>, t4, Append(x, << >>))
    BY <1>4, <1>6, <1>8, <1>17, <1>19, <2>1, RunsJoin
  <2>4. Runs(Blanks, << << >> >>, t5, Append(x, v))
    BY <1>6, <1>9, <2>2, <2>3, RunsJoin
  <2>5. Split(Line(m), Blanks) = Append(x, v)
    BY <1>10, <2>4, SplitIs
  <2>6. /\ Len(Append(x, v)) = 3 /\ Append(x, v)[1] = w /\ Append(x, v)[2] = u
        /\ Append(x, v)[3] = v
    <3>1. x \in Seq(Text) /\ Len(x) = 2 /\ x[1] = w /\ x[2] = u
      BY <1>18, <1>19
    <3>2. /\ Len(Append(x, v)) = Len(x) + 1 /\ Append(x, v)[Len(x) + 1] = v
          /\ \A i \in 1 .. Len(x) : Append(x, v)[i] = x[i]
      BY <3>1, AppendIs
    <3>3. QED BY <3>1, <3>2
  <2>7. QED BY <2>5, <2>6
<1>21. ASSUME u = << >>
       PROVE  Len(Split(Line(m), Blanks)) = 2
  <2>1. Runs(Blanks, x, b, x)
    <3>1. Len(x) > 1 /\ Last(x) = << >>
      BY <1>18, <1>19, <1>21
    <3>2. QED BY <1>4, <1>18, <1>19, <3>1, BlankRuns
  <2>2. Runs(Blanks, Append(f, << >>), v, Append(f, v))
    BY <1>2, <1>12, NextWord
  <2>3. Runs(Blanks, << << >> >>, t4, x)
    BY <1>4, <1>6, <1>8, <1>17, <1>19, <2>1, RunsJoin
  <2>4. Runs(Blanks, << << >> >>, t5, Append(f, v))
    BY <1>6, <1>9, <1>19, <1>21, <2>2, <2>3, RunsJoin
  <2>5. Split(Line(m), Blanks) = Append(f, v)
    BY <1>10, <2>4, SplitIs
  <2>6. Len(Append(f, v)) = Len(f) + 1
    BY <1>12, PutIs
  <2>7. QED BY <1>12, <2>5, <2>6
<1>22. QED BY <1>1, <1>10, <1>20, <1>21

LEMMA RawIs ==
    ASSUME NEW m \in Messages
    PROVE  /\ Line(m) \in Text /\ Heads(m) \in Text
           /\ Line(m) \o Crlf \o Heads(m) \o Crlf \in Text
           /\ Raw(m) = Line(m) \o Crlf \o Heads(m) \o Crlf \o m.body
           /\ Raw(m) \in Text /\ LinesOf(Raw(m)) = Split(Raw(m), Ends)
           /\ Has(Raw(m), <<"\n">>)
           /\ m.before # << >> => Raw(m) # << >> /\ Raw(m)[1] = m.before[1]
<1>1. \A s, t \in Text : s \o t \in Text
  BY JoinIs DEF IsJoin
<1>2. /\ m.before \in Text /\ m.method \in Text /\ m.gap \in Text /\ m.uri \in Text
      /\ m.version \in Text /\ m.headers \in Seq(Text) /\ m.body \in Text
  BY MessageIs DEF Word
<1>3. Crlf \in Text /\ <<Space>> \in Text
  BY EndsAre, MarksAreTexts
<1>4. Line(m) \in Text
  BY <1>1, <1>2, <1>3 DEF Line
<1>5. PICK hs : hs = m.headers
  OBVIOUS
<1>6. PICK n \in Nat : n = Len(hs)
  BY <1>2, <1>5, LenProperties
<1> DEFINE E(i) == hs[i] \o Crlf
<1>7. PICK ss : ss = [i \in DOMAIN hs |-> E(i)]
  OBVIOUS
<1>8. \A i \in 1 .. n : hs[i] \in Text
  BY <1>2, <1>5, <1>6, ElementOfSeq
<1>9. \A i \in 1 .. n : E(i) \in Text
  BY <1>1, <1>3, <1>8
<1>10. DOMAIN hs = 1 .. n
  BY <1>2, <1>5, <1>6, LenProperties
<1>11. ss \in Seq(Text) /\ Len(ss) = n /\ \A i \in 1 .. n : ss[i] = E(i)
  <2> HIDE DEF E
  <2>1. ss = [i \in 1 .. n |-> E(i)]
    BY <1>7, <1>10
  <2>2. QED BY <1>9, <2>1
<1>12. Heads(m) = FlattenSeq(ss)
  BY <1>5, <1>7 DEF Heads
<1>13. ss \in Seq(Seq(Symbol))
  BY <1>11 DEF Text
<1>14. Heads(m) \in Text
  BY <1>12, <1>13, FlattenType DEF Text
<1>15. PICK h : Partial(Symbol, ss, h)
  BY <1>13, PartialExists
<1>16. /\ h \in [0 .. n -> Text] /\ h[0] = << >> /\ h[n] = Heads(m)
       /\ \A i \in 1 .. n : h[i] = h[i - 1] \o ss[i]
  BY <1>11, <1>12, <1>15 DEF Partial, Text
<1>17. PICK x : x = Line(m) \o Crlf \o Heads(m)
  OBVIOUS
<1>18. \E a \in Text : x = a \o Crlf
  <2>1. CASE n = 0
    <3>1. Line(m) \o Crlf \in Seq(Symbol)
      BY <1>1, <1>3, <1>4 DEF Text
    <3>2. x = Line(m) \o Crlf
      BY <1>16, <1>17, <2>1, <3>1, ConcatEmptySeq
    <3>3. QED BY <1>4, <3>2
  <2>2. CASE n # 0
    <3>1. n \in 1 .. n /\ n - 1 \in 0 .. n
      BY <2>2
    <3>2. PICK p \in Text : p = h[n - 1]
      BY <1>16, <3>1
    <3>3. PICK q \in Text : q = hs[n]
      BY <1>8, <3>1
    <3>4. Heads(m) = p \o (q \o Crlf)
      BY <1>11, <1>16, <3>1, <3>2, <3>3
    <3>5. PICK y \in Text : y = Line(m) \o Crlf
      BY <1>1, <1>3, <1>4
    <3>6. /\ y \in Seq(Symbol) /\ p \in Seq(Symbol) /\ q \in Seq(Symbol)
          /\ Crlf \in Seq(Symbol) /\ y \o p \in Seq(Symbol) /\ y \o p \in Text
          /\ (y \o p) \o q \in Text /\ q \o Crlf \in Seq(Symbol)
      BY <1>1, <1>3 DEF Text
    <3>7. y \o (p \o (q \o Crlf)) = (y \o p) \o (q \o Crlf)
      <4>1. q \o Crlf \in Text
        BY <1>1, <1>3
      <4>2. QED BY <4>1, JoinsAssociate, Zenon
    <3>8. (y \o p) \o (q \o Crlf) = ((y \o p) \o q) \o Crlf
      <4>1. y \o p \in Text
        BY <3>6
      <4>2. QED BY <1>3, <4>1, JoinsAssociate, Zenon
    <3>9. QED BY <1>17, <3>4, <3>5, <3>6, <3>7, <3>8
  <2>3. QED BY <2>1, <2>2
<1>19. PICK a \in Text : x = a \o Crlf
  BY <1>18
<1>20. Raw(m) = Line(m) \o Crlf \o Heads(m) \o Crlf \o m.body
  BY Zenon DEF Raw, Line, Heads, Space
<1>21. Raw(m) = a \o Crlf \o Crlf \o m.body
  BY <1>17, <1>19, <1>20
<1>22. /\ Raw(m) \in Text /\ Has(Raw(m), <<"\n">>)
       /\ Has(Raw(m), <<"\r", "\n", "\r", "\n">>)
  BY <1>2, <1>21, EmptyLine, Zenon
<1>23. LinesOf(Raw(m)) = Split(Raw(m), Ends)
  BY <1>22, EndsAre, Zenon DEF LinesOf
<1>24. x \o Crlf \in Text
  BY <1>1, <1>3, <1>19
<1>25. ASSUME m.before # << >> PROVE Raw(m) # << >> /\ Raw(m)[1] = m.before[1]
  <2>1. ASSUME NEW s \in Text, NEW t \in Text, s # << >>
        PROVE  s \o t \in Text /\ s \o t # << >> /\ (s \o t)[1] = s[1]
    <3>1. IsJoin(s \o t, s, t)
      BY JoinIs
    <3>2. Len(s) \in Nat \ {0}
      BY <2>1, EmptySeq DEF Text
    <3>3. 1 \in 1 .. Len(s)
      BY <3>2
    <3>4. (s \o t)[1] = s[1] /\ s \o t \in Text
      BY <3>1, <3>3 DEF IsJoin
    <3>5. s \o t # << >>
      <4>1. s \in Seq(Symbol) /\ t \in Seq(Symbol)
        BY DEF Text
      <4>2. QED BY <2>1, <4>1, ConcatEqualIffEmpty
    <3>6. QED BY <3>4, <3>5
  <2> DEFINE Begins(t) == t \in Text /\ t # << >> /\ t[1] = m.before[1]
  <2>2. \A s, t \in Text : Begins(s) => Begins(s \o t)
    BY <2>1
  <2>3. \A s, t \in Text : Begins(s) => s \o t \in Text /\ Begins(s \o t)
    BY <1>1, <2>2
  <2>4. Begins(m.before)
    BY <1>2, <1>25
  <2>5. \A s : Begins(s) => s \in Text
    OBVIOUS
  <2> HIDE DEF Begins
  <2>6. \A s : \A t \in Text : Begins(s) => Begins(s \o t)
    BY <2>3, <2>5
  <2>7. Begins(m.before \o m.method)
    BY <1>2, <2>4, <2>6
  <2>8. Begins(m.before \o m.method \o m.gap)
    BY <1>2, <2>6, <2>7
  <2>9. Begins(m.before \o m.method \o m.gap \o m.uri)
    BY <1>2, <2>6, <2>8
  <2>10. Begins(m.before \o m.method \o m.gap \o m.uri \o <<Space>>)
    BY <1>3, <2>6, <2>9
  <2>11. Begins(Line(m))
    BY <1>2, <2>6, <2>10 DEF Line
  <2>12. Begins(Line(m) \o Crlf \o Heads(m))
    BY <1>3, <1>14, <2>6, <2>11
  <2>14. Begins(Raw(m))
    BY <1>2, <1>3, <1>20, <2>6, <2>12
  <2>13. QED BY <2>14 DEF Begins
<1>26. QED BY <1>4, <1>14, <1>17, <1>20, <1>22, <1>23, <1>24, <1>25

\* The lines of a message that begins with its request line.
LEMMA LinesAre ==
    ASSUME NEW m \in Messages, m.before = << >>
    PROVE  LET lines == LinesOf(Raw(m))
           IN  /\ lines[1] = Line(m)
               /\ Without(m.body, Ends) => Last(lines) = m.body
<1>1. PICK line, heads, body \in Text :
         line = Line(m) /\ heads = Heads(m) /\ body = m.body
  BY RawIs, MessageIs
<1>2. Without(line, Ends)
  BY <1>1, LineSplit
<1>3. PICK z : z = Split(Raw(m), Ends)
  OBVIOUS
<1>4. Crlf \in Text /\ Crlf # << >> /\ Only(Crlf, Ends)
  BY EndsAre
<1>5. PICK t1, t2, t3 : t1 = line \o Crlf /\ t2 = t1 \o heads /\ t3 = t2 \o Crlf
  OBVIOUS
<1>6. t1 \in Text /\ t2 \in Text /\ t3 \in Text
  <2>1. \A s, t \in Text : s \o t \in Text
    BY JoinIs DEF IsJoin
  <2>2. t1 \in Text
    BY <1>4, <1>5, <2>1
  <2>3. t2 \in Text
    BY <1>5, <2>1, <2>2
  <2>4. QED BY <1>4, <1>5, <2>1, <2>2, <2>3
<1>7. Raw(m) = t3 \o body
  BY <1>1, <1>5, RawIs
<1>8. PICK y3 : Runs(Ends, << << >> >>, t3, y3) /\ Runs(Ends, y3, body, z)
  <2>1. Runs(Ends, << << >> >>, t3 \o body, z)
    BY <1>3, <1>7, SplitRuns, RawIs
  <2>2. QED BY <1>6, <2>1, RunsApart
<1>9. PICK y2 : Runs(Ends, << << >> >>, t2, y2) /\ Runs(Ends, y2, Crlf, y3)
  BY <1>4, <1>5, <1>6, <1>8, RunsApart
<1>10. PICK y1 : Runs(Ends, << << >> >>, t1, y1) /\ Runs(Ends, y1, heads, y2)
  BY <1>5, <1>6, <1>9, RunsApart
<1>11. PICK f : f = <<line>>
  OBVIOUS
<1>12. f \in Seq(Text) /\ f \in Tokens /\ Len(f) = 1 /\ f[1] = line
  <2>1. f \in Seq(Text) /\ Len(f) = 1 /\ f[1] = line
    BY <1>11, Single
  <2>2. f # << >>
    BY <1>11, NotEmpty
  <2>3. QED BY <2>1, <2>2 DEF Tokens
<1>13. y1 = Append(f, << >>)
  <2>1. Runs(Ends, << << >> >>, line, f)
    BY <1>2, <1>11, FirstWord
  <2>2. ~(Len(f) > 1)
    BY <1>12
  <2>3. Runs(Ends, f, Crlf, Append(f, << >>))
    BY <1>4, <1>12, <2>2, BlankRuns
  <2>4. Runs(Ends, << << >> >>, t1, Append(f, << >>))
    BY <1>4, <1>5, <2>1, <2>3, RunsJoin
  <2>5. QED BY <1>6, <1>10, <2>4, RunsSame
<1>14. Len(y1) = 2 /\ y1[1] = line
  <2>1. << >> \in Text
    BY LacksNothing
  <2>2. /\ Len(y1) = Len(f) + 1 /\ \A i \in 1 .. Len(f) : y1[i] = f[i]
    BY <1>12, <1>13, <2>1, AppendIs
  <2>3. QED BY <1>12, <2>2
<1>15. y1 \in Tokens /\ y2 \in Tokens /\ y3 \in Tokens /\ z \in Tokens
  BY <1>4, <1>8, <1>9, <1>10, RunsEnd
<1>16. PICK n2, n3, n4 \in Nat : n2 = Len(y2) /\ n3 = Len(y3) /\ n4 = Len(z)
  BY <1>15, TokensAre
<1>17. n2 >= 2 /\ y2[1] = line
  <2>1. Len(y2) >= Len(y1) /\ \A i \in 1 .. Len(y1) - 1 : y2[i] = y1[i]
    BY <1>10, FrozenRuns
  <2>2. QED BY <1>14, <1>16, <2>1
<1>18. n3 >= n2 /\ y3[1] = line
  <2>1. Len(y3) >= Len(y2) /\ \A i \in 1 .. Len(y2) - 1 : y3[i] = y2[i]
    BY <1>4, <1>9, FrozenRuns
  <2>2. QED BY <1>16, <1>17, <2>1
<1>19. z[1] = line
  <2>1. \A i \in 1 .. Len(y3) - 1 : z[i] = y3[i]
    BY <1>8, FrozenRuns
  <2>2. QED BY <1>16, <1>17, <1>18, <2>1
<1>20. Last(y3) = << >>
  <2>1. y3 = IF Len(y2) > 1 /\ Last(y2) = << >> THEN y2 ELSE Append(y2, << >>)
    BY <1>4, <1>9, <1>15, BlankRuns, RunsSame
  <2>2. CASE Last(y2) = << >>
    <3>1. Len(y2) > 1
      BY <1>16, <1>17
    <3>2. QED BY <2>1, <2>2, <3>1
  <2>3. CASE Last(y2) # << >>
    <3>1. y3 = Append(y2, << >>)
      BY <2>1, <2>3
    <3>2. y2 \in Seq(Text) /\ << >> \in Text
      BY <1>15, TokensAre, LacksNothing
    <3>3. QED BY <3>1, <3>2, PutIs
  <2>4. QED BY <2>2, <2>3
<1>21. ASSUME Without(body, Ends) PROVE Last(z) = body
  <2>1. PICK g \in Seq(Text) : g = Front(y3)
    BY <1>15, TokensAre
  <2>2. y3 = Append(g, << >>)
    BY <1>15, <1>20, <2>1, PutBack
  <2>3. Runs(Ends, y3, body, Append(g, body))
    BY <1>21, <2>2, NextWord
  <2>4. z = Append(g, body)
    BY <1>8, <2>3, RunsSame
  <2>5. QED BY <2>4, PutIs
<1>22. LinesOf(Raw(m)) = z
  BY <1>3, RawIs
<1>23. QED BY <1>1, <1>19, <1>21, <1>22

LEMMA LiteralsAre ==
    /\ BadRequest.uri = <<Slash, BadWord>>
    /\ BadRequest.uri \in Text /\ Lacks(BadRequest.uri, NewLine)
<1>1. BadRequest.uri = <<Slash, BadWord>>
  BY DEF BadRequest, Slash, BadWord
<1>2. \A S : \A a, b \in S : <<a, b>> \in Seq(S)
  OBVIOUS
<1>3. <<Slash, BadWord>> \in Text
  BY <1>2, SymbolsAre, Zenon DEF Text
<1>4. Slash # NewLine /\ BadWord # NewLine
  BY Zenon DEF Slash, BadWord, NewLine
<1>5. \A n, a, b : a # n /\ b # n => Lacks(<<a, b>>, n)
  BY DEF Lacks
<1>6. QED BY <1>1, <1>3, <1>4, <1>5

\* A message is read as it was put together.
LEMMA ParseIs ==
    ASSUME NEW m \in Messages
    PROVE  /\ WellFormed(m) =>
                /\ ParseRequest(Raw(m)).method = m.method
                /\ ParseRequest(Raw(m)) =
                     [method |-> m.method, uri |-> m.uri,
                      body |-> Last(LinesOf(Raw(m)))]
           /\ ~WellFormed(m) => ParseRequest(Raw(m)) = BadRequest
<1>1. PICK lines : lines = LinesOf(Raw(m))
  OBVIOUS
<1>2. PICK first : first = Split(lines[1], Blanks)
  OBVIOUS
<1>3. Has(Raw(m), <<"\n">>) /\ Blanks = {" "}
  BY RawIs, EndsAre
<1>4. FirstLineOK(lines[1]) <=> Len(first) = 3 /\ first[1] \in Methods
                                /\ Has(first[3], <<"HTTP/1.1">>)
  BY <1>2, <1>3, Zenon DEF FirstLineOK
<1>5. ParseRequest(Raw(m)) =
        IF FirstLineOK(lines[1])
        THEN [method |-> first[1], uri |-> first[2], body |-> Last(lines)]
        ELSE BadRequest
  BY <1>1, <1>2, <1>3, Zenon DEF ParseRequest, BodyOf
<1>6. CASE m.before = << >>
  <2>1. lines[1] = Line(m)
    BY <1>1, <1>6, LinesAre
  <2>2. /\ m.uri # << >> => /\ Len(first) = 3 /\ first[1] = m.method
                            /\ first[2] = m.uri /\ first[3] = m.version
        /\ m.uri = << >> => Len(first) = 2
    BY <1>2, <1>6, <2>1, LineSplit
  <2>3. FirstLineOK(lines[1]) <=> WellFormed(m)
    <3>1. CASE m.uri = << >>
      <4>1. Len(first) # 3
        BY <2>2, <3>1
      <4>2. QED BY <1>4, <3>1, <4>1 DEF WellFormed
    <3>2. CASE m.uri # << >>
      <4>1. FirstLineOK(lines[1]) <=> m.method \in Methods /\ Has(m.version, <<"HTTP/1.1">>)
        BY <1>4, <2>2, <3>2, Zenon
      <4>2. QED BY <1>6, <3>2, <4>1, Zenon DEF WellFormed
    <3>3. QED BY <3>1, <3>2
  <2>4. WellFormed(m) => first[1] = m.method /\ first[2] = m.uri
    BY <2>2, Zenon DEF WellFormed
  <2>5. QED BY <1>1, <1>5, <2>3, <2>4
<1>7. CASE m.before # << >>
  <2>1. lines[1] = << >>
    BY <1>1, <1>7, RawIs, MessageIs, EmptyFirst
  <2>2. << >> \in Text
    BY LacksNothing
  <2>3. Split(<< >>, Blanks) = << << >> >>
    BY <2>2, StartIs, RunsNothing, SplitIs
  <2>4. Len(first) # 3
    <3>1. Len(<< << >> >>) = 1
      OBVIOUS
    <3>2. QED BY <1>2, <2>1, <2>3, <3>1
  <2>5. ~WellFormed(m)
    BY <1>7 DEF WellFormed
  <2>6. QED BY <1>4, <1>5, <2>4, <2>5
<1>8. QED BY <1>6, <1>7

LEMMA UriIs ==
    ASSUME NEW m \in Messages
    PROVE  RequestOf[m].uri \in Text /\ Lacks(RequestOf[m].uri, NewLine)
<1>1. RequestOf[m] = ParseRequest(Raw(m))
  BY DEF RequestOf
<1>2. CASE WellFormed(m)
  <2>1. RequestOf[m].uri = m.uri
    BY <1>1, <1>2, ParseIs
  <2>2. m.uri \in Text /\ Without(m.uri, Ends)
    BY MessageIs DEF Word
  <2>3. NewLine \in Ends
    BY DEF Ends
  <2>4. QED BY <2>1, <2>2, <2>3 DEF Without, Lacks
<1>3. CASE ~WellFormed(m)
  BY <1>1, <1>3, ParseIs, LiteralsAre
<1>4. QED BY <1>2, <1>3

\* Has for one symbol, of the body.
LEMMA BodyFree ==
    ASSUME NEW t \in Text, ~Has(t, <<"\n">>), ~Has(t, <<"\r">>)
    PROVE  Without(t, Ends)
<1>1. Lacks(t, NewLine) /\ Lacks(t, CarriageReturn)
  BY HasNone, Zenon DEF NewLine, CarriageReturn
<1>2. QED BY <1>1 DEF Lacks, Without, Ends

LEMMA AskedIsRead ==
    ASSUME NEW m \in Messages
    PROVE  ReadAsSent(m, RequestOf[m])
<1>1. RequestOf[m] = ParseRequest(Raw(m))
  BY DEF RequestOf
<1>2. ASSUME WellFormed(m), ~Has(m.body, <<"\n">>), ~Has(m.body, <<"\r">>)
      PROVE  RequestOf[m] = [method |-> m.method, uri |-> m.uri, body |-> m.body]
  <2>1. m.body \in Text /\ m.before = << >>
    BY <1>2, MessageIs DEF WellFormed
  <2>2. Without(m.body, Ends)
    BY <1>2, <2>1, BodyFree
  <2>3. Last(LinesOf(Raw(m))) = m.body
    BY <2>1, <2>2, LinesAre
  <2>4. QED BY <1>1, <1>2, <2>3, ParseIs
<1>3. QED BY <1>1, <1>2, ParseIs, Zenon DEF ReadAsSent

RequestOK == served > 0 => asked \in Messages /\ request = RequestOf[asked]

LEMMA RequestStep ==
    ASSUME RequestOK, served \in Nat, [Next]_vars
    PROVE  RequestOK'
<1>1. CASE Start \/ UNCHANGED vars
  BY <1>1 DEF Start, vars, RequestOK, RequestOf
<1>2. ASSUME NEW m \in Messages, Receive(m)
      PROVE  RequestOK'
  BY <1>2 DEF Receive, RequestOK, RequestOf
<1>3. ASSUME NEW m \in Messages,
             \/ ServeBadTables(m) \/ ServeError(m) \/ ServeUnknownName(m)
             \/ ServeWithoutAttribute(m) \/ ServeBare(m) \/ ServeByHandler(m)
      PROVE  Receive(m)
  BY <1>3 DEF ServeBadTables, ServeError, ServeUnknownName, ServeWithoutAttribute, ServeBare,
              ServeByHandler, Create, Dispatch
<1>4. QED BY <1>1, <1>2, <1>3 DEF Next

\* A well-formed request is taken apart as it was put together, whatever blanks and
\* headers it has, and everything else counts as a request for "/bad", for every set
\* of messages (request.cc:9-119).
THEOREM RequestsAreRead == Spec => []RequestIsRead
<1> DEFINE I == RequestOK /\ served \in Nat
<1>1. Init => I
  BY DEF Init, RequestOK
<1>2. I /\ [Next]_vars => I'
  <2> SUFFICES ASSUME I, [Next]_vars PROVE I'
    OBVIOUS
  <2>1. RequestOK'
    BY RequestStep
  <2>2. served' \in Nat
    <3>1. CASE Start \/ UNCHANGED vars
      BY <3>1 DEF Start, vars
    <3>2. ASSUME NEW m \in Messages, Receive(m) PROVE served' \in Nat
      BY <3>2 DEF Receive
    <3>3. ASSUME NEW m \in Messages,
                 \/ ServeBadTables(m) \/ ServeError(m) \/ ServeUnknownName(m)
                 \/ ServeWithoutAttribute(m) \/ ServeBare(m) \/ ServeByHandler(m)
          PROVE  Receive(m)
      BY <3>3 DEF ServeBadTables, ServeError, ServeUnknownName, ServeWithoutAttribute,
                  ServeBare, ServeByHandler, Create, Dispatch
    <3>4. QED BY <3>1, <3>2, <3>3 DEF Next
  <2>3. QED BY <2>1, <2>2
<1>3. I => RequestIsRead
  BY AskedIsRead DEF RequestOK, RequestIsRead
<1>4. QED BY <1>1, <1>2, <1>3, PTL DEF Spec

------------------------------------------------------------------------------
(***************************************************************************)
(* The types.  The port is a number whatever the configuration says.       *)
(***************************************************************************)

LEMMA PortIsNumber ==
    ASSUME configs \in ConfigFiles
    PROVE  GetPort \in Nat
<1>1. PICK t : t = Printed(1)
  OBVIOUS
<1>2. t \in Text
  <2>1. 1 \in 1 .. Len(configs)
    BY ConfigIs
  <2>2. QED BY <1>1, <2>1, TextType DEF Printed
<1>3. PICK n : n = "listen"
  OBVIOUS
<1>4. PICK r : r = After(t, <<n>>)
  OBVIOUS
<1>5. GetPort = IF Has(t, <<n>>) /\ Has(r, <<Semicolon>>)
                THEN Atoi(SubSeq(PortText(r), 1, FirstAt(r, <<Semicolon>>) - 1))
                ELSE 0
  BY <1>1, <1>3, <1>4, Zenon DEF GetPort, Semicolon
<1>6. ASSUME Has(t, <<n>>), Has(r, <<Semicolon>>)
      PROVE  SubSeq(PortText(r), 1, FirstAt(r, <<Semicolon>>) - 1) \in Text
  <2>1. ~Lacks(t, n)
    BY <1>2, <1>6, HasNone
  <2>2. PICK p \in 1 .. Len(t) : t[p] = n /\ \A j \in 1 .. p - 1 : t[j] # n
    BY <1>2, <2>1, FirstExists
  <2>3. r \in Text
    BY <1>2, <1>4, <2>2, AfterIs
  <2>4. ~Lacks(r, Semicolon)
    BY <1>6, <2>3, HasNone
  <2>5. PICK q \in 1 .. Len(r) : r[q] = Semicolon /\ \A j \in 1 .. q - 1 : r[j] # Semicolon
    BY <2>3, <2>4, FirstExists
  <2>6. FirstAt(r, <<Semicolon>>) = q
    BY <2>3, <2>5, FirstIs
  <2>7. PICK l \in Nat : l = Len(r)
    BY <2>3, TextDomain
  <2>8. q \in 1 .. l
    BY <2>7
  <2>9. r # << >>
    <3>1. Len(<< >>) = 0
      OBVIOUS
    <3>2. l # 0
      BY <2>8
    <3>3. QED BY <2>7, <3>1, <3>2
  <2>10. PICK u : u = Tail(r)
    OBVIOUS
  <2>11. u \in Seq(Symbol) /\ Len(u) = l - 1
    BY <2>3, <2>7, <2>9, <2>10, HeadTailProperties DEF Text
  <2>12. 1 \in Int /\ q - 1 \in Int /\ \A i \in 1 .. q - 1 : i \in 1 .. l - 1
    BY <2>8
  <2>13. \A i \in 1 .. q - 1 : u[i] \in Symbol
    BY <2>11, <2>12, ElementOfSeq
  <2>14. SubSeq(u, 1, q - 1) \in Seq(Symbol)
    BY <2>12, <2>13, SubSeqProperties
  <2>15. QED BY <2>6, <2>10, <2>14 DEF PortText, Text
<1>7. QED BY <1>5, <1>6, AtoiType

LEMMA PortInRange ==
    ASSUME NEW n \in Nat
    PROVE  AsPort(n) \in 0 .. PortNumbers - 1
<1>1. PortNumbers \in Nat \ {0}
  BY DEF PortNumbers
<1>2. \A k \in Nat \ {0} : n % k \in 0 .. k - 1
  OBVIOUS
<1>3. QED BY <1>1, <1>2 DEF AsPort

LEMMA CodesAre ==
    ASSUME Name \in KnownNames
    PROVE  AnswerCodes \subseteq Codes
<1>1. PICK n : n = Name
  OBVIOUS
<1>2. PICK file : file = FileCode(Attrs.location,
                      SubSeq(request'.uri, Len(Attrs.url) + 2, Len(request'.uri)))
  OBVIOUS
<1> DEFINE G1 == n \in {<<"echo">>, <<"status">>, <<"health">>}
           G2 == n = <<"error">>
           G3 == n = <<"bad">>
           G4 == n = <<"meme">>
           G5 == n = <<"proxy">>
           G6 == n = <<"static">>
<1>3. AnswerCodes = CASE G1 -> {200} [] G2 -> {404} [] G3 -> {400} [] G4 -> {200, 404}
                      [] G5 -> {302} [] G6 -> {file}
  BY <1>1, <1>2, Zenon DEF AnswerCodes
<1>4. G1 \/ G2 \/ G3 \/ G4 \/ G5 \/ G6
  BY <1>1, Zenon DEF KnownNames
<1>5. file \in {200, 404}
  BY <1>2, Zenon DEF FileCode
<1> HIDE DEF G1, G2, G3, G4, G5, G6
<1>6. QED BY <1>3, <1>4, <1>5 DEF Codes

ReplyOK == reply # NoReply => reply.code \in Codes /\ served > 0

LEMMA ReplyStep ==
    ASSUME NEW m \in Messages, served \in Nat, Receive(m),
           \/ reply' = NoReply
           \/ \E name, attrs : \E code \in Codes : Reply(name, attrs, code)
    PROVE  ReplyOK'
<1>1. served' > 0
  BY DEF Receive
<1>2. CASE reply' = NoReply
  BY <1>2 DEF ReplyOK, NoReply
<1>3. ASSUME NEW name, NEW attrs, NEW code \in Codes, Reply(name, attrs, code)
      PROVE  ReplyOK'
  BY <1>1, <1>3 DEF Reply, ReplyOK
<1>4. QED BY <1>2, <1>3

\* What a request does to what is typed.
LEMMA ServeType ==
    ASSUME NEW m \in Messages, served \in Nat,
           \/ ServeBadTables(m) \/ ServeError(m) \/ ServeUnknownName(m)
           \/ ServeWithoutAttribute(m) \/ ServeBare(m) \/ ServeByHandler(m)
    PROVE  Receive(m) /\ ReplyOK' /\ state' \in {state, "dead"}
<1>1. Receive(m)
  BY DEF ServeBadTables, ServeError, ServeUnknownName, ServeWithoutAttribute, ServeBare,
         ServeByHandler, Create, Dispatch
<1>2. \/ Die
      \/ \E code \in Codes : Reply(<<"undefined">>, << >>, code)
      \/ Reply(<<"error">>, << >>, 404)
      \/ Name \in KnownNames /\ \E code \in AnswerCodes : Reply(Name, Attrs, code)
  BY DEF ServeBadTables, ServeError, ServeUnknownName, ServeWithoutAttribute, ServeBare,
         ServeByHandler, Create, Undefined
<1>3. 404 \in Codes
  BY DEF Codes
<1>4. Die \/ \E name, attrs : \E code \in Codes : Reply(name, attrs, code)
  <2>1. CASE Die
    BY <2>1
  <2>2. CASE \E code \in Codes : Reply(<<"undefined">>, << >>, code)
    BY <2>2, Zenon
  <2>3. CASE Reply(<<"error">>, << >>, 404)
    BY <1>3, <2>3, Zenon
  <2>4. CASE Name \in KnownNames /\ \E code \in AnswerCodes : Reply(Name, Attrs, code)
    BY <2>4, CodesAre, Zenon
  <2>5. QED BY <1>2, <2>1, <2>2, <2>3, <2>4, Zenon
<1>5. ReplyOK'
  <2>1. reply' = NoReply \/ \E name, attrs : \E code \in Codes : Reply(name, attrs, code)
    BY <1>4, Zenon DEF Die
  <2>2. QED BY <1>1, <2>1, ReplyStep
<1>6. state' \in {state, "dead"}
  <2>1. CASE Die
    BY <2>1, Zenon DEF Die
  <2>2. ASSUME NEW name, NEW attrs, NEW code, Reply(name, attrs, code)
        PROVE  state' \in {state, "dead"}
    BY <2>2, Zenon DEF Reply
  <2>3. QED BY <1>4, <2>1, <2>2
<1>7. QED BY <1>1, <1>5, <1>6

\* The variables have their types: with whatever configuration, the port that is
\* listened to is one, and every code answered is one of the handlers' codes
\* (server_main.cc:95-104, dispatcher.cc:46-76).
THEOREM TypeCorrect == Spec => []TypeOK
<1>1. Init => TypeOK
  <2>1. 0 \in 0 .. PortNumbers - 1 /\ 0 \in 0 .. MaxRequests
    BY RequestBound DEF PortNumbers
  <2>2. QED BY <2>1, Zenon DEF Init, TypeOK
<1>2. TypeOK /\ [Next]_vars => TypeOK'
  <2> SUFFICES ASSUME TypeOK, [Next]_vars PROVE TypeOK'
    OBVIOUS
  <2>1. configs \in ConfigFiles /\ served \in 0 .. MaxRequests
    BY DEF TypeOK
  <2>2. CASE UNCHANGED vars
    BY <2>2 DEF vars, TypeOK
  <2>3. CASE Start
    <3>1. port' \in 0 .. PortNumbers - 1
      BY <2>1, <2>3, PortIsNumber, PortInRange DEF Start
    <3>2. state' \in {"starting", "running", "exited", "dead"}
      BY <2>3, Zenon DEF Start
    <3>3. UNCHANGED <<configs, reply, served>>
      BY <2>3 DEF Start
    <3>4. QED BY <3>1, <3>2, <3>3 DEF TypeOK
  <2>4. ASSUME NEW m \in Messages,
               \/ ServeBadTables(m) \/ ServeError(m) \/ ServeUnknownName(m)
               \/ ServeWithoutAttribute(m) \/ ServeBare(m) \/ ServeByHandler(m)
        PROVE  TypeOK'
    <3>1. served \in Nat
      BY <2>1, RequestBound
    <3>2. Receive(m) /\ ReplyOK' /\ state' \in {state, "dead"}
      BY <2>4, <3>1, ServeType
    <3>3. UNCHANGED <<configs, port>> /\ served' \in 0 .. MaxRequests
      BY <2>1, <3>1, <3>2, RequestBound DEF Receive
    <3>4. state' \in {"starting", "running", "exited", "dead"}
      BY <3>2, Zenon DEF TypeOK
    <3>5. reply' # NoReply => reply'.code \in Codes /\ served' > 0
      BY <3>2 DEF ReplyOK, NoReply
    <3>6. QED BY <3>3, <3>4, <3>5 DEF TypeOK, NoReply
  <2>5. QED BY <2>2, <2>3, <2>4 DEF Next
<1>3. QED BY <1>1, <1>2, PTL DEF Spec

------------------------------------------------------------------------------
(***************************************************************************)
(* The prefix.  PeekURL takes the rest of the text where there is no       *)
(* semicolon behind a url, GetAttribute nothing; but then what PeekURL     *)
(* finds has the end of a line in it, as every printed block has one, and  *)
(* no path has that.                                                       *)
(***************************************************************************)

\* How a printed block ends.
EndsWith(t, x) == Len(t) >= 1 /\ t[Len(t)] = x
Closes(t) ==
    /\ Len(t) >= 2 /\ t[Len(t)] = NewLine
    /\ t[Len(t) - 1] = Semicolon \/ t[Len(t) - 1] = CloseBrace

LEMMA EndJoin ==
    ASSUME NEW s \in Text, NEW t \in Text, NEW x
    PROVE  EndsWith(t, x) => EndsWith(s \o t, x)
<1>1. PICK w : w = s \o t
  OBVIOUS
<1>2. IsJoin(w, s, t)
  BY <1>1, JoinIs
<1>3. PICK a, b \in Nat : a = Len(s) /\ b = Len(t) /\ Len(w) = a + b
  BY <1>2 DEF IsJoin
<1>4. ASSUME b >= 1, t[b] = x PROVE EndsWith(w, x)
  <2>1. b \in 1 .. b /\ a + b >= 1
    BY <1>3, <1>4
  <2>2. w[a + b] = x
    BY <1>2, <1>3, <1>4, <2>1 DEF IsJoin
  <2>3. QED BY <1>3, <2>1, <2>2 DEF EndsWith
<1>5. QED BY <1>1, <1>3, <1>4 DEF EndsWith

LEMMA CloseLine ==
    ASSUME NEW s \in Text, NEW x, x = Semicolon \/ x = CloseBrace, EndsWith(s, x)
    PROVE  Closes(s \o <<NewLine>>)
<1>1. PICK w : w = s \o <<NewLine>>
  OBVIOUS
<1>2. <<NewLine>> \in Text /\ Len(<<NewLine>>) = 1 /\ <<NewLine>>[1] = NewLine
  BY SymbolsAre, OneSymbol
<1>3. IsJoin(w, s, <<NewLine>>)
  BY <1>1, <1>2, JoinIs
<1>4. PICK a \in Nat : a = Len(s) /\ Len(w) = a + 1
  BY <1>2, <1>3 DEF IsJoin
<1>5. a >= 1 /\ s[a] = x
  BY <1>4 DEF EndsWith
<1>6. a \in 1 .. a /\ 1 \in 1 .. 1 /\ (a + 1) - 1 = a /\ a + 1 >= 2
  BY <1>5
<1>7. w[a] = x /\ w[a + 1] = NewLine
  BY <1>2, <1>3, <1>4, <1>5, <1>6 DEF IsJoin
<1>8. QED BY <1>1, <1>4, <1>6, <1>7 DEF Closes

LEMMA CloseJoin ==
    ASSUME NEW s \in Text, NEW t \in Text, Closes(t)
    PROVE  Closes(s \o t)
<1>1. PICK w : w = s \o t
  OBVIOUS
<1>2. IsJoin(w, s, t)
  BY <1>1, JoinIs
<1>3. PICK a, b \in Nat : a = Len(s) /\ b = Len(t) /\ Len(w) = a + b
  BY <1>2 DEF IsJoin
<1>4. b >= 2 /\ t[b] = NewLine /\ (t[b - 1] = Semicolon \/ t[b - 1] = CloseBrace)
  BY <1>3 DEF Closes
<1>5. b \in 1 .. b /\ b - 1 \in 1 .. b /\ a + b >= 2 /\ (a + b) - 1 = a + (b - 1)
  BY <1>3, <1>4
<1>6. w[a + b] = t[b] /\ w[a + (b - 1)] = t[b - 1]
  BY <1>2, <1>3, <1>5 DEF IsJoin
<1>7. QED BY <1>1, <1>3, <1>4, <1>5, <1>6 DEF Closes

LEMMA EndOne ==
    ASSUME NEW x \in Symbol
    PROVE  <<x>> \in Text /\ EndsWith(<<x>>, x)
BY OneSymbol DEF EndsWith

LEMMA StatementCloses ==
    ASSUME NEW s \in Statement, s.tokens # << >>, NEW d \in Nat, NEW f,
           s.child # 0 => f[s.child] \in [Nat -> Text]
    PROVE  StatementText(f, s, d) \in Text /\ Closes(StatementText(f, s, d))
<1>1. PICK a, e \in Text : a = Indent(d) \o Joined(s.tokens) /\ e = Ending(f, s, d)
  BY StatementType
<1>2. EndsWith(e, Semicolon) \/ EndsWith(e, CloseBrace)
  <2>1. CASE s.child = 0
    <3>1. e = <<Semicolon>>
      BY <1>1, <2>1 DEF Ending
    <3>2. QED BY <3>1, SymbolsAre, EndOne
  <2>2. CASE s.child # 0
    <3>1. e = Open \o f[s.child][d + 1] \o Indent(d) \o Close
      BY <1>1, <2>2 DEF Ending
    <3>2. \A u, v \in Text : u \o v \in Text
      BY JoinIs DEF IsJoin
    <3>3. PICK y : y = f[s.child][d + 1]
      OBVIOUS
    <3>4. y \in Text
      <4>1. d + 1 \in Nat
        OBVIOUS
      <4>2. QED BY <2>2, <3>3, <4>1
    <3>5. Open \o y \in Text
      BY <3>2, <3>4, MarksAreTexts
    <3>6. Open \o y \o Indent(d) \in Text
      BY <3>2, <3>5, IndentIs
    <3>7. Close \in Text /\ EndsWith(Close, CloseBrace)
      BY SymbolsAre, EndOne DEF Close
    <3>8. EndsWith(e, CloseBrace)
      BY <3>1, <3>3, <3>6, <3>7, EndJoin, Zenon
    <3>9. QED BY <3>8
  <2>3. QED BY <2>1, <2>2
<1>3. a \o e \in Text /\ (EndsWith(a \o e, Semicolon) \/ EndsWith(a \o e, CloseBrace))
  <2>1. a \o e \in Text
    BY JoinIs DEF IsJoin
  <2>2. QED BY <1>2, <2>1, EndJoin
<1>4. Closes(a \o e \o <<NewLine>>)
  BY <1>3, CloseLine
<1>5. StatementText(f, s, d) = a \o e \o <<NewLine>>
  BY <1>1, StatementType
<1>6. QED BY <1>4, <1>5, StatementType

LEMMA FlatCloses ==
    ASSUME NEW ss \in Seq(Text), \A i \in 1 .. Len(ss) : Closes(ss[i])
    PROVE  FlattenSeq(ss) = << >> \/ Closes(FlattenSeq(ss))
<1>1. ss \in Seq(Seq(Symbol))
  BY DEF Text
<1>2. PICK h : Partial(Symbol, ss, h)
  BY <1>1, PartialExists
<1>3. PICK n \in Nat : n = Len(ss)
  BY LenProperties
<1>4. /\ h \in [0 .. n -> Text] /\ h[0] = << >> /\ FlattenSeq(ss) = h[n]
      /\ \A i \in 1 .. n : h[i] = h[i - 1] \o ss[i]
  BY <1>2, <1>3 DEF Partial, Text
<1>5. CASE n = 0
  BY <1>4, <1>5
<1>6. CASE n # 0
  <2>1. n \in 1 .. n /\ n - 1 \in 0 .. n
    BY <1>6
  <2>2. PICK a \in Text : a = h[n - 1]
    BY <1>4, <2>1
  <2>3. PICK b \in Text : b = ss[n]
    BY <1>3, <2>1, ElementOfSeq
  <2>4. Closes(b)
    BY <1>3, <2>1, <2>3
  <2>5. FlattenSeq(ss) = a \o b
    BY <1>4, <2>1, <2>2, <2>3
  <2>6. QED BY <2>4, <2>5, CloseJoin
<1>7. QED BY <1>5, <1>6

LEMMA TextCloses ==
    ASSUME NEW c \in ConfigFiles, NEW k \in 1 .. Len(c)
    PROVE  TextOf[c][k] = << >> \/ Closes(TextOf[c][k])
<1>1. PICK f : IsPrint(c, f)
  BY PrintIs
<1>2. f \in [1 .. Len(c) -> [Nat -> Text]] /\ f[k] = BlockText(c, f, k) /\ TextOf[c][k] = f[k][0]
  BY <1>1 DEF IsPrint
<1>3. PICK L \in Nat : L = Len(c)
  BY ConfigIs
<1>4. \A j \in k + 1 .. L : j \in 1 .. L
  BY <1>3
<1>5. \A j \in k + 1 .. Len(c) : f[j] \in [Nat -> Text]
  BY <1>2, <1>3, <1>4
<1> DEFINE E(i) == StatementText(f, c[k][i], 0)
<1>6. PICK ss : ss = [i \in DOMAIN c[k] |-> E(i)]
  OBVIOUS
<1>7. 0 \in Nat
  OBVIOUS
<1>8. ss \in Seq(Text)
  BY <1>5, <1>6, <1>7, BlockType, Zenon
<1>9. f[k][0] = FlattenSeq(ss)
  BY <1>2, <1>6, <1>7, Zenon DEF BlockText
<1>10. PICK n \in Nat : n = Len(c[k]) /\ DOMAIN c[k] = 1 .. n
  BY ConfigIs
<1>11. Len(ss) = n /\ \A i \in 1 .. n : ss[i] = E(i)
  <2> HIDE DEF E
  <2>1. ss = [i \in 1 .. n |-> E(i)]
    BY <1>6, <1>10
  <2>2. QED BY <2>1
<1>12. ASSUME NEW i \in 1 .. n PROVE Closes(E(i))
  <2>1. PICK s \in Statement : s = c[k][i] /\ s.tokens # << >>
                               /\ s.child \in {0} \cup (k + 1 .. Len(c))
    BY <1>10, ConfigIs
  <2>2. s.child # 0 => f[s.child] \in [Nat -> Text]
    BY <1>5, <2>1
  <2>3. Closes(StatementText(f, s, 0))
    BY <1>7, <2>1, <2>2, StatementCloses
  <2>4. QED BY <2>1, <2>3
<1> HIDE DEF E
<1>13. \A i \in 1 .. Len(ss) : Closes(ss[i])
  BY <1>11, <1>12
<1>14. QED BY <1>2, <1>8, <1>9, <1>13, FlatCloses

\* The path up to the second slash.
LEMMA PrefixOf ==
    ASSUME NEW u \in Text
    PROVE  /\ Prefix(u) \in Text /\ IsPrefix(Prefix(u), u)
           /\ Len(u) > Len(Prefix(u)) => u[Len(Prefix(u)) + 1] = "/"
           /\ \A n : Lacks(u, n) => Lacks(Prefix(u), n)
<1>1. PICK L \in Nat : L = Len(u)
  BY TextDomain
<1>2. PICK sl : sl = "/"
  OBVIOUS
<1> DEFINE I == {i \in 2 .. L : u[i] = sl}
<1>3. PICK s : s = FirstOf(I)
  OBVIOUS
<1>4. Prefix(u) = IF s = 0 THEN u ELSE SubSeq(u, 1, s - 1)
  BY <1>1, <1>2, <1>3, Zenon DEF Prefix, SelectInSubSeq, FirstOf
<1>5. u \in Seq(Symbol)
  BY DEF Text
<1>6. I \in SUBSET Nat
  BY <1>1
<1>7. CASE I = {}
  <2>1. s = 0
    BY <1>3, <1>6, <1>7, FirstOfIs
  <2>2. Prefix(u) = u
    BY <1>4, <2>1
  <2>3. IsPrefix(u, u)
    BY <1>1 DEF IsPrefix
  <2>4. ~(L > L)
    BY <1>1
  <2>5. QED BY <1>1, <2>2, <2>3, <2>4
<1>8. CASE I # {}
  <2>1. s \in I
    BY <1>3, <1>6, <1>8, FirstOfIs
  <2>2. s \in 2 .. L /\ u[s] = sl
    BY <2>1
  <2>3. PICK k : k = s - 1
    OBVIOUS
  <2>4. k \in Nat /\ k <= L /\ k < L /\ k + 1 = s /\ s # 0 /\ k \in Int /\ 1 \in Int
        /\ k - 1 + 1 = k /\ (IF 1 <= k THEN k - 1 + 1 ELSE 0) = k
        /\ \A i \in 1 .. k : i \in 1 .. L /\ 1 + i - 1 = i
    BY <1>1, <2>2, <2>3
  <2>5. PICK p : p = SubSeq(u, 1, k)
    OBVIOUS
  <2>6. Prefix(u) = p
    BY <1>4, <2>3, <2>4, <2>5
  <2>7. \A i \in 1 .. k : u[i] \in Symbol
    BY <1>1, <2>4, TextSymbols
  <2>8. /\ p \in Seq(Symbol) /\ Len(p) = IF 1 <= k THEN k - 1 + 1 ELSE 0
        /\ \A i \in 1 .. k - 1 + 1 : p[i] = u[1 + i - 1]
    BY <2>4, <2>5, <2>7, SubSeqProperties
  <2>9. p \in Text /\ Len(p) = k /\ \A i \in 1 .. k : p[i] = u[i]
    BY <2>4, <2>8 DEF Text
  <2>10. IsPrefix(p, u)
    <3>1. SubSeq(p, 1, k) = p
      BY <2>8, <2>9, SubSeqFull
    <3>2. QED BY <1>1, <2>4, <2>5, <2>9, <3>1 DEF IsPrefix
  <2>11. ASSUME NEW n, Lacks(u, n) PROVE Lacks(p, n)
    BY <1>1, <2>4, <2>9, <2>11 DEF Lacks
  <2>12. u[Len(p) + 1] = "/"
    BY <1>2, <2>2, <2>4, <2>9
  <2>13. QED BY <2>6, <2>9, <2>10, <2>11, <2>12
<1>9. QED BY <1>7, <1>8

\* Both ways to look for a prefix find the same, or one that no path has.
LEMMA UrlFound ==
    ASSUME NEW t \in Text, t = << >> \/ Closes(t), Has(t, <<"url">>),
           Lacks(PeekURL(t), NewLine)
    PROVE  /\ Has(After(t, <<"url">>), <<";">>)
           /\ PeekURL(t) = Value(After(t, <<"url">>))
<1>1. PICK n : n = "url"
  OBVIOUS
<1>2. n # NewLine /\ n # Semicolon /\ n # CloseBrace
  BY <1>1, Zenon DEF NewLine, Semicolon, CloseBrace
<1>3. PICK r : r = After(t, <<n>>)
  OBVIOUS
<1>4. Has(t, <<n>>)
  BY <1>1
<1>5. PeekURL(t) = IF Has(r, <<Semicolon>>) THEN Value(r) ELSE Tail(r)
  BY <1>1, <1>3, <1>4, Zenon DEF PeekURL, Semicolon
<1>6. ~Lacks(t, n)
  BY <1>4, HasNone
<1>7. PICK p \in 1 .. Len(t) : t[p] = n /\ \A j \in 1 .. p - 1 : t[j] # n
  BY <1>6, FirstExists
<1>8. PICK L \in Nat : L = Len(t)
  BY TextDomain
<1>9. Closes(t)
  <2>1. L # 0
    BY <1>7, <1>8
  <2>2. Len(<< >>) = 0
    OBVIOUS
  <2>3. t # << >>
    BY <1>8, <2>1, <2>2
  <2>4. QED BY <2>3
<1>10. L >= 2 /\ t[L] = NewLine /\ (t[L - 1] = Semicolon \/ t[L - 1] = CloseBrace)
  BY <1>8, <1>9 DEF Closes
<1>11. p \in 1 .. L /\ p # L /\ p # L - 1
  BY <1>2, <1>7, <1>8, <1>10
<1>12. PICK k \in Nat : k = L - p
  <2>1. L - p \in Nat
    BY <1>11
  <2>2. QED BY <2>1
<1>13. k >= 2 /\ k \in 1 .. k /\ p + k = L
  BY <1>11, <1>12
<1>14. r \in Text /\ Len(r) = k /\ \A j \in 1 .. k : r[j] = t[p + j]
  BY <1>3, <1>7, <1>8, <1>12, AfterIs
<1>15. r[k] = NewLine
  BY <1>10, <1>13, <1>14
<1>16. Has(r, <<Semicolon>>)
  <2> SUFFICES ASSUME ~Has(r, <<Semicolon>>) PROVE FALSE
    OBVIOUS
  <2>1. PICK u : u = Tail(r)
    OBVIOUS
  <2>2. PeekURL(t) = u
    BY <1>5, <2>1
  <2>3. r # << >> /\ r \in Seq(Symbol)
    <3>1. Len(<< >>) = 0
      OBVIOUS
    <3>2. r # << >>
      BY <1>13, <1>14, <3>1
    <3>3. QED BY <1>14, <3>2 DEF Text
  <2>4. Len(u) = k - 1 /\ \A i \in 1 .. k - 1 : u[i] = r[i + 1]
    BY <1>14, <2>1, <2>3, HeadTailProperties
  <2>5. k - 1 \in 1 .. k - 1 /\ (k - 1) + 1 = k
    BY <1>13
  <2>6. u[k - 1] = NewLine
    BY <1>15, <2>4, <2>5
  <2>7. QED BY <2>2, <2>4, <2>5, <2>6 DEF Lacks
<1>17. Has(After(t, <<"url">>), <<";">>)
  BY <1>1, <1>3, <1>16, Zenon DEF Semicolon
<1>18. PeekURL(t) = Value(After(t, <<"url">>))
  BY <1>1, <1>3, <1>5, <1>16
<1>19. QED BY <1>17, <1>18

LEMMA StatementsAre ==
    ASSUME NEW c \in ConfigFiles, NEW s \in Statements(c)
    PROVE  /\ s \in Statement /\ s.tokens # << >>
           /\ s.child # 0 => s.child \in 1 .. Len(c)
           /\ \E k \in 1 .. Len(c) : \E i \in 1 .. Len(c[k]) : s = c[k][i]
<1>1. PICK k \in DOMAIN c : s \in Range(c[k])
  BY DEF Statements
<1>2. k \in 1 .. Len(c) /\ Len(c) \in Nat
  BY <1>1, ConfigIs
<1>3. PICK i \in 1 .. Len(c[k]) : s = c[k][i]
  <2>1. DOMAIN c[k] = 1 .. Len(c[k])
    BY <1>2, ConfigIs
  <2>2. QED BY <1>1, <2>1 DEF Range
<1>4. /\ s \in Statement /\ s.tokens # << >> /\ s.child \in {0} \cup (k + 1 .. Len(c))
  BY <1>2, <1>3, ConfigIs
<1>5. s.child # 0 => s.child \in 1 .. Len(c)
  <2>1. PICK L \in Nat : L = Len(c)
    BY <1>2
  <2>2. \A x \in k + 1 .. L : x \in 1 .. L
    BY <1>2, <2>1
  <2>3. QED BY <1>4, <2>1, <2>2
<1>6. QED BY <1>2, <1>3, <1>4, <1>5

LEMMA HandlersAre ==
    ASSUME NEW c \in ConfigFiles
    PROVE  /\ Len(HandlersOf[c]) \in Nat /\ DOMAIN HandlersOf[c] = 1 .. Len(HandlersOf[c])
           /\ \A i \in 1 .. Len(HandlersOf[c]) :
                 /\ HandlersOf[c][i] \in Statements(c)
                 /\ HandlersOf[c][i].tokens[1] = <<"handler">>
           /\ DOMAIN KeysOf[c] = 1 .. Len(HandlersOf[c])
           /\ Len(KeysOf[c]) = Len(HandlersOf[c])
           /\ \A i \in 1 .. Len(HandlersOf[c]) :
                 Defined(HandlersOf[c][i]) =>
                    KeysOf[c][i] = PeekURL(TextOf[c][HandlersOf[c][i].child])
<1>1. PICK chosen : chosen = {s \in Statements(c) : s.tokens[1] = <<"handler">>}
  OBVIOUS
<1>2. PICK hs : hs = HandlersOf[c]
  OBVIOUS
<1>3. hs = InOrder(c, chosen)
  BY <1>1, <1>2 DEF HandlersOf
<1>4. hs \in Seq(chosen)
  BY <1>3, OrderType
<1>5. PICK n \in Nat : n = Len(hs)
  BY <1>4, LenProperties
<1>6. DOMAIN hs = 1 .. n /\ \A i \in 1 .. n : hs[i] \in chosen
  BY <1>4, <1>5, LenProperties, ElementOfSeq
<1> DEFINE B(i) == IF Defined(hs[i]) THEN PeekURL(TextOf[c][hs[i].child]) ELSE << >>
<1>7. KeysOf[c] = [i \in DOMAIN hs |-> B(i)]
  BY <1>2, Zenon DEF KeysOf
<1>8. \A i \in 1 .. n : Defined(hs[i]) => B(i) = PeekURL(TextOf[c][hs[i].child])
  OBVIOUS
<1> HIDE DEF B
<1>9. KeysOf[c] = [i \in 1 .. n |-> B(i)]
  BY <1>6, <1>7
<1>10. DOMAIN KeysOf[c] = 1 .. n /\ Len(KeysOf[c]) = n /\ \A i \in 1 .. n : KeysOf[c][i] = B(i)
  BY <1>9
<1>11. \A i \in 1 .. n : hs[i] \in Statements(c) /\ hs[i].tokens[1] = <<"handler">>
  BY <1>1, <1>6
<1>12. QED BY <1>2, <1>5, <1>6, <1>8, <1>10, <1>11

\* Where a prefix is found: the first handler that has it.
FirstWith(key) ==
    FirstOf({i \in 1 .. Len(KeysOf[configs]) : KeysOf[configs][i] = key})

LEMMA KeyIsAt ==
    ASSUME configs \in ConfigFiles, NEW key \in Keys
    PROVE  /\ FirstWith(key) \in 1 .. Len(Handlers)
           /\ KeysOf[configs][FirstWith(key)] = key
           /\ \A j \in 1 .. Len(Handlers) :
                 KeysOf[configs][j] = key => FirstWith(key) <= j
           /\ HandlerFor(key) = Handlers[FirstWith(key)]
<1>1. PICK K : K = KeysOf[configs]
  OBVIOUS
<1>2. PICK n \in Nat : n = Len(Handlers)
  BY HandlersAre DEF Handlers
<1>3. DOMAIN K = 1 .. n /\ Len(K) = n
  BY <1>1, <1>2, HandlersAre DEF Handlers
<1> DEFINE I == {i \in 1 .. n : K[i] = key}
<1>4. I \in SUBSET Nat /\ I # {}
  <2>1. \E i \in DOMAIN K : K[i] = key
    BY <1>1 DEF Keys, Range
  <2>2. QED BY <1>3, <2>1
<1>5. PICK f : f = FirstOf(I)
  OBVIOUS
<1>6. f \in I /\ \A i \in I : f <= i
  <2> HIDE DEF I
  <2>1. QED BY <1>4, <1>5, FirstOfIs
<1>7. f \in 1 .. n /\ K[f] = key /\ \A j \in 1 .. n : K[j] = key => f <= j
  BY <1>6
<1>8. FirstWith(key) = f
  BY <1>1, <1>3, <1>5 DEF FirstWith
<1>9. HandlerFor(key) = Handlers[FirstWith(key)]
  BY Zenon DEF HandlerFor, SelectInSeq, FirstWith, FirstOf
<1>10. QED BY <1>1, <1>2, <1>7, <1>8, <1>9

LEMMA ChosenIs ==
    ASSUME configs \in ConfigFiles, ~TablesUndefined, NEW key \in Keys
    PROVE  LET h == HandlerFor(key)
           IN  /\ FirstWith(key) \in 1 .. Len(Handlers) /\ h = Handlers[FirstWith(key)]
               /\ h \in Statements(configs) /\ Defined(h)
               /\ h.child \in 1 .. Len(configs)
               /\ Printed(h.child) \in Text
               /\ Printed(h.child) = << >> \/ Closes(Printed(h.child))
               /\ PeekURL(Printed(h.child)) = key
<1>1. PICK f : f = FirstWith(key)
  OBVIOUS
<1>2. PICK h : h = HandlerFor(key)
  OBVIOUS
<1>3. f \in 1 .. Len(Handlers) /\ h = Handlers[f] /\ KeysOf[configs][f] = key
  BY <1>1, <1>2, KeyIsAt
<1>4. DOMAIN Handlers = 1 .. Len(Handlers) /\ h \in Statements(configs)
  BY <1>3, HandlersAre DEF Handlers
<1>5. Defined(h)
  BY <1>3, <1>4 DEF TablesUndefined
<1>6. h.child \in 1 .. Len(configs)
  BY <1>4, <1>5, StatementsAre DEF Defined
<1>7. KeysOf[configs][f] = PeekURL(TextOf[configs][h.child])
  BY <1>3, <1>5, HandlersAre DEF Handlers
<1>8. Printed(h.child) = TextOf[configs][h.child]
  BY DEF Printed
<1>9. Printed(h.child) \in Text /\ (Printed(h.child) = << >> \/ Closes(Printed(h.child)))
  BY <1>6, <1>8, TextType, TextCloses
<1>10. QED BY <1>1, <1>2, <1>3, <1>4, <1>5, <1>6, <1>7, <1>8, <1>9

\* What a handler takes for its prefix is the one it was found by.
LEMMA UrlKept ==
    ASSUME configs \in ConfigFiles, NEW m \in Messages, Create(m), "url" \in Attributes(Name)
    PROVE  Attrs.url = Prefix(request'.uri)
<1>1. PICK key : key = Prefix(request'.uri)
  OBVIOUS
<1>2. ~TablesUndefined /\ key \in Keys /\ request' = RequestOf[m] /\ HasAll
  BY <1>1 DEF Create, Dispatch, Receive, Found
<1>3. PICK h : h = HandlerFor(key)
  OBVIOUS
<1>4. Chosen = h
  BY <1>1, <1>3 DEF Chosen
<1>5. PICK t : t = Printed(h.child)
  OBVIOUS
<1>6. t \in Text /\ (t = << >> \/ Closes(t)) /\ PeekURL(t) = key
  BY <1>2, <1>3, <1>5, ChosenIs
<1>7. Has(t, <<"url">>)
  BY <1>2, <1>4, <1>5, Zenon DEF HasAll, HasAttribute
<1>8. Lacks(key, NewLine)
  BY <1>1, <1>2, UriIs, PrefixOf
<1>9. Has(After(t, <<"url">>), <<";">>) /\ key = Value(After(t, <<"url">>))
  BY <1>6, <1>7, <1>8, UrlFound
<1>10. GetAttribute(h.child, "url") = key
  BY <1>5, <1>9, Zenon DEF GetAttribute, Rest
<1>11. Attrs["url"] = GetAttribute(h.child, "url")
  BY <1>4, Zenon DEF Attrs
<1>12. QED BY <1>1, <1>10, <1>11

UrlOK ==
    Answered /\ "url" \in DOMAIN reply.attrs =>
        \E m \in Messages : request = RequestOf[m] /\ reply.attrs.url = Prefix(request.uri)

\* Who answers a request, and with which attributes.
LEMMA AnswerIs ==
    ASSUME NEW m \in Messages,
           \/ ServeBadTables(m) \/ ServeError(m) \/ ServeUnknownName(m)
           \/ ServeWithoutAttribute(m) \/ ServeBare(m) \/ ServeByHandler(m)
    PROVE  /\ Receive(m)
           /\ \/ ~Answered'
              \/ Dispatch(m) /\ ~Found /\ Reply(<<"error">>, << >>, 404)
              \/ Create(m) /\ ~Bare /\ \E code \in AnswerCodes : Reply(Name, Attrs, code)
<1>1. Receive(m)
  BY DEF ServeBadTables, ServeError, ServeUnknownName, ServeWithoutAttribute, ServeBare,
         ServeByHandler, Create, Dispatch
<1>2. \/ Die \/ \E code \in Codes : Reply(<<"undefined">>, << >>, code)
      \/ Dispatch(m) /\ ~Found /\ Reply(<<"error">>, << >>, 404)
      \/ Create(m) /\ ~Bare /\ \E code \in AnswerCodes : Reply(Name, Attrs, code)
  BY DEF ServeBadTables, ServeError, ServeUnknownName, ServeWithoutAttribute, ServeBare,
         ServeByHandler, Undefined
<1>3. Die => ~Answered'
  BY DEF Die, Answered, NoReply
<1>4. ASSUME NEW code, Reply(<<"undefined">>, << >>, code) PROVE ~Answered'
  BY <1>4 DEF Reply, Answered
<1>5. QED BY <1>1, <1>2, <1>3, <1>4, Zenon

LEMMA UrlStep ==
    ASSUME configs \in ConfigFiles, UrlOK, [Next]_vars
    PROVE  UrlOK'
<1>1. CASE Start \/ UNCHANGED vars
  <2>1. UNCHANGED <<request, reply>>
    BY <1>1 DEF Start, vars
  <2>2. QED BY <2>1 DEF UrlOK, Answered, NoReply, RequestOf, Prefix, SelectInSubSeq
<1>2. ASSUME NEW m \in Messages,
             \/ ServeBadTables(m) \/ ServeError(m) \/ ServeUnknownName(m)
             \/ ServeWithoutAttribute(m) \/ ServeBare(m) \/ ServeByHandler(m)
      PROVE  UrlOK'
  <2>1. request' = RequestOf[m]
    BY <1>2, AnswerIs DEF Receive
  <2>2. CASE ~Answered'
    BY <2>2 DEF UrlOK
  <2>3. CASE Reply(<<"error">>, << >>, 404)
    <3>1. reply'.attrs = << >>
      BY <2>3 DEF Reply
    <3>2. DOMAIN << >> = {}
      OBVIOUS
    <3>3. QED BY <3>1, <3>2, Zenon DEF UrlOK
  <2>4. CASE Create(m) /\ \E code \in AnswerCodes : Reply(Name, Attrs, code)
    <3>1. reply'.attrs = Attrs
      BY <2>4 DEF Reply
    <3>2. DOMAIN Attrs = Attributes(Name)
      BY DEF Attrs
    <3>3. "url" \in Attributes(Name) => Attrs.url = Prefix(request'.uri)
      BY <2>4, UrlKept
    <3>4. "url" \in DOMAIN reply'.attrs => reply'.attrs.url = Prefix(request'.uri)
      BY <3>1, <3>2, <3>3
    <3>5. QED BY <2>1, <3>4, Zenon DEF UrlOK, RequestOf
  <2>5. QED BY <1>2, <2>2, <2>3, <2>4, AnswerIs
<1>3. QED BY <1>1, <1>2 DEF Next

\* What a handler takes for its own prefix is one of the path's, up to a slash or its
\* end, for every configuration, also one in which names stand in values: PeekURL
\* and GetAttribute look differently and find the same (config_parser.cc:47-59,
\* :115-141, static_handler.cc:30, meme_handler.cc:35).
THEOREM PrefixesAreKeys == Spec => []PrefixIsKey
<1>1. Init => UrlOK
  BY DEF Init, UrlOK, Answered
<1>2. TypeOK /\ UrlOK /\ [Next]_vars => UrlOK'
  BY UrlStep DEF TypeOK
<1>3. UrlOK => PrefixIsKey
  <2> SUFFICES ASSUME UrlOK, Answered, "url" \in DOMAIN reply.attrs
               PROVE  /\ IsPrefix(reply.attrs.url, request.uri)
                      /\ Len(request.uri) > Len(reply.attrs.url)
                            => request.uri[Len(reply.attrs.url) + 1] = "/"
    BY Zenon DEF PrefixIsKey
  <2>1. PICK m \in Messages : request = RequestOf[m] /\ reply.attrs.url = Prefix(request.uri)
    BY DEF UrlOK
  <2>2. request.uri \in Text
    BY <2>1, UriIs
  <2>3. PICK u \in Text : u = request.uri
    BY <2>2
  <2>4. IsPrefix(Prefix(u), u) /\ (Len(u) > Len(Prefix(u)) => u[Len(Prefix(u)) + 1] = "/")
    BY PrefixOf
  <2>5. QED BY <2>1, <2>3, <2>4
<1>4. QED BY <1>1, <1>2, <1>3, TypeCorrect, PTL DEF Spec

------------------------------------------------------------------------------
(***************************************************************************)
(* The status page.  The table is built again at each request, and what an *)
(* earlier request inserted stays, so it matters that every entry is that  *)
(* of the handler a request would be given now.                            *)
(***************************************************************************)

TableOK ==
    \A key \in DOMAIN urlHandlers :
        key \in Keys /\ urlHandlers[key] = HandlerFor(key).tokens[2]

IInv == TableOK /\ StatusPageTells

LEMMA SameConfig ==
    ASSUME UNCHANGED configs
    PROVE  /\ Keys' = Keys
           /\ \A key : HandlerFor(key)' = HandlerFor(key)
<1>1. Keys' = Keys
  BY DEF Keys
<1>2. \A key : HandlerFor(key)' = HandlerFor(key)
  BY DEF HandlerFor, Handlers, SelectInSeq
<1>3. QED BY <1>1, <1>2

LEMMA InsertedOK ==
    ASSUME TableOK
    PROVE  /\ DOMAIN Inserted = Keys
           /\ \A key \in Keys : Inserted[key] = HandlerFor(key).tokens[2]
BY DEF TableOK, Inserted

LEMMA DispatchStep ==
    ASSUME TableOK, NEW m \in Messages, Dispatch(m)
    PROVE  /\ TableOK'
           /\ DOMAIN urlHandlers' = Keys
           /\ \A key \in Keys : urlHandlers'[key] = HandlerFor(key).tokens[2]
<1>1. UNCHANGED configs /\ urlHandlers' = Inserted
  BY DEF Dispatch, Receive
<1>2. /\ DOMAIN urlHandlers' = Keys
      /\ \A key \in Keys : urlHandlers'[key] = HandlerFor(key).tokens[2]
  BY <1>1, InsertedOK
<1>3. Keys' = Keys /\ \A key : HandlerFor(key)' = HandlerFor(key)
  BY <1>1, SameConfig
<1>4. TableOK'
  BY <1>2, <1>3 DEF TableOK
<1>5. QED BY <1>2, <1>4

LEMMA UnansweredStep ==
    ASSUME reply' = NoReply \/ \E code \in Codes : Reply(<<"undefined">>, << >>, code)
    PROVE  StatusPageTells'
<1>1. ~Answered'
  BY DEF Answered, Reply
<1>2. QED BY <1>1 DEF StatusPageTells

LEMMA AnsweredStep ==
    ASSUME TableOK, NEW m \in Messages, Dispatch(m),
           NEW attrs, NEW code,
           IF Found THEN Reply(Name, attrs, code) ELSE Reply(<<"error">>, attrs, code)
    PROVE  StatusPageTells'
<1> DEFINE key == Prefix(request'.uri)
<1>1. /\ DOMAIN urlHandlers' = Keys
      /\ \A k \in Keys : urlHandlers'[k] = HandlerFor(k).tokens[2]
  BY DispatchStep
<1>2. CASE Found
  <2>1. key \in Keys /\ reply'.name = HandlerFor(key).tokens[2]
    BY <1>2 DEF Found, Name, Chosen, Reply
  <2>2. key \in DOMAIN urlHandlers' /\ urlHandlers'[key] = reply'.name
    BY <1>1, <2>1
  <2>3. QED BY <2>2 DEF StatusPageTells
<1>3. CASE ~Found
  <2>1. key \notin DOMAIN urlHandlers' /\ reply'.name = <<"error">>
    BY <1>1, <1>3 DEF Found, Reply
  <2>2. QED BY <2>1 DEF StatusPageTells
<1>4. QED BY <1>2, <1>3

LEMMA NextStep ==
    ASSUME IInv, [Next]_vars
    PROVE  IInv'
<1>1. TableOK /\ StatusPageTells
  BY DEF IInv
<1>2. CASE Start \/ UNCHANGED vars
  <2>1. UNCHANGED <<configs, urlHandlers, request, reply>>
    BY <1>2 DEF Start, vars
  <2>2. Keys' = Keys /\ \A key : HandlerFor(key)' = HandlerFor(key)
    BY <2>1, SameConfig
  <2>3. TableOK'
    BY <1>1, <2>1, <2>2 DEF TableOK
  <2>4. StatusPageTells'
    BY <1>1, <2>1 DEF StatusPageTells, Answered
  <2>5. QED BY <2>3, <2>4 DEF IInv
<1>3. ASSUME NEW m \in Messages, ServeBadTables(m)
      PROVE  IInv'
  <2>1. UNCHANGED <<configs, urlHandlers>>
    BY <1>3 DEF ServeBadTables, Receive
  <2>2. Keys' = Keys /\ \A key : HandlerFor(key)' = HandlerFor(key)
    BY <2>1, SameConfig
  <2>3. TableOK'
    BY <1>1, <2>1, <2>2 DEF TableOK
  <2>4. StatusPageTells'
    BY <1>3, UnansweredStep DEF ServeBadTables, Undefined, Die
  <2>5. QED BY <2>3, <2>4 DEF IInv
<1>4. ASSUME NEW m \in Messages,
             \/ ServeError(m) \/ ServeUnknownName(m) \/ ServeWithoutAttribute(m)
             \/ ServeBare(m) \/ ServeByHandler(m)
      PROVE  IInv'
  <2>1. Dispatch(m)
    BY <1>4 DEF ServeError, ServeUnknownName, ServeWithoutAttribute, ServeBare,
                ServeByHandler, Create
  <2>2. TableOK'
    BY <1>1, <2>1, DispatchStep
  <2>3. \/ reply' = NoReply
        \/ \E code \in Codes : Reply(<<"undefined">>, << >>, code)
        \/ ~Found /\ Reply(<<"error">>, << >>, 404)
        \/ Found /\ \E code \in AnswerCodes : Reply(Name, Attrs, code)
    BY <1>4 DEF ServeError, ServeUnknownName, ServeWithoutAttribute, ServeBare,
                ServeByHandler, Create, Undefined, Die
  <2>4. StatusPageTells'
    BY <1>1, <2>1, <2>3, AnsweredStep, UnansweredStep
  <2>5. QED BY <2>2, <2>4 DEF IInv
<1>5. QED BY <1>2, <1>3, <1>4 DEF Next

\* The status page names for each prefix the handler that serves it, and none where
\* the answer is the error handler's, whatever the configurations and however many
\* handlers claim one prefix (config_parser.cc:42, status_handler.cc:34-38).
THEOREM StatusPageIsRight == Spec => []StatusPageTells
<1>1. Init => IInv
  BY DEF Init, IInv, TableOK, StatusPageTells, Answered
<1>2. IInv /\ [Next]_vars => IInv'
  BY NextStep
<1>3. QED BY <1>1, <1>2, PTL DEF Spec, IInv

------------------------------------------------------------------------------
(***************************************************************************)
(* The port.  In the text of a plain configuration a name is where a       *)
(* setting of it was printed, and what follows it there is the value; of   *)
(* several the first is found.  By induction from the last block to the    *)
(* first, what a block prints tells the value of the first setting that    *)
(* InOrder collects from it.                                               *)
(***************************************************************************)

\* Statements of a plain configuration.
IsName(n) == n \in Names

LEMMA NamesDiffer ==
    ASSUME NEW n, IsName(n)
    PROVE  /\ n # Semicolon /\ n # Space /\ n # NewLine /\ n # Tab
           /\ n # OpenBrace /\ n # CloseBrace
BY Zenon DEF IsName, Names, Semicolon, Space, NewLine, Tab, OpenBrace, CloseBrace

LEMMA TailLacks ==
    ASSUME NEW t \in Text, t # << >>, NEW n, Lacks(t, n)
    PROVE  Tail(t) \in Text /\ Lacks(Tail(t), n)
<1>1. PICK L \in Nat : L = Len(t)
  BY TextDomain
<1>2. t \in Seq(Symbol)
  BY DEF Text
<1>3. PICK u : u = Tail(t)
  OBVIOUS
<1>4. u \in Text /\ Len(u) = L - 1 /\ \A i \in 1 .. L - 1 : u[i] = t[i + 1]
  BY <1>1, <1>2, <1>3, HeadTailProperties DEF Text
<1>5. \A i \in 1 .. L - 1 : i + 1 \in 1 .. L
  BY <1>1
<1>6. \A i \in 1 .. L - 1 : u[i] # n
  BY <1>1, <1>4, <1>5 DEF Lacks
<1>7. QED BY <1>3, <1>4, <1>6 DEF Lacks

LEMMA TailJoin ==
    ASSUME NEW x \in Symbol, NEW t \in Text
    PROVE  Tail(<<x>> \o t) = t
<1>1. PICK w : w = <<x>> \o t
  OBVIOUS
<1>2. <<x>> \in Text /\ Len(<<x>>) = 1
  BY OneSymbol
<1>3. IsJoin(w, <<x>>, t)
  BY <1>1, <1>2, JoinIs
<1>4. PICK L \in Nat : L = Len(t)
  BY TextDomain
<1>5. w \in Text /\ Len(w) = 1 + L /\ \A j \in 1 .. L : w[1 + j] = t[j]
  BY <1>2, <1>3, <1>4 DEF IsJoin
<1>6. w # << >> /\ w \in Seq(Symbol) /\ t \in Seq(Symbol)
  <2>1. Len(<< >>) = 0 /\ 1 + L # 0
    BY <1>4
  <2>2. w # << >>
    BY <1>5, <2>1
  <2>3. QED BY <1>5, <2>2 DEF Text
<1>7. PICK u : u = Tail(w)
  OBVIOUS
<1>8. u \in Seq(Symbol) /\ Len(u) = L /\ \A i \in 1 .. L : u[i] = w[i + 1]
  <2>1. u \in Seq(Symbol) /\ Len(u) = Len(w) - 1 /\ \A i \in 1 .. Len(u) : u[i] = w[i + 1]
    BY <1>6, <1>7, HeadTailProperties
  <2>2. QED BY <1>4, <1>5, <2>1
<1>9. \A i \in 1 .. L : i + 1 = 1 + i
  OBVIOUS
<1>10. \A i \in 1 .. L : u[i] = t[i]
  BY <1>5, <1>8, <1>9
<1>11. u = t
  BY <1>4, <1>6, <1>8, <1>10, SeqEqual
<1>12. QED BY <1>1, <1>7, <1>11

LEMMA JoinedLacks ==
    ASSUME NEW tokens \in Seq(Text), tokens # << >>, NEW n, n # Space,
           \A i \in 1 .. Len(tokens) : Lacks(tokens[i], n)
    PROVE  Joined(tokens) \in Text /\ Lacks(Joined(tokens), n)
<1>1. PICK ss : ss = Spaced(tokens)
  OBVIOUS
<1>2. /\ ss \in Seq(Text) /\ Len(ss) = Len(tokens)
      /\ \A i \in 1 .. Len(tokens) : ss[i] = <<Space>> \o tokens[i]
      /\ FlattenSeq(ss) # << >> /\ Joined(tokens) = Tail(FlattenSeq(ss))
  BY <1>1, JoinedIs
<1>3. \A i \in 1 .. Len(ss) : Lacks(ss[i], n)
  <2> TAKE i \in 1 .. Len(ss)
  <2>1. i \in 1 .. Len(tokens)
    BY <1>2
  <2>2. tokens[i] \in Text /\ Lacks(tokens[i], n)
    BY <2>1, ElementOfSeq
  <2>3. <<Space>> \in Text /\ Lacks(<<Space>>, n)
    BY SymbolsAre, LacksOne
  <2>4. Lacks(<<Space>> \o tokens[i], n)
    BY <2>2, <2>3, LacksJoin
  <2>5. QED BY <1>2, <2>1, <2>4
<1>4. FlattenSeq(ss) \in Text /\ Lacks(FlattenSeq(ss), n)
  BY <1>2, <1>3, LacksFlat
<1>5. QED BY <1>2, <1>4, TailLacks

LEMMA FlattenTwo ==
    ASSUME NEW a \in Text, NEW b \in Text, NEW ss \in Seq(Text), Len(ss) = 2,
           ss[1] = a, ss[2] = b
    PROVE  FlattenSeq(ss) = a \o b
<1>1. ss \in Seq(Seq(Symbol)) /\ a \in Seq(Symbol)
  BY DEF Text
<1>2. PICK h : Partial(Symbol, ss, h)
  BY <1>1, PartialExists
<1>3. h[0] = << >> /\ FlattenSeq(ss) = h[2] /\ \A i \in 1 .. 2 : h[i] = h[i - 1] \o ss[i]
  BY <1>2 DEF Partial
<1>4. 1 \in 1 .. 2 /\ 2 \in 1 .. 2 /\ 1 - 1 = 0 /\ 2 - 1 = 1
  OBVIOUS
<1>5. h[1] = h[0] \o ss[1] /\ h[2] = h[1] \o ss[2]
  BY <1>3, <1>4
<1>6. << >> \o a = a
  BY <1>1, ConcatEmptySeq
<1>7. QED BY <1>3, <1>5, <1>6

\* The words of a setting.
LEMMA JoinedTwo ==
    ASSUME NEW tokens \in Seq(Text), Len(tokens) = 2, NEW u \in Text, NEW v \in Text,
           u = tokens[1], v = tokens[2]
    PROVE  Joined(tokens) = u \o (<<Space>> \o v)
<1>1. PICK ss : ss = Spaced(tokens)
  OBVIOUS
<1>2. tokens # << >>
  OBVIOUS
<1>3. /\ ss \in Seq(Text) /\ Len(ss) = 2
      /\ \A i \in 1 .. 2 : ss[i] = <<Space>> \o tokens[i]
      /\ Joined(tokens) = Tail(FlattenSeq(ss))
  BY <1>1, <1>2, JoinedIs
<1>4. PICK b : b = <<Space>>
  OBVIOUS
<1>5. b \in Text
  BY <1>4, MarksAreTexts
<1>6. PICK s, t : s = b \o u /\ t = b \o v
  OBVIOUS
<1>7. s \in Text /\ t \in Text
  BY <1>5, <1>6, JoinIs DEF IsJoin
<1>8. ss[1] = s /\ ss[2] = t
  <2>1. 1 \in 1 .. 2 /\ 2 \in 1 .. 2
    OBVIOUS
  <2>2. QED BY <1>3, <1>4, <1>6, <2>1
<1>9. FlattenSeq(ss) = s \o t
  BY <1>3, <1>7, <1>8, FlattenTwo
<1>10. s \o t = b \o (u \o t)
  <2>1. (b \o u) \o t = b \o (u \o t)
    BY <1>5, <1>7, JoinsAssociate, Zenon
  <2>2. QED BY <1>6, <2>1, Zenon
<1>11. u \o t \in Text
  BY <1>7, JoinIs DEF IsJoin
<1>12. Tail(b \o (u \o t)) = u \o t
  BY <1>4, <1>11, SymbolsAre, TailJoin
<1>13. QED BY <1>3, <1>4, <1>6, <1>9, <1>10, <1>12

\* A setting in print.
LEMMA CoreTells ==
    ASSUME NEW n \in Symbol, NEW v \in Text
    PROVE  LET t == <<n>> \o (<<Space>> \o v) \o <<Semicolon>>
           IN  t \in Text /\ Tells(t, n, v)
<1>1. PICK a, b, d : a = <<Space>> \o v /\ b = <<n>> \o a /\ d = b \o <<Semicolon>>
  OBVIOUS
<1>2. /\ <<n>> \in Text /\ Len(<<n>>) = 1 /\ <<n>>[1] = n
      /\ <<Space>> \in Text /\ Len(<<Space>>) = 1 /\ <<Space>>[1] = Space
      /\ <<Semicolon>> \in Text /\ Len(<<Semicolon>>) = 1 /\ <<Semicolon>>[1] = Semicolon
  BY SymbolsAre, OneSymbol
<1>3. PICK l \in Nat : l = Len(v)
  BY TextDomain
<1>4. IsJoin(a, <<Space>>, v)
  BY <1>1, <1>2, JoinIs
<1>5. /\ a \in Text /\ Len(a) = 1 + l /\ a[1] = Space
      /\ \A j \in 1 .. l : a[1 + j] = v[j]
  <2>1. 1 \in 1 .. 1
    OBVIOUS
  <2>2. QED BY <1>2, <1>3, <1>4, <2>1 DEF IsJoin
<1>6. IsJoin(b, <<n>>, a)
  BY <1>1, <1>2, <1>5, JoinIs
<1>7. /\ b \in Text /\ Len(b) = 1 + (1 + l) /\ b[1] = n
      /\ \A j \in 1 .. 1 + l : b[1 + j] = a[j]
  <2>1. 1 \in 1 .. 1
    OBVIOUS
  <2>2. QED BY <1>2, <1>3, <1>5, <1>6, <2>1 DEF IsJoin
<1>8. IsJoin(d, b, <<Semicolon>>)
  BY <1>1, <1>2, <1>7, JoinIs
<1>9. /\ d \in Text /\ Len(d) = (1 + (1 + l)) + 1
      /\ d[(1 + (1 + l)) + 1] = Semicolon
      /\ \A j \in 1 .. 1 + (1 + l) : d[j] = b[j]
  <2>1. 1 \in 1 .. 1
    OBVIOUS
  <2>2. QED BY <1>2, <1>7, <1>8, <2>1 DEF IsJoin
<1>10. d[1] = n
  <2>1. 1 \in 1 .. 1 + (1 + l)
    BY <1>3
  <2>2. QED BY <1>7, <1>9, <2>1
<1>11. d[1 + 1] = Space
  <2>1. 1 + 1 \in 1 .. 1 + (1 + l) /\ 1 \in 1 .. 1 + l
    BY <1>3
  <2>2. QED BY <1>5, <1>7, <1>9, <2>1
<1>12. ASSUME NEW j \in 1 .. l PROVE d[1 + 1 + j] = v[j]
  <2>1. /\ 1 + 1 + j = 1 + (1 + j) /\ 1 + (1 + j) \in 1 .. 1 + (1 + l)
        /\ 1 + j \in 1 .. 1 + l
    BY <1>3
  <2>2. d[1 + (1 + j)] = b[1 + (1 + j)] /\ b[1 + (1 + j)] = a[1 + j]
    BY <1>7, <1>9, <2>1
  <2>3. QED BY <1>5, <2>1, <2>2
<1>13. 1 + l + 2 = (1 + (1 + l)) + 1
  BY <1>3
<1>14. TellsAt(d, n, v, 1)
  <2>1. \A j \in 1 .. 1 - 1 : FALSE
    OBVIOUS
  <2>2. 1 + l + 2 <= Len(d)
    BY <1>3, <1>9
  <2>3. QED BY <1>3, <1>9, <1>10, <1>11, <1>12, <1>13, <2>1, <2>2 DEF TellsAt
<1>15. 1 \in 1 .. Len(d)
  BY <1>3, <1>9
<1>16. QED BY <1>1, <1>9, <1>14, <1>15 DEF Tells

LEMMA MarksLack ==
    ASSUME NEW n, IsName(n), NEW d \in Nat
    PROVE  /\ Lacks(Indent(d), n) /\ Lacks(Open, n) /\ Lacks(Close, n)
           /\ Lacks(<<Semicolon>>, n) /\ Lacks(<<NewLine>>, n) /\ Lacks(<<Space>>, n)
<1>1. Lacks(Indent(d), n)
  BY NamesDiffer, IndentIs DEF Lacks
<1>2. Lacks(Close, n) /\ Lacks(<<Semicolon>>, n) /\ Lacks(<<NewLine>>, n) /\ Lacks(<<Space>>, n)
  BY NamesDiffer, SymbolsAre, LacksOne DEF Close
<1>3. Lacks(Open, n)
  <2>1. \A a, b, e : a # n /\ b # n /\ e # n => Lacks(<<a, b, e>>, n)
    BY DEF Lacks
  <2>2. QED BY <2>1, NamesDiffer, Zenon DEF Open
<1>4. QED BY <1>1, <1>2, <1>3

\* What PlainFiles says of a statement.
PlainStatement(s) ==
    \A i \in DOMAIN s.tokens :
        /\ Range(s.tokens[i]) \cap Names # {} => i = 1 /\ IsSetting(s)
        /\ ";" \notin Range(s.tokens[i])

LEMMA PlainIs ==
    ASSUME NEW c \in PlainFiles
    PROVE  /\ c \in ConfigFiles
           /\ \A i \in DOMAIN HandlersOf[c] : Defined(HandlersOf[c][i])
           /\ \A k \in 1 .. Len(c) : \A i \in 1 .. Len(c[k]) :
                 /\ PlainStatement(c[k][i])
                 /\ c[k][i].tokens[1] = <<"handler">> =>
                       \A t \in Range(c[c[k][i].child]) : t.child = 0
<1>1. c \in ConfigFiles /\ \A i \in DOMAIN HandlersOf[c] : Defined(HandlersOf[c][i])
  BY Zenon DEF PlainFiles
<1>2. ASSUME NEW k \in 1 .. Len(c), NEW i \in 1 .. Len(c[k])
      PROVE  /\ PlainStatement(c[k][i])
             /\ c[k][i].tokens[1] = <<"handler">> =>
                   \A t \in Range(c[c[k][i].child]) : t.child = 0
  <2>1. k \in DOMAIN c /\ c[k][i] \in Range(c[k])
    BY <1>1, ConfigIs
  <2>2. \A s \in Range(c[k]) :
           /\ \A j \in DOMAIN s.tokens :
                 /\ Range(s.tokens[j]) \cap Names # {} => j = 1 /\ IsSetting(s)
                 /\ ";" \notin Range(s.tokens[j])
           /\ s.tokens[1] = <<"handler">> => \A t \in Range(c[s.child]) : t.child = 0
    BY <2>1, Zenon DEF PlainFiles
  <2>3. QED BY <2>1, <2>2, Zenon DEF PlainStatement
<1>3. QED BY <1>1, <1>2

LEMMA WordsOf ==
    ASSUME NEW s \in Statement, s.tokens # << >>
    PROVE  /\ s.tokens \in Seq(Text) /\ Len(s.tokens) \in Nat \ {0}
           /\ DOMAIN s.tokens = 1 .. Len(s.tokens)
           /\ \A i \in 1 .. Len(s.tokens) : s.tokens[i] \in Text
<1>1. s.tokens \in Seq(Text)
  BY DEF Statement
<1>2. QED BY <1>1, EmptySeq, LenProperties, ElementOfSeq

LEMMA InRange ==
    ASSUME NEW t \in Text, NEW n
    PROVE  n \notin Range(t) <=> Lacks(t, n)
<1>1. DOMAIN t = 1 .. Len(t)
  BY TextDomain
<1>2. QED BY <1>1 DEF Range, Lacks

\* The words of a statement that is not a setting of the name are free of it.
LEMMA OthersLack ==
    ASSUME NEW s \in Statement, s.tokens # << >>, PlainStatement(s), NEW n, IsName(n),
           s.tokens[1] # <<n>>
    PROVE  \A i \in 1 .. Len(s.tokens) : Lacks(s.tokens[i], n)
<1> SUFFICES ASSUME NEW i \in 1 .. Len(s.tokens), ~Lacks(s.tokens[i], n) PROVE FALSE
  OBVIOUS
<1>1. i \in DOMAIN s.tokens /\ s.tokens[i] \in Text
  BY WordsOf
<1>2. n \in Range(s.tokens[i])
  BY <1>1, InRange
<1>3. Range(s.tokens[i]) \cap Names # {}
  BY <1>2 DEF IsName
<1>4. i = 1 /\ IsSetting(s)
  BY <1>1, <1>3, Zenon DEF PlainStatement
<1>5. PICK a \in Names : s.tokens[1] = <<a>>
  BY <1>4, Zenon DEF IsSetting
<1>6. \A x : Range(<<x>>) = {x}
  BY DEF Range
<1>7. n = a
  BY <1>2, <1>4, <1>5, <1>6
<1>8. QED BY <1>5, <1>7

LEMMA SettingIs ==
    ASSUME NEW s \in Statement, s.tokens # << >>, PlainStatement(s), NEW n, IsName(n),
           s.tokens[1] = <<n>>
    PROVE  /\ s.child = 0 /\ Len(s.tokens) = 2 /\ n \in Symbol
           /\ s.tokens[2] \in Text /\ Lacks(s.tokens[2], n) /\ Lacks(s.tokens[2], Semicolon)
<1>1. /\ s.tokens \in Seq(Text) /\ Len(s.tokens) \in Nat \ {0}
      /\ DOMAIN s.tokens = 1 .. Len(s.tokens)
      /\ \A i \in 1 .. Len(s.tokens) : s.tokens[i] \in Text
  BY WordsOf
<1>2. 1 \in 1 .. Len(s.tokens)
  BY <1>1
<1>3. Range(<<n>>) = {n}
  BY DEF Range
<1>4. Range(s.tokens[1]) \cap Names # {}
  BY <1>3 DEF IsName
<1>5. 1 \in DOMAIN s.tokens
  BY <1>1, <1>2
<1>6. IsSetting(s)
  BY <1>4, <1>5, Zenon DEF PlainStatement
<1>7. Len(s.tokens) = 2 /\ s.child = 0
  BY <1>6, Zenon DEF IsSetting
<1>8. 2 \in 1 .. Len(s.tokens) /\ 2 \in DOMAIN s.tokens /\ 2 # 1
  BY <1>1, <1>7
<1>9. PICK v \in Text : v = s.tokens[2]
  BY <1>1, <1>8
<1>10. Range(v) \cap Names = {} /\ ";" \notin Range(v)
  BY <1>8, <1>9, Zenon DEF PlainStatement
<1>11. Lacks(v, n) /\ Lacks(v, Semicolon)
  <2>1. n \notin Range(v)
    BY <1>10 DEF IsName
  <2>2. Semicolon \notin Range(v)
    BY <1>10, Zenon DEF Semicolon
  <2>3. QED BY <2>1, <2>2, InRange
<1>12. n \in Symbol
  <2>1. <<n>> \in Text
    BY <1>1, <1>2
  <2>2. \A S : \A x : <<x>> \in Seq(S) => x \in S
    <3> TAKE S
    <3> TAKE x
    <3> HAVE <<x>> \in Seq(S)
    <3>1. 1 \in 1 .. Len(<<x>>) /\ <<x>>[1] = x
      OBVIOUS
    <3>2. <<x>>[1] \in S
      BY <3>1, ElementOfSeq
    <3>3. QED BY <3>1, <3>2
  <2>3. QED BY <2>1, <2>2 DEF Text
<1>13. QED BY <1>7, <1>9, <1>11, <1>12

\* Either of them, at the place of a text.
Told(t, n, found, v) == IF found THEN v \in Text /\ Tells(t, n, v) ELSE Lacks(t, n)

LEMMA ToldInside ==
    ASSUME NEW a \in Text, NEW t \in Text, NEW b \in Text, NEW n, NEW found, NEW v,
           Lacks(a, n), Lacks(b, n), Told(t, n, found, v)
    PROVE  a \o t \o b \in Text /\ Told(a \o t \o b, n, found, v)
<1>1. a \o t \in Text /\ a \o t \o b \in Text
  <2>1. a \o t \in Text
    BY JoinIs DEF IsJoin
  <2>2. QED BY <2>1, JoinIs DEF IsJoin
<1>2. CASE found
  <2>1. v \in Text /\ Tells(t, n, v)
    BY <1>2 DEF Told
  <2>2. Tells(a \o t, n, v)
    BY <2>1, TellsSecond
  <2>3. Tells(a \o t \o b, n, v)
    BY <1>1, <2>1, <2>2, TellsFirst
  <2>4. QED BY <1>1, <1>2, <2>1, <2>3 DEF Told
<1>3. CASE ~found
  <2>1. Lacks(t, n)
    BY <1>3 DEF Told
  <2>2. Lacks(a \o t, n)
    BY <2>1, LacksJoin
  <2>3. Lacks(a \o t \o b, n)
    BY <1>1, <2>2, LacksJoin
  <2>4. QED BY <1>1, <1>3, <2>3 DEF Told
<1>4. QED BY <1>2, <1>3

LEMMA SettingTells ==
    ASSUME NEW s \in Statement, s.tokens # << >>, PlainStatement(s), NEW n, IsName(n),
           s.tokens[1] = <<n>>, NEW d \in Nat, NEW f
    PROVE  Tells(StatementText(f, s, d), n, s.tokens[2])
<1>1. PICK v : v = s.tokens[2]
  OBVIOUS
<1>2. s.child = 0 /\ Len(s.tokens) = 2 /\ n \in Symbol /\ v \in Text
  BY <1>1, SettingIs
<1>3. PICK a, e, z : a = Indent(d) /\ e = <<Semicolon>> /\ z = <<NewLine>>
  OBVIOUS
<1>4. a \in Text /\ e \in Text /\ z \in Text /\ Lacks(a, n) /\ Lacks(z, n)
  BY <1>3, IndentIs, MarksAreTexts, MarksLack
<1>5. PICK j : j = <<n>> \o (<<Space>> \o v)
  OBVIOUS
<1>6. Joined(s.tokens) = j
  <2>1. s.tokens \in Seq(Text)
    BY WordsOf
  <2>2. <<n>> \in Text
    BY <1>2, OneSymbol
  <2>3. QED BY <1>1, <1>2, <1>5, <2>1, <2>2, JoinedTwo
<1>7. j \in Text
  BY <1>6, JoinedIs, WordsOf
<1>8. j \o e \in Text /\ Tells(j \o e, n, v)
  BY <1>2, <1>3, <1>5, CoreTells
<1>9. StatementText(f, s, d) = (a \o j) \o e \o z
  <2>1. StatementText(f, s, d) = Indent(d) \o Joined(s.tokens) \o <<Semicolon>> \o <<NewLine>>
    BY <1>2, StatementIs
  <2>2. QED BY <1>3, <1>6, <2>1
<1>10. (a \o j) \o e = a \o (j \o e)
  BY <1>4, <1>7, JoinsAssociate, Zenon
<1>11. Tells(a \o (j \o e), n, v) /\ a \o (j \o e) \in Text
  <2>1. a \o (j \o e) \in Text
    BY <1>4, <1>8, JoinIs DEF IsJoin
  <2>2. QED BY <1>2, <1>4, <1>8, <2>1, TellsSecond
<1>12. Tells((a \o (j \o e)) \o z, n, v)
  BY <1>2, <1>4, <1>11, TellsFirst
<1>13. QED BY <1>1, <1>9, <1>10, <1>12

\* A statement that is no setting of the name tells what its block does.
LEMMA OtherTells ==
    ASSUME NEW s \in Statement, s.tokens # << >>, PlainStatement(s), NEW n, IsName(n),
           s.tokens[1] # <<n>>, NEW d \in Nat, NEW f, NEW found, NEW v,
           IF s.child = 0 THEN ~found
           ELSE f[s.child] \in [Nat -> Text] /\ Told(f[s.child][d + 1], n, found, v)
    PROVE  Told(StatementText(f, s, d), n, found, v)
<1>1. PICK a, b, z : a = Indent(d) /\ b = Joined(s.tokens) /\ z = <<NewLine>>
  OBVIOUS
<1>2. a \in Text /\ z \in Text /\ Lacks(a, n) /\ Lacks(z, n)
  BY <1>1, IndentIs, MarksAreTexts, MarksLack
<1>3. b \in Text /\ Lacks(b, n)
  <2>1. \A i \in 1 .. Len(s.tokens) : Lacks(s.tokens[i], n)
    BY OthersLack
  <2>2. s.tokens \in Seq(Text) /\ n # Space
    BY WordsOf, NamesDiffer
  <2>3. QED BY <1>1, <2>1, <2>2, JoinedLacks
<1>4. a \o b \in Text /\ Lacks(a \o b, n)
  BY <1>2, <1>3, LacksJoin
<1>5. PICK e \in Text : e = Ending(f, s, d)
  BY EndingType
<1>6. Told(e, n, found, v)
  <2>1. CASE s.child = 0
    <3>1. e = <<Semicolon>>
      BY <1>5, <2>1 DEF Ending
    <3>2. Lacks(e, n)
      BY <3>1, MarksLack
    <3>3. QED BY <2>1, <3>2 DEF Told
  <2>2. CASE s.child # 0
    <3>1. PICK t : t = f[s.child][d + 1]
      OBVIOUS
    <3>2. t \in Text /\ Told(t, n, found, v)
      <4>1. d + 1 \in Nat
        OBVIOUS
      <4>2. QED BY <2>2, <3>1, <4>1
    <3>3. Open \in Text /\ Close \in Text /\ Lacks(Open, n) /\ Lacks(Close, n)
      BY MarksAreTexts, MarksLack
    <3>4. Open \o t \o a \in Text /\ Told(Open \o t \o a, n, found, v)
      BY <1>2, <3>2, <3>3, ToldInside
    <3>5. << >> \in Text /\ Lacks(<< >>, n)
      BY LacksNothing
    <3>6. Told(<< >> \o (Open \o t \o a) \o Close, n, found, v)
      BY <3>3, <3>4, <3>5, ToldInside
    <3>7. << >> \o (Open \o t \o a) = Open \o t \o a
      BY <3>4, ConcatEmptySeq DEF Text
    <3>8. e = Open \o t \o a \o Close
      BY <1>1, <1>5, <2>2, <3>1 DEF Ending
    <3>9. QED BY <3>6, <3>7, <3>8
  <2>3. QED BY <2>1, <2>2
<1>7. Told((a \o b) \o e \o z, n, found, v)
  BY <1>2, <1>4, <1>5, <1>6, ToldInside
<1>8. StatementText(f, s, d) = (a \o b) \o e \o z
  <2>1. StatementText(f, s, d) =
          Indent(d) \o Joined(s.tokens) \o Ending(f, s, d) \o <<NewLine>>
    BY StatementIs, Zenon DEF Ending
  <2>2. QED BY <1>1, <1>5, <2>1
<1>9. QED BY <1>7, <1>8

\* What comes first when sequences are put together.
LEMMA FlattenNone ==
    ASSUME NEW S, NEW P \in Seq(Seq(S)), \A i \in 1 .. Len(P) : P[i] = << >>
    PROVE  FlattenSeq(P) = << >>
<1>1. PICK h : Partial(S, P, h)
  BY PartialExists
<1>2. PICK L \in Nat : L = Len(P)
  BY LenProperties
<1>3. /\ h[0] = << >> /\ FlattenSeq(P) = h[L]
      /\ \A i \in 1 .. L : h[i] = h[i - 1] \o P[i]
  BY <1>1, <1>2 DEF Partial
<1> DEFINE T == {i \in Nat : i <= L => h[i] = << >>}
<1>4. 0 \in T
  BY <1>3
<1>5. \A i \in T : i + 1 \in T
  <2> SUFFICES ASSUME NEW i \in T, i + 1 <= L PROVE h[i + 1] = << >>
    OBVIOUS
  <2>1. i \in Nat /\ i <= L /\ i + 1 \in 1 .. L /\ (i + 1) - 1 = i
    BY <1>2
  <2>2. h[i] = << >>
    BY <2>1
  <2>3. h[i + 1] = << >> \o << >>
    BY <1>2, <1>3, <2>1, <2>2
  <2>4. << >> \o << >> = << >>
    OBVIOUS
  <2>5. QED BY <2>3, <2>4
<1>6. T = Nat
  <2>1. T \in SUBSET Nat
    OBVIOUS
  <2> HIDE DEF T
  <2>2. QED BY <1>4, <1>5, <2>1, NumberInduction
<1>7. L \in T /\ L <= L
  BY <1>6
<1>8. QED BY <1>3, <1>7

LEMMA FlattenFirst ==
    ASSUME NEW S, NEW P \in Seq(Seq(S)), NEW k \in 1 .. Len(P), P[k] # << >>,
           \A i \in 1 .. k - 1 : P[i] = << >>
    PROVE  FlattenSeq(P) # << >> /\ FlattenSeq(P)[1] = P[k][1]
<1>1. PICK h : Partial(S, P, h)
  BY PartialExists
<1>2. PICK L \in Nat : L = Len(P)
  BY LenProperties
<1>3. /\ h \in [0 .. L -> Seq(S)]
      /\ h[0] = << >> /\ FlattenSeq(P) = h[L]
      /\ \A i \in 1 .. L : h[i] = h[i - 1] \o P[i]
  BY <1>1, <1>2 DEF Partial
<1>4. k \in 1 .. L
  BY <1>2
<1>5. \A i \in 1 .. L : P[i] \in Seq(S)
  BY <1>2, ElementOfSeq
<1> DEFINE Begins(t) == t # << >> /\ t[1] = P[k][1]
           T == {i \in Nat : i <= L => IF i < k THEN h[i] = << >> ELSE Begins(h[i])}
<1>6. 0 \in T
  BY <1>3, <1>4
<1>7. ASSUME NEW s \in Seq(S), NEW t \in Seq(S), Begins(s)
      PROVE  Begins(s \o t)
  <2>1. Len(s) \in Nat \ {0} /\ Len(t) \in Nat
    BY <1>7, EmptySeq, LenProperties
  <2>2. PICK a, b \in Nat : a = Len(s) /\ b = Len(t) /\ a # 0
    BY <2>1
  <2>3. 1 \in 1 .. a + b /\ 1 <= a
    BY <2>2
  <2>4. (s \o t)[1] = s[1]
    BY <2>2, <2>3, ConcatProperties
  <2>5. s \o t # << >>
    BY <1>7, ConcatEqualIffEmpty
  <2>6. QED BY <1>7, <2>4, <2>5
<1>8. Begins(P[k])
  OBVIOUS
<1> HIDE DEF Begins
<1>9. \A i \in T : i + 1 \in T
  <2> SUFFICES ASSUME NEW i \in T, i + 1 <= L
               PROVE  IF i + 1 < k THEN h[i + 1] = << >> ELSE Begins(h[i + 1])
    OBVIOUS
  <2>1. i \in Nat /\ i <= L /\ i + 1 \in 1 .. L /\ (i + 1) - 1 = i /\ i \in 0 .. L
    BY <1>2
  <2>2. IF i < k THEN h[i] = << >> ELSE Begins(h[i])
    BY <2>1
  <2>3. h[i + 1] = h[i] \o P[i + 1] /\ P[i + 1] \in Seq(S) /\ h[i] \in Seq(S)
    BY <1>3, <1>5, <2>1
  <2>4. CASE i + 1 < k
    <3>1. i + 1 \in 1 .. k - 1 /\ i < k
      BY <1>4, <2>1, <2>4
    <3>2. P[i + 1] = << >> /\ h[i] = << >>
      BY <2>2, <3>1
    <3>3. << >> \o << >> = << >>
      OBVIOUS
    <3>4. QED BY <2>3, <2>4, <3>2, <3>3
  <2>5. CASE i + 1 = k
    <3>1. i < k /\ ~(i + 1 < k)
      BY <1>4, <2>1, <2>5
    <3>2. h[i] = << >>
      BY <2>2, <3>1
    <3>3. h[i + 1] = P[k]
      BY <2>3, <2>5, <3>2, ConcatEmptySeq
    <3>4. QED BY <1>8, <3>1, <3>3
  <2>6. CASE i + 1 > k
    <3>1. ~(i < k) /\ ~(i + 1 < k)
      BY <1>4, <2>1, <2>6
    <3>2. Begins(h[i] \o P[i + 1])
      BY <1>7, <2>2, <2>3, <3>1
    <3>3. QED BY <2>3, <3>1, <3>2
  <2>7. i + 1 < k \/ i + 1 = k \/ i + 1 > k
    BY <1>4, <2>1
  <2>8. QED BY <2>4, <2>5, <2>6, <2>7
<1>10. T = Nat
  <2>1. T \in SUBSET Nat
    OBVIOUS
  <2> HIDE DEF T
  <2>2. QED BY <1>6, <1>9, <2>1, NumberInduction
<1>11. L \in T /\ L <= L /\ ~(L < k)
  <2>1. L \in T
    BY <1>10
  <2> HIDE DEF T
  <2>2. L <= L /\ ~(L < k)
    BY <1>2, <1>4
  <2>3. QED BY <2>1, <2>2
<1>12. Begins(FlattenSeq(P))
  BY <1>3, <1>11
<1>13. QED BY <1>12 DEF Begins

\* A text put together tells what the first of its parts does that tells.
LEMMA FlatTells ==
    ASSUME NEW S, NEW P \in Seq(Seq(S)), NEW ss \in Seq(Text), Len(ss) = Len(P), NEW n,
           \A i \in 1 .. Len(P) : Told(ss[i], n, P[i] # << >>, P[i][1].tokens[2])
    PROVE  Told(FlattenSeq(ss), n, FlattenSeq(P) # << >>, FlattenSeq(P)[1].tokens[2])
<1>1. PICK L \in Nat : L = Len(P)
  BY LenProperties
<1> DEFINE I == {i \in 1 .. L : P[i] # << >>}
<1>2. CASE I = {}
  <2>1. \A i \in 1 .. L : P[i] = << >>
    BY <1>2
  <2>2. FlattenSeq(P) = << >>
    BY <1>1, <2>1, FlattenNone
  <2>3. \A i \in 1 .. Len(ss) : Lacks(ss[i], n)
    BY <1>1, <2>1 DEF Told
  <2>4. Lacks(FlattenSeq(ss), n)
    BY <2>3, LacksFlat
  <2>5. QED BY <2>2, <2>4 DEF Told
<1>3. CASE I # {}
  <2>1. I \in SUBSET Nat
    BY <1>1
  <2>2. PICK k \in I : \A i \in I : k <= i
    <3> HIDE DEF I
    <3>1. QED BY <1>3, <2>1, Minimum
  <2>3. k \in 1 .. L /\ P[k] # << >>
    BY <2>2
  <2>4. \A i \in 1 .. k - 1 : i \in 1 .. L /\ ~(k <= i)
    BY <1>1, <2>3
  <2>5. \A i \in 1 .. k - 1 : P[i] = << >>
    BY <2>2, <2>4
  <2>6. FlattenSeq(P) # << >> /\ FlattenSeq(P)[1] = P[k][1]
    BY <1>1, <2>3, <2>5, FlattenFirst
  <2>7. PICK v : v = P[k][1].tokens[2]
    OBVIOUS
  <2>8. v \in Text /\ Tells(ss[k], n, v)
    BY <1>1, <2>3, <2>7 DEF Told
  <2>9. \A i \in 1 .. k - 1 : Lacks(ss[i], n)
    BY <1>1, <2>4, <2>5 DEF Told
  <2>10. Tells(FlattenSeq(ss), n, v)
    BY <1>1, <2>3, <2>8, <2>9, TellsFlat
  <2>11. QED BY <2>6, <2>7, <2>8, <2>10 DEF Told
<1>4. QED BY <1>2, <1>3

Settings(c, n) == {s \in Statements(c) : s.child = 0 /\ s.tokens[1] = <<n>>}

\* In print a block tells of a name what the first setting in it does.
Told1(c, f, g, n, k) ==
    \A d \in Nat : Told(f[k][d], n, g[k] # << >>, g[k][1].tokens[2])

LEMMA BlockTells ==
    ASSUME NEW c \in PlainFiles, NEW f, IsPrint(c, f), NEW n, IsName(n),
           NEW g, IsOrder(c, Settings(c, n), g), NEW k \in 1 .. Len(c),
           \A j \in k + 1 .. Len(c) : Told1(c, f, g, n, j)
    PROVE  Told1(c, f, g, n, k)
<1> SUFFICES ASSUME NEW d \in Nat
             PROVE  Told(f[k][d], n, g[k] # << >>, g[k][1].tokens[2])
  BY DEF Told1
<1>1. c \in ConfigFiles
  BY PlainIs
<1>2. PICK L, m \in Nat : L = Len(c) /\ m = Len(c[k]) /\ DOMAIN c[k] = 1 .. m
  BY <1>1, ConfigIs
<1>3. PICK X : X = Settings(c, n)
  OBVIOUS
<1>4. PICK P : P = Picked(c, X, g, k)
  OBVIOUS
<1>5. \A j \in k + 1 .. L : j \in 1 .. L
  BY <1>2
<1>6. \A j \in 1 .. L : g[j] \in Seq(X)
  BY <1>2, <1>3 DEF IsOrder
<1>7. P \in Seq(Seq(X)) /\ Len(P) = m
  BY <1>1, <1>2, <1>4, <1>5, <1>6, PickedType
<1>8. g[k] = FlattenSeq(P)
  BY <1>2, <1>3, <1>4 DEF IsOrder
<1>9. \A j \in 1 .. L : f[j] \in [Nat -> Text]
  BY <1>2 DEF IsPrint
<1> DEFINE E(i) == StatementText(f, c[k][i], d)
<1>10. PICK ss : ss = [i \in DOMAIN c[k] |-> E(i)]
  OBVIOUS
<1>11. ss \in Seq(Text)
  <2>1. \A j \in k + 1 .. Len(c) : f[j] \in [Nat -> Text]
    BY <1>2, <1>5, <1>9
  <2>2. QED BY <1>1, <1>10, <2>1, BlockType, Zenon
<1>12. f[k][d] = FlattenSeq(ss)
  <2>1. f[k] = BlockText(c, f, k)
    BY DEF IsPrint
  <2>2. QED BY <1>10, <2>1, Zenon DEF BlockText
<1>13. Len(ss) = m /\ \A i \in 1 .. m : ss[i] = E(i)
  <2> HIDE DEF E
  <2>1. ss = [i \in 1 .. m |-> E(i)]
    BY <1>2, <1>10
  <2>2. QED BY <2>1
<1>14. ASSUME NEW i \in 1 .. m
       PROVE  Told(E(i), n, P[i] # << >>, P[i][1].tokens[2])
  <2>1. PICK s \in Statement : s = c[k][i] /\ s.tokens # << >>
                               /\ s.child \in {0} \cup (k + 1 .. L)
    BY <1>1, <1>2, ConfigIs
  <2>2. PlainStatement(s)
    BY <1>2, <2>1, PlainIs
  <2>3. s \in Statements(c)
    <3>1. k \in DOMAIN c /\ s \in Range(c[k])
      BY <1>1, <1>2, <2>1, ConfigIs
    <3>2. QED BY <3>1 DEF Statements
  <2>4. P[i] = (IF s.child = 0 THEN << >> ELSE g[s.child])
               \o (IF s \in X THEN <<s>> ELSE << >>)
    BY <1>2, <1>4, <2>1, Zenon DEF Picked
  <2>5. CASE s.tokens[1] = <<n>>
    <3>1. s.child = 0 /\ s.tokens[2] \in Text
      BY <2>1, <2>2, <2>5, SettingIs
    <3>2. s \in X
      BY <1>3, <2>3, <2>5, <3>1 DEF Settings
    <3>3. P[i] = << >> \o <<s>>
      BY <2>4, <3>1, <3>2
    <3>4. << >> \o <<s>> = <<s>> /\ <<s>> # << >> /\ <<s>>[1] = s
      OBVIOUS
    <3>5. P[i] # << >> /\ P[i][1] = s
      BY <3>3, <3>4
    <3>6. Tells(E(i), n, s.tokens[2])
      BY <2>1, <2>2, <2>5, SettingTells
    <3>7. QED BY <3>1, <3>5, <3>6 DEF Told
  <2>6. CASE s.tokens[1] # <<n>>
    <3>1. s \notin X
      BY <1>3, <2>6 DEF Settings
    <3>2. CASE s.child = 0
      <4>1. P[i] = << >> \o << >>
        BY <2>4, <3>1, <3>2
      <4>2. << >> \o << >> = << >>
        OBVIOUS
      <4>3. ~(P[i] # << >>)
        BY <4>1, <4>2
      <4>4. Told(StatementText(f, s, d), n, P[i] # << >>, P[i][1].tokens[2])
        BY <2>1, <2>2, <2>6, <3>2, <4>3, OtherTells
      <4>5. QED BY <2>1, <4>4
    <3>3. CASE s.child # 0
      <4>1. s.child \in k + 1 .. L /\ s.child \in 1 .. L
        BY <1>5, <2>1, <3>3
      <4>2. P[i] = g[s.child] \o << >>
        BY <2>4, <3>1, <3>3
      <4>3. P[i] = g[s.child]
        BY <1>6, <4>1, <4>2, ConcatEmptySeq
      <4>4. Told(f[s.child][d + 1], n, P[i] # << >>, P[i][1].tokens[2])
        <5>1. d + 1 \in Nat
          OBVIOUS
        <5>2. QED BY <1>2, <4>1, <4>3, <5>1 DEF Told1
      <4>5. f[s.child] \in [Nat -> Text]
        BY <1>9, <4>1
      <4>6. Told(StatementText(f, s, d), n, P[i] # << >>, P[i][1].tokens[2])
        BY <2>1, <2>2, <2>6, <3>3, <4>4, <4>5, OtherTells
      <4>7. QED BY <2>1, <4>6
    <3>4. QED BY <3>2, <3>3
  <2>7. QED BY <2>5, <2>6
<1> HIDE DEF E
<1>15. \A i \in 1 .. Len(P) : Told(ss[i], n, P[i] # << >>, P[i][1].tokens[2])
  BY <1>7, <1>13, <1>14
<1>16. QED BY <1>7, <1>8, <1>11, <1>12, <1>13, <1>15, FlatTells

LEMMA StatementPlain ==
    ASSUME NEW c \in PlainFiles, NEW s \in Statements(c)
    PROVE  s \in Statement /\ s.tokens # << >> /\ PlainStatement(s)
<1>1. c \in ConfigFiles
  BY PlainIs
<1>2. PICK k \in 1 .. Len(c) : \E i \in 1 .. Len(c[k]) : s = c[k][i]
  BY <1>1, StatementsAre
<1>3. QED BY <1>1, <1>2, PlainIs, StatementsAre

\* The printed file tells of a name what the first setting of it says.
LEMMA FileTells ==
    ASSUME NEW c \in PlainFiles, NEW n, IsName(n)
    PROVE  LET settings == InOrder(c, Settings(c, n))
           IN  /\ Told(TextOf[c][1], n, settings # << >>, settings[1].tokens[2])
               /\ settings # << >> => Lacks(settings[1].tokens[2], Semicolon)
<1>1. c \in ConfigFiles
  BY PlainIs
<1>2. PICK f : IsPrint(c, f)
  BY <1>1, PrintIs
<1>3. PICK g : IsOrder(c, Settings(c, n), g)
  BY <1>1, OrderIs
<1>4. PICK L \in Nat \ {0} : L = Len(c)
  BY <1>1, ConfigIs
<1> DEFINE T == {k \in 1 .. L : Told1(c, f, g, n, k)}
<1>5. T = 1 .. L
  <2>1. \A k \in 1 .. L : k + 1 .. L \subseteq T => k \in T
    <3> TAKE k \in 1 .. L
    <3> HAVE k + 1 .. L \subseteq T
    <3>1. \A j \in k + 1 .. Len(c) : Told1(c, f, g, n, j)
      BY <1>4
    <3>2. Told1(c, f, g, n, k)
      BY <1>2, <1>3, <1>4, <3>1, BlockTells
    <3>3. QED BY <3>2
  <2>2. T \in SUBSET (1 .. L)
    OBVIOUS
  <2>3. L \in Nat
    OBVIOUS
  <2> HIDE DEF T
  <2>4. QED BY <2>1, <2>2, <2>3, BackwardInduction
<1>6. 1 \in T /\ 1 \in 1 .. L
  BY <1>5
<1>7. Told1(c, f, g, n, 1)
  BY <1>6
<1>8. TextOf[c][1] = f[1][0]
  BY <1>2, <1>4, <1>6 DEF IsPrint
<1>9. PICK settings : settings = InOrder(c, Settings(c, n))
  OBVIOUS
<1>10. settings = g[1]
  BY <1>3, <1>9 DEF IsOrder
<1>11. Told(TextOf[c][1], n, settings # << >>, settings[1].tokens[2])
  BY <1>7, <1>8, <1>10 DEF Told1
<1>12. ASSUME settings # << >> PROVE Lacks(settings[1].tokens[2], Semicolon)
  <2>1. settings \in Seq(Settings(c, n))
    BY <1>1, <1>9, OrderType
  <2>2. 1 \in 1 .. Len(settings)
    BY <1>12, <2>1, EmptySeq, LenProperties
  <2>3. settings[1] \in Settings(c, n)
    BY <2>1, <2>2, ElementOfSeq
  <2>4. settings[1] \in Statements(c) /\ settings[1].tokens[1] = <<n>>
    BY <2>3 DEF Settings
  <2>5. QED BY <2>4, StatementPlain, SettingIs
<1>13. QED BY <1>9, <1>11, <1>12

\* The port of a configuration.
PortOf(c) ==
    LET text == TextOf[c][1]
        rest == After(text, <<"listen">>)
    IN  IF Has(text, <<"listen">>) /\ Has(rest, <<";">>)
        THEN Atoi(SubSeq(PortText(rest), 1, FirstAt(rest, <<";">>) - 1))
        ELSE 0

LEMMA PortOfConfig == GetPort = PortOf(configs)
BY Zenon DEF GetPort, PortOf, Printed

LEMMA PortTold ==
    ASSUME NEW c \in ConfigFiles, NEW v,
           \E n : n = "listen" /\ Tells(TextOf[c][1], n, v), v \in Text, Lacks(v, Semicolon)
    PROVE  PortOf(c) = Atoi(v)
<1>1. PICK n : n = "listen" /\ Tells(TextOf[c][1], n, v)
  OBVIOUS
<1>2. PICK t : t = TextOf[c][1]
  OBVIOUS
<1>3. t \in Text
  <2>1. 1 \in 1 .. Len(c)
    BY ConfigIs
  <2>2. QED BY <1>2, <2>1, TextType
<1>4. PICK r : r = After(t, <<n>>)
  OBVIOUS
<1>5. PortOf(c) = IF Has(t, <<n>>) /\ Has(r, <<Semicolon>>)
                THEN Atoi(SubSeq(PortText(r), 1, FirstAt(r, <<Semicolon>>) - 1))
                ELSE 0
  BY <1>1, <1>2, <1>4, Zenon DEF PortOf, Semicolon
<1>6. PICK l \in Nat : l = Len(v)
  BY TextDomain
<1>7. /\ Has(t, <<n>>) /\ Has(r, <<Semicolon>>)
      /\ r \in Text /\ FirstAt(r, <<Semicolon>>) = l + 2
      /\ l + 2 <= Len(r)
      /\ \A j \in 1 .. l : r[j + 1] = v[j]
  BY <1>1, <1>2, <1>3, <1>4, <1>6, ValueIs
<1>8. r[l + 2] = Semicolon
  <2>1. ~Lacks(r, Semicolon)
    BY <1>7, HasNone
  <2>2. PICK q \in 1 .. Len(r) : r[q] = Semicolon /\ \A j \in 1 .. q - 1 : r[j] # Semicolon
    BY <1>7, <2>1, FirstExists
  <2>3. FirstAt(r, <<Semicolon>>) = q
    BY <1>7, <2>2, FirstIs
  <2>4. QED BY <1>7, <2>2, <2>3
<1>9. PICK R \in Nat : R = Len(r)
  BY <1>7, TextDomain
<1>10. l + 2 <= R
  BY <1>7, <1>9
<1>11. r # << >>
  <2>1. Len(<< >>) = 0
    OBVIOUS
  <2>2. R # 0
    BY <1>10
  <2>3. QED BY <1>9, <2>1, <2>2
<1>12. PICK u : u = Tail(r)
  OBVIOUS
<1>13. u \in Seq(Symbol) /\ Len(u) = R - 1 /\ \A i \in 1 .. R - 1 : u[i] = r[i + 1]
  BY <1>7, <1>9, <1>11, <1>12, HeadTailProperties DEF Text
<1>14. PICK w : w = SubSeq(u, 1, l + 1)
  OBVIOUS
<1>15. w \in Text /\ Len(w) = l + 1 /\ \A i \in 1 .. l + 1 : w[i] = u[i]
  <2>1. 1 \in Int /\ l + 1 \in Int /\ \A i \in 1 .. l + 1 : i \in 1 .. R - 1
    BY <1>10
  <2>2. \A i \in 1 .. l + 1 : u[i] \in Symbol
    BY <1>13, <2>1, ElementOfSeq
  <2>3. /\ w \in Seq(Symbol) /\ Len(w) = IF 1 <= l + 1 THEN (l + 1) - 1 + 1 ELSE 0
        /\ \A i \in 1 .. (l + 1) - 1 + 1 : w[i] = u[1 + i - 1]
    BY <1>14, <2>1, <2>2, SubSeqProperties
  <2>4. (l + 1) - 1 + 1 = l + 1 /\ (IF 1 <= l + 1 THEN (l + 1) - 1 + 1 ELSE 0) = l + 1
        /\ \A i \in 1 .. l + 1 : 1 + i - 1 = i
    OBVIOUS
  <2>5. QED BY <2>3, <2>4 DEF Text
<1>16. \A i \in 1 .. l : w[i] = v[i]
  <2>1. \A i \in 1 .. l : i \in 1 .. l + 1 /\ i \in 1 .. R - 1
    BY <1>10
  <2>2. QED BY <1>7, <1>13, <1>15, <2>1
<1>17. w[l + 1] = Semicolon
  <2>1. l + 1 \in 1 .. l + 1 /\ l + 1 \in 1 .. R - 1 /\ (l + 1) + 1 = l + 2
    BY <1>10
  <2>2. QED BY <1>8, <1>13, <1>15, <2>1
<1>18. Atoi(w) = Atoi(v)
  BY <1>6, <1>15, <1>16, <1>17, AtoiEnds
<1>19. (l + 2) - 1 = l + 1
  OBVIOUS
<1>20. QED BY <1>5, <1>7, <1>12, <1>14, <1>18, <1>19, Zenon DEF PortText

\* Without the name there is no port.
LEMMA NoPort ==
    ASSUME NEW c \in ConfigFiles, NEW n, n = "listen", Lacks(TextOf[c][1], n)
    PROVE  PortOf(c) = 0
<1>1. TextOf[c][1] \in Text
  <2>1. 1 \in 1 .. Len(c)
    BY ConfigIs
  <2>2. QED BY <2>1, TextType
<1>2. ~Has(TextOf[c][1], <<n>>)
  BY <1>1, HasNone
<1>3. QED BY <1>2, Zenon DEF PortOf

LEMMA PortIs ==
    ASSUME NEW c \in PlainFiles, NEW listens, listens = InOrder(c, Settings(c, "listen"))
    PROVE  PortOf(c) = IF listens = << >> THEN 0 ELSE Atoi(listens[1].tokens[2])
<1>1. PICK n : n = "listen"
  OBVIOUS
<1>2. IsName(n) /\ c \in ConfigFiles
  BY <1>1, PlainIs, Zenon DEF IsName, Names
<1>3. listens = InOrder(c, Settings(c, n))
  BY <1>1
<1>4. /\ Told(TextOf[c][1], n, listens # << >>, listens[1].tokens[2])
      /\ listens # << >> => Lacks(listens[1].tokens[2], Semicolon)
  BY <1>2, <1>3, FileTells
<1>5. CASE listens = << >>
  <2>1. Lacks(TextOf[c][1], n)
    BY <1>4, <1>5 DEF Told
  <2>2. QED BY <1>1, <1>2, <1>5, <2>1, NoPort
<1>6. CASE listens # << >>
  <2>1. PICK v : v = listens[1].tokens[2]
    OBVIOUS
  <2>2. v \in Text /\ Tells(TextOf[c][1], n, v) /\ Lacks(v, Semicolon)
    BY <1>4, <1>6, <2>1 DEF Told
  <2>3. PortOf(c) = Atoi(v)
    BY <1>1, <1>2, <2>2, PortTold
  <2>4. QED BY <1>6, <2>1, <2>3
<1>7. QED BY <1>5, <1>6

PortOK ==
    state # "starting" =>
        port = AsPort(PortOf(configs)) /\ (state = "exited" <=> PortOf(configs) = 0)

LEMMA PortStep ==
    ASSUME PortOK, [Next]_vars
    PROVE  PortOK'
<1>1. CASE UNCHANGED vars
  BY <1>1 DEF vars, PortOK
<1>2. CASE Start
  <2>1. PICK p : p = PortOf(configs)
    OBVIOUS
  <2>2. /\ state' = IF p = 0 THEN "exited" ELSE "running"
        /\ port' = AsPort(p) /\ configs' = configs
    BY <1>2, <2>1, PortOfConfig DEF Start
  <2>3. PortOf(configs') = p
    BY <2>1, <2>2
  <2>4. state' = "exited" <=> p = 0
    BY <2>2, Zenon
  <2>5. QED BY <2>2, <2>3, <2>4, Zenon DEF PortOK
<1>3. ASSUME NEW m \in Messages,
             \/ ServeBadTables(m) \/ ServeError(m) \/ ServeUnknownName(m)
             \/ ServeWithoutAttribute(m) \/ ServeBare(m) \/ ServeByHandler(m)
      PROVE  PortOK'
  <2>1. Receive(m)
    BY <1>3, AnswerIs
  <2>2. state = "running" /\ UNCHANGED <<configs, port>>
    BY <2>1 DEF Receive
  <2>3. state' \in {state, "dead"}
    <3>1. Die => state' = "dead"
      BY DEF Die
    <3>2. \A name, attrs, code : Reply(name, attrs, code) => state' = state
      BY Zenon DEF Reply
    <3>3. Die \/ \E name, attrs, code : Reply(name, attrs, code)
      BY <1>3, Zenon DEF ServeBadTables, ServeError, ServeUnknownName, ServeWithoutAttribute,
              ServeBare, ServeByHandler, Undefined
    <3>4. QED BY <3>1, <3>2, <3>3, Zenon
  <2>4. state # "starting" /\ state # "exited" /\ state' # "starting" /\ state' # "exited"
    BY <2>2, <2>3, Zenon
  <2>5. port = AsPort(PortOf(configs)) /\ PortOf(configs) # 0
    BY <2>4, Zenon DEF PortOK
  <2>6. QED BY <2>2, <2>4, <2>5 DEF PortOK
<1>4. QED BY <1>1, <1>2, <1>3 DEF Next

LEMMA ModSmall ==
    \A k \in Nat \ {0} : \A n \in 0 .. k - 1 : n % k = n
OBVIOUS

\* The port is that of the first listen statement in the order of the file, at
\* whatever depth of blocks, for every plain configuration, and without one the
\* process does not start (config_parser.cc:61-88, server_main.cc:95-101).
THEOREM PortIsTheFirstListen == Spec => []PortIsListen
<1>1. Init => PortOK
  BY Zenon DEF Init, PortOK
<1>2. PortOK /\ [Next]_vars => PortOK'
  BY PortStep
<1>3. PortOK => PortIsListen
  <2> SUFFICES ASSUME PortOK, Plain, state # "starting",
                      NEW listens, listens = AllSettings("listen"),
                      NEW number, number = Atoi(listens[1].tokens[2])
               PROVE  /\ listens = << >> => state = "exited"
                      /\ listens # << >> /\ number \in 1 .. PortNumbers - 1
                            => state # "exited" /\ port = number
    BY Zenon DEF PortIsListen
  <2>1. PICK p : p = PortOf(configs)
    OBVIOUS
  <2>2. port = AsPort(p) /\ (state = "exited" <=> p = 0)
    BY <2>1 DEF PortOK
  <2>3. listens = InOrder(configs, Settings(configs, "listen"))
    BY Zenon DEF AllSettings, Settings
  <2>4. p = IF listens = << >> THEN 0 ELSE number
    BY <2>1, <2>3, PortIs DEF Plain
  <2>5. CASE listens = << >>
    BY <2>2, <2>4, <2>5, Zenon
  <2>6. ASSUME listens # << >>, number \in 1 .. PortNumbers - 1
        PROVE  state # "exited" /\ port = number
    <3>1. p = number
      BY <2>4, <2>6
    <3>2. PortNumbers \in Nat \ {0}
      BY DEF PortNumbers
    <3>3. PICK k \in Nat \ {0} : k = PortNumbers
      BY <3>2
    <3>4. number \in 1 .. k - 1
      BY <2>6, <3>3
    <3>5. number % k = number /\ number # 0
      BY <3>4, ModSmall
    <3>6. QED BY <2>2, <3>1, <3>3, <3>5, Zenon DEF AsPort
  <2>7. QED BY <2>5, <2>6
<1>4. QED BY <1>1, <1>2, <1>3, PTL DEF Spec

------------------------------------------------------------------------------
(***************************************************************************)
(* Who answers.  The block of a handler has no blocks in it, so what it    *)
(* prints tells what it says, and the first handler in the table that has  *)
(* a prefix is the first in the file that says so.                         *)
(***************************************************************************)

\* The first setting of a name in a block.
SettingAt(c, k, n) == FirstOf({j \in 1 .. Len(c[k]) : c[k][j].tokens[1] = <<n>>})

\* A block without blocks in it tells of a name what its first setting says.
LEMMA LeafTells ==
    ASSUME NEW c \in PlainFiles, NEW k \in 1 .. Len(c), \A t \in Range(c[k]) : t.child = 0,
           NEW n, IsName(n)
    PROVE  LET i == SettingAt(c, k, n)
           IN  /\ Told(TextOf[c][k], n, i # 0, c[k][i].tokens[2])
               /\ i # 0 => i \in 1 .. Len(c[k]) /\ Lacks(c[k][i].tokens[2], Semicolon)
<1>1. c \in ConfigFiles
  BY PlainIs
<1>2. PICK f : IsPrint(c, f)
  BY <1>1, PrintIs
<1>3. PICK m \in Nat : m = Len(c[k]) /\ DOMAIN c[k] = 1 .. m
  BY <1>1, ConfigIs
<1> DEFINE E(i) == StatementText(f, c[k][i], 0)
<1>4. PICK ss : ss = [i \in DOMAIN c[k] |-> E(i)]
  OBVIOUS
<1>5. PICK L \in Nat : L = Len(c)
  BY <1>1, ConfigIs
<1>6. \A j \in k + 1 .. L : f[j] \in [Nat -> Text]
  <2>1. \A j \in k + 1 .. L : j \in 1 .. L
    BY <1>5
  <2>2. QED BY <1>2, <1>5, <2>1 DEF IsPrint
<1>7. ss \in Seq(Text)
  <2>1. \A j \in k + 1 .. Len(c) : f[j] \in [Nat -> Text]
    BY <1>5, <1>6
  <2>2. 0 \in Nat
    OBVIOUS
  <2>3. QED BY <1>1, <1>4, <2>1, <2>2, BlockType, Zenon
<1>8. TextOf[c][k] = FlattenSeq(ss)
  <2>1. f[k] = BlockText(c, f, k) /\ TextOf[c][k] = f[k][0]
    BY <1>2 DEF IsPrint
  <2>2. BlockText(c, f, k)[0] = FlattenSeq([i \in DOMAIN c[k] |-> E(i)])
    BY Zenon DEF BlockText
  <2>3. QED BY <1>4, <2>1, <2>2
<1>9. Len(ss) = m /\ \A i \in 1 .. m : ss[i] = E(i)
  <2> HIDE DEF E
  <2>1. ss = [i \in 1 .. m |-> E(i)]
    BY <1>3, <1>4
  <2>2. QED BY <2>1
<1>10. ASSUME NEW i \in 1 .. m
       PROVE  IF c[k][i].tokens[1] = <<n>>
              THEN /\ c[k][i].tokens[2] \in Text /\ Tells(ss[i], n, c[k][i].tokens[2])
                   /\ Lacks(c[k][i].tokens[2], Semicolon)
              ELSE Lacks(ss[i], n)
  <2>1. PICK s \in Statement : s = c[k][i] /\ s.tokens # << >> /\ s.child = 0
    BY <1>1, <1>3, ConfigIs
  <2>2. PlainStatement(s)
    BY <1>3, <2>1, PlainIs
  <2>3. ss[i] = StatementText(f, s, 0)
    BY <1>9, <2>1
  <2>4. 0 \in Nat
    OBVIOUS
  <2>5. CASE s.tokens[1] = <<n>>
    <3>1. s.tokens[2] \in Text /\ Lacks(s.tokens[2], Semicolon)
      BY <2>1, <2>2, <2>5, SettingIs
    <3>2. Tells(StatementText(f, s, 0), n, s.tokens[2])
      BY <2>1, <2>2, <2>4, <2>5, SettingTells
    <3>3. QED BY <2>1, <2>3, <2>5, <3>1, <3>2
  <2>6. CASE s.tokens[1] # <<n>>
    <3>1. Told(StatementText(f, s, 0), n, FALSE, 0)
      BY <2>1, <2>2, <2>4, <2>6, OtherTells
    <3>2. Lacks(StatementText(f, s, 0), n)
      BY <3>1 DEF Told
    <3>3. QED BY <2>1, <2>3, <2>6, <3>2
  <2>7. QED BY <2>5, <2>6
<1> HIDE DEF E
<1> DEFINE I == {j \in 1 .. m : c[k][j].tokens[1] = <<n>>}
<1>11. PICK i : i = FirstOf(I)
  OBVIOUS
<1>12. SettingAt(c, k, n) = i
  BY <1>3, <1>11 DEF SettingAt
<1>13. I \in SUBSET Nat /\ 0 \notin I
  OBVIOUS
<1>14. /\ I = {} => i = 0
       /\ I # {} => i \in I /\ \A j \in I : i <= j
  <2> HIDE DEF I
  <2>1. QED BY <1>11, <1>13, FirstOfIs
<1>15. CASE I = {}
  <2>1. \A j \in 1 .. Len(ss) : Lacks(ss[j], n)
    BY <1>9, <1>10, <1>15
  <2>2. Lacks(FlattenSeq(ss), n)
    BY <1>7, <2>1, LacksFlat
  <2>3. i = 0
    BY <1>14, <1>15
  <2>4. QED BY <1>8, <1>12, <2>2, <2>3 DEF Told
<1>16. CASE I # {}
  <2>1. i \in I /\ \A j \in I : i <= j
    BY <1>14, <1>16
  <2>2. i \in 1 .. m /\ c[k][i].tokens[1] = <<n>> /\ i # 0
    BY <2>1
  <2>3. PICK v : v = c[k][i].tokens[2]
    OBVIOUS
  <2>4. v \in Text /\ Tells(ss[i], n, v) /\ Lacks(v, Semicolon)
    BY <1>10, <2>2, <2>3
  <2>5. \A j \in 1 .. i - 1 : Lacks(ss[j], n)
    <3> TAKE j \in 1 .. i - 1
    <3>1. j \in 1 .. m /\ ~(i <= j)
      BY <2>2
    <3>2. c[k][j].tokens[1] # <<n>>
      BY <2>1, <3>1
    <3>3. QED BY <1>10, <3>1, <3>2
  <2>6. Tells(FlattenSeq(ss), n, v)
    BY <1>7, <1>9, <2>2, <2>4, <2>5, TellsFlat
  <2>7. Told(TextOf[c][k], n, i # 0, v)
    BY <1>8, <2>2, <2>4, <2>6 DEF Told
  <2>8. QED BY <1>3, <1>12, <2>2, <2>3, <2>4, <2>7
<1>17. QED BY <1>15, <1>16

LEMMA SaysIs ==
    ASSUME NEW k, NEW n
    PROVE  Says(k, n) = IF SettingAt(configs, k, n) = 0 THEN << >>
                        ELSE configs[k][SettingAt(configs, k, n)].tokens[2]
BY Zenon DEF Says, SelectInSeq, SettingAt, FirstOf

\* What is looked up of such a block is what the block says.
LEMMA BlockIsRead ==
    ASSUME configs \in PlainFiles, NEW k \in 1 .. Len(configs),
           \A t \in Range(configs[k]) : t.child = 0, NEW n, IsName(n)
    PROVE  /\ HasAttribute(k, n) => GetAttribute(k, n) = Says(k, n)
           /\ Says(k, n) # << >> => HasAttribute(k, n)
           /\ n = "url" => PeekURL(Printed(k)) = Says(k, n)
<1>1. PICK t : t = Printed(k)
  OBVIOUS
<1>2. PICK i : i = SettingAt(configs, k, n)
  OBVIOUS
<1>3. PICK v : v = configs[k][i].tokens[2]
  OBVIOUS
<1>4. t = TextOf[configs][k]
  BY <1>1 DEF Printed
<1>5. Told(t, n, i # 0, v) /\ (i # 0 => Lacks(v, Semicolon))
  BY <1>2, <1>3, <1>4, LeafTells
<1>6. t \in Text
  BY <1>4, TextType, PlainIs
<1>7. Says(k, n) = IF i = 0 THEN << >> ELSE v
  BY <1>2, <1>3, SaysIs
<1>8. HasAttribute(k, n) <=> Has(t, <<n>>)
  BY <1>1 DEF HasAttribute
<1>9. CASE i = 0
  <2>1. Lacks(t, n)
    BY <1>5, <1>9 DEF Told
  <2>2. ~Has(t, <<n>>)
    BY <1>6, <2>1, HasNone
  <2>3. n = "url" => PeekURL(t) = << >>
    BY <2>2, Zenon DEF PeekURL
  <2>4. QED BY <1>1, <1>7, <1>8, <1>9, <2>2, <2>3
<1>10. CASE i # 0
  <2>1. v \in Text /\ Tells(t, n, v) /\ Lacks(v, Semicolon)
    BY <1>5, <1>10 DEF Told
  <2>2. PICK r : r = After(t, <<n>>)
    OBVIOUS
  <2>3. Has(t, <<n>>) /\ Has(r, <<Semicolon>>) /\ Value(r) = v
    BY <1>6, <2>1, <2>2, ValueIs
  <2>4. GetAttribute(k, n) = v
    BY <1>1, <2>2, <2>3, Zenon DEF GetAttribute, Rest, Semicolon
  <2>5. n = "url" => PeekURL(t) = v
    BY <2>2, <2>3, Zenon DEF PeekURL, Semicolon
  <2>6. QED BY <1>1, <1>7, <1>8, <1>10, <2>3, <2>4, <2>5
<1>11. QED BY <1>9, <1>10

\* The block of a handler is one without blocks in it.
LEMMA HandlerBlock ==
    ASSUME NEW c \in PlainFiles, NEW i \in 1 .. Len(HandlersOf[c])
    PROVE  LET h == HandlersOf[c][i]
           IN  Defined(h) /\ h.child \in 1 .. Len(c) /\ \A t \in Range(c[h.child]) : t.child = 0
<1>1. c \in ConfigFiles
  BY PlainIs
<1>2. PICK h : h = HandlersOf[c][i]
  OBVIOUS
<1>3. h \in Statements(c) /\ h.tokens[1] = <<"handler">> /\ i \in DOMAIN HandlersOf[c]
  BY <1>1, <1>2, HandlersAre
<1>4. Defined(h)
  BY <1>2, <1>3, PlainIs
<1>5. h.child \in 1 .. Len(c)
  BY <1>1, <1>3, <1>4, StatementsAre DEF Defined
<1>6. PICK k \in 1 .. Len(c) : \E j \in 1 .. Len(c[k]) : h = c[k][j]
  BY <1>1, <1>3, StatementsAre
<1>7. PICK j \in 1 .. Len(c[k]) : h = c[k][j]
  BY <1>6
<1>8. \A t \in Range(c[h.child]) : t.child = 0
  BY <1>3, <1>7, PlainIs
<1>9. QED BY <1>2, <1>4, <1>5, <1>8

\* The first handler that says it has a prefix is the one the table has for it.
FirstSaying(key) == SelectInSeq(Handlers, LAMBDA s : Says(s.child, "url") = key)

LEMMA FirstSays ==
    ASSUME configs \in PlainFiles, NEW key
    PROVE  LET i == FirstSaying(key)
           IN  /\ i = 0 <=> key \notin Keys
               /\ i # 0 => i \in 1 .. Len(Handlers) /\ HandlerFor(key) = Handlers[i]
<1>1. PICK i : i = FirstSaying(key)
  OBVIOUS
<1>2. configs \in ConfigFiles
  BY PlainIs
<1>3. PICK H : H = Handlers
  OBVIOUS
<1>4. PICK n \in Nat : n = Len(H) /\ DOMAIN KeysOf[configs] = 1 .. n /\ Len(KeysOf[configs]) = n
  BY <1>2, <1>3, HandlersAre DEF Handlers
<1>5. ASSUME NEW j \in 1 .. n
      PROVE  KeysOf[configs][j] = Says(H[j].child, "url")
  <2>1. PICK k : k = H[j].child
    OBVIOUS
  <2>2. Defined(H[j]) /\ k \in 1 .. Len(configs) /\ \A t \in Range(configs[k]) : t.child = 0
    BY <1>3, <1>4, <2>1, HandlerBlock DEF Handlers
  <2>3. KeysOf[configs][j] = PeekURL(Printed(k))
    <3>1. KeysOf[configs][j] = PeekURL(TextOf[configs][k])
      BY <1>2, <1>3, <1>4, <2>1, <2>2, HandlersAre DEF Handlers
    <3>2. QED BY <3>1 DEF Printed
  <2>4. PICK u : u = "url"
    OBVIOUS
  <2>5. IsName(u)
    BY <2>4, Zenon DEF IsName, Names
  <2>6. PeekURL(Printed(k)) = Says(k, u)
    BY <2>2, <2>4, <2>5, BlockIsRead
  <2>7. QED BY <2>1, <2>3, <2>4, <2>6
<1> DEFINE I == {j \in 1 .. n : Says(H[j].child, "url") = key}
           J == {j \in 1 .. n : KeysOf[configs][j] = key}
<1>6. I = J /\ I \in SUBSET Nat /\ 0 \notin I
  BY <1>5
<1>7. i = FirstOf(I)
  <2>1. i = FirstOf({j \in 1 .. Len(Handlers) : Says(Handlers[j].child, "url") = key})
    BY <1>1, Zenon DEF FirstSaying, SelectInSeq, FirstOf
  <2>2. QED BY <1>3, <1>4, <2>1
<1>8. FirstWith(key) = FirstOf(J)
  BY <1>4 DEF FirstWith
<1>9. key \in Keys <=> J # {}
  BY <1>4 DEF Keys, Range
<1>10. i = 0 <=> I = {}
  <2> HIDE DEF I
  <2>1. QED BY <1>6, <1>7, FirstOfIs
<1>11. ASSUME i # 0 PROVE i \in 1 .. Len(Handlers) /\ HandlerFor(key) = Handlers[i]
  <2>1. i = FirstWith(key) /\ key \in Keys
    BY <1>6, <1>7, <1>8, <1>9, <1>10, <1>11
  <2>2. QED BY <1>2, <2>1, KeyIsAt
<1>12. QED BY <1>1, <1>6, <1>9, <1>10, <1>11

\* What the actions look up, of a configuration.
HasIn(c, k, a) == Has(TextOf[c][k], <<a>>)
GotIn(c, k, a) == LET rest == After(TextOf[c][k], <<a>>)
                  IN  IF Has(rest, <<";">>) THEN Value(rest) ELSE << >>
KeysIn(c) == Range(KeysOf[c])
HandlerIn(c, key) == HandlersOf[c][SelectInSeq(KeysOf[c], LAMBDA k : k = key)]
UndefinedIn(c) == \E i \in DOMAIN HandlersOf[c] : ~Defined(HandlersOf[c][i])

LEMMA LookUps ==
    /\ \A k, a : HasAttribute(k, a) <=> HasIn(configs, k, a)
    /\ \A k, a : GetAttribute(k, a) = GotIn(configs, k, a)
    /\ Keys = KeysIn(configs)
    /\ \A key : HandlerFor(key) = HandlerIn(configs, key)
    /\ TablesUndefined <=> UndefinedIn(configs)
<1>1. \A k, a : HasAttribute(k, a) <=> HasIn(configs, k, a)
  BY DEF HasAttribute, HasIn, Printed
<1>2. \A k, a : GetAttribute(k, a) = GotIn(configs, k, a)
  BY Zenon DEF GetAttribute, GotIn, Printed, Rest
<1>3. Keys = KeysIn(configs)
  BY DEF Keys, KeysIn
<1>4. \A key : HandlerFor(key) = HandlerIn(configs, key)
  BY Zenon DEF HandlerFor, HandlerIn, Handlers
<1>5. TablesUndefined <=> UndefinedIn(configs)
  BY DEF TablesUndefined, UndefinedIn, Handlers
<1>6. QED BY <1>1, <1>2, <1>3, <1>4, <1>5

LEMMA AttributesAre ==
    ASSUME NEW name
    PROVE  \A a \in Attributes(name) : IsName(a)
<1> DEFINE G1 == name \in {<<"echo">>, <<"status">>, <<"health">>}
           G2 == name = <<"static">>
           G3 == name = <<"meme">>
           G4 == name = <<"proxy">>
<1>1. Attributes(name) = CASE G1 -> {"url"} [] G2 -> {"url", "location"}
                           [] G3 -> {"url", "location", "save"}
                           [] G4 -> {"url", "host", "path", "port"} [] OTHER -> {}
  BY Zenon DEF Attributes
<1>2. {"url"} \subseteq Names /\ {"url", "location"} \subseteq Names
      /\ {"url", "location", "save"} \subseteq Names
      /\ {"url", "host", "path", "port"} \subseteq Names
  BY DEF Names
<1> HIDE DEF G1, G2, G3, G4
<1>3. Attributes(name) \subseteq Names
  BY <1>1, <1>2
<1>4. QED BY <1>3 DEF IsName

\* Who answers a path, and with what.
ServedOf(c, uri, answer) ==
    IF Prefix(uri) \in KeysIn(c)
    THEN LET h == HandlerIn(c, Prefix(uri))
         IN  /\ answer.name = h.tokens[2]
             /\ \A a \in DOMAIN answer.attrs :
                   IsName(a) /\ HasIn(c, h.child, a) /\ answer.attrs[a] = GotIn(c, h.child, a)
    ELSE answer.name = <<"error">> /\ answer.code = 404

ServedOK == Answered => ServedOf(configs, request.uri, reply)

LEMMA ServedStep ==
    ASSUME ServedOK, [Next]_vars
    PROVE  ServedOK'
<1>1. CASE Start \/ UNCHANGED vars
  <2>1. UNCHANGED <<configs, request, reply>>
    BY <1>1 DEF Start, vars
  <2>2. QED BY <2>1 DEF ServedOK, Answered, NoReply
<1>2. ASSUME NEW m \in Messages,
             \/ ServeBadTables(m) \/ ServeError(m) \/ ServeUnknownName(m)
             \/ ServeWithoutAttribute(m) \/ ServeBare(m) \/ ServeByHandler(m)
      PROVE  ServedOK'
  <2>1. configs' = configs
    BY <1>2, AnswerIs DEF Receive
  <2>2. PICK u : u = request'.uri
    OBVIOUS
  <2>3. CASE ~Answered'
    BY <2>3 DEF ServedOK
  <2>4. CASE ~Found /\ Reply(<<"error">>, << >>, 404)
    <3>1. reply'.name = <<"error">> /\ reply'.code = 404
      BY <2>4 DEF Reply
    <3>2. Prefix(u) \notin KeysIn(configs)
      BY <2>2, <2>4, LookUps DEF Found
    <3>3. ServedOf(configs, u, reply')
      BY <3>1, <3>2 DEF ServedOf
    <3>4. QED BY <2>1, <2>2, <3>3 DEF ServedOK
  <2>5. CASE Create(m) /\ \E code \in AnswerCodes : Reply(Name, Attrs, code)
    <3>1. Found /\ HasAll
      BY <2>5 DEF Create
    <3>2. PICK h : h = HandlerIn(configs, Prefix(u))
      OBVIOUS
    <3>3. Prefix(u) \in KeysIn(configs) /\ Chosen = h
      BY <2>2, <3>1, <3>2, LookUps DEF Found, Chosen
    <3>4. reply'.name = h.tokens[2] /\ reply'.attrs = Attrs
      BY <2>5, <3>3 DEF Reply, Name
    <3>5. DOMAIN Attrs = Attributes(Name)
          /\ \A a \in Attributes(Name) : Attrs[a] = GetAttribute(h.child, a)
      BY <3>3 DEF Attrs
    <3>6. \A a \in Attributes(Name) : IsName(a) /\ HasIn(configs, h.child, a)
      BY <3>1, <3>3, AttributesAre, LookUps DEF HasAll
    <3>7. \A a \in DOMAIN reply'.attrs :
             /\ IsName(a) /\ HasIn(configs, h.child, a)
             /\ reply'.attrs[a] = GotIn(configs, h.child, a)
      BY <3>4, <3>5, <3>6, LookUps
    <3>8. ServedOf(configs, u, reply')
      BY <3>2, <3>3, <3>4, <3>7 DEF ServedOf
    <3>9. QED BY <2>1, <2>2, <3>8 DEF ServedOK
  <2>6. QED BY <1>2, <2>3, <2>4, <2>5, AnswerIs
<1>3. QED BY <1>1, <1>2 DEF Next

LEMMA HandlersSay ==
    ASSUME configs \in PlainFiles, NEW i \in 1 .. Len(Handlers), NEW n, IsName(n)
    PROVE  LET k == Handlers[i].child
           IN  /\ HasIn(configs, k, n) => GotIn(configs, k, n) = Says(k, n)
               /\ Says(k, n) # << >> => HasIn(configs, k, n)
<1>1. PICK k : k = Handlers[i].child
  OBVIOUS
<1>2. k \in 1 .. Len(configs) /\ \A t \in Range(configs[k]) : t.child = 0
  BY <1>1, HandlerBlock DEF Handlers
<1>3. /\ HasAttribute(k, n) => GetAttribute(k, n) = Says(k, n)
      /\ Says(k, n) # << >> => HasAttribute(k, n)
  BY <1>2, BlockIsRead
<1>4. QED BY <1>1, <1>3, LookUps

\* A request is answered by the first handler of the file that says it has the
\* path's prefix, with the values of that handler's own block, and by the error
\* handler if none does, for every plain configuration (config_parser.cc:29-59,
\* :115-171, dispatcher.cc:28-76).
THEOREM BlocksServe == Spec => []ServedByItsBlock
<1>1. Init => ServedOK
  BY DEF Init, ServedOK, Answered
<1>2. ServedOK /\ [Next]_vars => ServedOK'
  BY ServedStep
<1>3. ServedOK => ServedByItsBlock
  <2> SUFFICES ASSUME ServedOK, configs \in PlainFiles, Answered,
                      NEW i, i = FirstSaying(Prefix(request.uri))
               PROVE  IF i = 0 THEN reply.name = <<"error">> /\ reply.code = 404
                      ELSE /\ reply.name = Handlers[i].tokens[2]
                           /\ \A a \in DOMAIN reply.attrs :
                                 reply.attrs[a] = Says(Handlers[i].child, a)
    BY Zenon DEF ServedByItsBlock, Plain, FirstSaying
  <2>1. PICK key : key = Prefix(request.uri)
    OBVIOUS
  <2>2. i = FirstSaying(key)
    BY <2>1
  <2>3. /\ i = 0 <=> key \notin Keys
        /\ i # 0 => i \in 1 .. Len(Handlers) /\ HandlerFor(key) = Handlers[i]
    BY <2>2, FirstSays
  <2>4. ServedOf(configs, request.uri, reply)
    BY DEF ServedOK
  <2>5. CASE i = 0
    <3>1. Prefix(request.uri) \notin KeysIn(configs)
      BY <2>1, <2>3, <2>5, LookUps
    <3>2. QED BY <2>4, <2>5, <3>1 DEF ServedOf
  <2>6. CASE i # 0
    <3>1. PICK h : h = Handlers[i]
      OBVIOUS
    <3>2. i \in 1 .. Len(Handlers) /\ key \in KeysIn(configs) /\ HandlerIn(configs, key) = h
      BY <2>3, <2>6, <3>1, LookUps
    <3>3. /\ reply.name = h.tokens[2]
          /\ \A a \in DOMAIN reply.attrs :
                /\ IsName(a) /\ HasIn(configs, h.child, a)
                /\ reply.attrs[a] = GotIn(configs, h.child, a)
      BY <2>1, <2>4, <3>2 DEF ServedOf
    <3>4. \A a \in DOMAIN reply.attrs : reply.attrs[a] = Says(h.child, a)
      BY <3>1, <3>2, <3>3, HandlersSay
    <3>5. QED BY <2>6, <3>1, <3>3, <3>4
  <2>7. QED BY <2>5, <2>6
<1>4. QED BY <1>1, <1>2, <1>3, PTL DEF Spec

------------------------------------------------------------------------------
(***************************************************************************)
(* What ends the process.                                                  *)
(***************************************************************************)

\* What a path ends the process for.
KillsOf(c, uri) ==
    \/ UndefinedIn(c)
    \/ /\ Prefix(uri) \in KeysIn(c)
       /\ LET h == HandlerIn(c, Prefix(uri))
          IN  \/ h.tokens[2] \notin KnownNames
              \/ \E a \in Attributes(h.tokens[2]) : ~HasIn(c, h.child, a)
              \/ /\ h.tokens[2] \in {<<"static">>, <<"meme">>}
                 /\ Len(uri) <= Len(Prefix(uri))
              \/ h.tokens[2] = <<"proxy">>

DeadOK == state = "dead" => request.uri \in Text /\ KillsOf(configs, request.uri)

LEMMA DieKills ==
    ASSUME configs \in ConfigFiles, NEW m \in Messages, Die,
           \/ ServeBadTables(m) \/ ServeError(m) \/ ServeUnknownName(m)
           \/ ServeWithoutAttribute(m) \/ ServeBare(m) \/ ServeByHandler(m),
           state = "running"
    PROVE  KillsOf(configs, request'.uri)
<1>1. PICK u : u = request'.uri
  OBVIOUS
<1>2. PICK h : h = HandlerIn(configs, Prefix(u))
  OBVIOUS
<1>3. Found <=> Prefix(u) \in KeysIn(configs)
  BY <1>1, LookUps DEF Found
<1>4. Chosen = h /\ Name = h.tokens[2]
  BY <1>1, <1>2, LookUps DEF Chosen, Name
<1>5. CASE ServeBadTables(m)
  BY <1>1, <1>5, LookUps DEF ServeBadTables, KillsOf
<1>6. CASE ServeError(m)
  <2>1. state' = state /\ state' = "dead"
    BY <1>6 DEF ServeError, Reply, Die
  <2>2. QED BY <2>1
<1>7. CASE ServeUnknownName(m)
  BY <1>1, <1>2, <1>3, <1>4, <1>7, Zenon DEF ServeUnknownName, KillsOf
<1>8. CASE ServeWithoutAttribute(m)
  <2>1. Found /\ ~HasAll
    BY <1>8 DEF ServeWithoutAttribute
  <2>2. \E a \in Attributes(h.tokens[2]) : ~HasIn(configs, h.child, a)
    BY <1>4, <2>1, LookUps DEF HasAll
  <2>3. QED BY <1>1, <1>2, <1>3, <2>1, <2>2, Zenon DEF KillsOf
<1>9. CASE ServeBare(m)
  <2>1. Create(m) /\ LooksBehind /\ Len(u) <= Len(Attrs.url)
    BY <1>1, <1>9 DEF ServeBare, Bare
  <2>2. "url" \in Attributes(Name)
    BY <2>1, Zenon DEF LooksBehind, Attributes
  <2>3. Attrs.url = Prefix(u)
    BY <1>1, <2>1, <2>2, UrlKept
  <2>4. h.tokens[2] \in {<<"static">>, <<"meme">>} /\ Len(u) <= Len(Prefix(u)) /\ Found
    BY <1>4, <2>1, <2>3, Zenon DEF LooksBehind, Create
  <2>5. QED BY <1>1, <1>2, <1>3, <2>4, Zenon DEF KillsOf
<1>10. CASE ServeByHandler(m)
  <2>1. Found
    BY <1>10 DEF ServeByHandler, Create
  <2>2. state' = "dead"
    BY DEF Die
  <2>3. \A code : ~Reply(Name, Attrs, code)
    BY <2>2, Zenon DEF Reply
  <2>4. Name = <<"proxy">>
    BY <1>10, <2>3, Zenon DEF ServeByHandler
  <2>5. QED BY <1>1, <1>2, <1>3, <1>4, <2>1, <2>4, Zenon DEF KillsOf
<1>11. QED BY <1>5, <1>6, <1>7, <1>8, <1>9, <1>10

LEMMA DeadStep ==
    ASSUME configs \in ConfigFiles, DeadOK, [Next]_vars
    PROVE  DeadOK'
<1>1. CASE UNCHANGED vars
  BY <1>1 DEF vars, DeadOK
<1>2. CASE Start
  <2>1. state' # "dead"
    BY <1>2, Zenon DEF Start
  <2>2. QED BY <2>1 DEF DeadOK
<1>3. ASSUME NEW m \in Messages,
             \/ ServeBadTables(m) \/ ServeError(m) \/ ServeUnknownName(m)
             \/ ServeWithoutAttribute(m) \/ ServeBare(m) \/ ServeByHandler(m)
      PROVE  DeadOK'
  <2>1. state = "running" /\ configs' = configs /\ request' = RequestOf[m]
    BY <1>3, AnswerIs DEF Receive
  <2>2. Die \/ state' = state
    <3>1. \A name, attrs, code : Reply(name, attrs, code) => state' = state
      BY Zenon DEF Reply
    <3>2. Die \/ \E name, attrs, code : Reply(name, attrs, code)
      BY <1>3, Zenon DEF ServeBadTables, ServeError, ServeUnknownName, ServeWithoutAttribute,
              ServeBare, ServeByHandler, Undefined
    <3>3. QED BY <3>1, <3>2, Zenon
  <2>3. CASE Die
    <3>1. KillsOf(configs, request'.uri)
      BY <1>3, <2>1, <2>3, DieKills
    <3>2. request'.uri \in Text
      BY <2>1, UriIs
    <3>3. QED BY <2>1, <3>1, <3>2 DEF DeadOK
  <2>4. CASE state' = state
    <3>1. state' # "dead"
      BY <2>1, <2>4, Zenon
    <3>2. QED BY <3>1 DEF DeadOK
  <2>5. QED BY <2>2, <2>3, <2>4
<1>4. QED BY <1>1, <1>2, <1>3 DEF Next

LEMMA PrefixAll ==
    ASSUME NEW u \in Text, Len(u) <= Len(Prefix(u))
    PROVE  u = Prefix(u)
<1>1. PICK p \in Text : p = Prefix(u) /\ IsPrefix(p, u)
  BY PrefixOf
<1>2. PICK l, k \in Nat : l = Len(u) /\ k = Len(p)
  BY TextDomain
<1>3. k <= l /\ SubSeq(u, 1, k) = SubSeq(p, 1, k)
  BY <1>1, <1>2 DEF IsPrefix
<1>4. l <= k
  BY <1>1, <1>2
<1>5. l = k
  BY <1>3, <1>4
<1>6. SubSeq(u, 1, l) = u /\ SubSeq(p, 1, k) = p
  BY <1>1, <1>2, SubSeqFull DEF Text
<1>7. QED BY <1>1, <1>3, <1>5, <1>6

\* With a plain and complete configuration no request ends the process but the bare
\* prefix of a handler of files, and one for the proxy (static_handler.cc:30,
\* meme_handler.cc:35, dispatcher.cc:54).
THEOREM OnlyBarePrefixesKill == Spec => []OnlyBarePrefixKills
<1>1. Init => DeadOK
  BY Zenon DEF Init, DeadOK
<1>2. TypeOK /\ DeadOK /\ [Next]_vars => DeadOK'
  BY DeadStep DEF TypeOK
<1>3. DeadOK => OnlyBarePrefixKills
  <2> SUFFICES ASSUME DeadOK, configs \in PlainFiles, Complete, state = "dead"
               PROVE  /\ Prefix(request.uri) \in Keys
                      /\ \/ /\ HandlerFor(Prefix(request.uri)).tokens[2]
                                   \in {<<"static">>, <<"meme">>}
                            /\ request.uri = Prefix(request.uri)
                         \/ HandlerFor(Prefix(request.uri)).tokens[2] = <<"proxy">>
    BY Zenon DEF OnlyBarePrefixKills, Plain
  <2>1. PICK u \in Text : u = request.uri /\ KillsOf(configs, u)
    BY DEF DeadOK
  <2>2. PICK key : key = Prefix(u)
    OBVIOUS
  <2>3. ~UndefinedIn(configs) /\ configs \in ConfigFiles
    BY PlainIs DEF UndefinedIn
  <2>4. key \in KeysIn(configs)
    BY <2>1, <2>2, <2>3, Zenon DEF KillsOf
  <2>5. PICK i : i = FirstWith(key)
    OBVIOUS
  <2>6. PICK h : h = HandlerIn(configs, key)
    OBVIOUS
  <2>7. i \in 1 .. Len(Handlers) /\ h = Handlers[i] /\ HandlerFor(key) = h /\ key \in Keys
    BY <2>3, <2>4, <2>5, <2>6, KeyIsAt, LookUps
  <2>8. i \in DOMAIN Handlers
    BY <2>3, <2>7, HandlersAre DEF Handlers
  <2>9. h.tokens[2] \in KnownNames /\ \A a \in Attributes(h.tokens[2]) : Says(h.child, a) # << >>
    BY <2>7, <2>8 DEF Complete
  <2>10. \A a \in Attributes(h.tokens[2]) : HasIn(configs, h.child, a)
    BY <2>7, <2>9, AttributesAre, HandlersSay
  <2>11. \/ h.tokens[2] \in {<<"static">>, <<"meme">>} /\ Len(u) <= Len(Prefix(u))
         \/ h.tokens[2] = <<"proxy">>
    BY <2>1, <2>2, <2>3, <2>6, <2>9, <2>10, Zenon DEF KillsOf
  <2>12. QED BY <2>1, <2>2, <2>7, <2>11, PrefixAll
<1>4. QED BY <1>1, <1>2, <1>3, TypeCorrect, PTL DEF Spec
==============================================================================
