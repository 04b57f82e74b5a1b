-------------------------- MODULE ConfigParser_proofs --------------------------
(***************************************************************************)
(* Theorems about ConfigParser for files and blocks of any size.           *)
(***************************************************************************)
EXTENDS ConfigParser, TextLemmas

Statement == [tokens : Seq(Seq(Chars)), child : Nat]

(***************************************************************************)
(* The inductive invariant.  A block is made after the blocks it is in, so *)
(* no block is on the stack twice: a change of the innermost one is a      *)
(* change of no other.                                                     *)
(***************************************************************************)

LexerOK ==
    /\ ahead \in Chars \cup {"none"}
    /\ lex \in {"space", "word", "comment"} \cup Quotes
    /\ value \in Seq(Chars)
    /\ read \in Seq(Seq(Chars))

ParserType ==
    /\ last \in {"start", "word"} \cup Punct
    /\ configs \in Seq(Config)
    /\ stack \in Seq(DOMAIN configs)
    /\ depth \in Nat
    /\ result \in {"parsing", "accepted", "rejected", "unbalanced"}

Increasing == \A i, j \in DOMAIN stack : i < j => stack[i] < stack[j]

ParserOK == ParserType /\ Increasing /\ StackIsPath

IInv == LexerOK /\ ParserOK

LEMMA TopOK ==
    ASSUME ParserOK
    PROVE  /\ depth \in Nat /\ Len(stack) = depth + 1 /\ DOMAIN stack = 1 .. depth + 1
           /\ Top = stack[depth + 1]
           /\ Len(configs) \in Nat /\ DOMAIN configs = 1 .. Len(configs)
           /\ \A i \in 1 .. depth + 1 : stack[i] \in 1 .. Len(configs)
           /\ Top \in 1 .. Len(configs)
           /\ configs[Top] \in Seq(Statement)
           /\ \A i \in 1 .. depth : stack[i] # Top
<1> USE DEF ParserOK
<1>1. /\ depth \in Nat /\ configs \in Seq(Config) /\ stack \in Seq(DOMAIN configs)
      /\ Len(stack) = depth + 1
  BY DEF ParserType, StackIsPath
<1>2. DOMAIN stack = 1 .. depth + 1 /\ depth + 1 \in 1 .. depth + 1
  BY <1>1
<1>3. Top = stack[depth + 1]
  BY <1>1 DEF Top, Last
<1>4. Len(configs) \in Nat /\ DOMAIN configs = 1 .. Len(configs)
  BY <1>1
<1>5. \A i \in 1 .. depth + 1 : stack[i] \in 1 .. Len(configs)
  BY <1>1, <1>2, <1>4
<1>6. Top \in 1 .. Len(configs)
  BY <1>2, <1>3, <1>5
<1>7. configs[Top] \in Seq(Statement)
  BY <1>1, <1>4, <1>6 DEF Config, Statement
<1>8. \A i \in 1 .. depth : stack[i] # Top
  <2> TAKE i \in 1 .. depth
  <2>1. i \in DOMAIN stack /\ depth + 1 \in DOMAIN stack /\ i < depth + 1
    BY <1>1, <1>2
  <2>2. stack[i] < stack[depth + 1] /\ stack[i] \in Nat /\ stack[depth + 1] \in Nat
    BY <1>2, <1>4, <1>5, <2>1 DEF Increasing
  <2>3. QED BY <1>3, <2>2
<1>9. QED BY <1>1, <1>2, <1>3, <1>4, <1>5, <1>6, <1>7, <1>8

\* The innermost block is given other statements.
LEMMA TopChanged ==
    ASSUME ParserOK, NEW new \in Seq(Statement)
    PROVE  LET all == [configs EXCEPT ![Top] = new]
           IN  /\ all \in Seq(Config) /\ Len(all) = Len(configs)
               /\ all[Top] = new
               /\ \A i \in 1 .. depth : all[stack[i]] = configs[stack[i]]
<1>1. /\ Len(configs) \in Nat /\ DOMAIN configs = 1 .. Len(configs)
      /\ \A i \in 1 .. depth + 1 : stack[i] \in 1 .. Len(configs)
      /\ Top \in 1 .. Len(configs) /\ depth \in Nat
      /\ \A i \in 1 .. depth : stack[i] # Top
  BY TopOK
<1>2. configs \in Seq(Config) /\ new \in Config
  BY DEF ParserOK, ParserType, Config, Statement
<1> DEFINE all == [configs EXCEPT ![Top] = new]
<1>3. all \in Seq(Config) /\ Len(all) = Len(configs) /\ all[Top] = new
  BY <1>1, <1>2
<1>4. \A i \in 1 .. depth : all[stack[i]] = configs[stack[i]]
  BY <1>1, <1>2
<1>5. QED BY <1>3, <1>4

LEMMA WordStep ==
    ASSUME ParserOK, NEW word \in Seq(Chars), AddWord(word)
    PROVE  ParserOK'
<1>1. PICK new \in Seq(Statement) :
         new # << >> /\ configs' = [configs EXCEPT ![Top] = new]
  <2>1. configs[Top] \in Seq(Statement)
    BY TopOK
  <2>2. CASE last # "word"
    <3> DEFINE s == [tokens |-> <<word>>, child |-> 0]
    <3>1. s \in Statement
      BY DEF Statement
    <3>2. configs' = [configs EXCEPT ![Top] = Append(configs[Top], s)]
      BY <2>2 DEF AddWord
    <3> HIDE DEF s
    <3>3. Append(configs[Top], s) \in Seq(Statement) /\ Append(configs[Top], s) # << >>
      BY <2>1, <3>1
    <3>4. QED BY <3>2, <3>3
  <2>3. CASE last = "word"
    <3> DEFINE block == configs[Top]
               n == Len(block)
               longer == [block[n] EXCEPT !.tokens = Append(block[n].tokens, word)]
               new == [block EXCEPT ![n] = longer]
    <3>1. block \in Seq(Statement) /\ block # << >>
      BY <2>1, <2>3 DEF ParserOK, StackIsPath
    <3>2. n \in 1 .. Len(block) /\ block[n] \in Statement
      BY <3>1
    <3>3. longer \in Statement
      <4>1. block[n].tokens \in Seq(Seq(Chars)) /\ Append(block[n].tokens, word) \in Seq(Seq(Chars))
        BY <3>2 DEF Statement
      <4>2. QED BY <3>2, <4>1 DEF Statement
    <3>4. configs' = [configs EXCEPT ![Top] = new]
      BY <2>3 DEF AddWord
    <3>5. new \in Seq(Statement) /\ new # << >>
      <4> HIDE DEF longer
      <4>1. new \in Seq(Statement) /\ Len(new) = Len(block)
        BY <3>1, <3>2, <3>3
      <4>2. QED BY <3>1, <4>1
    <3>6. QED BY <3>4, <3>5
  <2>4. QED BY <2>2, <2>3
<1>2. /\ configs' \in Seq(Config) /\ Len(configs') = Len(configs)
      /\ configs'[Top] = new
      /\ \A i \in 1 .. depth : configs'[stack[i]] = configs[stack[i]]
  BY <1>1, TopChanged
<1>3. UNCHANGED <<stack, depth, result>> /\ last' = "word" /\ Top' = Top
  BY DEF AddWord, Top
<1>4. DOMAIN configs' = DOMAIN configs
  BY <1>2 DEF ParserOK, ParserType
<1>5. ParserType'
  BY <1>2, <1>3, <1>4 DEF ParserOK, ParserType
<1>6. Increasing'
  BY <1>3 DEF ParserOK, Increasing
<1>7. StackIsPath'
  BY <1>1, <1>2, <1>3 DEF ParserOK, StackIsPath
<1>8. QED BY <1>5, <1>6, <1>7 DEF ParserOK

\* A block is opened for the last statement of the innermost one.
LEMMA BlockOpened ==
    ASSUME ParserOK, OpenBlock, last = "word"
    PROVE  LET child == Len(configs) + 1
               block == configs[Top]
               n     == Len(block)
           IN  /\ configs' \in Seq(Config) /\ Len(configs') = child /\ configs'[child] = << >>
               /\ \A k \in 1 .. Len(configs) : k # Top => configs'[k] = configs[k]
               /\ n # 0 /\ configs'[Top] \in Seq(Statement) /\ Len(configs'[Top]) = n
               /\ \A i \in 1 .. n - 1 : configs'[Top][i] = block[i]
               /\ Last(configs'[Top]).tokens = Last(block).tokens
               /\ Last(configs'[Top]).child = child
               /\ stack' \in Seq(1 .. child) /\ Len(stack') = depth + 2
               /\ stack'[depth + 2] = child /\ Top' = child
               /\ \A i \in 1 .. depth + 1 : stack'[i] = stack[i]
               /\ depth' = depth + 1 /\ last' \in Punct /\ last' # "word"
               /\ UNCHANGED result
<1>0. PICK child \in Nat : child = Len(configs) + 1
  BY TopOK
<1> DEFINE block == configs[Top]
           n == Len(block)
           linked == [block[n] EXCEPT !.child = child]
           new == [block EXCEPT ![n] = linked]
           all == [configs EXCEPT ![Top] = new]
<1>1. /\ Len(configs) \in Nat /\ DOMAIN configs = 1 .. Len(configs)
      /\ depth \in Nat /\ Len(stack) = depth + 1 /\ DOMAIN stack = 1 .. depth + 1
      /\ Top \in 1 .. Len(configs)
      /\ \A i \in 1 .. depth + 1 : stack[i] \in 1 .. Len(configs)
      /\ block \in Seq(Statement)
  BY TopOK
<1>2. /\ configs' = Append(all, << >>)
      /\ stack' = Append(stack, child)
      /\ depth' = depth + 1
      /\ last' \in Punct /\ last' # "word"
      /\ UNCHANGED result
  BY <1>0, Zenon DEF OpenBlock, Punct
<1>3. n \in 1 .. Len(block) /\ block[n] \in Statement /\ n # 0
  BY <1>1 DEF ParserOK, StackIsPath
<1>4. linked \in Statement /\ linked.child = child /\ linked.tokens = block[n].tokens
  BY <1>3 DEF Statement
<1>5. /\ new \in Seq(Statement) /\ Len(new) = n /\ new[n] = linked
      /\ \A i \in 1 .. n - 1 : new[i] = block[i]
  <2> HIDE DEF linked
  <2>1. QED BY <1>1, <1>3, <1>4
<1>6. Last(new).child = child /\ Last(new).tokens = Last(block).tokens
  BY <1>4, <1>5 DEF Last
<1>7. /\ all \in Seq(Config) /\ Len(all) = Len(configs) /\ all[Top] = new
      /\ \A k \in 1 .. Len(configs) : k # Top => all[k] = configs[k]
  <2> HIDE DEF new
  <2>1. all \in Seq(Config) /\ Len(all) = Len(configs) /\ all[Top] = new
    BY <1>5, TopChanged
  <2>2. QED BY <1>1, <2>1
<1> HIDE DEF linked, new, all
<1>8. /\ configs' \in Seq(Config) /\ Len(configs') = child /\ configs'[child] = << >>
      /\ \A k \in 1 .. Len(configs) : configs'[k] = all[k]
  <2>1. << >> \in Config
    BY DEF Config
  <2>2. /\ configs' \in Seq(Config) /\ Len(configs') = Len(all) + 1
        /\ configs'[Len(all) + 1] = << >>
        /\ \A k \in 1 .. Len(all) : configs'[k] = all[k]
    BY <1>2, <1>7, <2>1, AppendProperties
  <2>3. QED BY <1>0, <1>7, <2>2
<1>9. /\ stack' \in Seq(1 .. child) /\ Len(stack') = depth + 2
      /\ stack'[depth + 2] = child
      /\ \A i \in 1 .. depth + 1 : stack'[i] = stack[i]
  <2>1. stack \in Seq(1 .. child)
    <3>1. \A i \in 1 .. Len(stack) : stack[i] \in 1 .. child
      BY <1>0, <1>1
    <3>2. QED BY <3>1 DEF ParserOK, ParserType
  <2>2. child \in 1 .. child
    BY <1>0, <1>1
  <2>3. /\ stack' \in Seq(1 .. child) /\ Len(stack') = Len(stack) + 1
        /\ stack'[Len(stack) + 1] = child
        /\ \A i \in 1 .. Len(stack) : stack'[i] = stack[i]
    BY <1>2, <2>1, <2>2, AppendProperties
  <2>4. QED BY <1>1, <2>3
<1>10. Top' = child
  BY <1>9 DEF Top, Last
<1>11. configs'[Top] = new /\ \A k \in 1 .. Len(configs) : k # Top => configs'[k] = configs[k]
  BY <1>1, <1>7, <1>8
<1>12. QED BY <1>0, <1>2, <1>3, <1>5, <1>6, <1>8, <1>9, <1>10, <1>11

LEMMA OpenStep ==
    ASSUME ParserOK, OpenBlock, last = "word"
    PROVE  ParserOK'
<1>0. PICK child \in Nat : child = Len(configs) + 1
  BY TopOK
<1>1. /\ Len(configs) \in Nat /\ depth \in Nat /\ Top = stack[depth + 1]
      /\ \A i \in 1 .. depth + 1 : stack[i] \in 1 .. Len(configs)
      /\ \A i \in 1 .. depth : stack[i] # Top
      /\ DOMAIN stack = 1 .. depth + 1
  BY TopOK
<1>2. /\ depth' = depth + 1 /\ last' \in Punct /\ last' # "word" /\ UNCHANGED result
  BY BlockOpened
<1>8. /\ configs' \in Seq(Config) /\ DOMAIN configs' = 1 .. child
      /\ \A k \in 1 .. Len(configs) : k # Top => configs'[k] = configs[k]
      /\ configs'[Top] # << >> /\ Last(configs'[Top]).child = child
  <2>1. /\ configs' \in Seq(Config) /\ Len(configs') = child
        /\ \A k \in 1 .. Len(configs) : k # Top => configs'[k] = configs[k]
        /\ Len(configs'[Top]) # 0 /\ Last(configs'[Top]).child = child
    BY <1>0, BlockOpened
  <2>2. QED BY <2>1
<1>9. /\ stack' \in Seq(1 .. child) /\ Len(stack') = depth + 2
      /\ DOMAIN stack' = 1 .. depth + 2
      /\ stack'[depth + 2] = child
      /\ \A i \in 1 .. depth + 1 : stack'[i] = stack[i]
  BY <1>0, <1>1, BlockOpened
<1>10. ParserType'
  <2>1. stack' \in Seq(DOMAIN configs')
    BY <1>8, <1>9
  <2>2. depth' \in Nat
    BY <1>1, <1>2
  <2>3. QED BY <1>2, <1>8, <2>1, <2>2 DEF ParserOK, ParserType
<1>11. Increasing'
  <2> SUFFICES ASSUME NEW i \in 1 .. depth + 2, NEW j \in 1 .. depth + 2, i < j
               PROVE  stack'[i] < stack'[j]
    BY <1>9 DEF Increasing
  <2>1. i \in 1 .. depth + 1 /\ stack'[i] = stack[i]
    BY <1>1, <1>9
  <2>2. CASE j = depth + 2
    <3>1. stack[i] \in 1 .. Len(configs) /\ stack'[j] = child
      BY <1>1, <1>9, <2>1, <2>2
    <3>2. QED BY <1>0, <1>1, <2>1, <3>1
  <2>3. CASE j # depth + 2
    <3>1. j \in 1 .. depth + 1 /\ stack'[j] = stack[j]
      BY <1>1, <1>9, <2>3
    <3>2. QED BY <1>1, <2>1, <3>1 DEF ParserOK, Increasing
  <2>4. QED BY <2>2, <2>3
<1>12. StackIsPath'
  <2>1. depth' + 1 = Len(stack') /\ stack'[1] = 1
    <3>1. stack[1] = 1 /\ 1 \in 1 .. depth + 1
      BY <1>1 DEF ParserOK, StackIsPath
    <3>2. QED BY <1>1, <1>2, <1>9, <3>1
  <2>2. ASSUME NEW i \in 1 .. depth + 1
        PROVE  /\ configs'[stack'[i]] # << >>
               /\ Last(configs'[stack'[i]]).child = stack'[i + 1]
    <3>1. stack'[i] = stack[i] /\ stack[i] \in 1 .. Len(configs)
      BY <1>1, <1>9
    <3>2. CASE i = depth + 1
      <4>1. stack'[i] = Top /\ i + 1 = depth + 2
        BY <1>1, <3>1, <3>2
      <4>2. QED BY <1>8, <1>9, <4>1
    <3>3. CASE i # depth + 1
      <4>1. i \in 1 .. depth /\ i + 1 \in 1 .. depth + 1
        BY <1>1, <3>3
      <4>2. configs'[stack'[i]] = configs[stack[i]] /\ stack'[i + 1] = stack[i + 1]
        BY <1>1, <1>8, <1>9, <3>1, <4>1
      <4>3. QED BY <4>1, <4>2 DEF ParserOK, StackIsPath
    <3>4. QED BY <3>2, <3>3
  <2>3. QED BY <1>2, <2>1, <2>2 DEF StackIsPath
<1>13. QED BY <1>10, <1>11, <1>12 DEF ParserOK

LEMMA CloseStep ==
    ASSUME ParserOK, depth > 0, depth' = depth - 1, stack' = Front(stack),
           last' \in Punct, last' # "word", UNCHANGED <<configs, result>>
    PROVE  ParserOK'
<1>1. /\ depth \in Nat \ {0} /\ Len(stack) = depth + 1
      /\ stack \in Seq(DOMAIN configs)
  <2>1. depth \in Nat /\ Len(stack) = depth + 1
    BY TopOK
  <2>2. QED BY <2>1 DEF ParserOK, ParserType
<1>2. stack' = SubSeq(stack, 1, depth)
  BY <1>1 DEF Front
<1>3. /\ stack' \in Seq(DOMAIN configs) /\ Len(stack') = depth
      /\ DOMAIN stack' = 1 .. depth
      /\ \A i \in 1 .. depth : stack'[i] = stack[i]
      /\ DOMAIN stack = 1 .. depth + 1
  BY <1>1, <1>2
<1>4. ParserType'
  BY <1>1, <1>3 DEF ParserOK, ParserType
<1>5. Increasing'
  BY <1>1, <1>3 DEF ParserOK, Increasing
<1>6. StackIsPath'
  <2>1. 1 \in 1 .. depth /\ \A i \in 1 .. depth - 1 : i \in 1 .. depth /\ i + 1 \in 1 .. depth
    BY <1>1
  <2>2. QED BY <1>1, <1>3, <2>1 DEF ParserOK, StackIsPath
<1>7. QED BY <1>4, <1>5, <1>6 DEF ParserOK

LEMMA RestKept ==
    ASSUME ParserOK, UNCHANGED <<configs, stack, depth>>,
           result' \in {"parsing", "accepted", "rejected", "unbalanced"},
           last' \in {last, ";"}
    PROVE  ParserOK'
BY DEF ParserOK, ParserType, Increasing, StackIsPath, Top, Punct

LEMMA PunctuationStep ==
    ASSUME IInv, NEW c \in Chars, Punctuation(c)
    PROVE  IInv'
<1>1. LexerOK /\ ParserOK
  BY DEF IInv
<1>2. LexerOK'
  <2>1. /\ ahead' = "none" /\ lex' = lex /\ value' = value
        /\ read' = Append(read, <<c>>)
    BY DEF Punctuation, NoneAhead
  <2>2. <<c>> \in Seq(Chars)
    OBVIOUS
  <2>3. QED BY <1>1, <2>1, <2>2 DEF LexerOK
<1>3. CASE OpenBlock
  <2>1. CASE last = "word"
    BY <1>1, <1>2, <1>3, <2>1, OpenStep DEF IInv
  <2>2. CASE last # "word"
    <3>1. result' = "rejected" /\ UNCHANGED <<last, configs, stack, depth>>
      BY <1>3, <2>2 DEF OpenBlock, Reject
    <3>2. ParserOK'
      BY <1>1, <3>1, RestKept
    <3>3. QED BY <1>2, <3>2 DEF IInv
  <2>3. QED BY <2>1, <2>2
<1>4. CASE CloseBlock
  <2>1. CASE result' \in {"rejected", "unbalanced"} /\ UNCHANGED <<last, configs, stack, depth>>
    <3>1. ParserOK'
      BY <1>1, <2>1, RestKept
    <3>2. QED BY <1>2, <3>1 DEF IInv
  <2>2. CASE ~(result' \in {"rejected", "unbalanced"} /\ UNCHANGED <<last, configs, stack, depth>>)
    <3>1. /\ depth > 0 /\ depth' = depth - 1 /\ stack' = Front(stack)
          /\ last' \in Punct /\ last' # "word" /\ UNCHANGED <<configs, result>>
      BY <1>4, <2>2, Zenon DEF CloseBlock, Reject, Punct
    <3>2. ParserOK'
      BY <1>1, <3>1, CloseStep
    <3>3. QED BY <1>2, <3>2 DEF IInv
  <2>3. QED BY <2>1, <2>2
<1>5. CASE EndStatement
  <2>1. result' \in {result, "rejected"} /\ last' \in {last, ";"} /\ UNCHANGED <<configs, stack, depth>>
    BY <1>5 DEF EndStatement, Reject
  <2>2. ParserOK'
    BY <1>1, <2>1, RestKept DEF ParserOK, ParserType
  <2>3. QED BY <1>2, <2>2 DEF IInv
<1>6. QED BY <1>3, <1>4, <1>5 DEF Punctuation

LEMMA EmitStep ==
    ASSUME IInv, NEW word \in Seq(Chars), EmitWord(word), ahead' \in Chars \cup {"none"}
    PROVE  IInv'
<1>1. ParserOK'
  BY WordStep DEF IInv, EmitWord
<1>2. LexerOK'
  BY DEF IInv, LexerOK, EmitWord
<1>3. QED BY <1>1, <1>2 DEF IInv

LEMMA LexerStep ==
    ASSUME IInv, LexerOK', UNCHANGED <<last, configs, stack, depth>>,
           result' \in {result, "accepted", "rejected", "unbalanced"}
    PROVE  IInv'
BY RestKept DEF IInv, ParserOK, ParserType

LEMMA InitIInv == Init => IInv
<1> SUFFICES ASSUME Init PROVE IInv
  OBVIOUS
<1> USE DEF Init
<1>1. LexerOK
  BY DEF LexerOK
<1>2. configs \in Seq(Config) /\ Len(configs) = 1 /\ DOMAIN configs = {1}
  BY DEF Config
<1>3. Len(stack) = 1 /\ DOMAIN stack = {1} /\ stack[1] = 1 /\ stack \in Seq({1})
  OBVIOUS
<1>4. ParserType
  BY <1>2, <1>3 DEF ParserType
<1>5. Increasing
  BY <1>3 DEF Increasing
<1>6. StackIsPath
  BY <1>3 DEF StackIsPath
<1>7. QED BY <1>1, <1>4, <1>5, <1>6 DEF IInv, ParserOK

LEMMA Invariance == Spec => []IInv
<1>1. IInv /\ [Next]_vars => IInv'
  <2> SUFFICES ASSUME IInv, [Next]_vars PROVE IInv'
    OBVIOUS
  <2>0. LexerOK
    BY DEF IInv
  <2>1. ASSUME NEW c \in Chars, Skip(c)
        PROVE  IInv'
    <3>1. LexerOK'
      BY <2>0, <2>1 DEF LexerOK, Skip, NoneAhead, parser
    <3>2. QED BY <2>1, <3>1, LexerStep DEF Skip, parser
  <2>2. ASSUME NEW c \in Chars, Punctuation(c)
        PROVE  IInv'
    BY <2>2, PunctuationStep
  <2>3. ASSUME NEW c \in Chars, Begin(c)
        PROVE  IInv'
    <3>1. LexerOK'
      BY <2>0, <2>3 DEF LexerOK, Begin, NoneAhead, parser
    <3>2. QED BY <2>3, <3>1, LexerStep DEF Begin, parser
  <2>4. ASSUME NEW c \in Chars, Comment(c)
        PROVE  IInv'
    <3>1. LexerOK'
      BY <2>0, <2>4 DEF LexerOK, Comment, NoneAhead, parser
    <3>2. QED BY <2>4, <3>1, LexerStep DEF Comment, parser
  <2>5. ASSUME NEW c \in Chars, Quoted(c)
        PROVE  IInv'
    <3>1. Append(value, c) \in Seq(Chars) /\ ahead' = "none"
      BY <2>0, <2>5 DEF LexerOK, Quoted, NoneAhead
    <3>2. CASE EmitWord(Append(value, c))
      BY <3>1, <3>2, EmitStep
    <3>3. CASE value' = Append(value, c) /\ UNCHANGED <<lex, parser, result>>
      <4>1. LexerOK'
        BY <2>0, <3>1, <3>3 DEF LexerOK, parser
      <4>2. QED BY <3>3, <4>1, LexerStep DEF parser
    <3>4. QED BY <2>5, <3>2, <3>3 DEF Quoted
  <2>6. ASSUME NEW c \in Chars, Word(c)
        PROVE  IInv'
    <3>1. LexerOK'
      BY <2>0, <2>6 DEF LexerOK, Word, NoneAhead, parser
    <3>2. QED BY <2>6, <3>1, LexerStep DEF Word, parser
  <2>7. ASSUME NEW c \in Chars, WordEnds(c)
        PROVE  IInv'
    BY <2>0, <2>7, EmitStep DEF LexerOK, WordEnds
  <2>8. CASE Eof
    <3>1. /\ LexerOK' /\ UNCHANGED <<last, configs, stack, depth>>
          /\ result' \in {result, "accepted", "rejected", "unbalanced"}
      BY <2>0, <2>8 DEF LexerOK, Eof, EndOfFile, Reject, lexer
    <3>2. QED BY <3>1, LexerStep
  <2>9. CASE UNCHANGED vars
    <3>1. LexerOK' /\ UNCHANGED <<last, configs, stack, depth, result>>
      BY <2>0, <2>9 DEF LexerOK, vars, lexer, parser
    <3>2. QED BY <3>1, LexerStep
  <2>10. QED BY <2>1, <2>2, <2>3, <2>4, <2>5, <2>6, <2>7, <2>8, <2>9 DEF Next
<1>2. QED BY <1>1, InitIInv, PTL DEF Spec

\* Every variable keeps its type, whatever the file: each index on the stack is
\* that of a block that has been made.
THEOREM TypeCorrect == Spec => []TypeOK
<1>1. IInv => TypeOK
  BY DEF IInv, LexerOK, ParserOK, ParserType, TypeOK
<1>2. QED BY <1>1, Invariance, PTL

\* However deep blocks nest, config_stack is never empty and is the path to the open
\* block, so top() and back() always have something to return
\* (config_parser.cc:303-345).
THEOREM StackIsAlwaysPath == Spec => []StackIsPath
<1>1. IInv => StackIsPath
  BY DEF IInv, ParserOK
<1>2. QED BY <1>1, Invariance, PTL

------------------------------------------------------------------------------
(***************************************************************************)
(* Where in the file each statement stands.  m[k] are the marks of the     *)
(* k-th configuration: where each of its statements begins, and, unless    *)
(* the last of them is unfinished, where that one ends.                    *)
(***************************************************************************)
Semicolon == <<";">>
OpenBrace == <<"{">>
CloseBrace == <<"}">>

\* The words of a statement stand in the text behind the place p.
Written(text, st, p) ==
    /\ p + Len(st.tokens) <= Len(text)
    /\ \A j \in 1 .. Len(st.tokens) : text[p + j] = st.tokens[j]

\* Its block begins there.
Opened(text, st, p, m) ==
    LET q == p + Len(st.tokens) + 1
    IN  /\ Written(text, st, p) /\ st.child # 0
        /\ q <= Len(text) /\ text[q] = OpenBrace
        /\ m[st.child][1] = q

\* The statement ends at the place q.
Ended(text, st, p, q, m) ==
    /\ q <= Len(text)
    /\ \/ /\ st.child = 0 /\ Written(text, st, p)
          /\ q = p + Len(st.tokens) + 1 /\ text[q] = Semicolon
       \/ /\ Opened(text, st, p, m)
          /\ q = Last(m[st.child]) + 1 /\ text[q] = CloseBrace

Begun(k) == k = Top /\ last = "word"
Holds(k) == \E j \in 1 .. depth : k = stack[j]
Open(k)  == k = Top \/ Holds(k)

Marked(m) ==
    \A k \in 1 .. Len(configs) :
        /\ m[k] \in Seq(Nat)
        /\ Len(m[k]) = IF Begun(k) \/ Holds(k) THEN Len(configs[k])
                       ELSE Len(configs[k]) + 1
        /\ \A i \in 1 .. Len(m[k]) : m[k][1] <= m[k][i] /\ m[k][i] <= Len(read)
        /\ \A i \in 1 .. Len(configs[k]) :
              configs[k][i].child \in {0} \cup (k + 1 .. Len(configs))
        /\ \A i \in 1 .. Len(m[k]) - 1 :
              /\ Ended(read, configs[k][i], m[k][i], m[k][i + 1], m)
              /\ ~Open(configs[k][i].child)

AtTop(m) ==
    IF last = "word"
    THEN LET st == Last(configs[Top])
             p  == Last(m[Top])
         IN  st.child = 0 /\ Written(read, st, p) /\ p + Len(st.tokens) = Len(read)
    ELSE Last(m[Top]) = Len(read)

Marks(m) ==
    /\ Marked(m) /\ AtTop(m) /\ m[1][1] = 0
    /\ \A j \in 1 .. depth : Opened(read, Last(configs[stack[j]]), Last(m[stack[j]]), m)

Finished == depth = 0 /\ last # "word"

LEMMA PrintedByIs ==
    ASSUME NEW print, NEW st
    PROVE  PrintedBy(print, st) =
             st.tokens \o IF st.child = 0 THEN << Semicolon >>
                          ELSE << OpenBrace >> \o print[st.child] \o << CloseBrace >>
BY Zenon DEF PrintedBy, Semicolon, OpenBrace, CloseBrace

\* The tokens of a text between two places.
Part(text, a, b) == SubSeq(text, a + 1, b)

LEMMA WordsAre ==
    ASSUME NEW text \in Seq(Seq(Chars)), NEW st \in Statement, NEW p \in Nat,
           Written(text, st, p)
    PROVE  /\ Len(st.tokens) \in Nat
           /\ st.tokens = Part(text, p, p + Len(st.tokens))
<1> DEFINE n == Len(st.tokens)
           s == SubSeq(text, p + 1, p + n)
<1>1. st.tokens \in Seq(Seq(Chars)) /\ n \in Nat /\ Len(text) \in Nat
  BY DEF Statement
<1>2. p + n <= Len(text) /\ \A j \in 1 .. n : text[p + j] = st.tokens[j]
  BY DEF Written
<1>3. s \in Seq(Seq(Chars)) /\ Len(s) = n /\ \A j \in 1 .. n : s[j] = text[p + j]
  BY <1>1, <1>2
<1>4. QED BY <1>1, <1>2, <1>3, SeqEqual DEF Part

LEMMA OneToken ==
    ASSUME NEW text \in Seq(Seq(Chars)), NEW p \in Nat, p + 1 <= Len(text)
    PROVE  << text[p + 1] >> = Part(text, p, p + 1)
BY DEF Part

Joins(text, a, b, c) == Part(text, a, b) \o Part(text, b, c) = Part(text, a, c)

LEMMA Adjacent ==
    ASSUME NEW text \in Seq(Seq(Chars)), NEW a \in Nat, NEW b \in Nat, NEW c \in Nat,
           a <= b, b <= c, c <= Len(text)
    PROVE  Joins(text, a, b, c)
<1>1. /\ a + 1 \in 1 .. Len(text) + 1 /\ b \in (a + 1) - 1 .. Len(text)
      /\ c \in b .. Len(text)
  OBVIOUS
<1>2. QED BY <1>1, ConcatAdjacentSubSeq DEF Joins, Part

\* The block of a statement, if it has one, is printed as the part it stands in.
BlockPrinted(text, st, m, print) ==
    st.child # 0 =>
        /\ m[st.child][1] \in Nat /\ Last(m[st.child]) \in Nat
        /\ m[st.child][1] <= Last(m[st.child])
        /\ print[st.child] = Part(text, m[st.child][1], Last(m[st.child]))

\* And so is the statement itself, once it has ended.
LEMMA PieceIs ==
    ASSUME NEW text \in Seq(Seq(Chars)), NEW st \in Statement, NEW m,
           NEW p \in Nat, NEW q \in Nat, Ended(text, st, p, q, m), NEW print,
           BlockPrinted(text, st, m, print)
    PROVE  p <= q /\ PrintedBy(print, st) = Part(text, p, q)
<1>0. PICK r \in Nat : r = p + Len(st.tokens)
  BY DEF Statement
<1>1. Written(text, st, p) /\ q <= Len(text) /\ Len(text) \in Nat
  BY DEF Ended, Opened
<1>7. p \in Nat /\ q \in Nat /\ r \in Nat /\ p <= r
  BY <1>0 DEF Statement
<1>2. st.tokens = Part(text, p, r)
  BY <1>0, <1>1, WordsAre, Zenon
<1>3. r <= q => Joins(text, p, r, q)
  BY <1>1, <1>7, Adjacent
<1>4. CASE st.child = 0
  <2>1. q = r + 1 /\ text[q] = Semicolon
    BY <1>0, <1>4 DEF Ended, Opened
  <2>2. << text[r + 1] >> = Part(text, r, r + 1)
    BY <1>0, <1>1, <2>1, OneToken
  <2>3. PrintedBy(print, st) = st.tokens \o << Semicolon >>
    BY <1>4, PrintedByIs
  <2>4. PrintedBy(print, st) = Part(text, p, r) \o Part(text, r, q)
    BY <1>2, <2>1, <2>2, <2>3, Zenon
  <2>5. r <= q /\ p <= q
    BY <1>7, <2>1
  <2>6. QED BY <1>3, <2>4, <2>5, Zenon DEF Joins
<1>5. CASE st.child # 0
  <2>0. PICK e \in Nat : e = Last(m[st.child])
    BY <1>5 DEF BlockPrinted
  <2>1. /\ q = e + 1 /\ text[q] = CloseBrace /\ text[r + 1] = OpenBrace
        /\ r + 1 = m[st.child][1]
    BY <1>0, <1>5, <2>0 DEF Ended, Opened
  <2>2. r + 1 <= e /\ print[st.child] = Part(text, r + 1, e)
    BY <1>5, <2>0, <2>1 DEF BlockPrinted
  <2>3. /\ r + 1 \in Nat /\ r + 1 <= Len(text) /\ e + 1 <= Len(text) /\ e <= Len(text)
        /\ r <= e /\ r <= q /\ p <= q /\ r <= r + 1 /\ e <= q
    <3>1. r + 1 <= e /\ q = e + 1 /\ q <= Len(text) /\ Len(text) \in Nat /\ e \in Nat
      BY <1>1, <2>0, <2>1, <2>2
    <3>2. QED BY <1>7, <3>1
  <2>11. r + 1 <= e
    BY <2>2
  <2>4. << OpenBrace >> = Part(text, r, r + 1)
    <3>1. << text[r + 1] >> = Part(text, r, r + 1)
      BY <1>0, <2>3, OneToken
    <3>2. QED BY <2>1, <3>1, Zenon
  <2>5. << CloseBrace >> = Part(text, e, q)
    <3>1. << text[e + 1] >> = Part(text, e, e + 1)
      BY <2>0, <2>3, OneToken
    <3>2. QED BY <2>1, <3>1, Zenon
  <2>6. Joins(text, r, r + 1, e)
    BY <1>7, <2>0, <2>3, <2>11, Adjacent
  <2>7. Joins(text, r, e, q)
    BY <1>7, <1>1, <2>0, <2>3, Adjacent
  <2>8. PrintedBy(print, st)
          = st.tokens \o (<< OpenBrace >> \o print[st.child] \o << CloseBrace >>)
    BY <1>5, PrintedByIs
  <2>9. PrintedBy(print, st) = Part(text, p, r) \o Part(text, r, q)
    <3>1. << OpenBrace >> \o print[st.child] = Part(text, r, e)
      BY <2>2, <2>4, <2>6, Zenon DEF Joins
    <3>2. << OpenBrace >> \o print[st.child] \o << CloseBrace >> = Part(text, r, q)
      BY <2>5, <2>7, <3>1, Zenon DEF Joins
    <3>3. QED BY <1>2, <2>8, <3>2, Zenon
  <2>10. QED BY <1>3, <2>3, <2>9, Zenon DEF Joins
<1>6. QED BY <1>4, <1>5

Prints(print) ==
    print = [k \in DOMAIN configs |->
               FlattenSeq([i \in DOMAIN configs[k] |-> PrintedBy(print, configs[k][i])])]

LEMMA PrintedIs == Printed = (CHOOSE print : Prints(print))[1]
BY DEF Printed, Prints

\* With all statements ended, every configuration is printed as the part of the
\* file between its first mark and its last.
LEMMA BlockIs ==
    ASSUME LexerOK, ParserOK, NEW m, Marked(m), Finished,
           NEW k \in 1 .. Len(configs), NEW print,
           \A c \in k + 1 .. Len(configs) :
              print[c] = Part(read, m[c][1], Last(m[c]))
    PROVE  FlattenSeq([i \in DOMAIN configs[k] |-> PrintedBy(print, configs[k][i])])
             = Part(read, m[k][1], Last(m[k]))
<1> DEFINE block == configs[k]
           n == Len(block)
           mk == m[k]
           ss == [i \in DOMAIN block |-> PrintedBy(print, block[i])]
<1>0. read \in Seq(Seq(Chars))
  BY DEF LexerOK
<1>1. /\ block \in Seq(Statement) /\ n \in Nat
      /\ DOMAIN block = 1 .. n /\ Len(configs) \in Nat
  <2>1. configs \in Seq(Config)
    BY DEF ParserOK, ParserType
  <2>2. block \in Seq(Statement)
    BY <2>1 DEF Config, Statement
  <2>3. QED BY <2>1, <2>2
<1>2. \A c \in 1 .. Len(configs) : ~Holds(c) /\ ~Begun(c)
  BY TopOK DEF Finished, Holds, Begun
<1>3. \A c \in 1 .. Len(configs) :
         /\ m[c] \in Seq(Nat) /\ Len(m[c]) = Len(configs[c]) + 1
         /\ \A i \in 1 .. Len(m[c]) : m[c][1] <= m[c][i] /\ m[c][i] <= Len(read)
  BY <1>2 DEF Marked
<1>4. /\ mk \in Seq(Nat) /\ Len(mk) = n + 1
      /\ \A i \in 1 .. n + 1 : mk[i] \in Nat /\ mk[1] <= mk[i] /\ mk[i] <= Len(read)
  BY <1>1, <1>3
<1>5. Last(mk) = mk[n + 1]
  BY <1>4 DEF Last
<1>6. \A c \in 1 .. Len(configs) :
         m[c][1] \in Nat /\ Last(m[c]) \in Nat /\ m[c][1] <= Last(m[c])
  <2> TAKE c \in 1 .. Len(configs)
  <2>1. Len(configs[c]) \in Nat
    BY DEF ParserOK, ParserType, Config
  <2>2. m[c] \in Seq(Nat) /\ Len(m[c]) \in 1 .. Len(m[c]) /\ 1 \in 1 .. Len(m[c])
    BY <1>3, <2>1
  <2>3. m[c][1] \in Nat /\ m[c][Len(m[c])] \in Nat
    BY <2>2, ElementOfSeq
  <2>4. m[c][1] <= m[c][Len(m[c])]
    BY <1>3, <2>2
  <2>5. QED BY <2>3, <2>4 DEF Last
<1> HIDE DEF block, mk
<1>7. \A i \in 1 .. n : mk[i] <= mk[i + 1] /\ ss[i] = Part(read, mk[i], mk[i + 1])
  <2> TAKE i \in 1 .. n
  <2>1. block[i] \in Statement /\ mk[i] \in Nat /\ mk[i + 1] \in Nat
    <3>1. i \in 1 .. n + 1 /\ i + 1 \in 1 .. n + 1
      BY <1>1
    <3>2. QED BY <1>1, <1>4, <3>1
  <2>2. Ended(read, block[i], mk[i], mk[i + 1], m)
    <3>1. i \in 1 .. Len(mk) - 1
      BY <1>1, <1>4
    <3>2. QED BY <3>1 DEF Marked, mk, block
  <2>3. block[i].child \in {0} \cup (k + 1 .. Len(configs))
    BY DEF Marked, block
  <2>4. mk[i] <= mk[i + 1] /\ PrintedBy(print, block[i]) = Part(read, mk[i], mk[i + 1])
    <3>1. BlockPrinted(read, block[i], m, print)
      <4> SUFFICES ASSUME block[i].child # 0
                   PROVE  BlockPrinted(read, block[i], m, print)
        BY DEF BlockPrinted
      <4>1. block[i].child \in k + 1 .. Len(configs) /\ block[i].child \in 1 .. Len(configs)
        BY <1>1, <2>3
      <4>2. QED BY <1>6, <4>1 DEF BlockPrinted
    <3>2. QED BY <1>0, <2>1, <2>2, <3>1, PieceIs
  <2>5. QED BY <2>4
<1> HIDE DEF n
<1>8. CASE n = 0
  <2>1. block = << >>
    BY <1>1, <1>8 DEF n
  <2>2. ss = << >> /\ Len(ss) = 0
    BY <2>1
  <2>3. FlattenSeq(ss) = << >>
    BY <2>2 DEF FlattenSeq
  <2>4. Part(read, mk[1], mk[n + 1]) = << >>
    <3>1. mk[n + 1] < mk[1] + 1 /\ mk[1] + 1 \in Int /\ mk[n + 1] \in Int
      BY <1>4, <1>8
    <3>2. QED BY <3>1, SubSeqEmpty DEF Part
  <2>5. QED BY <1>5, <2>3, <2>4 DEF block, mk
<1>9. CASE n # 0
  <2> DEFINE h == [i \in 1 .. n |-> Part(read, mk[1], mk[i + 1])]
  <2>1. Len(ss) = n
    BY <1>1 DEF n
  <2>2. \A i \in 1 .. n : h[i] = IF i = 1 THEN ss[i] ELSE h[i - 1] \o ss[i]
    <3> TAKE i \in 1 .. n
    <3>1. CASE i = 1
      BY <1>7, <3>1
    <3>2. CASE i # 1
      <4>1. i - 1 \in 1 .. n /\ (i - 1) + 1 = i /\ i \in 1 .. n + 1 /\ i + 1 \in 1 .. n + 1
            /\ 1 \in 1 .. n + 1
        BY <1>1, <3>2
      <4>2. /\ mk[1] \in Nat /\ mk[i] \in Nat /\ mk[i + 1] \in Nat
            /\ mk[1] <= mk[i] /\ mk[i] <= mk[i + 1] /\ mk[i + 1] <= Len(read)
        BY <1>4, <1>7, <4>1
      <4>3. Joins(read, mk[1], mk[i], mk[i + 1])
        BY <1>0, <4>2, Adjacent
      <4>4. h[i - 1] = Part(read, mk[1], mk[i])
        BY <4>1
      <4>5. ss[i] = Part(read, mk[i], mk[i + 1]) /\ h[i] = Part(read, mk[1], mk[i + 1])
        BY <1>7
      <4> HIDE DEF ss, h
      <4>6. h[i] = h[i - 1] \o ss[i]
        BY <4>3, <4>4, <4>5, Zenon DEF Joins
      <4>7. QED BY <3>2, <4>6
    <3>3. QED BY <3>1, <3>2
  <2>3. Flattens(ss, h)
    <3> HIDE DEF ss
    <3>1. h = [i \in 1 .. n |-> IF i = 1 THEN ss[i] ELSE h[i - 1] \o ss[i]]
      BY <2>2
    <3>2. QED BY <2>1, <3>1 DEF Flattens
  <2>4. FlattenSeq(ss) = h[n]
    <3> HIDE DEF ss, h
    <3>1. n \in Nat \ {0}
      BY <1>1, <1>9
    <3>2. QED BY <2>1, <2>3, <3>1, FlattenGiven
  <2>5. h[n] = Part(read, mk[1], mk[n + 1])
    <3>1. n \in 1 .. n
      BY <1>1, <1>9
    <3>2. QED BY <3>1
  <2>6. QED BY <1>5, <2>4, <2>5 DEF block, mk
<1>10. QED BY <1>8, <1>9

LEMMA MarksPrint ==
    ASSUME LexerOK, ParserOK, NEW m, Marks(m), Finished
    PROVE  Printed = read
<1> DEFINE L == Len(configs)
           P(k) == Part(read, m[k][1], Last(m[k]))
           Flat(print, k) ==
             FlattenSeq([i \in DOMAIN configs[k] |-> PrintedBy(print, configs[k][i])])
<1>1. L \in Nat /\ DOMAIN configs = 1 .. L /\ 1 \in 1 .. L /\ Top = 1
  <2>1. stack[1] = 1
    BY DEF ParserOK, StackIsPath
  <2>2. QED BY <2>1, TopOK DEF Finished
<1>2. Marked(m)
  BY DEF Marks
<1>3. \A print : \A k \in 1 .. L :
         (\A c \in k + 1 .. L : print[c] = P(c)) => Flat(print, k) = P(k)
  BY <1>2, BlockIs
<1> HIDE DEF L, P, Flat
<1>4. \E print : Prints(print)
  <2> DEFINE R == [k \in 1 .. L |-> P(k)]
  <2>1. \A k \in 1 .. L : \A c \in k + 1 .. L : R[c] = P(c)
    BY <1>1
  <2> HIDE DEF R
  <2>2. \A k \in 1 .. L : Flat(R, k) = P(k)
    BY <1>3, <2>1
  <2>3. R = [k \in 1 .. L |-> Flat(R, k)]
    BY <2>2 DEF R
  <2>4. Prints(R)
    BY <1>1, <2>3 DEF Prints, Flat, L
  <2>5. QED BY <2>4
<1>5. ASSUME NEW print, Prints(print)
      PROVE  print[1] = P(1)
  <2>1. \A k \in 1 .. L : print[k] = Flat(print, k)
    <3>1. print = [k \in 1 .. L |-> Flat(print, k)]
      BY <1>1, <1>5 DEF Prints, Flat, L
    <3> HIDE <1>5
    <3>2. QED BY <3>1
  <2> DEFINE S == {n \in Nat : \A k \in 1 .. L : L < k + n => print[k] = P(k)}
  <2>2. 0 \in S
    BY <1>1
  <2>3. \A n \in S : n + 1 \in S
    <3> TAKE n \in S
    <3>1. n \in Nat /\ n + 1 \in Nat
      OBVIOUS
    <3>2. ASSUME NEW k \in 1 .. L, L < k + (n + 1)
          PROVE  print[k] = P(k)
      <4>1. \A c \in k + 1 .. L : print[c] = P(c)
        <5> TAKE c \in k + 1 .. L
        <5>1. c \in 1 .. L /\ L < c + n
          BY <1>1, <3>1, <3>2
        <5>2. QED BY <5>1
      <4>2. QED BY <1>3, <2>1, <4>1
    <3>3. QED BY <3>1, <3>2
  <2>4. S = Nat
    <3> HIDE DEF S
    <3>1. S \in SUBSET Nat
      BY DEF S
    <3>2. QED BY <2>2, <2>3, <3>1, NumberInduction
  <2>5. L \in S /\ L < 1 + L
    <3> HIDE DEF S
    <3>1. QED BY <1>1, <2>4
  <2>6. QED BY <1>1, <2>5
<1>6. P(1) = read
  <2>1. m[1][1] = 0 /\ Last(m[1]) = Len(read)
    BY <1>1 DEF Marks, AtTop, Finished
  <2>2. P(1) = SubSeq(read, 1, Len(read))
    BY <2>1 DEF P, Part
  <2>3. QED BY <2>2, SubSeqFull DEF LexerOK
<1>7. QED BY <1>4, <1>5, <1>6, PrintedIs

IsAppend(longer, text, x) ==
    /\ Len(text) \in Nat /\ Len(longer) = Len(text) + 1
    /\ longer[Len(text) + 1] = x
    /\ \A i \in 1 .. Len(text) : longer[i] = text[i]

LEMMA Appended ==
    ASSUME NEW S, NEW text \in Seq(S), NEW x \in S
    PROVE  Append(text, x) \in Seq(S) /\ IsAppend(Append(text, x), text, x)
BY AppendProperties DEF IsAppend

LEMMA StillWritten ==
    ASSUME NEW text \in Seq(Seq(Chars)), NEW x \in Seq(Chars), NEW st \in Statement,
           NEW p \in Nat, Written(text, st, p)
    PROVE  Written(Append(text, x), st, p)
<1>1. st.tokens \in Seq(Seq(Chars)) /\ Len(st.tokens) \in Nat /\ Len(text) \in Nat
  BY DEF Statement
<1>2. p + Len(st.tokens) <= Len(text)
      /\ \A j \in 1 .. Len(st.tokens) : text[p + j] = st.tokens[j]
  BY DEF Written
<1>3. Len(Append(text, x)) = Len(text) + 1
      /\ \A i \in 1 .. Len(text) : Append(text, x)[i] = text[i]
  BY Appended DEF IsAppend
<1>4. QED BY <1>1, <1>2, <1>3 DEF Written

LEMMA StillOpened ==
    ASSUME NEW text \in Seq(Seq(Chars)), NEW x \in Seq(Chars), NEW st \in Statement,
           NEW p \in Nat, NEW m, NEW m2, m2[st.child][1] = m[st.child][1],
           Opened(text, st, p, m)
    PROVE  Opened(Append(text, x), st, p, m2)
<1>0. PICK q \in Nat : q = p + Len(st.tokens) + 1
  BY DEF Statement
<1>1. /\ Written(text, st, p) /\ st.child # 0
      /\ q <= Len(text) /\ text[q] = OpenBrace
      /\ m[st.child][1] = q
  BY <1>0 DEF Opened
<1>2. Written(Append(text, x), st, p)
  BY <1>1, StillWritten
<1>3. q <= Len(Append(text, x)) /\ Append(text, x)[q] = text[q]
  <2>1. q \in 1 .. Len(text) /\ Len(text) \in Nat
    BY <1>0, <1>1 DEF Statement
  <2>2. QED BY <2>1, Appended DEF IsAppend
<1>4. QED BY <1>0, <1>1, <1>2, <1>3 DEF Opened

LEMMA StillEnded ==
    ASSUME NEW text \in Seq(Seq(Chars)), NEW x \in Seq(Chars), NEW st \in Statement,
           NEW p \in Nat, NEW q \in Nat, NEW m, NEW m2,
           st.child # 0 => m2[st.child] = m[st.child] /\ Last(m[st.child]) \in Nat,
           Ended(text, st, p, q, m)
    PROVE  Ended(Append(text, x), st, p, q, m2)
<1>1. Len(st.tokens) \in Nat /\ Len(text) \in Nat
  BY DEF Statement
<1>2. ASSUME q \in 1 .. Len(text)
      PROVE  q <= Len(Append(text, x)) /\ Append(text, x)[q] = text[q]
  BY <1>1, <1>2, Appended DEF IsAppend
<1>3. CASE /\ st.child = 0 /\ Written(text, st, p)
           /\ q = p + Len(st.tokens) + 1 /\ text[q] = Semicolon
  <2>1. q \in 1 .. Len(text)
    BY <1>1, <1>3 DEF Ended
  <2>2. Written(Append(text, x), st, p)
    BY <1>3, StillWritten
  <2>3. QED BY <1>2, <1>3, <2>1, <2>2 DEF Ended
<1>4. CASE Opened(text, st, p, m) /\ q = Last(m[st.child]) + 1 /\ text[q] = CloseBrace
  <2>1. st.child # 0
    BY <1>4 DEF Opened
  <2>2. Opened(Append(text, x), st, p, m2)
    BY <1>4, <2>1, StillOpened
  <2>3. q \in 1 .. Len(text)
    <3>1. q <= Len(text)
      BY DEF Ended
    <3>2. q # 0
      BY <1>4, <2>1
    <3>3. QED BY <1>1, <3>1, <3>2
  <2>4. QED BY <1>2, <1>4, <2>1, <2>2, <2>3 DEF Ended
<1>5. QED BY <1>3, <1>4 DEF Ended

LEMMA MarkFacts ==
    ASSUME LexerOK, ParserOK, NEW m, Marks(m)
    PROVE  /\ read \in Seq(Seq(Chars)) /\ Len(read) \in Nat /\ Len(configs) \in Nat
           /\ \A k \in 1 .. Len(configs) :
                 /\ configs[k] \in Seq(Statement) /\ Len(configs[k]) \in Nat
                 /\ m[k] \in Seq(Nat) /\ Len(m[k]) \in Nat \ {0}
                 /\ m[k][1] \in Nat /\ m[k][1] <= Len(read)
                 /\ Last(m[k]) \in Nat /\ Last(m[k]) <= Len(read) /\ m[k][1] <= Last(m[k])
                 /\ \A i \in 1 .. Len(m[k]) : m[k][i] \in Nat
                 /\ Begun(k) \/ Holds(k) => Len(m[k]) = Len(configs[k])
                 /\ ~(Begun(k) \/ Holds(k)) => Len(m[k]) = Len(configs[k]) + 1
<1>1. read \in Seq(Seq(Chars)) /\ Len(read) \in Nat /\ Len(configs) \in Nat
  BY TopOK DEF LexerOK
<1>2. ASSUME NEW k \in 1 .. Len(configs)
      PROVE  /\ configs[k] \in Seq(Statement) /\ Len(configs[k]) \in Nat
             /\ m[k] \in Seq(Nat) /\ Len(m[k]) \in Nat \ {0}
             /\ m[k][1] \in Nat /\ m[k][1] <= Len(read)
             /\ Last(m[k]) \in Nat /\ Last(m[k]) <= Len(read) /\ m[k][1] <= Last(m[k])
             /\ \A i \in 1 .. Len(m[k]) : m[k][i] \in Nat
             /\ Begun(k) \/ Holds(k) => Len(m[k]) = Len(configs[k])
             /\ ~(Begun(k) \/ Holds(k)) => Len(m[k]) = Len(configs[k]) + 1
  <2>1. configs[k] \in Seq(Statement) /\ Len(configs[k]) \in Nat
    <3>1. configs[k] \in Seq(Statement)
      BY DEF ParserOK, ParserType, Config, Statement
    <3>2. QED BY <3>1
  <2>2. /\ m[k] \in Seq(Nat)
        /\ Len(m[k]) = IF Begun(k) \/ Holds(k) THEN Len(configs[k]) ELSE Len(configs[k]) + 1
        /\ \A i \in 1 .. Len(m[k]) : m[k][1] <= m[k][i] /\ m[k][i] <= Len(read)
    BY DEF Marks, Marked
  <2>3. Begun(k) \/ Holds(k) => Len(configs[k]) # 0
    <3>1. Begun(k) \/ Holds(k) => configs[k] # << >>
      BY DEF ParserOK, StackIsPath, Begun, Holds
    <3>2. QED BY <2>1, <3>1
  <2>4. Len(m[k]) \in Nat \ {0}
    BY <2>1, <2>2, <2>3
  <2>5. \A i \in 1 .. Len(m[k]) : m[k][i] \in Nat
    BY <2>2, ElementOfSeq
  <2>6. 1 \in 1 .. Len(m[k]) /\ Len(m[k]) \in 1 .. Len(m[k])
    BY <2>4
  <2>7. /\ m[k][1] \in Nat /\ m[k][1] <= Len(read)
        /\ Last(m[k]) \in Nat /\ Last(m[k]) <= Len(read) /\ m[k][1] <= Last(m[k])
    BY <2>2, <2>5, <2>6 DEF Last
  <2>8. QED BY <2>1, <2>2, <2>4, <2>5, <2>7
<1>3. QED BY <1>1, <1>2

\* A statement that has ended stays ended when more is read.
LEMMA EndedStays ==
    ASSUME LexerOK, ParserOK, NEW m, Marks(m), NEW x \in Seq(Chars), NEW m2,
           \A c \in 1 .. Len(configs) : ~Open(c) => m2[c] = m[c],
           NEW k \in 1 .. Len(configs), NEW i \in 1 .. Len(m[k]) - 1
    PROVE  /\ Ended(Append(read, x), configs[k][i], m[k][i], m[k][i + 1], m2)
           /\ ~Open(configs[k][i].child)
           /\ configs[k][i].child \in {0} \cup (k + 1 .. Len(configs))
           /\ configs[k][i] \in Statement
<1>1. /\ read \in Seq(Seq(Chars)) /\ Len(configs) \in Nat
      /\ configs[k] \in Seq(Statement) /\ Len(configs[k]) \in Nat
      /\ Len(m[k]) \in Nat /\ Len(m[k]) <= Len(configs[k]) + 1
      /\ \A j \in 1 .. Len(m[k]) : m[k][j] \in Nat
  <2>1. /\ read \in Seq(Seq(Chars)) /\ Len(configs) \in Nat
        /\ configs[k] \in Seq(Statement) /\ Len(configs[k]) \in Nat
        /\ Len(m[k]) \in Nat
        /\ \A j \in 1 .. Len(m[k]) : m[k][j] \in Nat
    BY MarkFacts
  <2>2. Len(m[k]) = Len(configs[k]) \/ Len(m[k]) = Len(configs[k]) + 1
    BY DEF Marks, Marked
  <2>3. QED BY <2>1, <2>2
<1>2. i \in 1 .. Len(configs[k]) /\ i \in 1 .. Len(m[k]) /\ i + 1 \in 1 .. Len(m[k])
  <2>1. PICK a \in Nat, b \in Nat : a = Len(configs[k]) /\ b = Len(m[k])
    BY <1>1
  <2>2. b <= a + 1 /\ i \in 1 .. b - 1
    BY <1>1, <2>1
  <2>3. i \in 1 .. a /\ i \in 1 .. b /\ i + 1 \in 1 .. b
    BY <2>2
  <2>4. QED BY <2>1, <2>3
<1>3. PICK st \in Statement, p \in Nat, q \in Nat :
        st = configs[k][i] /\ p = m[k][i] /\ q = m[k][i + 1]
  <2>1. m[k][i] \in Nat /\ m[k][i + 1] \in Nat
    BY <1>1, <1>2
  <2>2. configs[k][i] \in Statement
    BY <1>1, <1>2
  <2>3. QED BY <2>1, <2>2, Zenon
<1>4. /\ Ended(read, st, p, q, m) /\ ~Open(st.child)
      /\ st.child \in {0} \cup (k + 1 .. Len(configs))
  BY <1>2, <1>3 DEF Marks, Marked
<1>5. st.child # 0 => m2[st.child] = m[st.child] /\ Last(m[st.child]) \in Nat
  <2>1. st.child # 0 => st.child \in 1 .. Len(configs)
    BY <1>1, <1>4
  <2>2. QED BY <1>4, <2>1, MarkFacts
<1>6. Ended(Append(read, x), st, p, q, m2)
  BY <1>1, <1>3, <1>4, <1>5, StillEnded
<1>7. QED BY <1>3, <1>4, <1>6

\* More of the statement that is being read.
LEMMA WordMarks ==
    ASSUME LexerOK, ParserOK, NEW m, Marks(m), NEW x \in Seq(Chars),
           read' = Append(read, x), NEW new \in Seq(Statement), new # << >>,
           configs' = [configs EXCEPT ![Top] = new], UNCHANGED <<stack, depth>>,
           last' = "word", Len(m[Top]) = Len(new),
           \A i \in 1 .. Len(new) - 1 : new[i] = configs[Top][i],
           Last(new).child = 0, Written(read', Last(new), Last(m[Top])),
           Last(m[Top]) + Len(Last(new).tokens) = Len(read')
    PROVE  Marks(m)'
<1>1. /\ read \in Seq(Seq(Chars)) /\ Len(read) \in Nat /\ Len(read') = Len(read) + 1
      /\ Len(configs) \in Nat /\ Top \in 1 .. Len(configs)
      /\ configs \in Seq(Config) /\ Len(new) \in Nat \ {0}
  BY TopOK, MarkFacts, Appended DEF IsAppend, ParserOK, ParserType
<1>2. /\ Len(configs') = Len(configs) /\ configs'[Top] = new
      /\ \A k \in 1 .. Len(configs) : k # Top => configs'[k] = configs[k]
  BY <1>1
<1>3. Top' = Top /\ \A k : (Holds(k)' <=> Holds(k)) /\ (Open(k)' <=> Open(k))
                        /\ (Begun(k)' <=> k = Top)
  BY DEF Top, Holds, Open, Begun
<1>4. Marked(m)'
  <2> SUFFICES ASSUME NEW k \in 1 .. Len(configs)
               PROVE  /\ m[k] \in Seq(Nat)
                      /\ Len(m[k]) = IF k = Top \/ Holds(k) THEN Len(configs'[k])
                                     ELSE Len(configs'[k]) + 1
                      /\ \A i \in 1 .. Len(m[k]) :
                            m[k][1] <= m[k][i] /\ m[k][i] <= Len(read')
                      /\ \A i \in 1 .. Len(configs'[k]) :
                            configs'[k][i].child \in {0} \cup (k + 1 .. Len(configs))
                      /\ \A i \in 1 .. Len(m[k]) - 1 :
                            /\ Ended(read', configs'[k][i], m[k][i], m[k][i + 1], m)
                            /\ ~Open(configs'[k][i].child)
    BY <1>2, <1>3 DEF Marked
  <2>1. m[k] \in Seq(Nat) /\ Len(m[k]) \in Nat /\ \A i \in 1 .. Len(m[k]) : m[k][i] \in Nat
    BY MarkFacts
  <2>2. Len(m[k]) = IF k = Top \/ Holds(k) THEN Len(configs'[k]) ELSE Len(configs'[k]) + 1
    <3>1. CASE k = Top
      BY <1>2, <3>1
    <3>2. CASE k # Top
      BY <1>2, <3>2 DEF Marks, Marked, Begun
    <3>3. QED BY <3>1, <3>2
  <2>3. \A i \in 1 .. Len(m[k]) : m[k][1] <= m[k][i] /\ m[k][i] <= Len(read')
    <3>1. \A i \in 1 .. Len(m[k]) : m[k][1] <= m[k][i] /\ m[k][i] <= Len(read)
      BY DEF Marks, Marked
    <3>2. PICK l \in Nat : l = Len(read) /\ Len(read') = l + 1
      BY <1>1
    <3>3. ASSUME NEW i \in 1 .. Len(m[k])
          PROVE  m[k][1] <= m[k][i] /\ m[k][i] <= Len(read')
      <4>1. PICK e \in Nat : e = m[k][i]
        BY <2>1
      <4>2. m[k][1] <= e /\ e <= l
        BY <3>1, <3>2, <4>1
      <4>3. e <= l + 1
        BY <4>2
      <4>4. QED BY <3>2, <4>1, <4>2, <4>3
    <3>4. QED BY <3>3
  <2>4. ASSUME NEW i \in 1 .. Len(m[k]) - 1
        PROVE  /\ Ended(read', configs'[k][i], m[k][i], m[k][i + 1], m)
               /\ ~Open(configs'[k][i].child)
               /\ configs'[k][i].child \in {0} \cup (k + 1 .. Len(configs))
    <3>1. configs'[k][i] = configs[k][i]
      BY <1>2
    <3>2. QED BY <3>1, EndedStays
  <2>5. ASSUME NEW i \in 1 .. Len(configs'[k])
        PROVE  configs'[k][i].child \in {0} \cup (k + 1 .. Len(configs))
    <3>1. CASE k # Top
      BY <1>2, <3>1 DEF Marks, Marked
    <3>2. CASE k = Top
      <4>1. CASE i = Len(new)
        BY <1>2, <3>2, <4>1 DEF Last
      <4>2. CASE i # Len(new)
        <5>1. i \in 1 .. Len(m[k]) - 1
          BY <1>1, <1>2, <3>2, <4>2
        <5>2. QED BY <2>4, <5>1
      <4>3. QED BY <4>1, <4>2
    <3>3. QED BY <3>1, <3>2
  <2>6. QED BY <2>1, <2>2, <2>3, <2>4, <2>5
<1>5. AtTop(m)'
  BY <1>2, <1>3 DEF AtTop
<1>6. ASSUME NEW j \in 1 .. depth
      PROVE  Opened(read', Last(configs'[stack[j]]), Last(m[stack[j]]), m)
  <2>1. stack[j] \in 1 .. Len(configs) /\ stack[j] # Top /\ configs[stack[j]] # << >>
    BY TopOK DEF ParserOK, StackIsPath
  <2>2. configs[stack[j]] \in Seq(Statement) /\ Last(m[stack[j]]) \in Nat
    BY <2>1, MarkFacts
  <2>3. Last(configs[stack[j]]) \in Statement
    BY <2>1, <2>2 DEF Last
  <2>4. Opened(read, Last(configs[stack[j]]), Last(m[stack[j]]), m)
    BY DEF Marks
  <2>5. Opened(Append(read, x), Last(configs[stack[j]]), Last(m[stack[j]]), m)
    BY <1>1, <2>2, <2>3, <2>4, StillOpened
  <2>6. QED BY <1>2, <2>1, <2>5
<1>7. QED BY <1>4, <1>5, <1>6 DEF Marks

\* The last statement of u ends, and u is the innermost configuration then.
LEMMA EndMarks ==
    ASSUME LexerOK, ParserOK, NEW m, Marks(m), NEW x \in Seq(Chars),
           read' = Append(read, x), UNCHANGED configs, last' # "word",
           NEW u \in 1 .. Len(configs), Begun(u) \/ Holds(u), Top' = u,
           \A k : /\ Holds(k)' <=> Holds(k) /\ k # u
                  /\ Open(k)' => Open(k),
           \A k : k # u => ~Begun(k),
           \A j \in 1 .. depth' : j \in 1 .. depth /\ stack'[j] = stack[j] /\ stack[j] # u,
           ~Open(Last(configs[u]).child)',
           NEW m2, m2[u] = Append(m[u], Len(read) + 1),
           \A k \in 1 .. Len(configs) : k # u => m2[k] = m[k],
           Ended(read', Last(configs[u]), Last(m[u]), Len(read) + 1, m2)
    PROVE  Marks(m2)'
<1>1. /\ read \in Seq(Seq(Chars)) /\ Len(read) \in Nat /\ Len(read') = Len(read) + 1
      /\ Len(configs) \in Nat
  BY MarkFacts, Appended DEF IsAppend
<1>2. /\ m[u] \in Seq(Nat) /\ Len(m[u]) \in Nat \ {0} /\ Len(m[u]) = Len(configs[u])
      /\ m[u][1] \in Nat /\ m[u][1] <= Len(read)
  BY MarkFacts
<1>3. /\ m2[u] \in Seq(Nat) /\ Len(m2[u]) = Len(m[u]) + 1
      /\ m2[u][Len(m[u]) + 1] = Len(read) + 1
      /\ \A i \in 1 .. Len(m[u]) : m2[u][i] = m[u][i]
  <2>1. Len(read) + 1 \in Nat /\ m2[u] = Append(m[u], Len(read) + 1)
    BY <1>1
  <2>2. m2[u] \in Seq(Nat) /\ IsAppend(m2[u], m[u], Len(read) + 1)
    BY <1>2, <2>1, Appended
  <2>3. QED BY <2>2 DEF IsAppend
<1>4. /\ \A k \in 1 .. Len(configs) : k # u => m2[k] = m[k]
      /\ \A k \in 1 .. Len(configs) : m2[k][1] = m[k][1]
      /\ Last(m2[u]) = Len(read) + 1
  <2>1. \A k \in 1 .. Len(configs) : k # u => m2[k] = m[k]
    OBVIOUS
  <2>2. 1 \in 1 .. Len(m[u])
    BY <1>2
  <2>3. m2[u][1] = m[u][1] /\ Last(m2[u]) = Len(read) + 1
    BY <1>3, <2>2 DEF Last
  <2>4. QED BY <2>1, <2>3
<1>5. Open(u)
  BY DEF Open, Begun, Holds
<1>6. \A c \in 1 .. Len(configs) : ~Open(c) => m2[c] = m[c]
  BY <1>4, <1>5
<1>12. PICK n \in Nat \ {0} : n = Len(m[u])
  BY <1>2
<1>13. Len(m2[u]) = n + 1 /\ m2[u][n + 1] = Len(read) + 1
       /\ \A i \in 1 .. n : m2[u][i] = m[u][i]
  BY <1>3, <1>12
<1>7. Marked(m2)'
  <2> SUFFICES ASSUME NEW k \in 1 .. Len(configs)
               PROVE  /\ m2[k] \in Seq(Nat)
                      /\ Len(m2[k]) = IF Holds(k) /\ k # u THEN Len(configs[k])
                                      ELSE Len(configs[k]) + 1
                      /\ \A i \in 1 .. Len(m2[k]) :
                            m2[k][1] <= m2[k][i] /\ m2[k][i] <= Len(read')
                      /\ \A i \in 1 .. Len(configs[k]) :
                            configs[k][i].child \in {0} \cup (k + 1 .. Len(configs))
                      /\ \A i \in 1 .. Len(m2[k]) - 1 :
                            /\ Ended(read', configs[k][i], m2[k][i], m2[k][i + 1], m2)
                            /\ ~Open(configs[k][i].child)'
    <3>1. \A k : ~Begun(k)'
      BY DEF Begun
    <3>2. QED BY <3>1 DEF Marked
  <2>1. /\ m[k] \in Seq(Nat) /\ Len(m[k]) \in Nat /\ \A i \in 1 .. Len(m[k]) : m[k][i] \in Nat
        /\ m[k][1] \in Nat /\ Len(configs[k]) \in Nat
    BY MarkFacts
  <2>2. \A i \in 1 .. Len(m[k]) : m[k][1] <= m[k][i] /\ m[k][i] <= Len(read)
    BY DEF Marks, Marked
  <2>3. \A i \in 1 .. Len(configs[k]) :
           configs[k][i].child \in {0} \cup (k + 1 .. Len(configs))
    BY DEF Marks, Marked
  <2>4. ASSUME NEW i \in 1 .. Len(m[k]) - 1
        PROVE  /\ Ended(read', configs[k][i], m[k][i], m[k][i + 1], m2)
               /\ ~Open(configs[k][i].child)'
    BY <1>6, EndedStays
  <2>5. CASE k # u
    <3>1. m2[k] = m[k]
      BY <1>4, <2>5
    <3>2. Len(m[k]) = IF Holds(k) THEN Len(configs[k]) ELSE Len(configs[k]) + 1
      BY <2>5 DEF Marks, Marked
    <3>3. ASSUME NEW i \in 1 .. Len(m[k])
          PROVE  m[k][1] <= m[k][i] /\ m[k][i] <= Len(read')
      <4>1. m[k][i] \in Nat /\ m[k][1] <= m[k][i] /\ m[k][i] <= Len(read)
        BY <2>1, <2>2
      <4>2. QED BY <1>1, <4>1
    <3>4. QED BY <2>1, <2>3, <2>4, <2>5, <3>1, <3>2, <3>3
  <2>6. CASE k = u
    <3>1. m2[k] \in Seq(Nat) /\ Len(m2[k]) = Len(configs[k]) + 1
      BY <1>2, <1>3, <2>6
    <3>2. ASSUME NEW i \in 1 .. Len(m2[k])
          PROVE  m2[k][1] <= m2[k][i] /\ m2[k][i] <= Len(read')
      <4>1. m2[k][1] = m[k][1] /\ m[k][1] <= Len(read)
        BY <1>2, <1>4, <2>6
      <4>2. i \in 1 .. n + 1
        BY <1>13, <2>6
      <4>3. CASE i = n + 1
        <5>1. m2[k][i] = Len(read) + 1
          BY <1>13, <2>6, <4>3
        <5>2. QED BY <1>1, <2>1, <4>1, <5>1
      <4>4. CASE i # n + 1
        <5>1. i \in 1 .. n
          BY <4>2, <4>4
        <5>2. m2[k][i] = m[k][i] /\ m[k][i] \in Nat
          BY <1>12, <1>13, <2>1, <2>6, <5>1
        <5>3. m[k][1] <= m[k][i] /\ m[k][i] <= Len(read)
          BY <1>12, <2>2, <2>6, <5>1
        <5>4. QED BY <1>1, <4>1, <5>2, <5>3
      <4>5. QED BY <4>3, <4>4
    <3>3. ASSUME NEW i \in 1 .. Len(m2[k]) - 1
          PROVE  /\ Ended(read', configs[k][i], m2[k][i], m2[k][i + 1], m2)
                 /\ ~Open(configs[k][i].child)'
      <4>0. i \in 1 .. n
        BY <1>13, <2>6
      <4>1. m2[k][i] = m[k][i]
        BY <1>13, <2>6, <4>0
      <4>2. CASE i = n
        <5>1. configs[k][i] = Last(configs[u]) /\ m2[k][i] = Last(m[u])
          BY <1>2, <1>12, <2>6, <4>1, <4>2 DEF Last
        <5>2. m2[k][i + 1] = Len(read) + 1
          BY <1>13, <2>6, <4>2
        <5>3. QED BY <5>1, <5>2
      <4>3. CASE i # n
        <5>1. i \in 1 .. n - 1 /\ i + 1 \in 1 .. n
          BY <4>0, <4>3
        <5>2. m2[k][i + 1] = m[k][i + 1]
          BY <1>13, <2>6, <5>1
        <5>3. i \in 1 .. Len(m[k]) - 1
          BY <1>12, <2>6, <5>1
        <5>4. QED BY <2>4, <4>1, <5>2, <5>3
      <4>4. QED BY <4>2, <4>3
    <3>4. QED BY <2>3, <2>6, <3>1, <3>2, <3>3
  <2>7. QED BY <2>5, <2>6
<1>8. AtTop(m2)'
  BY <1>1, <1>4 DEF AtTop
<1>9. ASSUME NEW j \in 1 .. depth'
      PROVE  Opened(read', Last(configs[stack'[j]]), Last(m2[stack'[j]]), m2)
  <2>1. j \in 1 .. depth /\ stack'[j] = stack[j] /\ stack[j] # u
    OBVIOUS
  <2>2. PICK k \in 1 .. Len(configs) : k = stack[j]
    BY <2>1, TopOK
  <2>3. configs[k] # << >> /\ configs[k] \in Seq(Statement) /\ Last(m[k]) \in Nat
    BY <2>1, <2>2, MarkFacts DEF ParserOK, StackIsPath
  <2>4. PICK st \in Statement : st = Last(configs[k])
    BY <2>3 DEF Last
  <2>5. Opened(read, st, Last(m[k]), m)
    BY <2>1, <2>2, <2>4 DEF Marks
  <2>6. st.child \in 1 .. Len(configs)
    <3>1. st.child = stack[j + 1]
      BY <2>1, <2>2, <2>4 DEF ParserOK, StackIsPath
    <3>2. depth \in Nat /\ \A i \in 1 .. depth + 1 : stack[i] \in 1 .. Len(configs)
      BY TopOK
    <3>3. j + 1 \in 1 .. depth + 1
      BY <2>1, <3>2
    <3>4. QED BY <3>1, <3>2, <3>3
  <2>7. m2[st.child][1] = m[st.child][1]
    BY <1>4, <2>6
  <2>8. Opened(Append(read, x), st, Last(m[k]), m2)
    BY <1>1, <2>3, <2>4, <2>5, <2>7, StillOpened
  <2>9. QED BY <1>4, <2>1, <2>2, <2>4, <2>8
<1>10. m2[1][1] = 0
  <2>1. 1 \in 1 .. Len(configs)
    BY <1>1
  <2>2. m2[1][1] = m[1][1]
    BY <1>4, <2>1
  <2>3. QED BY <2>2 DEF Marks
<1>11. QED BY <1>7, <1>8, <1>9, <1>10 DEF Marks

\* A block is opened.
LEMMA OpenMarks ==
    ASSUME LexerOK, ParserOK, NEW m, Marks(m), OpenBlock, last = "word",
           OpenBrace \in Seq(Chars), read' = Append(read, OpenBrace)
    PROVE  \E m2 : Marks(m2)'
<1> DEFINE L == Len(configs)
           block == configs[Top]
<1>1. /\ read \in Seq(Seq(Chars)) /\ Len(read) \in Nat /\ L \in Nat
      /\ read' \in Seq(Seq(Chars)) /\ Len(read') = Len(read) + 1
      /\ read'[Len(read) + 1] = OpenBrace
  BY MarkFacts, Appended DEF IsAppend
<1>2. /\ depth \in Nat /\ Top \in 1 .. L /\ Top = stack[depth + 1]
      /\ \A i \in 1 .. depth + 1 : stack[i] \in 1 .. L
      /\ \A i \in 1 .. depth : stack[i] # Top
  BY TopOK
<1>3. /\ Len(configs') = L + 1 /\ configs'[L + 1] = << >>
      /\ \A k \in 1 .. L : k # Top => configs'[k] = configs[k]
      /\ Len(block) # 0 /\ configs'[Top] \in Seq(Statement) /\ Len(configs'[Top]) = Len(block)
      /\ \A i \in 1 .. Len(block) - 1 : configs'[Top][i] = block[i]
      /\ Last(configs'[Top]).tokens = Last(block).tokens
      /\ Last(configs'[Top]).child = L + 1
  BY BlockOpened
<1>4. /\ Top' = L + 1 /\ depth' = depth + 1 /\ last' # "word"
      /\ \A i \in 1 .. depth + 1 : stack'[i] = stack[i]
  BY BlockOpened
<1>14. PICK m2 : m2 = [k \in 1 .. L + 1 |-> IF k = L + 1 THEN << Len(read) + 1 >> ELSE m[k]]
  OBVIOUS
<1>5. /\ m2[L + 1] = << Len(read) + 1 >>
      /\ \A k \in 1 .. L : m2[k] = m[k]
  BY <1>1, <1>14
<1>6. /\ Begun(Top) /\ \A k : Begun(k) => k = Top
      /\ \A k : ~Begun(k)'
      /\ \A k : Holds(k)' <=> Holds(k) \/ k = Top
      /\ \A k \in 1 .. L : Open(k)' <=> Open(k)
      /\ ~Open(0)'
  <2>1. Begun(Top) /\ (\A k : Begun(k) => k = Top) /\ \A k : ~Begun(k)'
    BY <1>4 DEF Begun
  <2>2. ASSUME NEW k
        PROVE  Holds(k)' <=> Holds(k) \/ k = Top
    <3>1. Holds(k)' <=> \E j \in 1 .. depth + 1 : k = stack'[j]
      BY <1>4 DEF Holds
    <3>2. (\E j \in 1 .. depth + 1 : k = stack'[j]) <=> (\E j \in 1 .. depth + 1 : k = stack[j])
      BY <1>4
    <3>3. (\E j \in 1 .. depth + 1 : k = stack[j])
            <=> (\E j \in 1 .. depth : k = stack[j]) \/ k = stack[depth + 1]
      BY <1>2
    <3>4. QED BY <1>2, <3>1, <3>2, <3>3 DEF Holds
  <2>3. \A k : Holds(k) => k \in 1 .. L
    BY <1>2 DEF Holds
  <2>4. (\A k \in 1 .. L : Open(k)' <=> Open(k)) /\ ~Open(0)'
    <3>1. \A k : Open(k)' <=> k = L + 1 \/ Holds(k) \/ k = Top
      BY <1>4, <2>2 DEF Open
    <3>2. \A k : Open(k) <=> k = Top \/ Holds(k)
      BY DEF Open
    <3>3. L + 1 # 0 /\ L + 1 \notin 1 .. L /\ 0 \notin 1 .. L
      BY <1>1
    <3>4. \A k \in 1 .. L : Open(k)' <=> Open(k)
      BY <3>1, <3>2, <3>3
    <3>5. ~Open(0)'
      BY <1>2, <2>3, <3>1, <3>3
    <3>6. QED BY <3>4, <3>5
  <2>5. QED BY <2>1, <2>2, <2>4
<1>7. \A c \in 1 .. L : ~Open(c) => m2[c] = m[c]
  BY <1>5
<1>8. Marked(m2)'
  <2> SUFFICES ASSUME NEW k \in 1 .. L + 1
               PROVE  /\ m2[k] \in Seq(Nat)
                      /\ Len(m2[k]) = IF Holds(k) \/ k = Top THEN Len(configs'[k])
                                      ELSE Len(configs'[k]) + 1
                      /\ \A i \in 1 .. Len(m2[k]) :
                            m2[k][1] <= m2[k][i] /\ m2[k][i] <= Len(read')
                      /\ \A i \in 1 .. Len(configs'[k]) :
                            configs'[k][i].child \in {0} \cup (k + 1 .. L + 1)
                      /\ \A i \in 1 .. Len(m2[k]) - 1 :
                            /\ Ended(read', configs'[k][i], m2[k][i], m2[k][i + 1], m2)
                            /\ ~Open(configs[k][i].child)'
    BY <1>3, <1>6 DEF Marked
  <2>1. CASE k = L + 1
    <3>1. m2[k] \in Seq(Nat) /\ Len(m2[k]) = 1 /\ m2[k][1] = Len(read) + 1
      <4>1. m2[k] = << Len(read) + 1 >> /\ Len(read) + 1 \in Nat
        BY <1>1, <1>5, <2>1
      <4> HIDE <2>1
      <4>2. QED BY <4>1
    <3>2. Len(configs'[k]) = 0
      BY <1>3, <2>1
    <3>3. ~Holds(k) /\ k # Top
      BY <1>1, <1>2, <2>1 DEF Holds
    <3>4. QED BY <1>1, <3>1, <3>2, <3>3
  <2>2. CASE k \in 1 .. L
    <3>1. /\ m[k] \in Seq(Nat) /\ Len(m[k]) \in Nat
          /\ \A i \in 1 .. Len(m[k]) : m[k][i] \in Nat
          /\ m2[k] = m[k]
      BY <1>5, <2>2, MarkFacts
    <3>2. Len(configs'[k]) = Len(configs[k])
      BY <1>3, <2>2
    <3>3. Len(m[k]) = IF Holds(k) \/ k = Top THEN Len(configs'[k]) ELSE Len(configs'[k]) + 1
      BY <1>6, <2>2, <3>2 DEF Marks, Marked
    <3>4. ASSUME NEW i \in 1 .. Len(m[k])
          PROVE  m[k][1] <= m[k][i] /\ m[k][i] <= Len(read')
      <4>1. m[k][i] \in Nat /\ m[k][1] <= m[k][i] /\ m[k][i] <= Len(read)
        BY <2>2, <3>1 DEF Marks, Marked
      <4>2. QED BY <1>1, <4>1
    <3>5. ASSUME NEW i \in 1 .. Len(configs'[k])
          PROVE  configs'[k][i].child \in {0} \cup (k + 1 .. L + 1)
      <4>1. configs[k][i].child \in {0} \cup (k + 1 .. L)
        BY <2>2, <3>2 DEF Marks, Marked
      <4>2. CASE k = Top /\ i = Len(block)
        <5>1. configs'[k][i].child = L + 1
          BY <1>3, <4>2 DEF Last
        <5>2. QED BY <1>1, <2>2, <5>1
      <4>3. CASE ~(k = Top /\ i = Len(block))
        <5>1. configs'[k][i] = configs[k][i]
          BY <1>3, <2>2, <3>2, <4>3
        <5>2. QED BY <1>1, <4>1, <5>1
      <4>4. QED BY <4>2, <4>3
    <3>6. ASSUME NEW i \in 1 .. Len(m[k]) - 1
          PROVE  /\ Ended(read', configs'[k][i], m[k][i], m[k][i + 1], m2)
                 /\ ~Open(configs[k][i].child)'
      <4>1. configs'[k][i] = configs[k][i]
        <5>1. k = Top => Len(m[k]) = Len(block)
          BY <1>6, <2>2, MarkFacts
        <5>2. QED BY <1>3, <2>2, <5>1
      <4>2. /\ Ended(Append(read, OpenBrace), configs[k][i], m[k][i], m[k][i + 1], m2)
            /\ ~Open(configs[k][i].child)
            /\ configs[k][i].child \in {0} \cup (k + 1 .. L)
        BY <1>7, <2>2, EndedStays
      <4>3. configs[k][i].child = 0 \/ configs[k][i].child \in 1 .. L
        BY <1>1, <2>2, <4>2
      <4>4. \A c : c = 0 \/ (c \in 1 .. L /\ ~Open(c)) => ~Open(c)'
        BY <1>6
      <4>5. PICK c : c = configs[k][i].child
        OBVIOUS
      <4>6. ~Open(c)' /\ c = configs'[k][i].child
        BY <4>1, <4>2, <4>3, <4>4, <4>5
      <4>7. QED BY <1>1, <4>1, <4>2, <4>6
    <3>7. QED BY <3>1, <3>3, <3>4, <3>5, <3>6
  <2>3. k = L + 1 \/ k \in 1 .. L
    BY <1>1
  <2>4. QED BY <2>1, <2>2, <2>3
<1>9. AtTop(m2)'
  <2>1. Last(m2[L + 1]) = Len(read) + 1
    BY <1>1, <1>5 DEF Last
  <2>2. QED BY <1>1, <1>4, <2>1 DEF AtTop
<1>10. m2[1][1] = 0
  BY <1>1, <1>2, <1>5 DEF Marks
<1>11. ASSUME NEW j \in 1 .. depth + 1
       PROVE  Opened(read', Last(configs'[stack[j]]), Last(m2[stack[j]]), m2)
  <2>1. CASE j = depth + 1
    <3>1. stack[j] = Top /\ m2[Top] = m[Top]
      BY <1>2, <1>5, <2>1
    <3>2. PICK st \in Statement : st = Last(block)
      <4>1. block \in Seq(Statement)
        BY TopOK
      <4>2. QED BY <1>3, <4>1 DEF Last
    <3>3. PICK st2 \in Statement : st2 = Last(configs'[Top])
      BY <1>3 DEF Last
    <3>4. PICK p \in Nat : p = Last(m[Top])
      BY <1>2, MarkFacts
    <3>5. Written(read, st, p) /\ p + Len(st.tokens) = Len(read)
      BY <3>2, <3>4 DEF Marks, AtTop
    <3>6. Written(read', st, p)
      BY <1>1, <3>5, StillWritten
    <3>7. st2.tokens = st.tokens /\ st2.child = L + 1
      BY <1>3, <3>2, <3>3
    <3>8. Written(read', st2, p)
      BY <3>6, <3>7 DEF Written
    <3>9. m2[st2.child][1] = Len(read) + 1
      BY <1>5, <3>7
    <3>10. p + Len(st2.tokens) + 1 = Len(read) + 1
      BY <3>5, <3>7
    <3>11. Opened(read', st2, p, m2)
      BY <1>1, <3>7, <3>8, <3>9, <3>10 DEF Opened
    <3>12. QED BY <3>1, <3>3, <3>4, <3>11
  <2>2. CASE j # depth + 1
    <3>1. j \in 1 .. depth /\ j + 1 \in 1 .. depth + 1
      BY <1>2, <2>2
    <3>2. PICK k \in 1 .. L : k = stack[j]
      BY <1>2, <3>1
    <3>3. k # Top /\ configs'[k] = configs[k] /\ m2[k] = m[k]
      BY <1>2, <1>3, <1>5, <3>1, <3>2
    <3>4. configs[k] # << >> /\ configs[k] \in Seq(Statement) /\ Last(m[k]) \in Nat
      BY <3>1, <3>2, MarkFacts DEF ParserOK, StackIsPath
    <3>5. PICK st \in Statement : st = Last(configs[k])
      BY <3>4 DEF Last
    <3>6. Opened(read, st, Last(m[k]), m)
      BY <3>1, <3>2, <3>5 DEF Marks
    <3>7. st.child \in 1 .. L
      <4>1. st.child = stack[j + 1]
        BY <3>1, <3>2, <3>5 DEF ParserOK, StackIsPath
      <4>2. QED BY <1>2, <3>1, <4>1
    <3>8. m2[st.child][1] = m[st.child][1]
      BY <1>5, <3>7
    <3>9. Opened(Append(read, OpenBrace), st, Last(m[k]), m2)
      BY <1>1, <3>4, <3>6, <3>8, StillOpened
    <3>10. QED BY <3>2, <3>3, <3>5, <3>9
  <2>3. QED BY <2>1, <2>2
<1>12. Marks(m2)'
  BY <1>4, <1>8, <1>9, <1>10, <1>11 DEF Marks
<1>13. QED BY <1>12

\* A word begins a statement or continues one.
LEMMA WordGoesOn ==
    ASSUME LexerOK, ParserOK, NEW m, Marks(m), NEW word \in Seq(Chars), AddWord(word),
           read' = Append(read, word)
    PROVE  Marks(m)'
<1> DEFINE block == configs[Top]
           n == Len(block)
<1>1. /\ read \in Seq(Seq(Chars)) /\ Len(read) \in Nat
      /\ Top \in 1 .. Len(configs) /\ block \in Seq(Statement) /\ n \in Nat
      /\ Last(m[Top]) \in Nat
  BY TopOK, MarkFacts
<1>2. /\ Len(read') = Len(read) + 1 /\ read'[Len(read) + 1] = word
      /\ \A i \in 1 .. Len(read) : read'[i] = read[i]
  BY <1>1, Appended DEF IsAppend
<1>3. UNCHANGED <<stack, depth>> /\ last' = "word"
  BY DEF AddWord
<1>4. ASSUME NEW new \in Seq(Statement), new # << >>,
             configs' = [configs EXCEPT ![Top] = new], Len(m[Top]) = Len(new),
             \A i \in 1 .. Len(new) - 1 : new[i] = configs[Top][i],
             Last(new).child = 0, Written(read', Last(new), Last(m[Top])),
             Last(m[Top]) + Len(Last(new).tokens) = Len(read')
      PROVE  Marks(m)'
  BY <1>3, <1>4, WordMarks
<1>5. CASE last # "word"
  <2> DEFINE s == [tokens |-> << word >>, child |-> 0]
             new == Append(block, s)
  <2>1. s \in Statement /\ s.child = 0 /\ s.tokens = << word >>
    BY DEF Statement
  <2>2. configs' = [configs EXCEPT ![Top] = new]
    BY <1>5 DEF AddWord
  <2> HIDE DEF s
  <2>3. /\ new \in Seq(Statement) /\ new # << >> /\ Len(new) = n + 1
        /\ Last(new) = s /\ \A i \in 1 .. n : new[i] = block[i]
    <3>1. /\ new \in Seq(Statement) /\ Len(new) = n + 1
          /\ new[n + 1] = s /\ \A i \in 1 .. n : new[i] = block[i]
      <4>1. PICK b \in Seq(Statement) : b = block
        BY <1>1
      <4>2. Append(b, s) \in Seq(Statement) /\ IsAppend(Append(b, s), b, s)
        BY <2>1, Appended
      <4>3. QED BY <4>1, <4>2 DEF IsAppend
    <3>2. new # << >>
      <4>1. n + 1 # 0
        BY <1>1
      <4> HIDE DEF new, n
      <4>2. QED BY <3>1, <4>1
    <3>3. QED BY <3>1, <3>2 DEF Last
  <2> HIDE DEF new
  <2>4. Len(m[Top]) = n + 1
    <3>1. ~Begun(Top) /\ ~Holds(Top)
      BY <1>5, TopOK DEF Begun, Holds
    <3>2. QED BY <1>1, <3>1, MarkFacts
  <2>5. Last(m[Top]) = Len(read)
    BY <1>5 DEF Marks, AtTop
  <2>6. /\ Len(s.tokens) = 1 /\ s.tokens[1] = word
    BY <2>1
  <2>7. Written(read', s, Last(m[Top])) /\ Last(m[Top]) + Len(s.tokens) = Len(read')
    BY <1>1, <1>2, <2>5, <2>6 DEF Written
  <2>8. Len(m[Top]) = Len(new) /\ Last(new).child = 0
        /\ \A i \in 1 .. Len(new) - 1 : new[i] = configs[Top][i]
    BY <1>1, <2>1, <2>3, <2>4
  <2>9. QED BY <1>4, <2>2, <2>3, <2>7, <2>8
<1>6. CASE last = "word"
  <2> DEFINE longer == [block[n] EXCEPT !.tokens = Append(block[n].tokens, word)]
             new == [block EXCEPT ![n] = longer]
  <2>1. n \in 1 .. Len(block) /\ block[n] \in Statement /\ n # 0
    <3>1. block # << >>
      BY <1>6 DEF ParserOK, StackIsPath
    <3>2. QED BY <1>1, <3>1
  <2>2. configs' = [configs EXCEPT ![Top] = new]
    BY <1>6 DEF AddWord
  <2>3. /\ block[n].tokens \in Seq(Seq(Chars)) /\ Len(block[n].tokens) \in Nat
        /\ longer \in Statement
        /\ longer.child = block[n].child /\ longer.tokens = Append(block[n].tokens, word)
    <3>1. block[n].tokens \in Seq(Seq(Chars))
      BY <2>1 DEF Statement
    <3>2. Append(block[n].tokens, word) \in Seq(Seq(Chars))
      BY <3>1
    <3>3. longer \in Statement
      BY <2>1, <3>2 DEF Statement
    <3>4. longer.child = block[n].child /\ longer.tokens = Append(block[n].tokens, word)
      BY <2>1 DEF Statement
    <3>5. QED BY <3>1, <3>3, <3>4
  <2> HIDE DEF longer
  <2>4. /\ new \in Seq(Statement) /\ Len(new) = n /\ new # << >>
        /\ Last(new) = longer /\ \A i \in 1 .. n - 1 : new[i] = block[i]
    <3>1. new \in Seq(Statement) /\ Len(new) = n /\ new[n] = longer
          /\ \A i \in 1 .. n - 1 : new[i] = block[i]
      BY <1>1, <2>1, <2>3
    <3>2. QED BY <1>1, <2>1, <3>1 DEF Last
  <2> HIDE DEF new
  <2>5. Len(m[Top]) = n
    <3>1. Begun(Top)
      BY <1>6 DEF Begun
    <3>2. QED BY <1>1, <3>1, MarkFacts
  <2>6. /\ block[n].child = 0 /\ Written(read, block[n], Last(m[Top]))
        /\ Last(m[Top]) + Len(block[n].tokens) = Len(read)
    BY <1>6 DEF Marks, AtTop, Last
  <2>7. PICK p \in Nat, c \in Nat : p = Last(m[Top]) /\ c = Len(block[n].tokens)
    BY <1>1, <2>3
  <2>8. /\ Len(longer.tokens) = c + 1 /\ longer.tokens[c + 1] = word
        /\ \A i \in 1 .. c : longer.tokens[i] = block[n].tokens[i]
    <3>1. PICK t \in Seq(Seq(Chars)) : t = block[n].tokens
      BY <2>3
    <3>2. longer.tokens = Append(t, word) /\ c = Len(t)
      BY <2>3, <2>7, <3>1
    <3>3. IsAppend(Append(t, word), t, word)
      BY Appended
    <3>4. QED BY <3>1, <3>2, <3>3 DEF IsAppend
  <2>15. PICK l \in Nat : l = Len(read)
    BY <1>1
  <2>9. p + c = Len(read) /\ p + (c + 1) = Len(read')
    <3>1. p + c = l /\ Len(read') = l + 1
      BY <1>2, <2>6, <2>7, <2>15
    <3>2. p + (c + 1) = l + 1
      BY <3>1
    <3>3. QED BY <2>15, <3>1, <3>2
  <2>10. \A i \in 1 .. c : read[p + i] = block[n].tokens[i]
    BY <2>6, <2>7 DEF Written
  <2>12. ASSUME NEW j \in 1 .. c + 1
         PROVE  read'[p + j] = longer.tokens[j]
    <3>1. CASE j = c + 1
      <4>1. p + j = Len(read) + 1
        BY <2>9, <3>1
      <4>2. QED BY <1>2, <2>8, <3>1, <4>1
    <3>2. CASE j # c + 1
      <4>1. j \in 1 .. c /\ p + j \in 1 .. Len(read)
        <5>1. j \in 1 .. c /\ p + c = l
          BY <2>9, <2>15, <3>2
        <5>2. p + j \in 1 .. l
          BY <5>1
        <5>3. QED BY <2>15, <5>1, <5>2
      <4>2. QED BY <1>2, <2>8, <2>10, <4>1
    <3>3. QED BY <3>1, <3>2
  <2>13. Written(read', longer, p) /\ p + Len(longer.tokens) = Len(read')
    <3>1. p + Len(longer.tokens) = Len(read')
      BY <2>8, <2>9
    <3>2. p + Len(longer.tokens) <= Len(read')
      <4>1. Len(read') = l + 1
        BY <1>2, <2>15
      <4>2. QED BY <3>1, <4>1
    <3>3. \A j \in 1 .. Len(longer.tokens) : read'[p + j] = longer.tokens[j]
      BY <2>8, <2>12
    <3>4. QED BY <3>1, <3>2, <3>3 DEF Written
  <2>14. QED BY <1>4, <2>2, <2>3, <2>4, <2>5, <2>6, <2>7, <2>13
<1>7. QED BY <1>5, <1>6

\* A statement ends.
LEMMA StatementEnds ==
    ASSUME LexerOK, ParserOK, NEW m, Marks(m), EndStatement, last = "word",
           Semicolon \in Seq(Chars), read' = Append(read, Semicolon)
    PROVE  \E m2 : Marks(m2)'
<1>1. /\ read \in Seq(Seq(Chars)) /\ Len(read) \in Nat
      /\ Len(read') = Len(read) + 1 /\ read'[Len(read) + 1] = Semicolon
  BY MarkFacts, Appended DEF IsAppend
<1>2. PICK u \in 1 .. Len(configs) : u = Top
  BY TopOK
<1>3. UNCHANGED <<configs, stack, depth>> /\ last' # "word"
  BY DEF EndStatement
<1>4. /\ Top' = u /\ Begun(u) /\ ~Holds(u) /\ \A k : k # u => ~Begun(k)
      /\ \A k : (Holds(k)' <=> Holds(k)) /\ (Open(k)' <=> Open(k))
  BY <1>2, <1>3, TopOK DEF Top, Holds, Begun, Open
<1>5. PICK st \in Statement : st = Last(configs[u])
  <2>1. configs[u] \in Seq(Statement) /\ configs[u] # << >>
    BY <1>2, TopOK DEF ParserOK, StackIsPath
  <2>2. QED BY <2>1 DEF Last
<1>6. PICK p \in Nat : p = Last(m[u])
  BY <1>2, MarkFacts
<1>7. st.child = 0 /\ Written(read, st, p) /\ p + Len(st.tokens) = Len(read)
  BY <1>2, <1>5, <1>6 DEF Marks, AtTop
<1>8. PICK m2 : /\ m2[u] = Append(m[u], Len(read) + 1)
                /\ \A k \in 1 .. Len(configs) : k # u => m2[k] = m[k]
  <2> DEFINE new == [k \in 1 .. Len(configs) |->
                       IF k = u THEN Append(m[u], Len(read) + 1) ELSE m[k]]
  <2>1. new[u] = Append(m[u], Len(read) + 1)
    OBVIOUS
  <2>2. \A k \in 1 .. Len(configs) : k # u => new[k] = m[k]
    OBVIOUS
  <2> HIDE DEF new
  <2>3. QED BY <2>1, <2>2
<1>9. Ended(read', st, p, Len(read) + 1, m2)
  <2>1. Written(read', st, p)
    BY <1>1, <1>7, StillWritten
  <2>2. p + Len(st.tokens) + 1 = Len(read) + 1 /\ Len(read) + 1 <= Len(read')
    <3>1. PICK l \in Nat, e \in Nat : l = Len(read) /\ e = Len(read')
      BY <1>1
    <3>2. e = l + 1
      BY <1>1, <3>1
    <3>3. QED BY <1>7, <3>1, <3>2
  <2>3. QED BY <1>1, <1>7, <2>1, <2>2 DEF Ended
<1>10. ~Open(Last(configs[u]).child)'
  <2>1. ~Open(0)
    BY TopOK DEF Open, Holds
  <2>2. ~Open(0)'
    BY <1>4, <2>1
  <2>3. Last(configs'[u]).child = 0
    BY <1>3, <1>5, <1>7
  <2>4. QED BY <2>2, <2>3 DEF Open, Holds
<1>11. \A j \in 1 .. depth' : j \in 1 .. depth /\ stack'[j] = stack[j] /\ stack[j] # u
  BY <1>2, <1>3, TopOK
<1>12. \A k : (Holds(k)' <=> Holds(k) /\ k # u) /\ (Open(k)' => Open(k))
  BY <1>4
<1>13. Marks(m2)'
  BY <1>3, <1>4, <1>5, <1>6, <1>8, <1>9, <1>10, <1>11, <1>12, EndMarks
<1>14. QED BY <1>13

\* The innermost block is closed, and the statement it belongs to ends.
LEMMA BlockCloses ==
    ASSUME LexerOK, ParserOK, NEW m, Marks(m), depth > 0, last # "word",
           depth' = depth - 1, stack' = Front(stack), last' # "word", UNCHANGED configs,
           CloseBrace \in Seq(Chars), read' = Append(read, CloseBrace)
    PROVE  \E m2 : Marks(m2)'
<1>1. /\ read \in Seq(Seq(Chars)) /\ Len(read) \in Nat
      /\ Len(read') = Len(read) + 1 /\ read'[Len(read) + 1] = CloseBrace
  BY MarkFacts, Appended DEF IsAppend
<1>2. /\ depth \in Nat \ {0} /\ Len(stack) = depth + 1 /\ Top = stack[depth + 1]
      /\ \A i \in 1 .. depth + 1 : stack[i] \in 1 .. Len(configs)
      /\ \A i \in 1 .. depth : stack[i] # Top
      /\ Len(configs) \in Nat
  BY TopOK
<1>3. PICK u \in 1 .. Len(configs) : u = stack[depth]
  BY <1>2
<1>4. PICK v \in 1 .. Len(configs) : v = Top /\ v # u
  BY <1>2, <1>3
<1>5. /\ \A j \in 1 .. depth : stack'[j] = stack[j]
      /\ Top' = u
  <2>1. stack \in Seq(1 .. Len(configs))
    BY <1>2 DEF ParserOK, ParserType
  <2>2. stack' = SubSeq(stack, 1, depth)
    BY <1>2, <2>1 DEF Front
  <2>3. Len(stack') = depth /\ \A j \in 1 .. depth : stack'[j] = stack[j]
    BY <1>2, <2>1, <2>2
  <2>4. Top' = u
    BY <1>2, <1>3, <2>3 DEF Top, Last
  <2>5. QED BY <2>3, <2>4
<1>6. \A j \in 1 .. depth - 1 : stack[j] # u
  <2> TAKE j \in 1 .. depth - 1
  <2>1. j \in DOMAIN stack /\ depth \in DOMAIN stack /\ j < depth
    BY <1>2, TopOK
  <2>2. stack[j] < stack[depth]
    BY <2>1 DEF ParserOK, Increasing
  <2>3. QED BY <1>3, <2>2
<1>7. /\ Holds(u) /\ \A k : ~Begun(k)
      /\ \A k : Holds(k)' <=> Holds(k) /\ k # u
      /\ \A k : Open(k)' <=> Holds(k)
      /\ ~Open(v)'
  <2>1. Holds(u) /\ \A k : ~Begun(k)
    BY <1>2, <1>3 DEF Holds, Begun
  <2>2. ASSUME NEW k
        PROVE  Holds(k)' <=> Holds(k) /\ k # u
    <3>1. Holds(k)' <=> \E j \in 1 .. depth - 1 : k = stack[j]
      <4>1. \A j \in 1 .. depth - 1 : j \in 1 .. depth
        BY <1>2
      <4>2. \A j \in 1 .. depth - 1 : stack'[j] = stack[j]
        BY <1>5, <4>1
      <4>3. Holds(k)' <=> \E j \in 1 .. depth - 1 : k = stack'[j]
        BY DEF Holds
      <4>4. QED BY <4>2, <4>3
    <3>2. Holds(k) <=> (\E j \in 1 .. depth - 1 : k = stack[j]) \/ k = u
      BY <1>2, <1>3 DEF Holds
    <3>3. QED BY <1>6, <3>1, <3>2
  <2>3. \A k : Open(k)' <=> Holds(k)
    BY <1>5, <2>1, <2>2 DEF Open
  <2>4. ~Holds(v)
    BY <1>2, <1>4 DEF Holds
  <2>5. QED BY <2>1, <2>2, <2>3, <2>4
<1>8. PICK st \in Statement : st = Last(configs[u])
  <2>1. configs[u] \in Seq(Statement) /\ configs[u] # << >>
    BY <1>2, <1>3, MarkFacts DEF ParserOK, StackIsPath
  <2>2. QED BY <2>1 DEF Last
<1>9. st.child = v
  <2>1. depth \in 1 .. depth
    BY <1>2
  <2>2. Last(configs[stack[depth]]).child = stack[depth + 1]
    BY <2>1 DEF ParserOK, StackIsPath
  <2>3. QED BY <1>2, <1>3, <1>4, <1>8, <2>2
<1>10. PICK p \in Nat : p = Last(m[u])
  BY MarkFacts
<1>11. Opened(read, st, p, m) /\ Last(m[v]) = Len(read)
  <2>1. depth \in 1 .. depth
    BY <1>2
  <2>2. QED BY <1>3, <1>4, <1>8, <1>10, <2>1 DEF Marks, AtTop
<1>12. PICK m2 : /\ m2[u] = Append(m[u], Len(read) + 1)
                 /\ \A k \in 1 .. Len(configs) : k # u => m2[k] = m[k]
  <2> DEFINE new == [k \in 1 .. Len(configs) |->
                       IF k = u THEN Append(m[u], Len(read) + 1) ELSE m[k]]
  <2>1. new[u] = Append(m[u], Len(read) + 1)
    OBVIOUS
  <2>2. \A k \in 1 .. Len(configs) : k # u => new[k] = m[k]
    OBVIOUS
  <2> HIDE DEF new
  <2>3. QED BY <2>1, <2>2
<1>13. m2[st.child] = m[st.child]
  <2>1. m2[v] = m[v]
    BY <1>4, <1>12
  <2>2. QED BY <1>9, <2>1
<1>14. Ended(read', st, p, Len(read) + 1, m2)
  <2>1. Opened(Append(read, CloseBrace), st, p, m2)
    BY <1>1, <1>11, <1>13, StillOpened
  <2>2. Len(read) + 1 = Last(m2[st.child]) + 1 /\ Len(read) + 1 <= Len(read')
    <3>1. Last(m2[st.child]) = Len(read)
      BY <1>9, <1>11, <1>13
    <3>2. Len(read) + 1 <= Len(read')
      <4>1. PICK l \in Nat : l = Len(read)
        BY <1>1
      <4>2. Len(read') = l + 1
        BY <1>1, <4>1
      <4>3. QED BY <4>1, <4>2
    <3>3. QED BY <3>1, <3>2
  <2>3. QED BY <1>1, <2>1, <2>2 DEF Ended
<1>15. ~Open(Last(configs[u]).child)'
  <2>1. Last(configs'[u]).child = v
    BY <1>8, <1>9
  <2>2. QED BY <1>7, <2>1 DEF Open, Holds
<1>16. \A j \in 1 .. depth' : j \in 1 .. depth /\ stack'[j] = stack[j] /\ stack[j] # u
  <2>1. \A j \in 1 .. depth - 1 : j \in 1 .. depth
    BY <1>2
  <2>2. QED BY <1>5, <1>6, <2>1
<1>17. \A k : (Holds(k)' <=> Holds(k) /\ k # u) /\ (Open(k)' => Open(k))
  BY <1>7 DEF Open
<1>18. Marks(m2)'
  BY <1>5, <1>7, <1>8, <1>10, <1>12, <1>14, <1>15, <1>16, <1>17, EndMarks
<1>19. QED BY <1>18

LEMMA MarksKept ==
    ASSUME UNCHANGED <<last, configs, stack, depth, read>>, NEW m, Marks(m)
    PROVE  Marks(m)'
<1>1. /\ Top' = Top
      /\ \A k : (Begun(k)' <=> Begun(k)) /\ (Holds(k)' <=> Holds(k)) /\ (Open(k)' <=> Open(k))
  BY DEF Begun, Holds, Open, Top
<1>2. Marked(m)'
  <2>1. Marked(m)
    BY DEF Marks
  <2>2. QED BY <1>1, <2>1 DEF Marked
<1>3. AtTop(m)'
  BY <1>1 DEF Marks, AtTop
<1>4. QED BY <1>2, <1>3 DEF Marks

(***************************************************************************)
(* As long as the file is not refused, its statements have marks.          *)
(***************************************************************************)
Going == result \in {"parsing", "accepted"}

TreeOK ==
    /\ Going => \E m : Marks(m)
    /\ result = "accepted" => Finished

LEMMA InitTree == Init => TreeOK
<1> SUFFICES ASSUME Init PROVE TreeOK
  OBVIOUS
<1>1. /\ Top = 1 /\ Len(configs) = 1 /\ configs[1] = << >> /\ read = << >>
      /\ depth = 0 /\ last # "word"
  BY DEF Init, Top, Last
<1>2. PICK m : m = << << 0 >> >>
  OBVIOUS
<1>3. m[1] \in Seq(Nat) /\ Len(m[1]) = 1 /\ m[1][1] = 0 /\ Last(m[1]) = 0
  BY <1>2 DEF Last
<1>4. Marked(m)
  <2>1. ~Begun(1) /\ ~Holds(1) /\ Len(configs[1]) = 0
    BY <1>1 DEF Begun, Holds
  <2>2. \A i \in 1 .. Len(m[1]) : m[1][1] <= m[1][i] /\ m[1][i] <= Len(read)
    BY <1>1, <1>3
  <2>3. Len(m[1]) = Len(configs[1]) + 1 /\ Len(m[1]) - 1 = 0
    BY <1>3, <2>1
  <2>4. SUFFICES ASSUME NEW k \in 1 .. Len(configs)
                 PROVE  /\ m[k] \in Seq(Nat)
                        /\ Len(m[k]) = IF Begun(k) \/ Holds(k) THEN Len(configs[k])
                                       ELSE Len(configs[k]) + 1
                        /\ \A i \in 1 .. Len(m[k]) : m[k][1] <= m[k][i] /\ m[k][i] <= Len(read)
                        /\ 1 .. Len(configs[k]) = {} /\ 1 .. Len(m[k]) - 1 = {}
    BY DEF Marked
  <2>5. k = 1
    BY <1>1
  <2>6. 1 .. Len(configs[k]) = {} /\ 1 .. Len(m[k]) - 1 = {}
    <3>1. 1 .. 0 = {}
      OBVIOUS
    <3>2. Len(configs[k]) = 0 /\ Len(m[k]) - 1 = 0
      BY <2>1, <2>3, <2>5
    <3>3. QED BY <3>1, <3>2
  <2>7. QED BY <1>3, <2>1, <2>2, <2>3, <2>5, <2>6
<1>5. Marks(m)
  BY <1>1, <1>3, <1>4 DEF Marks, AtTop
<1>6. QED BY <1>5 DEF TreeOK, Init

LEMMA TreeKept ==
    ASSUME TreeOK, UNCHANGED <<last, configs, stack, depth, read>>,
           result' = result \/ result' \in {"rejected", "unbalanced"}
    PROVE  TreeOK'
BY MarksKept DEF TreeOK, Finished, Going

\* The tokens that are read when a file is refused are of no account.
LEMMA TreeRefused ==
    ASSUME result' \in {"rejected", "unbalanced"}
    PROVE  TreeOK'
BY DEF TreeOK, Going

LEMMA TreeWord ==
    ASSUME IInv, TreeOK, result = "parsing", NEW word \in Seq(Chars), EmitWord(word)
    PROVE  TreeOK'
<1>1. PICK m : Marks(m)
  BY DEF TreeOK, Going
<1>2. Marks(m)'
  BY <1>1, WordGoesOn DEF IInv, EmitWord
<1>3. result' = "parsing"
  BY DEF EmitWord, AddWord
<1>4. QED BY <1>2, <1>3 DEF TreeOK, Going

LEMMA TreePunctuation ==
    ASSUME IInv, TreeOK, NEW c \in Chars, Punctuation(c)
    PROVE  TreeOK'
<1>1. PICK m : Marks(m)
  BY DEF TreeOK, Going, Punctuation, Get
<1>2. /\ LexerOK /\ ParserOK /\ read' = Append(read, << c >>)
      /\ result = "parsing" /\ << c >> \in Seq(Chars)
  <2>1. << c >> \in Seq(Chars)
    OBVIOUS
  <2>2. QED BY <2>1, Zenon DEF IInv, Punctuation, Get
<1>3. CASE result' \in {"rejected", "unbalanced"}
  BY <1>3, TreeRefused
<1>4. ASSUME result' \notin {"rejected", "unbalanced"}
      PROVE  result' = "parsing" /\ \E m2 : Marks(m2)'
  <2>1. CASE c = "{" /\ OpenBlock
    <3>1. last = "word" /\ result' = result
      BY <1>4, <2>1, Zenon DEF OpenBlock, Reject
    <3>2. << c >> = OpenBrace
      BY <2>1, Zenon DEF OpenBrace
    <3>3. \E m2 : Marks(m2)'
      BY <1>1, <1>2, <2>1, <3>1, <3>2, OpenMarks
    <3>4. QED BY <1>2, <3>1, <3>3
  <2>2. CASE c = "}" /\ CloseBlock
    <3>1. /\ last \in {"{", "}", ";"} /\ depth > 0 /\ depth' = depth - 1
          /\ stack' = Front(stack) /\ last' = "}" /\ UNCHANGED <<configs, result>>
      BY <1>4, <2>2, Zenon DEF CloseBlock, Reject
    <3>2. last # "word" /\ last' # "word"
      BY <3>1
    <3>3. << c >> = CloseBrace
      BY <2>2, Zenon DEF CloseBrace
    <3>4. \E m2 : Marks(m2)'
      BY <1>1, <1>2, <3>1, <3>2, <3>3, BlockCloses
    <3>5. QED BY <1>2, <3>1, <3>4
  <2>3. CASE c = ";" /\ EndStatement
    <3>1. last = "word" /\ result' = result
      BY <1>4, <2>3, Zenon DEF EndStatement, Reject
    <3>2. << c >> = Semicolon
      BY <2>3, Zenon DEF Semicolon
    <3>3. \E m2 : Marks(m2)'
      BY <1>1, <1>2, <2>3, <3>1, <3>2, StatementEnds
    <3>4. QED BY <1>2, <3>1, <3>3
  <2>4. QED BY <2>1, <2>2, <2>3, Zenon DEF Punctuation
<1>5. CASE result' \notin {"rejected", "unbalanced"}
  BY <1>4, <1>5 DEF TreeOK, Going
<1>6. QED BY <1>3, <1>5

LEMMA TreeStep == IInv /\ TreeOK /\ [Next]_vars => TreeOK'
<1> SUFFICES ASSUME IInv, TreeOK, [Next]_vars PROVE TreeOK'
  OBVIOUS
<1>0. LexerOK
  BY DEF IInv
<1>1. ASSUME NEW c \in Chars, Skip(c) \/ Begin(c) \/ Comment(c) \/ Word(c)
      PROVE  TreeOK'
  BY <1>1, TreeKept DEF Skip, Begin, Comment, Word, parser
<1>2. ASSUME NEW c \in Chars, Punctuation(c)
      PROVE  TreeOK'
  BY <1>2, TreePunctuation
<1>3. ASSUME NEW c \in Chars, Quoted(c)
      PROVE  TreeOK'
  <2>1. CASE EmitWord(Append(value, c))
    <3>1. Append(value, c) \in Seq(Chars) /\ result = "parsing"
      BY <1>0, <1>3 DEF LexerOK, Quoted, Get
    <3>2. QED BY <2>1, <3>1, TreeWord
  <2>2. CASE UNCHANGED <<parser, result>>
    BY <2>2, TreeKept DEF parser
  <2>3. QED BY <1>3, <2>1, <2>2 DEF Quoted
<1>4. ASSUME NEW c \in Chars, WordEnds(c)
      PROVE  TreeOK'
  <2>1. value \in Seq(Chars) /\ result = "parsing" /\ EmitWord(value)
    BY <1>0, <1>4 DEF LexerOK, WordEnds, Get
  <2>2. QED BY <2>1, TreeWord
<1>5. CASE Eof
  <2>1. UNCHANGED <<last, configs, stack, depth, read>> /\ result = "parsing"
    BY <1>5 DEF Eof, EndOfFile, Reject
  <2>2. CASE result' \in {"rejected", "unbalanced"}
    BY <2>2, TreeRefused
  <2>3. CASE result' \notin {"rejected", "unbalanced"}
    <3>1. result' = "accepted" /\ last # "word" /\ depth = 0
      BY <1>5, <2>3 DEF Eof, EndOfFile, Reject
    <3>2. PICK m : Marks(m)
      BY <2>1 DEF TreeOK, Going
    <3>3. Marks(m)'
      BY <2>1, <3>2, MarksKept
    <3>4. QED BY <2>1, <3>1, <3>3 DEF TreeOK, Finished
  <2>4. QED BY <2>2, <2>3
<1>6. CASE UNCHANGED vars
  BY <1>6, TreeKept DEF vars, parser
<1>7. QED BY <1>1, <1>2, <1>3, <1>4, <1>5, <1>6 DEF Next

\* What ToString prints of an accepted configuration, however long the file and
\* however deep its blocks, is the file, token by token
\* (config_parser.cc:303-307, 324-327, 345).
THEOREM ConfigIsAlwaysFile == Spec => []ConfigIsFile
<1>1. IInv /\ TreeOK => ConfigIsFile
  <2> SUFFICES ASSUME IInv, TreeOK, result = "accepted" PROVE Printed = read
    BY DEF ConfigIsFile
  <2>1. PICK m : Marks(m)
    BY DEF TreeOK, Going
  <2>2. QED BY <2>1, MarksPrint DEF TreeOK, IInv
<1>2. Spec => []TreeOK
  BY InitTree, TreeStep, Invariance, PTL DEF Spec
<1>3. QED BY <1>1, <1>2, Invariance, PTL

------------------------------------------------------------------------------
(***************************************************************************)
(* The grammar.  Only the kinds of tokens matter to it.  Texts is a        *)
(* function that is defined by recursion, so that there is one has to be   *)
(* shown before it can be unfolded.                                        *)
(***************************************************************************)

WordKind == "word"
EndKind == ";"
OpenKind == "{"
CloseKind == "}"
Kind == {WordKind, EndKind, OpenKind, CloseKind}

LEMMA KindsDiffer ==
    /\ WordKind # EndKind /\ WordKind # OpenKind /\ WordKind # CloseKind
    /\ EndKind # OpenKind /\ EndKind # CloseKind /\ OpenKind # CloseKind
BY DEF WordKind, EndKind, OpenKind, CloseKind

Simple(words, rest) == words \o << EndKind >> \o rest
Nested(words, inner, rest) == words \o << OpenKind >> \o inner \o << CloseKind >> \o rest

\* The texts of n tokens, given the shorter ones.
TextsOf(texts, n) ==
    IF n = 0 THEN {<< >>}
    ELSE UNION {
        {Simple(words, rest) : words \in Words(k), rest \in texts[n - k - 1]}
        \cup UNION {{Nested(words, inner, rest) :
                       words \in Words(k), inner \in texts[i], rest \in texts[n - k - 2 - i]}
                    : i \in {j \in 0 .. n : j + k + 2 <= n}}
        : k \in 1 .. n - 1}

LEMMA TextsIs == Texts = CHOOSE t : t = [n \in 0 .. MaxTokens |-> TextsOf(t, n)]
BY DEF Texts, TextsOf, Simple, Nested, EndKind, OpenKind, CloseKind

LEMMA TextsSame ==
    ASSUME NEW n \in Nat, NEW s, NEW t, \A i \in 0 .. n - 1 : s[i] = t[i]
    PROVE  TextsOf(s, n) = TextsOf(t, n)
<1>1. CASE n = 0
  BY <1>1 DEF TextsOf
<1>2. CASE n # 0
  <2> DEFINE Of(u, k) ==
        {Simple(words, rest) : words \in Words(k), rest \in u[n - k - 1]}
        \cup UNION {{Nested(words, inner, rest) :
                       words \in Words(k), inner \in u[i], rest \in u[n - k - 2 - i]}
                    : i \in {j \in 0 .. n : j + k + 2 <= n}}
  <2>1. ASSUME NEW k \in 1 .. n - 1
        PROVE  Of(s, k) = Of(t, k)
    <3>1. s[n - k - 1] = t[n - k - 1]
      OBVIOUS
    <3>2. \A i \in {j \in 0 .. n : j + k + 2 <= n} :
             s[i] = t[i] /\ s[n - k - 2 - i] = t[n - k - 2 - i]
      OBVIOUS
    <3>3. QED BY <3>1, <3>2
  <2>2. TextsOf(s, n) = UNION {Of(s, k) : k \in 1 .. n - 1}
        /\ TextsOf(t, n) = UNION {Of(t, k) : k \in 1 .. n - 1}
    BY <1>2 DEF TextsOf
  <2> HIDE DEF Of
  <2>3. QED BY <2>1, <2>2, Zenon
<1>3. QED BY <1>1, <1>2

LEMMA TextsAre == \A n \in 0 .. MaxTokens : Texts[n] = TextsOf(Texts, n)
<1> DEFINE Upto(f, n) == f = [i \in 0 .. n |-> TextsOf(f, i)]
           S == {n \in Nat : \E f : Upto(f, n)}
<1>1. 0 \in S
  <2>1. [i \in 0 .. 0 |-> {<< >>}] = [i \in 0 .. 0 |-> TextsOf([j \in 0 .. 0 |-> {<< >>}], i)]
    BY DEF TextsOf
  <2>2. QED BY <2>1
<1>2. \A n \in S : n + 1 \in S
  <2> TAKE n \in S
  <2>1. PICK f : Upto(f, n)
    OBVIOUS
  <2> DEFINE g == [i \in 0 .. n + 1 |-> TextsOf(f, i)]
  <2>2. \A i \in 0 .. n : g[i] = f[i]
    BY <2>1
  <2> HIDE DEF Upto
  <2>3. \A i \in 0 .. n + 1 : TextsOf(f, i) = TextsOf(g, i)
    <3> HIDE DEF g
    <3> TAKE i \in 0 .. n + 1
    <3>1. i \in Nat /\ \A j \in 0 .. i - 1 : f[j] = g[j]
      BY <2>2
    <3>2. QED BY <3>1, TextsSame
  <2>4. g = [i \in 0 .. n + 1 |-> TextsOf(g, i)]
    <3> DEFINE h == g
    <3>1. h = [i \in 0 .. n + 1 |-> TextsOf(f, i)]
      OBVIOUS
    <3> HIDE DEF g
    <3>2. QED BY <2>3, <3>1
  <2> HIDE DEF g
  <2>5. Upto(g, n + 1)
    BY <2>4 DEF Upto
  <2>6. QED BY <2>5
<1>3. S = Nat
  <2>1. S \in SUBSET Nat
    OBVIOUS
  <2> HIDE DEF S
  <2>2. QED BY <1>1, <1>2, <2>1, NumberInduction
<1>4. MaxTokens \in S
  BY <1>3, BoundAssumption
<1>5. \E f : f = [n \in 0 .. MaxTokens |-> TextsOf(f, n)]
  BY <1>4
<1>6. Texts = [n \in 0 .. MaxTokens |-> TextsOf(Texts, n)]
  <2> DEFINE Eq(t) == t = [n \in 0 .. MaxTokens |-> TextsOf(t, n)]
  <2>1. Texts = CHOOSE t : Eq(t)
    BY TextsIs, Zenon
  <2>2. \E t : Eq(t)
    BY <1>5
  <2> HIDE DEF Eq
  <2>3. Eq(Texts)
    BY <2>1, <2>2, Zenon
  <2>4. QED BY <2>3 DEF Eq
<1>7. QED BY <1>6

LEMMA SimpleText ==
    ASSUME NEW n \in 1 .. MaxTokens, NEW k \in 1 .. n - 1, NEW words \in Words(k),
           NEW rest \in Texts[n - k - 1]
    PROVE  Simple(words, rest) \in Texts[n]
<1>1. n # 0 /\ n \in 0 .. MaxTokens
  BY BoundAssumption
<1>2. Texts[n] = TextsOf(Texts, n)
  BY <1>1, TextsAre
<1>3. Simple(words, rest) \in TextsOf(Texts, n)
  BY <1>1 DEF TextsOf
<1>4. QED BY <1>2, <1>3

LEMMA NestedText ==
    ASSUME NEW n \in 1 .. MaxTokens, NEW k \in 1 .. n - 1, NEW words \in Words(k),
           NEW i \in 0 .. n, i + k + 2 <= n, NEW inner \in Texts[i],
           NEW rest \in Texts[n - k - 2 - i]
    PROVE  Nested(words, inner, rest) \in Texts[n]
<1>1. n # 0 /\ n \in 0 .. MaxTokens
  BY BoundAssumption
<1>2. Texts[n] = TextsOf(Texts, n)
  BY <1>1, TextsAre
<1>3. Nested(words, inner, rest) \in TextsOf(Texts, n)
  <2> DEFINE Of(j) == {Nested(ws, is, rs) : ws \in Words(k), is \in Texts[j],
                                            rs \in Texts[n - k - 2 - j]}
  <2>1. Nested(words, inner, rest) \in Of(i)
    OBVIOUS
  <2>2. i \in {j \in 0 .. n : j + k + 2 <= n}
    OBVIOUS
  <2>3. Nested(words, inner, rest) \in UNION {Of(x) : x \in {j \in 0 .. n : j + k + 2 <= n}}
    <3> HIDE DEF Of
    <3>1. QED BY <2>1, <2>2
  <2>4. QED BY <1>1, <2>3 DEF TextsOf
<1>4. QED BY <1>2, <1>3

LEMMA TextCases ==
    ASSUME NEW n \in 1 .. MaxTokens, NEW w \in Texts[n]
    PROVE  \E k \in 1 .. n - 1 : \E words \in Words(k) :
              \/ \E rest \in Texts[n - k - 1] : w = Simple(words, rest)
              \/ \E i \in 0 .. n : /\ i + k + 2 <= n
                                   /\ \E inner \in Texts[i], rest \in Texts[n - k - 2 - i] :
                                         w = Nested(words, inner, rest)
<1>1. n # 0 /\ n \in 0 .. MaxTokens
  BY BoundAssumption
<1>2. w \in TextsOf(Texts, n)
  BY <1>1, TextsAre
<1>3. QED BY <1>1, <1>2 DEF TextsOf

LEMMA NoText == Texts[0] = {<< >>}
<1>1. 0 \in 0 .. MaxTokens
  BY BoundAssumption
<1>2. Texts[0] = TextsOf(Texts, 0)
  BY <1>1, TextsAre
<1>3. QED BY <1>2 DEF TextsOf

IsConcat(w, s, t) ==
    /\ w \in Seq(Kind) /\ Len(w) = Len(s) + Len(t)
    /\ \A i \in 1 .. Len(s) : w[i] = s[i]
    /\ \A j \in 1 .. Len(t) : w[Len(s) + j] = t[j]

LEMMA ConcatIs ==
    ASSUME NEW s \in Seq(Kind), NEW t \in Seq(Kind)
    PROVE  IsConcat(s \o t, s, t)
<1>1. Len(s) \in Nat /\ Len(t) \in Nat
  OBVIOUS
<1>2. /\ s \o t \in Seq(Kind) /\ Len(s \o t) = Len(s) + Len(t)
      /\ \A i \in 1 .. Len(s) + Len(t) : (s \o t)[i] =
                     IF i <= Len(s) THEN s[i] ELSE t[i - Len(s)]
  BY ConcatProperties
<1>3. QED BY <1>1, <1>2 DEF IsConcat

\* The kinds of the tokens of a text.
HasSimple(w, k, rest) ==
    /\ Len(w) = k + 1 + Len(rest)
    /\ \A i \in 1 .. k : w[i] = WordKind
    /\ w[k + 1] = EndKind
    /\ \A j \in 1 .. Len(rest) : w[k + 1 + j] = rest[j]

HasNested(w, k, inner, rest) ==
    LET l == k + 1 + Len(inner)
    IN  /\ Len(w) = l + 1 + Len(rest)
        /\ \A i \in 1 .. k : w[i] = WordKind
        /\ w[k + 1] = OpenKind
        /\ \A j \in 1 .. Len(inner) : w[k + 1 + j] = inner[j]
        /\ w[l + 1] = CloseKind
        /\ \A j \in 1 .. Len(rest) : w[l + 1 + j] = rest[j]

LEMMA WordsAreKinds ==
    ASSUME NEW k \in Nat, NEW words \in Words(k)
    PROVE  words \in Seq(Kind) /\ Len(words) = k /\ \A i \in 1 .. k : words[i] = WordKind
<1>1. words \in [1 .. k -> {WordKind}]
  BY DEF Words, WordKind
<1>2. words \in [1 .. k -> Kind] /\ \A i \in 1 .. k : words[i] = WordKind
  BY <1>1 DEF Kind
<1>3. QED BY <1>2

LEMMA SimpleIs ==
    ASSUME NEW k \in Nat, NEW words \in Words(k), NEW rest \in Seq(Kind)
    PROVE  Simple(words, rest) \in Seq(Kind) /\ HasSimple(Simple(words, rest), k, rest)
<1>1. words \in Seq(Kind) /\ Len(words) = k /\ \A i \in 1 .. k : words[i] = WordKind
  BY WordsAreKinds
<1>2. PICK e : e = << EndKind >>
  OBVIOUS
<1>3. e \in Seq(Kind) /\ Len(e) = 1 /\ e[1] = EndKind
  BY <1>2 DEF Kind
<1>4. PICK a : a = words \o e
  OBVIOUS
<1>5. /\ a \in Seq(Kind) /\ Len(a) = k + 1
      /\ \A i \in 1 .. k : a[i] = WordKind
      /\ a[k + 1] = EndKind
  <2>1. /\ a \in Seq(Kind) /\ Len(a) = k + 1
        /\ \A i \in 1 .. k : a[i] = words[i]
        /\ \A j \in 1 .. 1 : a[k + j] = e[j]
    <3>1. IsConcat(a, words, e)
      BY <1>1, <1>3, <1>4, ConcatIs, Zenon
    <3>2. QED BY <1>1, <1>3, <3>1 DEF IsConcat
  <2>2. QED BY <1>1, <1>3, <2>1
<1>6. PICK w : w = a \o rest
  OBVIOUS
<1>7. /\ w \in Seq(Kind) /\ Len(w) = k + 1 + Len(rest)
      /\ \A i \in 1 .. k + 1 : w[i] = a[i]
      /\ \A j \in 1 .. Len(rest) : w[k + 1 + j] = rest[j]
  <2>1. IsConcat(w, a, rest)
    BY <1>5, <1>6, ConcatIs, Zenon
  <2>2. QED BY <1>5, <2>1 DEF IsConcat
<1>8. HasSimple(w, k, rest)
  BY <1>5, <1>7 DEF HasSimple
<1>9. w = Simple(words, rest)
  BY <1>2, <1>4, <1>6 DEF Simple
<1>10. QED BY <1>7, <1>8, <1>9

LEMMA NestedIs ==
    ASSUME NEW k \in Nat, NEW words \in Words(k), NEW inner \in Seq(Kind), NEW rest \in Seq(Kind)
    PROVE  /\ Nested(words, inner, rest) \in Seq(Kind)
           /\ HasNested(Nested(words, inner, rest), k, inner, rest)
<1>1. words \in Seq(Kind) /\ Len(words) = k /\ \A i \in 1 .. k : words[i] = WordKind
  BY WordsAreKinds
<1>2. PICK o, e : o = << OpenKind >> /\ e = << CloseKind >>
  OBVIOUS
<1>3. /\ o \in Seq(Kind) /\ Len(o) = 1 /\ o[1] = OpenKind
      /\ e \in Seq(Kind) /\ Len(e) = 1 /\ e[1] = CloseKind
  BY <1>2 DEF Kind
<1>4. PICK a : a = words \o o
  OBVIOUS
<1>5. /\ a \in Seq(Kind) /\ Len(a) = k + 1
      /\ \A i \in 1 .. k : a[i] = WordKind
      /\ a[k + 1] = OpenKind
  <2>1. /\ a \in Seq(Kind) /\ Len(a) = k + 1
        /\ \A i \in 1 .. k : a[i] = words[i]
        /\ \A j \in 1 .. 1 : a[k + j] = o[j]
    <3>1. IsConcat(a, words, o)
      BY <1>1, <1>3, <1>4, ConcatIs, Zenon
    <3>2. QED BY <1>1, <1>3, <3>1 DEF IsConcat
  <2>2. QED BY <1>1, <1>3, <2>1
<1>6. PICK b : b = a \o inner
  OBVIOUS
<1>12. PICK l \in Nat : l = k + 1 + Len(inner)
  OBVIOUS
<1>7. /\ b \in Seq(Kind) /\ Len(b) = l
      /\ \A i \in 1 .. k + 1 : b[i] = a[i]
      /\ \A j \in 1 .. Len(inner) : b[k + 1 + j] = inner[j]
  <2>1. IsConcat(b, a, inner)
    BY <1>5, <1>6, ConcatIs, Zenon
  <2>2. QED BY <1>5, <1>12, <2>1 DEF IsConcat
<1>8. PICK c : c = b \o e
  OBVIOUS
<1>9. /\ c \in Seq(Kind) /\ Len(c) = l + 1
      /\ \A i \in 1 .. l : c[i] = b[i]
      /\ c[l + 1] = CloseKind
  <2>1. /\ c \in Seq(Kind) /\ Len(c) = l + 1
        /\ \A i \in 1 .. l : c[i] = b[i]
        /\ \A j \in 1 .. 1 : c[l + j] = e[j]
    <3>1. IsConcat(c, b, e)
      BY <1>3, <1>7, <1>8, ConcatIs, Zenon
    <3>2. QED BY <1>3, <1>7, <3>1 DEF IsConcat
  <2>2. QED BY <1>3, <2>1
<1>10. PICK w : w = c \o rest
  OBVIOUS
<1>11. /\ w \in Seq(Kind) /\ Len(w) = l + 1 + Len(rest)
       /\ \A i \in 1 .. l + 1 : w[i] = c[i]
       /\ \A j \in 1 .. Len(rest) : w[l + 1 + j] = rest[j]
  <2>1. IsConcat(w, c, rest)
    BY <1>9, <1>10, ConcatIs, Zenon
  <2>2. QED BY <1>9, <2>1 DEF IsConcat
<1>13. /\ \A i \in 1 .. k : w[i] = WordKind
       /\ w[k + 1] = OpenKind
       /\ w[l + 1] = CloseKind
       /\ \A j \in 1 .. Len(inner) : w[k + 1 + j] = inner[j]
  <2>1. PICK n \in Nat : n = Len(inner)
    OBVIOUS
  <2>2. l = k + 1 + n
    BY <1>12, <2>1
  <2>3. \A i \in 1 .. k + 1 : w[i] = a[i]
    BY <1>7, <1>9, <1>11, <2>2
  <2>4. \A j \in 1 .. n : w[k + 1 + j] = inner[j]
    <3> TAKE j \in 1 .. n
    <3>1. k + 1 + j \in 1 .. l /\ k + 1 + j \in 1 .. l + 1
      BY <2>2
    <3>2. w[k + 1 + j] = b[k + 1 + j]
      BY <1>9, <1>11, <3>1
    <3>3. QED BY <1>7, <2>1, <3>2
  <2>5. QED BY <1>5, <1>9, <1>11, <2>1, <2>3, <2>4
<1>14. HasNested(w, k, inner, rest)
  BY <1>11, <1>12, <1>13 DEF HasNested
<1>15. w = Nested(words, inner, rest)
  BY <1>2, <1>4, <1>6, <1>8, <1>10 DEF Nested
<1>16. QED BY <1>11, <1>14, <1>15

(***************************************************************************)
(* What every text of the grammar is like: which tokens stand next to each *)
(* other, and that its braces balance.                                     *)
(***************************************************************************)

Follows(kind, before, after) ==
    /\ kind = OpenKind => after = before + 1
    /\ kind = CloseKind => before = after + 1
    /\ kind \notin {OpenKind, CloseKind} => after = before

\* d[i]: how many blocks are open behind the i-th of the first n tokens of w.
Levels(w, n, d) ==
    /\ d[0] = 0
    /\ \A i \in 1 .. n : d[i] \in Nat /\ Follows(w[i], d[i - 1], d[i])

LEMMA SameLevels ==
    ASSUME NEW w, NEW n \in Nat, NEW d, NEW e, Levels(w, n, d), Levels(w, n, e)
    PROVE  d[n] \in Nat /\ d[n] = e[n]
<1> DEFINE S == {i \in Nat : i <= n => d[i] \in Nat /\ d[i] = e[i]}
<1>1. 0 \in S
  BY DEF Levels
<1>2. \A i \in S : i + 1 \in S
  <2> SUFFICES ASSUME NEW i \in S, i + 1 <= n
               PROVE  d[i + 1] \in Nat /\ d[i + 1] = e[i + 1]
    OBVIOUS
  <2>1. i + 1 \in 1 .. n /\ (i + 1) - 1 = i /\ d[i] \in Nat /\ d[i] = e[i]
    OBVIOUS
  <2>2. /\ d[i + 1] \in Nat /\ Follows(w[i + 1], d[i], d[i + 1])
        /\ e[i + 1] \in Nat /\ Follows(w[i + 1], e[i], e[i + 1])
    BY <2>1 DEF Levels
  <2>3. QED BY <2>1, <2>2 DEF Follows
<1>3. S = Nat
  <2>1. S \in SUBSET Nat
    OBVIOUS
  <2> HIDE DEF S
  <2>2. QED BY <1>1, <1>2, <2>1, NumberInduction
<1>4. QED BY <1>3

Balanced(w) == \E d : Levels(w, Len(w), d) /\ d[Len(w)] = 0

\* Which kinds stand next to each other.
Fits(a, b) ==
    /\ b \in {EndKind, OpenKind} => a = WordKind
    /\ b = CloseKind => a # WordKind

Begins(w) == Len(w) # 0 => w[1] = WordKind
Ends(w)   == Len(w) # 0 => w[Len(w)] \in {EndKind, CloseKind}
Fitting(w) == \A i \in 1 .. Len(w) - 1 : Fits(w[i], w[i + 1])

Good(w) == w \in Seq(Kind) /\ Begins(w) /\ Ends(w) /\ Fitting(w) /\ Balanced(w)

LEMMA NothingIsGood == Good(<< >>)
<1>1. PICK w : w = << >>
  OBVIOUS
<1>2. w \in Seq(Kind) /\ Len(w) = 0
  BY <1>1
<1>3. PICK d : d = [i \in {0} |-> 0]
  OBVIOUS
<1>4. Levels(w, Len(w), d) /\ d[Len(w)] = 0
  BY <1>2, <1>3 DEF Levels
<1>5. QED BY <1>1, <1>2, <1>4 DEF Good, Begins, Ends, Fitting, Balanced

LEMMA SimpleIsGood ==
    ASSUME NEW w \in Seq(Kind), NEW k \in Nat, k # 0, NEW rest, Good(rest),
           HasSimple(w, k, rest)
    PROVE  Good(w)
<1>1. PICK n \in Nat : n = Len(rest)
  BY DEF Good
<1>2. /\ Len(w) = k + 1 + n
      /\ \A i \in 1 .. k : w[i] = WordKind
      /\ w[k + 1] = EndKind
      /\ \A j \in 1 .. n : w[k + 1 + j] = rest[j]
  BY <1>1 DEF HasSimple
<1>3. /\ n # 0 => rest[1] = WordKind /\ rest[n] \in {EndKind, CloseKind}
      /\ \A i \in 1 .. n - 1 : Fits(rest[i], rest[i + 1])
  BY <1>1 DEF Good, Begins, Ends, Fitting
<1>4. Begins(w)
  BY <1>2 DEF Begins
<1>5. Ends(w)
  <2>1. CASE n = 0
    BY <1>2, <2>1 DEF Ends
  <2>2. CASE n # 0
    BY <1>2, <1>3, <2>2 DEF Ends
  <2>3. QED BY <2>1, <2>2
<1>6. Fitting(w)
  <2> SUFFICES ASSUME NEW i \in 1 .. k + n PROVE Fits(w[i], w[i + 1])
    BY <1>2 DEF Fitting
  <2>1. CASE i \in 1 .. k - 1
    <3>1. w[i + 1] = WordKind
      BY <1>2, <2>1
    <3>2. QED BY <3>1, KindsDiffer DEF Fits
  <2>2. CASE i = k
    BY <1>2, <2>2, KindsDiffer DEF Fits
  <2>3. CASE i = k + 1
    <3>1. w[i + 1] = WordKind
      BY <1>2, <1>3, <2>3
    <3>2. QED BY <3>1, KindsDiffer DEF Fits
  <2>4. CASE i > k + 1
    <3>1. PICK j \in 1 .. n - 1 : i = k + 1 + j
      BY <2>4
    <3>2. w[i] = rest[j] /\ w[i + 1] = rest[j + 1]
      BY <1>2, <3>1
    <3>3. QED BY <1>3, <3>2
  <2>5. QED BY <2>1, <2>2, <2>3, <2>4
<1>7. Balanced(w)
  <2>1. PICK d : Levels(rest, n, d) /\ d[n] = 0
    BY <1>1 DEF Good, Balanced
  <2>2. PICK e : e = [i \in 0 .. k + 1 + n |-> IF i <= k THEN 0 ELSE d[i - (k + 1)]]
    OBVIOUS
  <2>3. d[0] = 0 /\ \A i \in 1 .. n : d[i] \in Nat /\ Follows(rest[i], d[i - 1], d[i])
    BY <2>1 DEF Levels
  <2>4. /\ \A i \in 0 .. k : e[i] = 0
        /\ \A j \in 0 .. n : e[k + 1 + j] = d[j]
    BY <2>2
  <2>5. ASSUME NEW i \in 1 .. k + 1 + n
        PROVE  e[i] \in Nat /\ Follows(w[i], e[i - 1], e[i])
    <3>1. CASE i <= k
      BY <1>2, <2>4, <3>1, KindsDiffer DEF Follows
    <3>2. CASE i = k + 1
      BY <1>2, <2>3, <2>4, <3>2, KindsDiffer DEF Follows
    <3>3. CASE i > k + 1
      <4>1. PICK j \in 1 .. n : i = k + 1 + j
        BY <3>3
      <4>2. e[i] = d[j] /\ e[i - 1] = d[j - 1] /\ w[i] = rest[j]
        BY <1>2, <2>4, <4>1
      <4>3. QED BY <2>3, <4>2
    <3>4. QED BY <3>1, <3>2, <3>3
  <2>6. e[0] = 0 /\ e[k + 1 + n] = 0
    BY <2>1, <2>4
  <2>7. Levels(w, Len(w), e) /\ e[Len(w)] = 0
    BY <1>2, <2>5, <2>6 DEF Levels
  <2>8. QED BY <2>7 DEF Balanced
<1>8. QED BY <1>4, <1>5, <1>6, <1>7 DEF Good

LEMMA NestedIsGood ==
    ASSUME NEW w \in Seq(Kind), NEW k \in Nat, k # 0, NEW inner, Good(inner),
           NEW rest, Good(rest), HasNested(w, k, inner, rest)
    PROVE  Good(w)
<1>1. PICK n \in Nat, h \in Nat, l \in Nat :
        n = Len(rest) /\ h = Len(inner) /\ l = k + 1 + h
  BY DEF Good
<1>2. /\ Len(w) = l + 1 + n
      /\ \A i \in 1 .. k : w[i] = WordKind
      /\ w[k + 1] = OpenKind
      /\ \A j \in 1 .. h : w[k + 1 + j] = inner[j]
      /\ w[l + 1] = CloseKind
      /\ \A j \in 1 .. n : w[l + 1 + j] = rest[j]
  BY <1>1 DEF HasNested
<1>3. /\ n # 0 => rest[1] = WordKind /\ rest[n] \in {EndKind, CloseKind}
      /\ \A i \in 1 .. n - 1 : Fits(rest[i], rest[i + 1])
      /\ h # 0 => inner[1] = WordKind /\ inner[h] \in {EndKind, CloseKind}
      /\ \A i \in 1 .. h - 1 : Fits(inner[i], inner[i + 1])
  BY <1>1 DEF Good, Begins, Ends, Fitting
<1>4. Begins(w)
  BY <1>2 DEF Begins
<1>5. Ends(w)
  <2>1. CASE n = 0
    BY <1>2, <2>1 DEF Ends
  <2>2. CASE n # 0
    BY <1>2, <1>3, <2>2 DEF Ends
  <2>3. QED BY <2>1, <2>2
<1>6. Fitting(w)
  <2> SUFFICES ASSUME NEW i \in 1 .. l + n PROVE Fits(w[i], w[i + 1])
    BY <1>2 DEF Fitting
  <2>1. CASE i \in 1 .. k - 1
    <3>1. w[i + 1] = WordKind
      BY <1>2, <2>1
    <3>2. QED BY <3>1, KindsDiffer DEF Fits
  <2>2. CASE i = k
    BY <1>2, <2>2, KindsDiffer DEF Fits
  <2>3. CASE i = k + 1 /\ h = 0
    BY <1>1, <1>2, <2>3, KindsDiffer DEF Fits
  <2>4. CASE i = k + 1 /\ h # 0
    <3>1. w[i + 1] = WordKind
      BY <1>2, <1>3, <2>4
    <3>2. QED BY <3>1, KindsDiffer DEF Fits
  <2>5. CASE i > k + 1 /\ i < l
    <3>1. PICK j \in 1 .. h - 1 : i = k + 1 + j
      BY <1>1, <2>5
    <3>2. w[i] = inner[j] /\ w[i + 1] = inner[j + 1]
      <4>1. j \in 1 .. h /\ j + 1 \in 1 .. h /\ i + 1 = k + 1 + (j + 1)
        BY <3>1
      <4>2. QED BY <1>2, <3>1, <4>1
    <3>3. QED BY <1>3, <3>2
  <2>6. CASE i > k + 1 /\ i = l
    <3>1. h # 0 /\ w[i] = inner[h]
      BY <1>1, <1>2, <2>6
    <3>2. w[i] \in {EndKind, CloseKind} /\ w[i + 1] = CloseKind
      BY <1>2, <1>3, <2>6, <3>1
    <3>3. QED BY <3>2, KindsDiffer DEF Fits
  <2>7. CASE i = l + 1
    <3>1. w[i + 1] = WordKind
      BY <1>2, <1>3, <2>7
    <3>2. QED BY <3>1, KindsDiffer DEF Fits
  <2>8. CASE i > l + 1
    <3>1. PICK j \in 1 .. n - 1 : i = l + 1 + j
      BY <2>8
    <3>2. w[i] = rest[j] /\ w[i + 1] = rest[j + 1]
      BY <1>2, <3>1
    <3>3. QED BY <1>3, <3>2
  <2>9. i \in 1 .. k - 1 \/ i = k \/ i = k + 1 \/ i > k + 1
    OBVIOUS
  <2>10. i < l \/ i = l \/ i = l + 1 \/ i > l + 1
    OBVIOUS
  <2>11. QED
    BY <2>1, <2>2, <2>3, <2>4, <2>5, <2>6, <2>7, <2>8, <2>9, <2>10, Zenon
<1>7. Balanced(w)
  <2>1. PICK d : Levels(rest, n, d) /\ d[n] = 0
    BY <1>1 DEF Good, Balanced
  <2>2. PICK c : Levels(inner, h, c) /\ c[h] = 0
    BY <1>1 DEF Good, Balanced
  <2>3. PICK e : e = [i \in 0 .. l + 1 + n |->
                        IF i <= k THEN 0
                        ELSE IF i <= l THEN c[i - (k + 1)] + 1 ELSE d[i - (l + 1)]]
    OBVIOUS
  <2>4. /\ d[0] = 0 /\ \A i \in 1 .. n : d[i] \in Nat /\ Follows(rest[i], d[i - 1], d[i])
        /\ c[0] = 0 /\ \A i \in 1 .. h : c[i] \in Nat /\ Follows(inner[i], c[i - 1], c[i])
    BY <2>1, <2>2 DEF Levels
  <2>5. /\ \A i \in 0 .. k : e[i] = 0
        /\ \A j \in 0 .. h : e[k + 1 + j] = c[j] + 1
        /\ \A j \in 0 .. n : e[l + 1 + j] = d[j]
    <3>1. \A i \in 0 .. k : e[i] = 0
      BY <1>1, <2>3
    <3>2. \A j \in 0 .. h : e[k + 1 + j] = c[j] + 1
      BY <1>1, <2>3
    <3>3. \A j \in 0 .. n : e[l + 1 + j] = d[j]
      BY <1>1, <2>3
    <3>4. QED BY <3>1, <3>2, <3>3
  <2>6. ASSUME NEW i \in 1 .. l + 1 + n
        PROVE  e[i] \in Nat /\ Follows(w[i], e[i - 1], e[i])
    <3>1. CASE i <= k
      BY <1>2, <2>5, <3>1, KindsDiffer DEF Follows
    <3>2. CASE i = k + 1
      <4>1. e[i - 1] = 0 /\ e[i] = 1 /\ w[i] = OpenKind
        <5>1. e[k + 1 + 0] = c[0] + 1 /\ c[0] = 0
          BY <2>4, <2>5
        <5>2. k + 1 + 0 = i /\ i - 1 \in 0 .. k
          BY <3>2
        <5>3. e[i - 1] = 0
          BY <2>5, <5>2
        <5>4. e[i] = 1
          BY <5>1, <5>2
        <5>5. QED BY <1>2, <3>2, <5>3, <5>4
      <4>2. QED BY <4>1, KindsDiffer DEF Follows
    <3>3. CASE i > k + 1 /\ i <= l
      <4>1. PICK j \in 1 .. h : i = k + 1 + j
        BY <1>1, <3>3
      <4>2. e[i] = c[j] + 1 /\ e[i - 1] = c[j - 1] + 1 /\ w[i] = inner[j]
        BY <1>2, <2>5, <4>1
      <4>3. c[j] \in Nat /\ c[j - 1] \in Nat /\ Follows(inner[j], c[j - 1], c[j])
        BY <2>4
      <4>4. QED BY <4>2, <4>3 DEF Follows
    <3>4. CASE i = l + 1
      <4>1. e[i - 1] = 1 /\ e[i] = 0 /\ w[i] = CloseKind
        <5>1. e[l + 1 + 0] = d[0] /\ e[k + 1 + h] = c[h] + 1
          BY <2>5
        <5>2. QED BY <1>1, <1>2, <2>2, <2>4, <3>4, <5>1
      <4>2. QED BY <4>1, KindsDiffer DEF Follows
    <3>5. CASE i > l + 1
      <4>1. PICK j \in 1 .. n : i = l + 1 + j
        BY <3>5
      <4>2. e[i] = d[j] /\ e[i - 1] = d[j - 1] /\ w[i] = rest[j]
        BY <1>2, <2>5, <4>1
      <4>3. QED BY <2>4, <4>2
    <3>6. QED BY <3>1, <3>2, <3>3, <3>4, <3>5
  <2>7. e[0] = 0 /\ e[l + 1 + n] = 0
    BY <2>1, <2>5
  <2>8. Levels(w, Len(w), e) /\ e[Len(w)] = 0
    BY <1>2, <2>6, <2>7 DEF Levels
  <2>9. QED BY <2>8 DEF Balanced
<1>8. QED BY <1>4, <1>5, <1>6, <1>7 DEF Good

\* A text of the grammar is good, however deep its blocks.
LEMMA TextsAreGood ==
    ASSUME NEW n \in 0 .. MaxTokens, NEW w \in Texts[n]
    PROVE  Good(w) /\ Len(w) = n
<1> DEFINE AllGood(i) == \A v \in Texts[i] : Good(v) /\ Len(v) = i
           S == {j \in Nat : \A i \in 0 .. MaxTokens : i <= j => AllGood(i)}
<1>1. AllGood(0)
  BY NoText, NothingIsGood
<1>2. 0 \in S
  <2> HIDE DEF AllGood
  <2>1. QED BY <1>1
<1>3. ASSUME NEW j \in S
      PROVE  j + 1 \in S
  <2>1. SUFFICES ASSUME j + 1 \in 0 .. MaxTokens PROVE AllGood(j + 1)
    <3> HIDE DEF AllGood
    <3>1. \A i \in 0 .. MaxTokens : i <= j => AllGood(i)
      OBVIOUS
    <3>2. j \in Nat
      OBVIOUS
    <3>3. QED BY <2>1, <3>1, <3>2
  <2>2. SUFFICES ASSUME NEW v \in Texts[j + 1] PROVE Good(v) /\ Len(v) = j + 1
    OBVIOUS
  <2>3. j + 1 \in 1 .. MaxTokens
    BY <2>1
  <2>4. PICK k \in 1 .. (j + 1) - 1 : \E words \in Words(k) :
          \/ \E rest \in Texts[(j + 1) - k - 1] : v = Simple(words, rest)
          \/ \E i \in 0 .. j + 1 :
                /\ i + k + 2 <= j + 1
                /\ \E inner \in Texts[i], rest \in Texts[(j + 1) - k - 2 - i] :
                      v = Nested(words, inner, rest)
    BY <2>3, TextCases
  <2>5. PICK words \in Words(k) :
          \/ \E rest \in Texts[(j + 1) - k - 1] : v = Simple(words, rest)
          \/ \E i \in 0 .. j + 1 :
                /\ i + k + 2 <= j + 1
                /\ \E inner \in Texts[i], rest \in Texts[(j + 1) - k - 2 - i] :
                      v = Nested(words, inner, rest)
    BY <2>4
  <2>6. k \in Nat /\ k # 0 /\ j \in Nat
    OBVIOUS
  <2>7. \A i \in 0 .. MaxTokens : i <= j => AllGood(i)
    OBVIOUS
  <2>8. ASSUME NEW rest \in Texts[(j + 1) - k - 1], v = Simple(words, rest)
        PROVE  Good(v) /\ Len(v) = j + 1
    <3>1. (j + 1) - k - 1 \in 0 .. MaxTokens /\ (j + 1) - k - 1 <= j
      BY <2>3, <2>6, BoundAssumption
    <3>2. Good(rest) /\ Len(rest) = (j + 1) - k - 1
      BY <2>7, <3>1
    <3>3. v \in Seq(Kind) /\ HasSimple(v, k, rest)
      BY <2>6, <2>8, <3>2, SimpleIs DEF Good
    <3>4. Good(v)
      BY <2>6, <3>2, <3>3, SimpleIsGood
    <3>5. QED BY <2>6, <3>2, <3>3, <3>4 DEF HasSimple
  <2>9. ASSUME NEW i \in 0 .. j + 1, i + k + 2 <= j + 1, NEW inner \in Texts[i],
               NEW rest \in Texts[(j + 1) - k - 2 - i], v = Nested(words, inner, rest)
        PROVE  Good(v) /\ Len(v) = j + 1
    <3>1. /\ (j + 1) - k - 2 - i \in 0 .. MaxTokens /\ (j + 1) - k - 2 - i <= j
          /\ i \in 0 .. MaxTokens /\ i <= j
      BY <2>3, <2>6, <2>9, BoundAssumption
    <3>2. Good(rest) /\ Len(rest) = (j + 1) - k - 2 - i /\ Good(inner) /\ Len(inner) = i
      BY <2>7, <3>1
    <3>3. v \in Seq(Kind) /\ HasNested(v, k, inner, rest)
      BY <2>6, <2>9, <3>2, NestedIs DEF Good
    <3>4. Good(v)
      BY <2>6, <3>2, <3>3, NestedIsGood
    <3>5. QED BY <2>6, <3>2, <3>3, <3>4 DEF HasNested
  <2>10. QED BY <2>5, <2>8, <2>9
<1>4. S = Nat
  <2>1. S \in SUBSET Nat
    OBVIOUS
  <2> HIDE DEF S
  <2>2. QED BY <1>2, <1>3, <2>1, NumberInduction
<1>5. n \in S /\ n \in Nat
  <2> HIDE DEF S
  <2>1. n \in Nat
    OBVIOUS
  <2>2. QED BY <1>4, <2>1
<1>6. AllGood(n)
  <2> HIDE DEF AllGood
  <2>1. QED BY <1>5
<1>7. QED BY <1>6

(***************************************************************************)
(* The kinds of the tokens that are read.                                  *)
(***************************************************************************)

KindOf(token) == IF token \in {<<p>> : p \in Punct} THEN token[1] ELSE WordKind
KindsOf(text) == [i \in DOMAIN text |-> KindOf(text[i])]

LEMMA KindsAre == Kinds = KindsOf(read)
BY DEF Kinds, KindsOf, KindOf, WordKind

LEMMA PunctIs == Punct = {EndKind, OpenKind, CloseKind}
BY Zenon DEF Punct, EndKind, OpenKind, CloseKind

LEMMA KindOfToken == \A token : KindOf(token) \in Kind
<1> TAKE token
<1>1. CASE token \in {<<p>> : p \in Punct}
  <2>1. PICK p \in Punct : token = <<p>>
    BY <1>1
  <2>2. KindOf(token) = p
    BY <1>1, <2>1 DEF KindOf
  <2>3. QED BY <2>1, <2>2, PunctIs, Zenon DEF Kind
<1>2. CASE token \notin {<<p>> : p \in Punct}
  BY <1>2 DEF KindOf, Kind
<1>3. QED BY <1>1, <1>2

LEMMA KindOfPunct ==
    ASSUME NEW p \in Punct
    PROVE  KindOf(<<p>>) = p
BY DEF KindOf

LEMMA KindOfPunctuation ==
    /\ KindOf(Semicolon) = EndKind
    /\ KindOf(OpenBrace) = OpenKind
    /\ KindOf(CloseBrace) = CloseKind
<1>1. EndKind \in Punct /\ OpenKind \in Punct /\ CloseKind \in Punct
  BY PunctIs, Zenon
<1>2. Semicolon = <<EndKind>> /\ OpenBrace = <<OpenKind>> /\ CloseBrace = <<CloseKind>>
  BY Zenon DEF Semicolon, OpenBrace, CloseBrace, EndKind, OpenKind, CloseKind
<1>3. QED BY <1>1, <1>2, KindOfPunct

IsWord(token) == KindOf(token) = WordKind

\* A token that does not begin with a punctuation character is a word.
LEMMA WordIs ==
    ASSUME NEW token \in Seq(Chars), token # << >>, token[1] \notin Punct
    PROVE  IsWord(token)
<1>1. ASSUME NEW p \in Punct PROVE token # <<p>>
  BY <1>1
<1>2. QED BY <1>1 DEF IsWord, KindOf

LEMMA KindsOfText ==
    ASSUME NEW text \in Seq(Seq(Chars))
    PROVE  /\ KindsOf(text) \in Seq(Kind) /\ Len(KindsOf(text)) = Len(text)
           /\ Len(text) \in Nat
           /\ \A i \in 1 .. Len(text) : KindsOf(text)[i] = KindOf(text[i])
<1>1. PICK n \in Nat : n = Len(text)
  OBVIOUS
<1>2. DOMAIN text = 1 .. n
  BY <1>1
<1>3. PICK w : w = KindsOf(text)
  OBVIOUS
<1>4. w = [i \in 1 .. n |-> KindOf(text[i])]
  BY <1>2, <1>3 DEF KindsOf
<1>5. w \in [1 .. n -> Kind] /\ \A i \in 1 .. n : w[i] = KindOf(text[i])
  BY <1>4, KindOfToken
<1>6. w \in Seq(Kind)
  BY <1>5
<1>7. Len(w) = n
  <2>1. DOMAIN w = 1 .. n
    BY <1>4
  <2>2. QED BY <1>6, <2>1
<1>8. QED BY <1>1, <1>3, <1>5, <1>6, <1>7

LEMMA GrammarIsGood ==
    ASSUME NEW w \in Grammar
    PROVE  Good(w) /\ Len(w) # 0
<1>1. PICK n \in 1 .. MaxTokens : w \in Texts[n]
  BY DEF Grammar
<1>2. n \in 0 .. MaxTokens /\ n # 0
  BY BoundAssumption
<1>3. QED BY <1>1, <1>2, TextsAreGood

(***************************************************************************)
(* The text read so far: what its last token is, and how many blocks are   *)
(* open behind it.                                                         *)
(***************************************************************************)
Scanned(text, open) ==
    \E d : Levels(KindsOf(text), Len(text), d) /\ d[Len(text)] = open

LastOf(text) == IF Len(text) = 0 THEN "start" ELSE KindOf(text[Len(text)])

LEMMA NothingScanned == Scanned(<< >>, 0)
<1>1. PICK d : d = [i \in {0} |-> 0]
  OBVIOUS
<1>2. Len(<< >>) = 0
  OBVIOUS
<1>3. Levels(KindsOf(<< >>), Len(<< >>), d) /\ d[Len(<< >>)] = 0
  BY <1>1, <1>2 DEF Levels
<1>4. QED BY <1>3 DEF Scanned

LEMMA MoreScanned ==
    ASSUME NEW text \in Seq(Seq(Chars)), NEW x \in Seq(Chars), NEW open \in Nat,
           Scanned(text, open), NEW after \in Nat, Follows(KindOf(x), open, after)
    PROVE  Scanned(Append(text, x), after) /\ LastOf(Append(text, x)) = KindOf(x)
<1>1. PICK longer \in Seq(Seq(Chars)) : longer = Append(text, x) /\ IsAppend(longer, text, x)
  BY Appended
<1>2. PICK n \in Nat : n = Len(text)
  OBVIOUS
<1>3. Len(longer) = n + 1 /\ longer[n + 1] = x /\ \A i \in 1 .. n : longer[i] = text[i]
  BY <1>1, <1>2 DEF IsAppend
<1>4. PICK d : Levels(KindsOf(text), n, d) /\ d[n] = open
  BY <1>2 DEF Scanned
<1>5. PICK w, v : w = KindsOf(text) /\ v = KindsOf(longer)
  OBVIOUS
<1>6. (\A i \in 1 .. n : v[i] = w[i]) /\ v[n + 1] = KindOf(x)
  <2>1. \A i \in 1 .. n : w[i] = KindOf(text[i])
    BY <1>2, <1>5, KindsOfText
  <2>2. \A i \in 1 .. n + 1 : v[i] = KindOf(longer[i])
    BY <1>3, <1>5, KindsOfText
  <2>3. \A i \in 1 .. n : i \in 1 .. n + 1
    OBVIOUS
  <2>4. n + 1 \in 1 .. n + 1
    OBVIOUS
  <2>5. QED BY <1>3, <2>1, <2>2, <2>3, <2>4
<1>7. PICK e : e = [i \in 0 .. n + 1 |-> IF i <= n THEN d[i] ELSE after]
  OBVIOUS
<1>8. (\A i \in 0 .. n : e[i] = d[i]) /\ e[n + 1] = after
  BY <1>7
<1>9. d[0] = 0 /\ \A i \in 1 .. n : d[i] \in Nat /\ Follows(w[i], d[i - 1], d[i])
  BY <1>4, <1>5 DEF Levels
<1>10. ASSUME NEW i \in 1 .. n + 1
       PROVE  e[i] \in Nat /\ Follows(v[i], e[i - 1], e[i])
  <2>1. CASE i \in 1 .. n
    <3>1. e[i] = d[i] /\ e[i - 1] = d[i - 1] /\ v[i] = w[i]
      BY <1>6, <1>8, <2>1
    <3>2. QED BY <1>9, <2>1, <3>1
  <2>2. CASE i = n + 1
    <3>1. e[i] = after /\ e[i - 1] = open /\ v[i] = KindOf(x)
      BY <1>4, <1>6, <1>8, <2>2
    <3>2. QED BY <3>1
  <2>3. QED BY <2>1, <2>2
<1>11. e[0] = 0
  BY <1>8, <1>9
<1>12. Levels(v, n + 1, e)
  BY <1>10, <1>11 DEF Levels
<1>13. Scanned(longer, after)
  BY <1>3, <1>5, <1>8, <1>12 DEF Scanned
<1>14. LastOf(longer) = KindOf(x)
  BY <1>3 DEF LastOf
<1>15. QED BY <1>1, <1>13, <1>14

\* No text of the grammar goes on with a token that does not fit the last one,
\* begins with punctuation, or closes a block when none is open.
LEMMA Misfit ==
    ASSUME NEW text \in Seq(Seq(Chars)), NEW x \in Seq(Chars),
           \/ Len(text) = 0 /\ KindOf(x) # WordKind
           \/ Len(text) # 0 /\ ~Fits(KindOf(text[Len(text)]), KindOf(x))
           \/ Scanned(text, 0) /\ KindOf(x) = CloseKind
    PROVE  KindsOf(Append(text, x)) \notin Grammar
<1> SUFFICES ASSUME KindsOf(Append(text, x)) \in Grammar PROVE FALSE
  OBVIOUS
<1>1. PICK longer \in Seq(Seq(Chars)) : longer = Append(text, x) /\ IsAppend(longer, text, x)
  BY Appended
<1>2. PICK n \in Nat : n = Len(text)
  BY KindsOfText, Zenon
<1>3. Len(longer) = n + 1 /\ longer[n + 1] = x /\ \A i \in 1 .. n : longer[i] = text[i]
  BY <1>1, <1>2 DEF IsAppend
<1>5. PICK w, v : w = KindsOf(text) /\ v = KindsOf(longer)
  OBVIOUS
<1>6. /\ \A i \in 1 .. n : v[i] = w[i] /\ w[i] = KindOf(text[i])
      /\ v[n + 1] = KindOf(x) /\ Len(v) = n + 1
  <2>1. \A i \in 1 .. n : w[i] = KindOf(text[i])
    BY <1>2, <1>5, KindsOfText
  <2>2. Len(v) = n + 1 /\ \A i \in 1 .. n + 1 : v[i] = KindOf(longer[i])
    BY <1>3, <1>5, KindsOfText
  <2>3. \A i \in 1 .. n : i \in 1 .. n + 1
    OBVIOUS
  <2>4. n + 1 \in 1 .. n + 1
    OBVIOUS
  <2>5. QED BY <1>3, <2>1, <2>2, <2>3, <2>4
<1>7. Good(v)
  BY <1>1, <1>5, GrammarIsGood
<1>8. CASE n = 0 /\ KindOf(x) # WordKind
  BY <1>6, <1>7, <1>8 DEF Good, Begins
<1>9. CASE n # 0 /\ ~Fits(KindOf(text[n]), KindOf(x))
  <2>1. n \in 1 .. n /\ n \in 1 .. Len(v) - 1
    BY <1>6, <1>9
  <2>2. Fits(v[n], v[n + 1])
    BY <1>7, <2>1 DEF Good, Fitting
  <2>3. v[n] = KindOf(text[n]) /\ v[n + 1] = KindOf(x)
    BY <1>6, <2>1
  <2>4. QED BY <1>9, <2>2, <2>3
<1>10. CASE Scanned(text, 0) /\ KindOf(x) = CloseKind
  <2>1. PICK d : Levels(w, n, d) /\ d[n] = 0
    BY <1>2, <1>5, <1>10 DEF Scanned
  <2>2. PICK e : Levels(v, n + 1, e)
    BY <1>6, <1>7 DEF Good, Balanced
  <2>3. Levels(w, n, e)
    <3>1. e[0] = 0 /\ \A i \in 1 .. n + 1 : e[i] \in Nat /\ Follows(v[i], e[i - 1], e[i])
      BY <2>2 DEF Levels
    <3>2. \A i \in 1 .. n : i \in 1 .. n + 1 /\ v[i] = w[i]
      BY <1>6
    <3>3. QED BY <3>1, <3>2 DEF Levels
  <2>4. e[n] = 0
    BY <2>1, <2>3, SameLevels
  <2>5. n + 1 \in 1 .. n + 1 /\ (n + 1) - 1 = n
    OBVIOUS
  <2>6. e[n + 1] \in Nat /\ Follows(CloseKind, e[n], e[n + 1])
    BY <1>6, <1>10, <2>2, <2>5 DEF Levels
  <2>7. QED BY <2>4, <2>6 DEF Follows
<1>11. QED BY <1>2, <1>8, <1>9, <1>10

\* Nor does one end with a word or an opened block, or with a block open.
LEMMA Unfinished ==
    ASSUME NEW text \in Seq(Seq(Chars)), NEW open \in Nat, Scanned(text, open),
           LastOf(text) \notin {EndKind, CloseKind} \/ open # 0
    PROVE  KindsOf(text) \notin Grammar
<1> SUFFICES ASSUME KindsOf(text) \in Grammar PROVE FALSE
  OBVIOUS
<1>1. PICK w : w = KindsOf(text)
  OBVIOUS
<1>2. PICK n \in Nat : n = Len(text)
  BY KindsOfText, Zenon
<1>3. Len(w) = n /\ \A i \in 1 .. n : w[i] = KindOf(text[i])
  BY <1>1, <1>2, KindsOfText
<1>4. Good(w) /\ n # 0
  BY <1>1, <1>3, GrammarIsGood
<1>5. LastOf(text) = w[n] /\ w[n] \in {EndKind, CloseKind}
  <2>1. n \in 1 .. n
    BY <1>4
  <2>2. QED BY <1>2, <1>3, <1>4, <2>1 DEF Good, Ends, LastOf
<1>6. PICK d : Levels(w, n, d) /\ d[n] = open
  BY <1>1, <1>2 DEF Scanned
<1>7. PICK e : Levels(w, n, e) /\ e[n] = 0
  BY <1>3, <1>4 DEF Good, Balanced
<1>8. open = 0
  BY <1>6, <1>7, SameLevels
<1>9. QED BY <1>5, <1>8

(***************************************************************************)
(* A file whose statements have all ended is a text of the grammar.        *)
(***************************************************************************)

\* A statement has words, and they are not punctuation.
Worded(st) == Len(st.tokens) # 0 /\ \A j \in 1 .. Len(st.tokens) : IsWord(st.tokens[j])

WordsOK == \A k \in 1 .. Len(configs) : \A i \in 1 .. Len(configs[k]) : Worded(configs[k][i])

\* The tokens between two places are a text of the grammar.
IsText(text, a, b) == a <= b /\ Part(KindsOf(text), a, b) \in Texts[b - a]

LEMMA KindsAdjacent ==
    ASSUME NEW w \in Seq(Kind), NEW a \in Nat, NEW b \in Nat, NEW c \in Nat,
           a <= b, b <= c, c <= Len(w)
    PROVE  Joins(w, a, b, c)
<1>1. /\ a + 1 \in 1 .. Len(w) + 1 /\ b \in (a + 1) - 1 .. Len(w)
      /\ c \in b .. Len(w)
  OBVIOUS
<1>2. QED BY <1>1, ConcatAdjacentSubSeq DEF Joins, Part

LEMMA OneKind ==
    ASSUME NEW w \in Seq(Kind), NEW p \in Nat, p + 1 <= Len(w)
    PROVE  << w[p + 1] >> = Part(w, p, p + 1)
BY DEF Part

LEMMA WordsPart ==
    ASSUME NEW w \in Seq(Kind), NEW p \in Nat, NEW k \in Nat, p + k <= Len(w),
           \A j \in 1 .. k : w[p + j] = WordKind
    PROVE  Part(w, p, p + k) \in Words(k)
<1>1. PICK s : s = SubSeq(w, p + 1, p + k)
  OBVIOUS
<1>2. s = [i \in 1 .. k |-> w[p + i]]
  <2>1. s = [i \in 1 .. (p + k) - (p + 1) + 1 |-> w[i + (p + 1) - 1]]
    BY <1>1
  <2>2. (p + k) - (p + 1) + 1 = k /\ \A i \in 1 .. k : i + (p + 1) - 1 = p + i
    OBVIOUS
  <2>3. QED BY <2>1, <2>2
<1>3. s = [i \in 1 .. k |-> WordKind]
  BY <1>2
<1>4. s \in Words(k)
  BY <1>3 DEF Words, WordKind
<1>5. QED BY <1>1, <1>4 DEF Part

\* A statement that has ended, before a text, is a text.
LEMMA StatementIsText ==
    ASSUME NEW text \in Seq(Seq(Chars)), Len(text) <= MaxTokens,
           NEW st \in Statement, Worded(st), NEW m, NEW p \in Nat, NEW q \in Nat,
           NEW e \in Nat, e <= Len(text), Ended(text, st, p, q, m), IsText(text, q, e),
           st.child # 0 =>
              /\ m[st.child][1] \in Nat /\ Last(m[st.child]) \in Nat
              /\ IsText(text, m[st.child][1], Last(m[st.child]))
    PROVE  IsText(text, p, e)
<1>0. PICK w \in Seq(Kind), l \in Nat : w = KindsOf(text) /\ l = Len(w) /\ l = Len(text)
  BY KindsOfText, Zenon
<1>1. PICK k \in Nat : k = Len(st.tokens)
  BY DEF Statement
<1>2. PICK r \in Nat : r = p + k
  OBVIOUS
<1>3. \A i \in 1 .. l : w[i] = KindOf(text[i])
  BY <1>0, KindsOfText
<1>4. Written(text, st, p) /\ q <= l
  BY <1>0 DEF Ended, Opened
<1>5. r <= l /\ \A j \in 1 .. k : w[p + j] = WordKind
  <2>1. r <= l /\ \A j \in 1 .. k : text[p + j] = st.tokens[j]
    BY <1>0, <1>1, <1>2, <1>4 DEF Written
  <2>2. \A j \in 1 .. k : KindOf(st.tokens[j]) = WordKind
    BY <1>1 DEF Worded, IsWord
  <2>3. \A j \in 1 .. k : p + j \in 1 .. l
    BY <1>2, <2>1
  <2>4. QED BY <1>3, <2>1, <2>2, <2>3
<1>6. k # 0
  BY <1>1 DEF Worded
<1>7. PICK words \in Words(k) : words = Part(w, p, r)
  BY <1>0, <1>2, <1>5, WordsPart
<1>8. PICK rest \in Texts[e - q] : q <= e /\ rest = Part(w, q, e)
  BY <1>0 DEF IsText
<1>9. e <= l /\ l <= MaxTokens /\ MaxTokens \in Nat
  BY <1>0, BoundAssumption
<1>10. CASE st.child = 0
  <2>1. q = r + 1 /\ text[q] = Semicolon
    BY <1>1, <1>2, <1>10 DEF Ended, Opened
  <2>2. r + 1 <= l /\ p <= r /\ r <= q /\ r <= e /\ p <= e /\ r + 1 \in 1 .. l
    BY <1>2, <1>8, <1>9, <2>1
  <2>3. w[r + 1] = EndKind
    BY <1>3, <2>1, <2>2, KindOfPunctuation
  <2>4. << EndKind >> = Part(w, r, q)
    <3>1. << w[r + 1] >> = Part(w, r, r + 1)
      BY <1>0, <2>2, OneKind
    <3>2. QED BY <2>1, <2>3, <3>1, Zenon
  <2>5. Joins(w, p, r, q)
    BY <1>0, <1>4, <2>2, KindsAdjacent
  <2>6. Joins(w, p, q, e)
    <3>1. p <= q
      BY <2>1, <2>2
    <3>2. QED BY <1>0, <1>8, <1>9, <3>1, KindsAdjacent
  <2>7. Simple(words, rest) = Part(w, p, e)
    <3>1. words \o << EndKind >> = Part(w, p, q)
      BY <1>7, <2>4, <2>5, Zenon DEF Joins
    <3>2. words \o << EndKind >> \o rest = Part(w, p, e)
      BY <1>8, <2>6, <3>1, Zenon DEF Joins
    <3>3. QED BY <3>2, Zenon DEF Simple
  <2>8. PICK n \in Nat : n = e - p
    BY <2>2
  <2>9. n \in 1 .. MaxTokens /\ k \in 1 .. n - 1 /\ n - k - 1 = e - q
    BY <1>2, <1>6, <1>8, <1>9, <2>1, <2>8
  <2>10. Simple(words, rest) \in Texts[n]
    BY <1>8, <2>9, SimpleText
  <2>11. QED BY <1>0, <2>2, <2>7, <2>8, <2>10 DEF IsText
<1>11. CASE st.child # 0
  <2>1. PICK a \in Nat, b \in Nat : a = m[st.child][1] /\ b = Last(m[st.child])
    BY <1>11
  <2>2. /\ q = b + 1 /\ text[q] = CloseBrace /\ text[r + 1] = OpenBrace /\ r + 1 = a
    BY <1>1, <1>2, <1>11, <2>1 DEF Ended, Opened
  <2>3. PICK inner \in Texts[b - a] : a <= b /\ inner = Part(w, a, b)
    BY <1>0, <1>11, <2>1 DEF IsText
  <2>4. /\ r + 1 <= l /\ r + 1 \in 1 .. l /\ p <= r /\ r <= a /\ p <= a /\ a <= l
        /\ b <= q /\ p <= b /\ b <= l /\ p <= q /\ p <= e /\ b + 1 <= l /\ b + 1 \in 1 .. l
        /\ r + 1 = a
    BY <1>2, <1>4, <1>8, <1>9, <2>2, <2>3
  <2>5. w[r + 1] = OpenKind /\ w[b + 1] = CloseKind
    BY <1>3, <2>2, <2>4, KindOfPunctuation
  <2>6. << OpenKind >> = Part(w, r, a) /\ << CloseKind >> = Part(w, b, q)
    <3>1. << w[r + 1] >> = Part(w, r, r + 1) /\ << w[b + 1] >> = Part(w, b, b + 1)
      BY <1>0, <2>4, OneKind
    <3>2. QED BY <2>2, <2>5, <3>1, Zenon
  <2>7. Joins(w, p, r, a)
    BY <1>0, <2>4, KindsAdjacent
  <2>8. Joins(w, p, a, b)
    BY <1>0, <2>3, <2>4, KindsAdjacent
  <2>9. Joins(w, p, b, q)
    BY <1>0, <1>4, <2>4, KindsAdjacent
  <2>10. Joins(w, p, q, e)
    BY <1>0, <1>8, <1>9, <2>4, KindsAdjacent
  <2>11. Nested(words, inner, rest) = Part(w, p, e)
    <3>1. words \o << OpenKind >> = Part(w, p, a)
      BY <1>7, <2>6, <2>7, Zenon DEF Joins
    <3>2. words \o << OpenKind >> \o inner = Part(w, p, b)
      BY <2>3, <2>8, <3>1, Zenon DEF Joins
    <3>3. words \o << OpenKind >> \o inner \o << CloseKind >> = Part(w, p, q)
      BY <2>6, <2>9, <3>2, Zenon DEF Joins
    <3>4. words \o << OpenKind >> \o inner \o << CloseKind >> \o rest = Part(w, p, e)
      BY <1>8, <2>10, <3>3, Zenon DEF Joins
    <3>5. QED BY <3>4, Zenon DEF Nested
  <2>12. PICK n \in Nat, i \in Nat : n = e - p /\ i = b - a
    <3>1. a <= b /\ p <= e
      BY <2>3, <2>4, Zenon
    <3>2. e - p \in Nat /\ b - a \in Nat
      BY <3>1
    <3>3. QED BY <3>2
  <2>13. /\ n \in 1 .. MaxTokens /\ k \in 1 .. n - 1 /\ i \in 0 .. n
         /\ i + k + 2 <= n /\ n - k - 2 - i = e - q
    <3>1. /\ a <= b /\ q <= e /\ q = b + 1 /\ r + 1 = a /\ r = p + k /\ k # 0
          /\ e <= l /\ l <= MaxTokens /\ MaxTokens \in Nat
      BY <1>2, <1>6, <1>8, <1>9, <2>2, <2>3, Zenon
    <3>2. n = e - p /\ i = b - a
      BY <2>12, Zenon
    <3>3. QED BY <3>1, <3>2
  <2>14. Nested(words, inner, rest) \in Texts[n]
    BY <1>8, <2>3, <2>12, <2>13, NestedText
  <2>15. QED BY <1>0, <2>4, <2>11, <2>12, <2>14 DEF IsText
<1>12. QED BY <1>10, <1>11

LEMMA NothingIsText ==
    ASSUME NEW text \in Seq(Seq(Chars)), NEW e \in Nat, e <= Len(text)
    PROVE  IsText(text, e, e)
<1>1. PICK w : w = KindsOf(text)
  OBVIOUS
<1>2. SubSeq(w, e + 1, e) = << >>
  <2>1. w \in Seq(Kind)
    BY <1>1, KindsOfText
  <2>2. QED BY <2>1
<1>3. e - e = 0
  OBVIOUS
<1>4. << >> \in Texts[e - e]
  BY <1>3, NoText
<1>5. Part(KindsOf(text), e, e) \in Texts[e - e]
  BY <1>1, <1>2, <1>4, Zenon DEF Part
<1>6. QED BY <1>5 DEF IsText

\* With all statements ended, every configuration is a text, given those that were
\* made after it.
LEMMA BlockIsText ==
    ASSUME LexerOK, ParserOK, WordsOK, Len(read) <= MaxTokens, NEW m, Marks(m), Finished,
           NEW k \in 1 .. Len(configs),
           \A c \in k + 1 .. Len(configs) : IsText(read, m[c][1], Last(m[c]))
    PROVE  IsText(read, m[k][1], Last(m[k]))
<1>1. /\ read \in Seq(Seq(Chars)) /\ Len(read) \in Nat
      /\ configs[k] \in Seq(Statement) /\ Len(configs) \in Nat
  BY MarkFacts
<1>2. PICK n \in Nat, e \in Nat :
        n = Len(configs[k]) /\ Len(m[k]) = n + 1 /\ e = Last(m[k]) /\ e <= Len(read)
  <2>1. ~(Begun(k) \/ Holds(k))
    BY DEF Begun, Holds, Finished
  <2>2. QED BY <2>1, MarkFacts
<1>3. /\ m[k][n + 1] = e
      /\ \A i \in 1 .. n + 1 : m[k][i] \in Nat
  BY <1>2, MarkFacts DEF Last
<1>4. ASSUME NEW i \in 1 .. n, IsText(read, m[k][i + 1], e)
      PROVE  IsText(read, m[k][i], e)
  <2>1. PICK st \in Statement, p \in Nat, q \in Nat :
          st = configs[k][i] /\ p = m[k][i] /\ q = m[k][i + 1]
    <3>1. i \in 1 .. n + 1 /\ i + 1 \in 1 .. n + 1
      OBVIOUS
    <3>2. configs[k][i] \in Statement
      BY <1>1, <1>2
    <3>3. QED BY <1>3, <3>1, <3>2, Zenon
  <2>2. Worded(st)
    BY <1>2, <2>1 DEF WordsOK
  <2>3. i \in 1 .. Len(m[k]) - 1 /\ i \in 1 .. Len(configs[k])
    BY <1>2
  <2>4. Ended(read, st, p, q, m)
    BY <2>1, <2>3 DEF Marks, Marked
  <2>5. st.child \in {0} \cup (k + 1 .. Len(configs))
    BY <2>1, <2>3 DEF Marks, Marked
  <2>6. st.child # 0 =>
          /\ m[st.child][1] \in Nat /\ Last(m[st.child]) \in Nat
          /\ IsText(read, m[st.child][1], Last(m[st.child]))
    <3>1. st.child # 0 => st.child \in 1 .. Len(configs) /\ st.child \in k + 1 .. Len(configs)
      BY <1>1, <2>5
    <3>2. QED BY <3>1, MarkFacts
  <2>7. IsText(read, q, e)
    BY <1>4, <2>1
  <2>8. QED BY <1>1, <1>2, <2>1, <2>2, <2>4, <2>6, <2>7, StatementIsText
<1>5. IsText(read, m[k][n + 1], e)
  BY <1>1, <1>2, <1>3, NothingIsText
<1> DEFINE S == {j \in Nat : j <= n => IsText(read, m[k][(n + 1) - j], e)}
<1>6. 0 \in S
  <2>1. (n + 1) - 0 = n + 1
    OBVIOUS
  <2>2. QED BY <1>5, <2>1
<1>7. \A j \in S : j + 1 \in S
  <2> SUFFICES ASSUME NEW j \in S, j + 1 <= n
               PROVE  IsText(read, m[k][(n + 1) - (j + 1)], e)
    OBVIOUS
  <2>1. PICK i \in 1 .. n : i = (n + 1) - (j + 1) /\ i + 1 = (n + 1) - j
    OBVIOUS
  <2>2. j <= n
    OBVIOUS
  <2>3. IsText(read, m[k][i + 1], e)
    BY <2>1, <2>2
  <2>4. QED BY <1>4, <2>1, <2>3
<1>8. S = Nat
  <2>1. S \in SUBSET Nat
    OBVIOUS
  <2> HIDE DEF S
  <2>2. QED BY <1>6, <1>7, <2>1, NumberInduction
<1>9. IsText(read, m[k][1], e)
  <2>1. n \in S
    <3> HIDE DEF S
    <3>1. QED BY <1>8
  <2>2. (n + 1) - n = 1
    OBVIOUS
  <2>3. QED BY <2>1, <2>2
<1>10. QED BY <1>2, <1>9

LEMMA FileIsText ==
    ASSUME LexerOK, ParserOK, WordsOK, Len(read) <= MaxTokens, NEW m, Marks(m), Finished
    PROVE  KindsOf(read) \in Texts[Len(read)]
<1> DEFINE L == Len(configs)
           P(k) == IsText(read, m[k][1], Last(m[k]))
           S == {n \in Nat : \A k \in 1 .. L : L < k + n => P(k)}
<1>1. L \in Nat /\ 1 \in 1 .. L /\ Top = 1
  <2>1. stack[1] = 1
    BY DEF ParserOK, StackIsPath
  <2>2. QED BY <2>1, TopOK DEF Finished
<1>2. \A k \in 1 .. L : (\A c \in k + 1 .. L : P(c)) => P(k)
  BY BlockIsText
<1> HIDE DEF L, P
<1>3. 0 \in S
  BY <1>1
<1>4. \A n \in S : n + 1 \in S
  <2> TAKE n \in S
  <2>1. n \in Nat /\ n + 1 \in Nat
    OBVIOUS
  <2>2. ASSUME NEW k \in 1 .. L, L < k + (n + 1)
        PROVE  P(k)
    <3>1. \A c \in k + 1 .. L : P(c)
      <4> TAKE c \in k + 1 .. L
      <4>1. c \in 1 .. L /\ L < c + n
        BY <1>1, <2>1, <2>2
      <4>2. QED BY <4>1
    <3>2. QED BY <1>2, <3>1
  <2>3. QED BY <2>1, <2>2
<1>5. S = Nat
  <2> HIDE DEF S
  <2>1. S \in SUBSET Nat
    BY DEF S
  <2>2. QED BY <1>3, <1>4, <2>1, NumberInduction
<1>6. P(1)
  <2>1. L \in S /\ L < 1 + L
    <3> HIDE DEF S
    <3>1. QED BY <1>1, <1>5
  <2>2. QED BY <1>1, <2>1
<1>7. m[1][1] = 0 /\ Last(m[1]) = Len(read)
  BY <1>1 DEF Marks, AtTop, Finished
<1>8. PICK w \in Seq(Kind), n \in Nat : w = KindsOf(read) /\ n = Len(w) /\ n = Len(read)
  <2>1. read \in Seq(Seq(Chars))
    BY DEF LexerOK
  <2>2. QED BY <2>1, KindsOfText, Zenon
<1>9. Part(w, 0, n) \in Texts[n - 0]
  BY <1>6, <1>7, <1>8 DEF P, IsText
<1>10. Part(w, 0, n) = w /\ n - 0 = n
  <2>1. SubSeq(w, 1, n) = w
    BY <1>8, SubSeqFull
  <2>2. QED BY <2>1 DEF Part
<1>11. QED BY <1>8, <1>9, <1>10

(***************************************************************************)
(* The inductive invariant, beside IInv and TreeOK.                        *)
(***************************************************************************)
WordBegun == lex \in {"word"} \cup Quotes => value # << >> /\ value[1] \notin Punct
Refused   == result \in {"rejected", "unbalanced"} /\ lex \notin Quotes \cup {"word"}

GrammarOK ==
    /\ Len(read) <= MaxTokens
    /\ WordBegun
    /\ WordsOK
    /\ Going => last = LastOf(read) /\ Scanned(read, depth)
    /\ result = "accepted" => last \in {EndKind, CloseKind}
    /\ Refused => KindsOf(read) \notin Grammar

LEMMA WordsChanged ==
    ASSUME ParserOK, WordsOK, NEW new \in Seq(Statement),
           configs' = [configs EXCEPT ![Top] = new],
           \A i \in 1 .. Len(new) : Worded(new[i])
    PROVE  WordsOK'
<1>1. /\ Len(configs) \in Nat /\ DOMAIN configs = 1 .. Len(configs)
      /\ Top \in 1 .. Len(configs)
  BY TopOK
<1>2. /\ Len(configs') = Len(configs) /\ configs'[Top] = new
      /\ \A k \in 1 .. Len(configs) : k # Top => configs'[k] = configs[k]
  <2>1. configs \in Seq(Config)
    BY DEF ParserOK, ParserType
  <2>2. QED BY <1>1, <2>1
<1>3. ASSUME NEW k \in 1 .. Len(configs), NEW i \in 1 .. Len(configs'[k])
      PROVE  Worded(configs'[k][i])
  <2>1. CASE k = Top
    BY <1>2, <2>1
  <2>2. CASE k # Top
    <3>1. configs'[k] = configs[k]
      BY <1>2, <2>2
    <3>2. QED BY <3>1 DEF WordsOK
  <2>3. QED BY <2>1, <2>2
<1>4. QED BY <1>2, <1>3 DEF WordsOK

LEMMA WordsAdded ==
    ASSUME ParserOK, WordsOK, NEW word \in Seq(Chars), IsWord(word), AddWord(word)
    PROVE  WordsOK'
<1> DEFINE block == configs[Top]
           n == Len(block)
<1>1. /\ Top \in 1 .. Len(configs) /\ block \in Seq(Statement) /\ n \in Nat
  BY TopOK
<1>2. \A i \in 1 .. n : Worded(block[i])
  BY <1>1 DEF WordsOK
<1>3. CASE last # "word"
  <2> DEFINE s == [tokens |-> << word >>, child |-> 0]
             new == Append(block, s)
  <2>1. s \in Statement /\ s.tokens = << word >>
    BY DEF Statement
  <2>2. Len(s.tokens) = 1 /\ s.tokens[1] = word
    BY <2>1
  <2>3. Worded(s)
    BY <2>2 DEF Worded
  <2>4. configs' = [configs EXCEPT ![Top] = new]
    BY <1>3 DEF AddWord
  <2> HIDE DEF s
  <2>5. /\ new \in Seq(Statement) /\ Len(new) = n + 1 /\ new[n + 1] = s
        /\ \A i \in 1 .. n : new[i] = block[i]
    <3>1. PICK b \in Seq(Statement) : b = block
      BY <1>1
    <3>2. Append(b, s) \in Seq(Statement) /\ IsAppend(Append(b, s), b, s)
      BY <2>1, Appended
    <3>3. QED BY <3>1, <3>2 DEF IsAppend
  <2> HIDE DEF new
  <2>6. \A i \in 1 .. Len(new) : Worded(new[i])
    BY <1>1, <1>2, <2>3, <2>5
  <2>7. QED BY <2>4, <2>5, <2>6, WordsChanged
<1>4. CASE last = "word"
  <2> DEFINE longer == [block[n] EXCEPT !.tokens = Append(block[n].tokens, word)]
             new == [block EXCEPT ![n] = longer]
  <2>1. n \in 1 .. n /\ block[n] \in Statement
    <3>1. block # << >>
      BY <1>4 DEF ParserOK, StackIsPath
    <3>2. QED BY <1>1, <3>1
  <2>2. configs' = [configs EXCEPT ![Top] = new]
    BY <1>4 DEF AddWord
  <2>3. PICK t \in Seq(Seq(Chars)) : t = block[n].tokens
    BY <2>1 DEF Statement
  <2>4. longer \in Statement /\ longer.tokens = Append(t, word)
    <3>1. Append(t, word) \in Seq(Seq(Chars))
      OBVIOUS
    <3>2. longer \in Statement
      BY <2>1, <2>3, <3>1 DEF Statement
    <3>3. QED BY <2>1, <2>3, <3>2 DEF Statement
  <2>5. Worded(longer)
    <3>1. PICK c \in Nat : c = Len(t)
      OBVIOUS
    <3>2. PICK u : u = Append(t, word)
      OBVIOUS
    <3>3. Len(u) = c + 1 /\ u[c + 1] = word /\ \A j \in 1 .. c : u[j] = t[j]
      BY <3>1, <3>2, Appended DEF IsAppend
    <3>4. \A j \in 1 .. c : IsWord(t[j])
      BY <1>2, <2>1, <2>3, <3>1 DEF Worded
    <3>5. Len(u) # 0 /\ \A j \in 1 .. Len(u) : IsWord(u[j])
      BY <3>3, <3>4
    <3>6. QED BY <2>4, <3>2, <3>5 DEF Worded
  <2> HIDE DEF longer
  <2>6. /\ new \in Seq(Statement) /\ Len(new) = n /\ new[n] = longer
        /\ \A i \in 1 .. n - 1 : new[i] = block[i]
    BY <1>1, <2>1, <2>4
  <2> HIDE DEF new
  <2>7. \A i \in 1 .. Len(new) : Worded(new[i])
    <3>1. \A i \in 1 .. n - 1 : i \in 1 .. n
      BY <1>1
    <3>2. \A i \in 1 .. n - 1 : Worded(new[i])
      BY <1>2, <2>6, <3>1
    <3>3. \A i \in 1 .. n : i = n \/ i \in 1 .. n - 1
      BY <1>1
    <3>4. Len(new) = n /\ Worded(new[n])
      BY <2>5, <2>6
    <3> HIDE DEF n, block
    <3>5. QED BY <3>2, <3>3, <3>4
  <2>8. QED BY <2>2, <2>6, <2>7, WordsChanged
<1>5. QED BY <1>3, <1>4

LEMMA WordsLinked ==
    ASSUME ParserOK, WordsOK, OpenBlock, last = "word"
    PROVE  WordsOK'
<1>1. PICK child \in Nat, n \in Nat, block \in Seq(Statement) :
        child = Len(configs) + 1 /\ block = configs[Top] /\ n = Len(block)
  <2>1. Len(configs) \in Nat /\ configs[Top] \in Seq(Statement)
    BY TopOK
  <2>2. QED BY <2>1
<1>2. /\ Len(configs') = child /\ configs'[child] = << >>
      /\ \A k \in 1 .. Len(configs) : k # Top => configs'[k] = configs[k]
      /\ n # 0 /\ configs'[Top] \in Seq(Statement) /\ Len(configs'[Top]) = n
      /\ \A i \in 1 .. n - 1 : configs'[Top][i] = block[i]
      /\ Last(configs'[Top]).tokens = Last(block).tokens
  BY <1>1, BlockOpened
<1>3. Top \in 1 .. Len(configs)
  BY TopOK
<1>4. \A i \in 1 .. n : Worded(block[i])
  BY <1>1, <1>3 DEF WordsOK
<1>5. \A i \in 1 .. n : Worded(configs'[Top][i])
  <2>1. configs'[Top][n].tokens = block[n].tokens
    BY <1>1, <1>2 DEF Last
  <2>2. Worded(block[n])
    BY <1>1, <1>2, <1>4
  <2>3. Worded(configs'[Top][n])
    BY <2>1, <2>2 DEF Worded
  <2>4. \A i \in 1 .. n - 1 : i \in 1 .. n
    BY <1>1
  <2>5. \A i \in 1 .. n - 1 : Worded(configs'[Top][i])
    BY <1>2, <1>4, <2>4
  <2>6. QED BY <1>1, <2>3, <2>5
<1>6. ASSUME NEW k \in 1 .. child, NEW i \in 1 .. Len(configs'[k])
      PROVE  Worded(configs'[k][i])
  <2>1. CASE k = child
    <3>1. Len(configs'[k]) = 0
      BY <1>2, <2>1
    <3>2. QED BY <3>1
  <2>2. CASE k = Top
    BY <1>2, <1>5, <2>2
  <2>3. CASE k # child /\ k # Top
    <3>1. k \in 1 .. Len(configs) /\ configs'[k] = configs[k]
      BY <1>1, <1>2, <2>3, TopOK
    <3>2. QED BY <3>1 DEF WordsOK
  <2>4. QED BY <2>1, <2>2, <2>3
<1>7. QED BY <1>2, <1>6 DEF WordsOK

LEMMA InitGrammar == Init => GrammarOK
<1> SUFFICES ASSUME Init PROVE GrammarOK
  OBVIOUS
<1>1. /\ Len(read) = 0 /\ read = << >> /\ last = "start" /\ depth = 0 /\ lex = "space"
      /\ result = "parsing" /\ Len(configs) = 1 /\ Len(configs[1]) = 0
  BY DEF Init
<1>2. Len(read) <= MaxTokens
  BY <1>1, BoundAssumption
<1>3. WordBegun
  BY <1>1 DEF WordBegun, Quotes
<1>4. WordsOK
  <2>1. \A k \in 1 .. Len(configs) : k = 1
    BY <1>1
  <2>2. 1 .. Len(configs[1]) = {}
    BY <1>1
  <2>3. QED BY <2>1, <2>2 DEF WordsOK
<1>5. last = LastOf(read) /\ Scanned(read, depth)
  BY <1>1, NothingScanned DEF LastOf
<1>6. ~Refused /\ result # "accepted"
  BY <1>1 DEF Refused
<1>7. QED BY <1>2, <1>3, <1>4, <1>5, <1>6 DEF GrammarOK

\* Reading on within a word or between two.
LEMMA GrammarKept ==
    ASSUME GrammarOK, result = "parsing", UNCHANGED <<parser, result>>, WordBegun'
    PROVE  GrammarOK'
<1>1. UNCHANGED <<last, configs, depth, read, result>>
  BY DEF parser
<1>2. WordsOK' /\ (Going => Going)'
  BY <1>1 DEF GrammarOK, WordsOK
<1>3. ~Refused' /\ result' # "accepted" /\ Going
  BY <1>1 DEF Refused, Going
<1>4. last = LastOf(read) /\ Scanned(read, depth) /\ Len(read) <= MaxTokens
  BY <1>3 DEF GrammarOK
<1>5. last' = LastOf(read') /\ Scanned(read', depth') /\ Len(read') <= MaxTokens
  BY <1>1, <1>4
<1>6. QED BY <1>2, <1>3, <1>5 DEF GrammarOK

LEMMA GrammarWord ==
    ASSUME IInv, GrammarOK, result = "parsing", Len(read) < MaxTokens,
           NEW word \in Seq(Chars), IsWord(word), EmitWord(word)
    PROVE  GrammarOK'
<1>1. /\ AddWord(word) /\ read' = Append(read, word) /\ lex' = "space"
      /\ last' = "word" /\ depth' = depth /\ result' = "parsing"
  BY DEF EmitWord, AddWord
<1>2. read \in Seq(Seq(Chars)) /\ depth \in Nat /\ ParserOK
  BY TopOK DEF IInv, LexerOK
<1>3. Scanned(read, depth)
  BY DEF GrammarOK, Going
<1>4. Follows(KindOf(word), depth, depth)
  BY <1>2, KindsDiffer DEF IsWord, Follows
<1>5. Scanned(read', depth') /\ LastOf(read') = WordKind
  BY <1>1, <1>2, <1>3, <1>4, MoreScanned DEF IsWord
<1>6. Len(read') <= MaxTokens
  <2>1. Len(read') = Len(read) + 1 /\ Len(read) \in Nat
    BY <1>1, <1>2, Appended DEF IsAppend
  <2>2. QED BY <2>1, BoundAssumption
<1>7. WordBegun' /\ ~Refused' /\ result' # "accepted"
  BY <1>1 DEF WordBegun, Refused, Quotes
<1>8. WordsOK'
  BY <1>1, <1>2, WordsAdded DEF GrammarOK
<1>9. QED BY <1>1, <1>5, <1>6, <1>7, <1>8 DEF GrammarOK, WordKind

\* The tokens that a word, a semicolon or a brace cannot follow.
LEMMA LastFits ==
    ASSUME IInv, GrammarOK, result = "parsing", NEW x \in Seq(Chars),
           \/ KindOf(x) \in {EndKind, OpenKind} /\ last # "word"
           \/ KindOf(x) = CloseKind /\ last \notin {"{", "}", ";"}
           \/ KindOf(x) = CloseKind /\ depth = 0
    PROVE  KindsOf(Append(read, x)) \notin Grammar
<1>1. /\ read \in Seq(Seq(Chars)) /\ Scanned(read, depth) /\ last = LastOf(read)
  BY DEF IInv, LexerOK, GrammarOK, Going
<1>2. CASE KindOf(x) = CloseKind /\ depth = 0
  BY <1>1, <1>2, Misfit
<1>3. CASE /\ KindOf(x) \in {EndKind, OpenKind, CloseKind}
           /\ Len(read) = 0
  <2>1. KindOf(x) # WordKind
    BY <1>3, KindsDiffer
  <2>2. QED BY <1>1, <1>3, <2>1, Misfit
<1>4. CASE KindOf(x) \in {EndKind, OpenKind} /\ last # "word" /\ Len(read) # 0
  <2>1. KindOf(read[Len(read)]) # WordKind
    BY <1>1, <1>4 DEF LastOf, WordKind
  <2>2. ~Fits(KindOf(read[Len(read)]), KindOf(x))
    BY <1>4, <2>1 DEF Fits
  <2>3. QED BY <1>1, <1>4, <2>2, Misfit
<1>5. CASE KindOf(x) = CloseKind /\ last \notin {"{", "}", ";"} /\ Len(read) # 0
  <2>1. PICK kind \in Kind : kind = KindOf(read[Len(read)])
    BY KindOfToken, Zenon
  <2>2. last = kind
    BY <1>1, <1>5, <2>1 DEF LastOf
  <2>3. last \notin {OpenKind, CloseKind, EndKind}
    BY <1>5, Zenon DEF OpenKind, CloseKind, EndKind
  <2>4. kind = WordKind
    BY <2>2, <2>3, Zenon DEF Kind
  <2>5. ~Fits(kind, KindOf(x))
    BY <1>5, <2>4 DEF Fits
  <2>6. QED BY <1>1, <1>5, <2>1, <2>5, Misfit
<1>6. QED BY <1>2, <1>3, <1>4, <1>5

LEMMA GrammarPunctuation ==
    ASSUME IInv, GrammarOK, NEW c \in Chars, Punctuation(c)
    PROVE  GrammarOK'
<1>0. /\ result = "parsing" /\ Len(read) < MaxTokens /\ lex = "space"
      /\ read' = Append(read, <<c>>) /\ UNCHANGED <<lex, value>>
  BY DEF Punctuation, Get
<1>1. PICK x \in Seq(Chars) : x = <<c>>
  <2>1. <<c>> \in Seq(Chars)
    OBVIOUS
  <2>2. QED BY <2>1, Zenon
<1>2. read \in Seq(Seq(Chars)) /\ depth \in Nat /\ ParserOK /\ read' = Append(read, x)
  BY <1>0, <1>1, TopOK DEF IInv, LexerOK
<1>3. Scanned(read, depth) /\ last = LastOf(read) /\ WordsOK
  BY <1>0 DEF GrammarOK, Going
<1>4. Len(read') <= MaxTokens
  <2>1. Len(read') = Len(read) + 1 /\ Len(read) \in Nat
    BY <1>2, Appended DEF IsAppend
  <2>2. QED BY <1>0, <2>1, BoundAssumption
<1>5. WordBegun'
  BY <1>0 DEF WordBegun, Quotes
<1>6. ASSUME UNCHANGED configs, result' \in {"rejected", "unbalanced"},
             KindsOf(Append(read, x)) \notin Grammar
      PROVE  GrammarOK'
  <2>1. ~Going' /\ result' # "accepted"
    BY <1>6 DEF Going
  <2>2. WordsOK'
    BY <1>3, <1>6 DEF WordsOK
  <2>3. KindsOf(read') \notin Grammar
    BY <1>2, <1>6
  <2>4. QED BY <1>4, <1>5, <2>1, <2>2, <2>3 DEF GrammarOK
<1>7. ASSUME WordsOK', result' = "parsing", depth' \in Nat, last' = KindOf(x),
             Follows(KindOf(x), depth, depth')
      PROVE  GrammarOK'
  <2>1. PICK after \in Nat : after = depth'
    BY <1>7
  <2>2. Scanned(Append(read, x), after) /\ LastOf(Append(read, x)) = KindOf(x)
    BY <1>2, <1>3, <1>7, <2>1, MoreScanned
  <2>3. Scanned(read', depth') /\ last' = LastOf(read')
    BY <1>2, <1>7, <2>1, <2>2
  <2>4. ~Refused' /\ result' # "accepted"
    BY <1>7 DEF Refused
  <2>5. QED BY <1>4, <1>5, <1>7, <2>3, <2>4 DEF GrammarOK
<1>8. CASE c = "{" /\ OpenBlock
  <2>1. KindOf(x) = OpenKind
    <3>1. x = OpenBrace
      BY <1>1, <1>8, Zenon DEF OpenBrace
    <3>2. QED BY <3>1, KindOfPunctuation
  <2>2. CASE last = "word"
    <3>1. WordsOK' /\ depth' = depth + 1 /\ UNCHANGED result
      BY <1>2, <1>3, <1>8, <2>2, WordsLinked, BlockOpened
    <3>2. last' = OpenKind
      BY <1>8, <2>2, Zenon DEF OpenBlock, OpenKind
    <3>3. Follows(KindOf(x), depth, depth')
      BY <2>1, <3>1, KindsDiffer DEF Follows
    <3>4. QED BY <1>0, <1>2, <1>7, <2>1, <3>1, <3>2, <3>3
  <2>3. CASE last # "word"
    <3>1. result' = "rejected" /\ UNCHANGED configs
      BY <1>8, <2>3 DEF OpenBlock, Reject
    <3>2. KindsOf(Append(read, x)) \notin Grammar
      BY <1>0, <2>1, <2>3, LastFits
    <3>3. QED BY <1>6, <3>1, <3>2
  <2>4. QED BY <2>2, <2>3
<1>9. CASE c = "}" /\ CloseBlock
  <2>1. KindOf(x) = CloseKind
    <3>1. x = CloseBrace
      BY <1>1, <1>9, Zenon DEF CloseBrace
    <3>2. QED BY <3>1, KindOfPunctuation
  <2>2. CASE last \in {"{", "}", ";"} /\ depth > 0
    <3>0. depth > 0 /\ depth # 0
      <4>1. depth > 0
        BY <2>2, Zenon
      <4>2. QED BY <1>2, <4>1
    <3>1. UNCHANGED <<configs, result>> /\ depth' = depth - 1 /\ last' = "}"
      BY <1>9, <2>2, <3>0, Zenon DEF CloseBlock
    <3>2. last' = CloseKind
      BY <3>1, Zenon DEF CloseKind
    <3>3. depth' \in Nat /\ depth = depth' + 1
      <4>1. depth' = depth - 1
        BY <3>1, Zenon
      <4>2. QED BY <1>2, <3>0, <4>1
    <3>4. Follows(KindOf(x), depth, depth')
      BY <2>1, <3>3, KindsDiffer DEF Follows
    <3>5. WordsOK'
      BY <1>3, <3>1 DEF WordsOK
    <3>6. QED BY <1>0, <1>7, <2>1, <3>1, <3>2, <3>3, <3>4, <3>5
  <2>3. CASE last \notin {"{", "}", ";"} \/ depth = 0
    <3>0. depth = 0 => ~(depth > 0)
      BY <1>2
    <3>1. result' \in {"rejected", "unbalanced"} /\ UNCHANGED configs
      BY <1>9, <2>3, <3>0, Zenon DEF CloseBlock, Reject
    <3>2. KindsOf(Append(read, x)) \notin Grammar
      BY <1>0, <2>1, <2>3, LastFits, Zenon
    <3>3. QED BY <1>6, <3>1, <3>2
  <2>4. depth > 0 \/ depth = 0
    BY <1>2
  <2>5. QED BY <2>2, <2>3, <2>4, Zenon
<1>10. CASE c = ";" /\ EndStatement
  <2>1. KindOf(x) = EndKind
    <3>1. x = Semicolon
      BY <1>1, <1>10, Zenon DEF Semicolon
    <3>2. QED BY <3>1, KindOfPunctuation
  <2>2. CASE last = "word"
    <3>1. UNCHANGED <<configs, result, depth>>
      BY <1>10, <2>2 DEF EndStatement
    <3>2. last' = EndKind
      BY <1>10, <2>2, Zenon DEF EndStatement, EndKind
    <3>3. Follows(KindOf(x), depth, depth')
      BY <2>1, <3>1, KindsDiffer DEF Follows
    <3>4. WordsOK' /\ depth' \in Nat
      BY <1>2, <1>3, <3>1 DEF WordsOK
    <3>5. QED BY <1>0, <1>7, <2>1, <3>1, <3>2, <3>3, <3>4
  <2>3. CASE last # "word"
    <3>1. result' = "rejected" /\ UNCHANGED configs
      BY <1>10, <2>3 DEF EndStatement, Reject
    <3>2. KindsOf(Append(read, x)) \notin Grammar
      BY <1>0, <2>1, <2>3, LastFits
    <3>3. QED BY <1>6, <3>1, <3>2
  <2>4. QED BY <2>2, <2>3
<1>11. QED BY <1>8, <1>9, <1>10, Zenon DEF Punctuation

LEMMA GrammarEof ==
    ASSUME IInv, GrammarOK, Eof
    PROVE  GrammarOK'
<1>1. /\ UNCHANGED <<last, configs, depth, read, lex, value>> /\ result = "parsing"
  BY DEF Eof, EndOfFile, Reject, lexer
<1>2. /\ read \in Seq(Seq(Chars)) /\ depth \in Nat
      /\ Scanned(read, depth) /\ last = LastOf(read) /\ WordsOK /\ WordBegun
      /\ Len(read) <= MaxTokens
  BY <1>1, TopOK DEF IInv, LexerOK, GrammarOK, Going
<1>3. /\ WordsOK' /\ WordBegun' /\ Len(read') <= MaxTokens
      /\ last' = LastOf(read') /\ Scanned(read', depth')
  <2>1. WordsOK' /\ WordBegun'
    BY <1>1, <1>2 DEF WordsOK, WordBegun
  <2>2. QED BY <1>1, <1>2, <2>1
<1>4. CASE lex \in Quotes
  <2>1. ~Refused' /\ result' = "rejected"
    BY <1>1, <1>4 DEF Eof, Reject, Refused
  <2>2. QED BY <1>3, <2>1 DEF GrammarOK
<1>5. CASE lex \notin Quotes
  <2>1. result' = IF last \notin {";", "}"} THEN "rejected"
                  ELSE IF depth # 0 THEN "unbalanced" ELSE "accepted"
    BY <1>5 DEF Eof, EndOfFile
  <2>2. last \in {";", "}"} <=> last \in {EndKind, CloseKind}
    BY Zenon DEF EndKind, CloseKind
  <2>3. CASE last \in {";", "}"} /\ depth = 0
    <3>1. result' = "accepted" /\ ~Refused'
      BY <2>1, <2>3 DEF Refused
    <3>2. QED BY <1>1, <1>3, <2>2, <2>3, <3>1 DEF GrammarOK
  <2>4. CASE ~(last \in {";", "}"} /\ depth = 0)
    <3>1. result' # "accepted"
      BY <2>1, <2>4
    <3>2. KindsOf(read') \notin Grammar
      <4>1. LastOf(read) \notin {EndKind, CloseKind} \/ depth # 0
        BY <1>2, <2>2, <2>4, Zenon
      <4>2. QED BY <1>1, <1>2, <4>1, Unfinished
    <3>3. QED BY <1>3, <3>1, <3>2 DEF GrammarOK
  <2>5. QED BY <2>3, <2>4
<1>6. QED BY <1>4, <1>5

LEMMA GrammarStep == IInv /\ GrammarOK /\ [Next]_vars => GrammarOK'
<1> SUFFICES ASSUME IInv, GrammarOK, [Next]_vars PROVE GrammarOK'
  OBVIOUS
<1>0. LexerOK /\ WordBegun
  BY DEF IInv, GrammarOK
<1>1. ASSUME NEW c \in Chars, Skip(c) \/ Comment(c)
      PROVE  GrammarOK'
  <2>1. WordBegun'
    BY <1>1 DEF Skip, Comment, WordBegun, Quotes
  <2>2. QED BY <1>1, <2>1, GrammarKept DEF Skip, Comment, Get
<1>2. ASSUME NEW c \in Chars, Begin(c)
      PROVE  GrammarOK'
  <2>1. c \notin Punct /\ (lex' \in {"word"} \cup Quotes => value' = << c >>)
    BY <1>2 DEF Begin, Quotes
  <2>2. << c >> # << >> /\ << c >>[1] = c
    OBVIOUS
  <2>3. WordBegun'
    BY <2>1, <2>2 DEF WordBegun
  <2>4. QED BY <1>2, <2>3, GrammarKept DEF Begin, Get
<1>3. ASSUME NEW c \in Chars, lex \in {"word"} \cup Quotes
      PROVE  /\ Append(value, c) \in Seq(Chars) /\ Append(value, c) # << >>
             /\ Append(value, c)[1] \notin Punct
  <2>1. value \in Seq(Chars) /\ value # << >> /\ value[1] \notin Punct
    BY <1>0, <1>3 DEF LexerOK, WordBegun
  <2>2. QED BY <2>1
<1>4. ASSUME NEW c \in Chars, Quoted(c)
      PROVE  GrammarOK'
  <2>1. /\ lex \in {"word"} \cup Quotes /\ result = "parsing" /\ Len(read) < MaxTokens
    BY <1>4 DEF Quoted, Get
  <2>2. PICK word \in Seq(Chars) : word = Append(value, c) /\ word # << >> /\ word[1] \notin Punct
    BY <1>3, <2>1
  <2>3. CASE EmitWord(word)
    BY <2>1, <2>2, <2>3, WordIs, GrammarWord
  <2>4. CASE value' = word /\ UNCHANGED <<lex, parser, result>>
    <3>1. WordBegun'
      BY <2>2, <2>4 DEF WordBegun
    <3>2. QED BY <2>1, <2>4, <3>1, GrammarKept
  <2>5. QED BY <1>4, <2>2, <2>3, <2>4 DEF Quoted
<1>5. ASSUME NEW c \in Chars, Word(c)
      PROVE  GrammarOK'
  <2>1. lex \in {"word"} \cup Quotes /\ result = "parsing"
    BY <1>5 DEF Word, Get
  <2>2. value' # << >> /\ value'[1] \notin Punct
    BY <1>3, <1>5, <2>1 DEF Word
  <2>3. WordBegun' /\ UNCHANGED <<parser, result>>
    BY <1>5, <2>2 DEF Word, WordBegun
  <2>4. QED BY <2>1, <2>3, GrammarKept
<1>6. ASSUME NEW c \in Chars, WordEnds(c)
      PROVE  GrammarOK'
  <2>1. /\ lex = "word" /\ result = "parsing" /\ Len(read) < MaxTokens /\ EmitWord(value)
    BY <1>6 DEF WordEnds, Get
  <2>2. value \in Seq(Chars) /\ value # << >> /\ value[1] \notin Punct
    BY <1>0, <2>1 DEF LexerOK, WordBegun
  <2>3. IsWord(value)
    BY <2>2, WordIs
  <2>4. PICK word \in Seq(Chars) : word = value
    BY <2>2
  <2>5. EmitWord(word) /\ IsWord(word)
    BY <2>1, <2>3, <2>4
  <2>6. QED BY <2>1, <2>5, GrammarWord
<1>7. ASSUME NEW c \in Chars, Punctuation(c)
      PROVE  GrammarOK'
  BY <1>7, GrammarPunctuation
<1>8. CASE Eof
  BY <1>8, GrammarEof
<1>9. CASE UNCHANGED vars
  <2>1. UNCHANGED <<last, configs, depth, read, lex, value, result>>
    BY <1>9 DEF vars, lexer, parser
  <2>2. QED BY <2>1 DEF GrammarOK, WordBegun, WordsOK, Refused, Going
<1>10. QED BY <1>1, <1>2, <1>4, <1>5, <1>6, <1>7, <1>8, <1>9 DEF Next

\* However long the file and however deep its blocks, an accepted file is one of
\* the grammar, and a file that ends after a whole token and is refused is not
\* (config_parser.cc:296-362): what is read as statements and blocks stands in the
\* file as the grammar has it, and every refusal meets a token that no text of the
\* grammar could go on with, or an end that none has.
THEOREM AlwaysAcceptsTheGrammar == Spec => []AcceptsTheGrammar
<1>1. IInv /\ TreeOK /\ GrammarOK => AcceptsTheGrammar
  <2> SUFFICES ASSUME IInv, TreeOK, GrammarOK PROVE AcceptsTheGrammar
    OBVIOUS
  <2>1. ASSUME result = "accepted"
        PROVE  KindsOf(read) \in Grammar
    <3>1. PICK m : Marks(m)
      BY <2>1 DEF TreeOK, Going
    <3>2. Len(read) # 0
      <4>1. last = LastOf(read) /\ last \in {EndKind, CloseKind}
        BY <2>1 DEF GrammarOK, Going
      <4>2. "start" \notin {EndKind, CloseKind}
        BY DEF EndKind, CloseKind
      <4>3. QED BY <4>1, <4>2 DEF LastOf
    <3>3. KindsOf(read) \in Texts[Len(read)]
      BY <2>1, <3>1, FileIsText DEF IInv, TreeOK, GrammarOK
    <3>4. Len(read) \in 1 .. MaxTokens
      <4>1. Len(read) \in Nat /\ Len(read) <= MaxTokens
        BY KindsOfText DEF IInv, LexerOK, GrammarOK
      <4>2. QED BY <3>2, <4>1, BoundAssumption
    <3>5. QED BY <3>3, <3>4 DEF Grammar
  <2>2. Refused => KindsOf(read) \notin Grammar
    BY DEF GrammarOK
  <2>3. QED BY <2>1, <2>2, KindsAre DEF AcceptsTheGrammar, Refused
<1>2. Spec => []TreeOK
  BY InitTree, TreeStep, Invariance, PTL DEF Spec
<1>3. Spec => []GrammarOK
  BY InitGrammar, GrammarStep, Invariance, PTL DEF Spec
<1>4. QED BY <1>1, <1>2, <1>3, Invariance, PTL
==============================================================================
