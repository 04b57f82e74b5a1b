----------------------------- MODULE ConfigParser -----------------------------
(***************************************************************************)
(* NginxConfigParser (config_parser.cc): ParseToken turns the characters   *)
(* of the configuration file into tokens, Parse turns the tokens into a    *)
(* tree of NginxConfig objects.  The file is any sequence of characters:   *)
(* each step reads one more, or the one that was put back.                 *)
(***************************************************************************)
EXTENDS Naturals, Sequences, SequencesExt

CONSTANTS
    Chars,      \* the characters the file is made of
    MaxTokens,  \* bound on the tokens of the file
    MaxWord,    \* bound on the characters of a word
    MaxQuoted,  \* bound on the characters of a quoted word, its quotes included
    MaxLong     \* bound on the words of the file that have more than one character

Blank  == {" ", "\n", "\r"}        \* a tab is as good as a space
Punct  == {"{", "}", ";"}
Quotes == {"'", "\""}
EndsWord == {" ", "\n"} \cup Punct  \* a carriage return does not

AllChars == Blank \cup Punct \cup Quotes \cup {"#", "a"}

ASSUME CharsAssumption == Chars \subseteq AllChars
ASSUME BoundAssumption == {MaxTokens, MaxWord, MaxQuoted, MaxLong} \subseteq Nat

VARIABLES
    ahead,    \* the character put back by unget, or "none"
    lex,      \* state of ParseToken: "space", "word", "comment", or the open quote
    value,    \* characters of the token so far
    last,     \* last_token_type: "start", "word", or the punctuation itself
    configs,  \* the NginxConfig objects, in the order they were made
    stack,    \* config_stack, innermost last
    depth,    \* bracket_count
    read,     \* history: the tokens so far, without comments
    result    \* "parsing", "accepted", "rejected", "unbalanced"

lexer  == <<ahead, lex, value>>
parser == <<last, configs, stack, depth, read>>
vars   == <<lexer, parser, result>>

Config == Seq([tokens : Seq(Seq(Chars)), child : Nat])

TypeOK ==
    /\ ahead \in Chars \cup {"none"}
    /\ lex \in {"space", "word", "comment"} \cup Quotes
    /\ value \in Seq(Chars)
    /\ last \in {"start", "word"} \cup Punct
    /\ configs \in Seq(Config)
    /\ stack \in Seq(DOMAIN configs)
    /\ depth \in Nat
    /\ read \in Seq(Seq(Chars))
    /\ result \in {"parsing", "accepted", "rejected", "unbalanced"}

------------------------------------------------------------------------------
\* Parse, for each kind of token.

Top == Last(stack)

\* Nothing reads the rest of the state after an error, a count that has already
\* changed included.
Reject(how) == result' = how /\ UNCHANGED <<last, configs, stack, depth>>

\* A word begins a statement of the innermost open block, or continues one.
MutantAddWord(word) ==                   \* a statement to each word
    /\ configs' = [configs EXCEPT ![Top] =
                      Append(@, [tokens |-> <<word>>, child |-> 0])]
    /\ last' = "word"
    /\ UNCHANGED <<stack, depth, result>>
AddWord(word) ==
    /\ \/ /\ last # "word"
          /\ configs' = [configs EXCEPT ![Top] =
                            Append(@, [tokens |-> <<word>>, child |-> 0])]
       \/ /\ last = "word"
          /\ configs' = [configs EXCEPT ![Top][Len(configs[Top])].tokens =
                            Append(@, word)]
    /\ last' = "word"
    /\ UNCHANGED <<stack, depth, result>>

EndStatement ==
    \/ /\ last = "word"
       /\ last' = ";"
       /\ UNCHANGED <<configs, stack, depth, result>>
    \/ /\ last # "word"
       /\ Reject("rejected")

MutantOpenBlock ==                       \* the block is opened but not linked
    \/ /\ last = "word"
       /\ configs' = Append(configs, << >>)
       /\ stack' = Append(stack, Len(configs) + 1)
       /\ depth' = depth + 1
       /\ last' = "{"
       /\ UNCHANGED result
    \/ last # "word" /\ Reject("rejected")

\* The block is a child of the statement just read, and becomes the innermost.
OpenBlock ==
    \/ /\ last = "word"
       /\ configs' = Append([configs EXCEPT ![Top][Len(configs[Top])].child =
                                Len(configs) + 1], << >>)
       /\ stack' = Append(stack, Len(configs) + 1)
       /\ depth' = depth + 1
       /\ last' = "{"
       /\ UNCHANGED result
    \/ /\ last # "word"
       /\ Reject("rejected")

MutantCloseBlock ==                      \* a block may end at any token
    /\ depth > 0 /\ depth' = depth - 1
    /\ stack' = Front(stack)
    /\ last' = "}"
    /\ UNCHANGED <<configs, result>>
MutantNoBalance ==                       \* brackets are not counted
    \/ /\ last \in {"{", "}", ";"}
       /\ depth' = depth - 1
       /\ stack' = IF depth = 0 THEN stack ELSE Front(stack)
       /\ last' = "}"
       /\ UNCHANGED <<configs, result>>
    \/ last \notin {"{", "}", ";"} /\ Reject("rejected")
CloseBlock ==
    \/ /\ last \in {"{", "}", ";"} /\ depth > 0
       /\ depth' = depth - 1
       /\ stack' = Front(stack)
       /\ last' = "}"
       /\ UNCHANGED <<configs, result>>
    \/ /\ last \in {"{", "}", ";"} /\ depth = 0
       /\ Reject("unbalanced")
    \/ /\ last \notin {"{", "}", ";"}
       /\ Reject("rejected")

EndOfFile ==
    /\ result' = IF last \notin {";", "}"} THEN "rejected"
                 ELSE IF depth # 0 THEN "unbalanced" ELSE "accepted"
    /\ UNCHANGED <<last, configs, stack, depth>>

------------------------------------------------------------------------------
\* ParseToken, for each of its states.

Get(c) == /\ result = "parsing" /\ ahead \in {"none", c}
          /\ Len(read) < MaxTokens
NoneAhead  == ahead' = "none"
RoomForLong == Cardinality({i \in DOMAIN read : Len(read[i]) > 1}) < MaxLong

Skip(c) ==
    /\ Get(c) /\ lex = "space" /\ c \in Blank
    /\ NoneAhead
    /\ UNCHANGED <<lex, value, parser, result>>

Punctuation(c) ==
    /\ Get(c) /\ lex = "space"
    /\ \/ c = "{" /\ OpenBlock
       \/ c = "}" /\ CloseBlock
       \/ c = ";" /\ EndStatement
    /\ read' = Append(read, <<c>>)
    /\ NoneAhead
    /\ UNCHANGED <<lex, value>>

Begin(c) ==
    /\ Get(c) /\ lex = "space" /\ c \notin Blank \cup Punct
    /\ c \in Quotes => RoomForLong
    /\ lex' = IF c = "#" THEN "comment" ELSE IF c \in Quotes THEN c ELSE "word"
    /\ value' = IF c = "#" THEN << >> ELSE <<c>>
    /\ NoneAhead
    /\ UNCHANGED <<parser, result>>

\* A comment is dropped, and does not count as the last token.
Comment(c) ==
    /\ Get(c) /\ lex = "comment"
    /\ lex' = IF c \in {"\n", "\r"} THEN "space" ELSE "comment"
    /\ NoneAhead
    /\ UNCHANGED <<value, parser, result>>

EmitWord(word) ==
    /\ AddWord(word)
    /\ read' = Append(read, word)
    /\ lex' = "space" /\ value' = << >>

Quoted(c) ==
    /\ Get(c) /\ lex \in Quotes /\ Len(value) < MaxQuoted
    /\ \/ /\ c = lex
          /\ EmitWord(Append(value, c))
       \/ /\ c # lex
          /\ value' = Append(value, c)
          /\ UNCHANGED <<lex, parser, result>>
    /\ NoneAhead

Word(c) ==
    /\ Get(c) /\ lex = "word" /\ c \notin EndsWord
    /\ Len(value) < MaxWord /\ RoomForLong
    /\ value' = Append(value, c)
    /\ NoneAhead
    /\ UNCHANGED <<lex, parser, result>>

WordEnds(c) ==
    /\ Get(c) /\ lex = "word" /\ c \in EndsWord
    /\ EmitWord(value)
    /\ ahead' = c

\* The stream is at its end: an open quote is an error, and a word that nothing
\* ended is dropped.
Eof ==
    /\ result = "parsing" /\ ahead = "none"
    /\ \/ lex \in Quotes /\ Reject("rejected")
       \/ lex \notin Quotes /\ EndOfFile
    /\ UNCHANGED <<lexer, read>>

Init ==
    /\ ahead = "none" /\ lex = "space" /\ value = << >>
    /\ last = "start" /\ depth = 0 /\ read = << >>
    /\ configs = << << >> >> /\ stack = <<1>>
    /\ result = "parsing"

Next == \/ \E c \in Chars : \/ Skip(c) \/ Punctuation(c) \/ Begin(c) \/ Comment(c)
                            \/ Quoted(c) \/ Word(c) \/ WordEnds(c)
        \/ Eof

Spec == Init /\ [][Next]_vars

------------------------------------------------------------------------------
\* NginxConfig::ToString, as tokens.

PrintedBy(print, statement) ==
    statement.tokens \o IF statement.child = 0 THEN << <<";">> >>
                        ELSE << <<"{">> >> \o print[statement.child] \o << <<"}">> >>
Printed ==
    LET print[k \in DOMAIN configs] ==
            FlattenSeq([i \in DOMAIN configs[k] |-> PrintedBy(print, configs[k][i])])
    IN  print[1]

\* The reference: a configuration is a sequence of statements, each of at least
\* one word and then a semicolon or a configuration in braces.  Texts[n]: those
\* of n tokens.
Words(n) == [1 .. n -> {"word"}]
Texts[n \in 0 .. MaxTokens] ==
    IF n = 0 THEN {<< >>}
    ELSE UNION {
        {words \o <<";">> \o rest : words \in Words(k), rest \in Texts[n - k - 1]}
        \cup UNION {{words \o <<"{">> \o inner \o <<"}">> \o rest :
                       words \in Words(k), inner \in Texts[i], rest \in Texts[n - k - 2 - i]}
                    : i \in {j \in 0 .. n : j + k + 2 <= n}}
        : k \in 1 .. n - 1}
Grammar == UNION {Texts[n] : n \in 1 .. MaxTokens}

Kinds == [i \in DOMAIN read |->
             IF read[i] \in {<<p>> : p \in Punct} THEN read[i][1] ELSE "word"]

\* A file that ends after a whole token is accepted exactly when it is one of the
\* grammar, however blocks nest and wherever comments and quotes stand
\* (config_parser.cc:296-362).
AcceptsTheGrammar ==
    /\ result = "accepted" => Kinds \in Grammar
    /\ result \in {"rejected", "unbalanced"} /\ lex \notin Quotes \cup {"word"}
          => Kinds \notin Grammar

\* What ToString prints of an accepted configuration, which is where ports,
\* paths and handlers are looked up, is what the file says
\* (config_parser.cc:303-307, 324-327, 345).
ConfigIsFile == result = "accepted" => Printed = read

\* config_stack is the path to the open block: it is never empty, bracket_count
\* counts it, and each block on it belongs to the last statement of the one
\* below, so top() and back() always have something to return
\* (config_parser.cc:303-345).
StackIsPath ==
    /\ depth + 1 = Len(stack) /\ stack[1] = 1
    /\ \A i \in 1 .. depth :
          /\ configs[stack[i]] # << >>
          /\ Last(configs[stack[i]]).child = stack[i + 1]
    /\ last = "word" => configs[Top] # << >>
==============================================================================
