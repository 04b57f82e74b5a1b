------------------------------- MODULE TextOps -------------------------------
(***************************************************************************)
(* The operations of the string libraries that the text handling of the    *)
(* server is built on.  A text is a sequence of symbols; a symbol is a     *)
(* character, or a run of characters that are never taken apart.           *)
(***************************************************************************)
EXTENDS Naturals, Sequences, SequencesExt

\* boost::split with token_compress_on: a run of delimiters separates once, and
\* one at the beginning or the end leaves an empty token there.
Split(text, delimiters) ==
    FoldLeft(LAMBDA tokens, s :
                 IF s \notin delimiters
                 THEN Append(Front(tokens), Append(Last(tokens), s))
                 ELSE IF Len(tokens) > 1 /\ Last(tokens) = << >> THEN tokens
                 ELSE Append(tokens, << >>),
             << << >> >>, text)

IsAt(text, i, part) ==
    i + Len(part) <= Len(text) + 1 /\ SubSeq(text, i, i + Len(part) - 1) = part
Has(text, part)  == \E i \in DOMAIN text : IsAt(text, i, part)
FirstAt(text, part) ==
    CHOOSE i \in DOMAIN text :
        IsAt(text, i, part) /\ \A j \in 1 .. i - 1 : ~IsAt(text, j, part)

\* What follows the first occurrence of part.
After(text, part) == SubSeq(text, FirstAt(text, part) + Len(part), Len(text))

\* boost::replace_all: from the left, and what was put in is not looked at again.
ReplacedAll(text, part, by) ==
    LET from[i \in 1 .. Len(text) + 1] ==
            IF i > Len(text) THEN << >>
            ELSE IF IsAt(text, i, part) THEN by \o from[i + Len(part)]
            ELSE <<text[i]>> \o from[i + 1]
    IN  from[1]

ReplacedFirst(text, part, by) ==
    IF Has(text, part)
    THEN SubSeq(text, 1, FirstAt(text, part) - 1) \o by \o After(text, part)
    ELSE text
==============================================================================
