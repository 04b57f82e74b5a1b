-------------------------------- MODULE UrlText --------------------------------
(***************************************************************************)
(* URLParser (url_parser.cc).  The two hexadecimal digits after a percent  *)
(* sign are one symbol, and so is the name of an HTML entity.              *)
(***************************************************************************)
EXTENDS TextOps

\* The characters that are anything special to a URL, and their codes.
CodeOf == [c \in {"+", "%", "&", "<", "\"", ";", "/", "=", "hard"} |->
             CASE c = "+" -> "2B" [] c = "%" -> "25" [] c = "&"  -> "26"
               [] c = "<" -> "3C" [] c = "\"" -> "22" [] c = ";" -> "3B"
               [] c = "/" -> "2F" [] c = "="  -> "3D" [] c = "hard" -> "C2A0"]
Codes == {CodeOf[c] : c \in DOMAIN CodeOf}
CharOf(code) == CHOOSE c \in DOMAIN CodeOf : CodeOf[c] = code

\* Where no code follows, sscanf leaves what the variable held before: junk.
UrlDecode(text) ==
    LET from[i \in 1 .. Len(text) + 2] ==
            IF i > Len(text) THEN << >>
            ELSE IF text[i] # "%" THEN <<text[i]>> \o from[i + 1]
            ELSE IF i < Len(text) /\ text[i + 1] \in Codes
                 THEN <<CharOf(text[i + 1])>> \o from[i + 2]
            ELSE <<"junk">> \o from[i + 2]
    IN  from[1]

\* Entities, in the order htmlDecode looks for them.
Entities == <<"amp", "quot", "lt", "nbsp">>
EntityOf == [c \in {"&", "\"", "<", " "} |->
               CASE c = "&" -> "amp" [] c = "\"" -> "quot"
                 [] c = "<" -> "lt"  [] c = " "  -> "nbsp"]
Meaning(entity) == CHOOSE c \in DOMAIN EntityOf : EntityOf[c] = entity
Written(entity) == <<"&", entity, ";">>

HtmlEncode(text) ==
    FlattenSeq([i \in DOMAIN text |->
        IF text[i] \in DOMAIN EntityOf THEN Written(EntityOf[text[i]])
        ELSE <<text[i]>>])

MutantHtmlDecode(text) ==                \* the last line forgotten
    FoldLeft(LAMBDA t, e : ReplacedAll(t, Written(e), <<Meaning(e)>>),
             text, Front(Entities))
HtmlDecode(text) ==
    FoldLeft(LAMBDA t, e : ReplacedAll(t, Written(e), <<Meaning(e)>>), text, Entities)
================================================================================
