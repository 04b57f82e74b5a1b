------------------------------ MODULE MCMemeForms ------------------------------
(***************************************************************************)
(* MemeForms with the texts that are anything special to a URL, to HTML,   *)
(* to LIKE or to the templates, alone and next to each other.              *)
(***************************************************************************)
EXTENDS MemeForms

Filling(name, top, bottom, fried) ==
    [name |-> name, top |-> top, bottom |-> bottom, image |-> <<"BLB.png">>,
     deepfry |-> fried]

SomeFills ==
    {Filling(<<"x", " ", "&">>, <<"%">>, <<"<", "x">>, TRUE),
     Filling(<<"&", "lt", ";">>, <<"\"", "&">>, <<"x", "%", "%">>, FALSE),
     Filling(<<"+", "%", "2F">>, <<"x">>, <<"%", "%", "2F">>, FALSE),
     Filling(<<"meme_object_top">>, <<" ", "=", "x">>, <<"&", "amp">>, TRUE),
     Filling(<<"access">>, <<"&", "nbsp">>, <<" ">>, FALSE)}
SomeTerms ==
    {<<s>> : s \in {"x", " ", "&", "%", "<", "+", "\"", "lt"}}
    \cup {<<"x", " ">>, <<"&", "lt", ";">>, <<"%", "%">>, <<"<", "x">>, << >>}
SomeIds == <<<<"1", "0000">>, <<"1", "0001">>, <<"1", "0002">>, <<"1", "0003">>>>
==============================================================================
