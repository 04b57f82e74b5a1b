------------------------------- MODULE MCRouting -------------------------------
(***************************************************************************)
(* An instance of Routing: configurations with up to two handlers, blocks  *)
(* in different orders, with settings missing, doubled, nested, or in      *)
(* places where they are mistaken for another, and requests of all forms.  *)
(***************************************************************************)
EXTENDS Routing

Set(name, value) == [tokens |-> <<<<name>>, value>>, child |-> 0]
Url(v) == Set("url", v)
Path(c) == <<"/", c>>
At(d)  == Set("location", Path(d))

\* Handlers: a name and the statements of its block.
Good == {<<<<"echo">>,   <<Url(Path("e"))>>>>,
         <<<<"status">>, <<Url(Path("e"))>>>>,
         <<<<"static">>, <<At("d"), Url(Path("s"))>>>>,
         <<<<"static">>, <<Url(Path("s")), At("d")>>>>,
         <<<<"health">>, <<Url(Path("e")), Url(Path("p"))>>>>,
         <<<<"meme">>,   <<At("d"), Url(Path("s")), Set("save", Path("d"))>>>>,
         <<<<"proxy">>,  <<Url(Path("p")), Set("host", <<"h">>),
                           Set("path", Path("d")), Set("port", <<"8">>)>>>>,
         <<<<"bad">>,    <<Url(Path("bad"))>>>>}
Odd  == {<<<<"static">>, <<Url(Path("s"))>>>>,
         <<<<"static">>, <<Url(<<"/", "e", "/", "s">>), At("d")>>>>,
         <<<<"echo">>,   << >>>>,
         <<<<"other">>,  <<Url(Path("e"))>>>>,
         <<<<"error">>,  <<Url(Path("s"))>>>>,
         <<<<"static">>, <<Set("location", <<"/", "c", "url", "s">>), Url(Path("s"))>>>>,
         <<<<"echo">>,   <<[tokens |-> <<<<"url">>>>, child |-> 0], Url(Path("s"))>>>>,
         <<<<"proxy">>,  <<Url(Path("p")), Set("host", <<"port", ".", "h">>),
                           Set("path", Path("d")), Set("port", <<"8">>)>>>>}

Listen(p) == Set("listen", p)
Tops == {<<Listen(<<"8", "0">>), Set("root", Path("r"))>>,
         <<Set("root", Path("listen")), Listen(<<"8">>), Listen(<<"2">>)>>,
         <<Listen(<<"6", "5", "5", "3", "6">>)>>}

\* "server { top handler ... { ... } ... }"
File(top, handlers) ==
    << <<[tokens |-> << <<"server">> >>, child |-> 2]>>,
       top \o [i \in DOMAIN handlers |->
                  [tokens |-> << <<"handler">>, handlers[i][1]>>, child |-> 2 + i]] >>
    \o [i \in DOMAIN handlers |-> handlers[i][2]]

Handler(words, child) == [tokens |-> << <<"handler">> >> \o words, child |-> child]

\* A handler in a handler's block; handlers without a name or a block; two blocks
\* of handlers, the port between them; no port.
Strange ==
    {<< <<Listen(<<"8">>), Handler(<<<<"static">>>>, 2)>>,
        <<At("d"), Handler(<<<<"echo">>>>, 3), Url(Path("s"))>>,
        <<Url(Path("e"))>> >>,
     << <<Listen(<<"8">>), Handler(<<<<"echo">>>>, 0)>> >>,
     << <<Listen(<<"8">>), Handler(<< >>, 2)>>, <<Url(Path("e"))>> >>,
     << <<[tokens |-> <<<<"a">>>>, child |-> 2], Listen(<<"2", "0">>),
          [tokens |-> <<<<"b">>>>, child |-> 4]>>,
        <<Handler(<<<<"echo">>>>, 3)>>, <<Url(Path("e"))>>,
        <<Handler(<<<<"health">>>>, 5), Handler(<<<<"static">>>>, 6)>>,
        <<Url(Path("e"))>>, <<Url(Path("s")), At("d")>> >>,
     << <<Handler(<<<<"echo">>>>, 2)>>, <<Url(Path("e"))>> >>}

Top80 == <<Listen(<<"8", "0">>), Set("root", Path("r"))>>
SomeFiles ==
    {File(Top80, <<h, g>>) : h, g \in Good \cup Odd}
    \cup {File(top, <<h>>) : top \in Tops, h \in Good}
    \cup {File(top, << >>) : top \in Tops} \cup Strange

Message == [before |-> << >>, method |-> <<"GET">>, gap |-> <<" ">>, uri |-> Path("e"),
            version |-> <<"HTTP/1.1">>, headers |-> << >>, body |-> << >>]

Uris == {<<"/">>, Path("e"), <<"/", "e", "/", "s">>, Path("s"), <<"/", "s", "/">>,
         <<"/", "s", "/", "f", ".", "txt">>, <<"/", "s", "/", "f">>,
         <<"/", "p">>, <<"/", "p", "/", "x">>, <<"x">>}
Post  == [Message EXCEPT !.method = <<"POST">>, !.body = <<"b", " ", "b">>]
Right == {[Post EXCEPT !.gap = g, !.headers = h, !.body = b] :
             g \in {<<" ">>, <<" ", " ">>},
             h \in {<< >>, <<<<"h", ":", " ", "v">>, <<"h">>>>},
             b \in {<< >>, Post.body, <<"b", "\r", "\n", "c">>}}
Wrong == {[Post EXCEPT !.before = Crlf], [Post EXCEPT !.method = <<"PUT">>],
          [Post EXCEPT !.version = <<"HTTP/1.0">>], [Post EXCEPT !.uri = << >>]}

AllMessages == {[Message EXCEPT !.uri = u] : u \in Uris} \cup Right \cup Wrong

Text == {<<"txt">>}
SomeFilesThere == {<<Path("d"), <<"f", ".", "txt">>>>, <<Path("d"), <<"f">>>>}
==============================================================================
