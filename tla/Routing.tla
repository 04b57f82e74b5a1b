-------------------------------- MODULE Routing --------------------------------
(***************************************************************************)
(* From a request to the handler that answers it: the port and the tables  *)
(* that are looked up in the text a configuration prints as                *)
(* (config_parser.cc:19-171), the choice of a handler by the beginning of  *)
(* the path (dispatcher.cc, handler_manager.cc), the attributes the        *)
(* handler is made with, and the code it answers with.                     *)
(*                                                                         *)
(* The configuration is a tree in the form ConfigParser builds: a sequence *)
(* of blocks, each a sequence of statements, whose words are texts.  A     *)
(* name that is searched for ("url", "listen", ...) is one symbol, also    *)
(* where it is part of a longer word; what follows it there is single      *)
(* characters.                                                             *)
(***************************************************************************)
EXTENDS RequestText, Integers

CONSTANTS
    ConfigFiles,  \* the configurations the server may be started with
    Messages,     \* what clients send, see RequestText
    Files,        \* the files there are: pairs of a directory and a name
    Extensions,   \* those the static handler has a content type for
    MaxRequests   \* bound on the requests of one process

ASSUME RequestBound == MaxRequests \in Nat

Texts == Seq(STRING)

\* What ConfigParser builds (its StackIsPath, WordsOK and Marked): the first block is
\* the file, a statement has a word, and its block was made after the one it is in.
ASSUME ConfigAssumption ==
    \A c \in ConfigFiles :
        /\ c \in Seq(Seq([tokens : Seq(Texts), child : Nat])) /\ c # << >>
        /\ \A k \in DOMAIN c : \A s \in Range(c[k]) :
              s.tokens # << >> /\ s.child \in {0} \cup (k + 1 .. Len(c))

ASSUME MessageAssumption == \A m \in Messages : IsMessage(m)

VARIABLES
    configs,      \* the configuration, fixed when the process starts
    state,        \* "starting", "running", "exited" or "dead"
    port,         \* the port it listens to
    urlHandlers,  \* StatusObject::url_handlers_map_: prefix -> handler name
    asked,        \* the last request as it was sent
    request,      \* and as it was read
    reply,        \* who answered it: the name, its attributes, the code
    served        \* requests so far

vars == <<configs, state, port, urlHandlers, asked, request, reply, served>>

NoReply == [name |-> << >>, attrs |-> << >>, code |-> 0]

\* GetAttribute returns nothing at all if the name is not there.
Attributes(name) ==
    CASE name \in {<<"echo">>, <<"status">>, <<"health">>} -> {"url"}
      [] name = <<"static">> -> {"url", "location"}
      [] name = <<"meme">>   -> {"url", "location", "save"}
      [] name = <<"proxy">>  -> {"url", "host", "path", "port"}
      [] OTHER -> {}
KnownNames == {<<"echo">>, <<"static">>, <<"error">>, <<"status">>, <<"proxy">>,
               <<"meme">>, <<"health">>, <<"bad">>}
Codes == {200, 302, 400, 404}

\* The server takes the port as a short, and the endpoint that as an unsigned
\* short.
PortNumbers == 65536
MutantAsPort(n) == n                     \* the port stays an int
AsPort(n) == n % PortNumbers

TypeOK ==
    /\ configs \in ConfigFiles
    /\ state \in {"starting", "running", "exited", "dead"}
    /\ port \in 0 .. PortNumbers - 1
    /\ served \in 0 .. MaxRequests
    /\ reply # NoReply => reply.code \in Codes /\ served > 0

------------------------------------------------------------------------------
\* NginxConfig::ToString and what is looked up in it.

Indent(depth) == [i \in 1 .. depth |-> "    "]
Joined(tokens) == Tail(FlattenSeq([i \in DOMAIN tokens |-> <<" ">> \o tokens[i]]))

\* The text of each block of each configuration.
StatementText(print, s, depth) ==
    Indent(depth) \o Joined(s.tokens)
    \o (IF s.child = 0 THEN <<";">>
        ELSE <<" ", "{", "\n">> \o print[s.child][depth + 1]
             \o Indent(depth) \o <<"}">>)
    \o <<"\n">>
TextOf == [c \in ConfigFiles |->
    LET print[k \in DOMAIN c] == [depth \in Nat |->
            FlattenSeq([i \in DOMAIN c[k] |-> StatementText(print, c[k][i], depth)])]
    IN  [k \in DOMAIN c |-> print[k][0]]]
Printed(block) == TextOf[configs][block]

MutantRest(text, name) ==                \* rfind instead of find
    LET last == CHOOSE i \in DOMAIN text :
                    text[i] = name /\ \A j \in i + 1 .. Len(text) : text[j] # name
    IN  SubSeq(text, last + 1, Len(text))
Rest(text, name) == After(text, <<name>>)

\* A length of -1 is npos.
MutantValue(rest) == SubSeq(rest, 1, FirstAt(rest, <<";">>) - 1)  \* the blank too
Value(rest) ==
    LET semicolon == FirstAt(rest, <<";">>)
    IN  IF semicolon = 1 THEN Tail(rest) ELSE SubSeq(rest, 2, semicolon - 1)

HasAttribute(block, name) == Has(Printed(block), <<name>>)
GetAttribute(block, name) ==
    LET rest == Rest(Printed(block), name)
    IN  IF Has(rest, <<";">>) THEN Value(rest) ELSE << >>

PeekURL(text) ==
    LET rest == After(text, <<"url">>)
    IN  IF ~Has(text, <<"url">>) THEN << >>
        ELSE IF Has(rest, <<";">>) THEN Value(rest) ELSE Tail(rest)

\* atoi: blanks, then digits up to anything else.
Digits == <<"0", "1", "2", "3", "4", "5", "6", "7", "8", "9">>
Atoi(text) ==
    LET IsDigit(s) == s \in Range(Digits)
        from == SelectInSeq(text, LAMBDA s : s \notin {" ", "\n"})
        to   == SelectInSubSeq(text, from, Len(text), LAMBDA s : ~IsDigit(s))
    IN  IF from = 0 THEN 0
        ELSE FoldLeft(LAMBDA n, s : 10 * n + (CHOOSE i \in 1 .. 10 : Digits[i] = s) - 1,
                      0, SubSeq(text, from, IF to = 0 THEN Len(text) ELSE to - 1))

MutantPortText(rest) == Tail(Tail(rest))  \* a column too far
PortText(rest) == Tail(rest)
GetPort ==
    LET text == Printed(1)
        rest == After(text, <<"listen">>)
    IN  IF Has(text, <<"listen">>) /\ Has(rest, <<";">>)
        THEN Atoi(SubSeq(PortText(rest), 1, FirstAt(rest, <<";">>) - 1))
        ELSE 0

------------------------------------------------------------------------------
\* ParseString: the handler statements, those of a block before the statement
\* that has it; a prefix goes to the first one.

Statements(c) == UNION {Range(c[k]) : k \in DOMAIN c}
InOrder(c, chosen) ==
    LET inOrder[k \in DOMAIN c] ==
            FlattenSeq([i \in DOMAIN c[k] |->
                (IF c[k][i].child = 0 THEN << >> ELSE inOrder[c[k][i].child])
                \o (IF c[k][i] \in chosen THEN <<c[k][i]>> ELSE << >>)])
    IN  inOrder[1]
HandlersOf == [c \in ConfigFiles |->
    InOrder(c, {s \in Statements(c) : s.tokens[1] = <<"handler">>})]
Handlers == HandlersOf[configs]

\* The prefix of each; a handler without a block, or a name, is read all the same.
Defined(s) == s.child # 0 /\ Len(s.tokens) > 1
KeysOf == [c \in ConfigFiles |-> [i \in DOMAIN HandlersOf[c] |->
    LET s == HandlersOf[c][i]
    IN  IF Defined(s) THEN PeekURL(TextOf[c][s.child]) ELSE << >>]]
TablesUndefined == \E i \in DOMAIN Handlers : ~Defined(Handlers[i])

HandlerFor(key) == Handlers[SelectInSeq(KeysOf[configs], LAMBDA k : k = key)]
Keys == Range(KeysOf[configs])

MutantInserted ==                        \* a later block replaces an earlier one
    [key \in Keys |->
        Handlers[SelectLastInSeq(KeysOf[configs], LAMBDA k : k = key)].tokens[2]]
Inserted ==
    [key \in DOMAIN urlHandlers \cup Keys |->
        IF key \in DOMAIN urlHandlers THEN urlHandlers[key]
        ELSE HandlerFor(key).tokens[2]]

\* The path up to the second slash, or all of it.
Prefix(uri) ==
    LET slash == SelectInSubSeq(uri, 2, Len(uri), LAMBDA s : s = "/")
    IN  IF slash = 0 THEN uri ELSE SubSeq(uri, 1, slash - 1)

------------------------------------------------------------------------------
\* main: without a port the process ends at once.

Start ==
    /\ state = "starting"
    /\ state' = IF GetPort = 0 THEN "exited" ELSE "running"
    /\ port' = AsPort(GetPort)
    /\ UNCHANGED <<configs, urlHandlers, asked, request, reply, served>>

RequestOf == [m \in Messages |-> ParseRequest(Raw(m))]

\* handle_read: the request is read and the tables are built.
Receive(m) ==
    /\ state = "running" /\ served < MaxRequests
    /\ asked' = m
    /\ request' = RequestOf[m]
    /\ served' = served + 1
    /\ UNCHANGED <<configs, port>>

\* No exception and no null pointer is caught before main.
Die == state' = "dead" /\ reply' = NoReply

Reply(name, attrs, code) ==
    /\ reply' = [name |-> name, attrs |-> attrs, code |-> code]
    /\ UNCHANGED state

\* What was read is not there: anything may happen.
Undefined == Die \/ \E code \in Codes : Reply(<<"undefined">>, << >>, code)

ServeBadTables(m) ==
    /\ Receive(m) /\ TablesUndefined
    /\ Undefined
    /\ UNCHANGED urlHandlers

\* The handler whose prefix the path begins with.
Dispatch(m) == Receive(m) /\ ~TablesUndefined /\ urlHandlers' = Inserted
Found   == Prefix(request'.uri) \in Keys
Chosen  == HandlerFor(Prefix(request'.uri))
Name    == Chosen.tokens[2]

ServeError(m) ==
    /\ Dispatch(m) /\ ~Found
    /\ Reply(<<"error">>, << >>, 404)

\* createByName returns a null pointer.
ServeUnknownName(m) ==
    /\ Dispatch(m) /\ Found /\ Name \notin KnownNames
    /\ Die

HasAll == \A a \in Attributes(Name) : HasAttribute(Chosen.child, a)
Attrs  == [a \in Attributes(Name) |-> GetAttribute(Chosen.child, a)]

ServeWithoutAttribute(m) ==
    /\ Dispatch(m) /\ Found /\ Name \in KnownNames /\ ~HasAll
    /\ Undefined

Create(m) == Dispatch(m) /\ Found /\ Name \in KnownNames /\ HasAll

\* substr, from one past the prefix, in the handlers that look at what follows it.
LooksBehind == Name \in {<<"static">>, <<"meme">>}
MutantBare == LooksBehind /\ Len(request'.uri) <= Len(Attrs.url) + 1  \* "/" too
Bare == LooksBehind /\ Len(request'.uri) <= Len(Attrs.url)

ServeBare(m) == Create(m) /\ Bare /\ Die

\* The extension is what follows the first dot.
FileCode(location, filename) ==
    IF /\ <<location, filename>> \in Files
       /\ Has(filename, <<".">>) /\ After(filename, <<".">>) \in Extensions
    THEN 200 ELSE 404

\* What of the meme application is found depends on its table, see MemeVault.
AnswerCodes ==
    CASE Name \in {<<"echo">>, <<"status">>, <<"health">>} -> {200}
      [] Name = <<"error">> -> {404}
      [] Name = <<"bad">>   -> {400}
      [] Name = <<"meme">>  -> {200, 404}
      [] Name = <<"proxy">> -> {302}
      [] Name = <<"static">> ->
            {FileCode(Attrs.location,
                      SubSeq(request'.uri, Len(Attrs.url) + 2, Len(request'.uri)))}

\* The proxy may throw, see ProxyFetch.
ServeByHandler(m) ==
    /\ Create(m) /\ ~Bare
    /\ \/ \E code \in AnswerCodes : Reply(Name, Attrs, code)
       \/ Name = <<"proxy">> /\ Die

Init ==
    /\ configs \in ConfigFiles
    /\ state = "starting" /\ port = 0
    /\ urlHandlers = [key \in {} |-> << >>]
    /\ asked = << >> /\ request = BadRequest
    /\ reply = NoReply /\ served = 0

Next == \/ Start
        \/ \E m \in Messages :
              \/ ServeBadTables(m) \/ ServeError(m) \/ ServeUnknownName(m)
              \/ ServeWithoutAttribute(m) \/ ServeBare(m) \/ ServeByHandler(m)

Spec == Init /\ [][Next]_vars

------------------------------------------------------------------------------
\* The configuration as its reader understands it: the statements of the tree.

Names == {"url", "host", "path", "port", "location", "save", "listen"}

\* A setting is a name and one value; no name stands anywhere else, so that none
\* can be mistaken for another, and no semicolon, as it may in quotes.
IsSetting(s) == /\ Len(s.tokens) = 2 /\ s.child = 0
                /\ s.tokens[1] \in {<<n>> : n \in Names}
PlainFiles == {c \in ConfigFiles :
    /\ \A i \in DOMAIN HandlersOf[c] : Defined(HandlersOf[c][i])
    /\ \A k \in DOMAIN c : \A s \in Range(c[k]) :
          /\ \A i \in DOMAIN s.tokens :
                /\ Range(s.tokens[i]) \cap Names # {} => i = 1 /\ IsSetting(s)
                /\ ";" \notin Range(s.tokens[i])
          /\ s.tokens[1] = <<"handler">> => \A t \in Range(c[s.child]) : t.child = 0}
Plain == configs \in PlainFiles

\* What the block says of a name, if it does: the first setting counts.
Says(k, name) ==
    LET i == SelectInSeq(configs[k], LAMBDA s : s.tokens[1] = <<name>>)
    IN  IF i = 0 THEN << >> ELSE configs[k][i].tokens[2]

\* All settings of a name, in the order of the file.
AllSettings(name) ==
    InOrder(configs,
            {s \in Statements(configs) : s.child = 0 /\ s.tokens[1] = <<name>>})

Answered == reply # NoReply /\ reply.name # <<"undefined">>

\* The port is that of the first listen statement, wherever it stands, and without
\* one the process does not start (config_parser.cc:61-88, server_main.cc:95-101).
PortIsListen ==
    Plain /\ state # "starting" =>
        LET listens == AllSettings("listen")
            number  == Atoi(listens[1].tokens[2])
        IN  /\ listens = << >> => state = "exited"
            /\ listens # << >> /\ number \in 1 .. PortNumbers - 1
                  => state # "exited" /\ port = number

\* A request is answered by the first handler of the file that has its prefix for
\* a url, with the values of that handler's own block, and by the error handler
\* if there is none: neither the printing nor the search in what was printed
\* confuses blocks or attributes (config_parser.cc:29-59, :115-171,
\* dispatcher.cc:28-76).
ServedByItsBlock ==
    Plain /\ Answered =>
        LET i == SelectInSeq(Handlers,
                     LAMBDA s : Says(s.child, "url") = Prefix(request.uri))
        IN  IF i = 0 THEN reply.name = <<"error">> /\ reply.code = 404
            ELSE /\ reply.name = Handlers[i].tokens[2]
                 /\ \A a \in DOMAIN reply.attrs :
                       reply.attrs[a] = Says(Handlers[i].child, a)

\* What a handler takes for its own prefix, and cuts off the path by its length,
\* is a prefix of the path up to a slash or the end, in whatever way the
\* configuration was misread: PeekURL and GetAttribute find the same text
\* (config_parser.cc:47-59, :115-141, static_handler.cc:30, meme_handler.cc:35).
PrefixIsKey ==
    Answered /\ "url" \in DOMAIN reply.attrs =>
        /\ IsPrefix(reply.attrs.url, request.uri)
        /\ Len(request.uri) > Len(reply.attrs.url)
              => request.uri[Len(reply.attrs.url) + 1] = "/"

\* The status page names for each prefix the handler that serves it, and names
\* none where the answer is the error handler's (config_parser.cc:42,
\* status_handler.cc:34-38).
StatusPageTells ==
    Answered =>
        LET key == Prefix(request.uri)
        IN  IF key \in DOMAIN urlHandlers THEN urlHandlers[key] = reply.name
            ELSE reply.name = <<"error">>

\* A configuration that says all its handlers need.
Complete ==
    \A i \in DOMAIN Handlers :
        /\ Handlers[i].tokens[2] \in KnownNames
        /\ \A a \in Attributes(Handlers[i].tokens[2]) :
              Says(Handlers[i].child, a) # << >>

\* With such a configuration no request ends the process, malformed ones
\* included, but for the bare prefix of a handler of files, and what another
\* server does to the proxy (static_handler.cc:30, meme_handler.cc:35,
\* dispatcher.cc:54).
OnlyBarePrefixKills ==
    Plain /\ Complete /\ state = "dead" =>
        /\ Prefix(request.uri) \in Keys
        /\ \/ /\ HandlerFor(Prefix(request.uri)).tokens[2] \in {<<"static">>, <<"meme">>}
              /\ request.uri = Prefix(request.uri)
           \/ HandlerFor(Prefix(request.uri)).tokens[2] = <<"proxy">>

\* A request is taken apart as it was put together, and what is malformed counts
\* as a request for "/bad" (request.cc:9-119).
RequestIsRead == served > 0 => ReadAsSent(asked, request)
==============================================================================
