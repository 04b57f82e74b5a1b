----------------------------- MODULE RequestText -----------------------------
(***************************************************************************)
(* Request::request_handler (request.cc): what the server makes of the     *)
(* text of a request.                                                      *)
(***************************************************************************)
EXTENDS TextOps

Methods == {<<"GET">>, <<"POST">>}

\* What a request that cannot be parsed is turned into.
BadRequest == [method |-> <<"GET">>, uri |-> <<"/", "bad">>, body |-> << >>]

\* The delimiters are single characters, so empty lines go with the ends of lines.
LinesOf(raw) ==
    Split(raw, IF Has(raw, <<"\r", "\n", "\r", "\n">>) THEN {"\r", "\n"} ELSE {"\n"})

\* check_first_request_line: the three parts of a request line.
FirstLineOK(line) ==
    LET part == Split(line, {" "})
    IN  /\ Len(part) = 3
        /\ part[1] \in Methods
        /\ Has(part[3], <<"HTTP/1.1">>)

MutantBodyOf(lines) == lines[2]          \* the line after the first one
\* The body is the last line; lines before it, of the body or not, are headers,
\* which nothing reads.
BodyOf(lines) == Last(lines)

ParseRequest(raw) ==
    LET lines == LinesOf(raw)
        first == Split(lines[1], {" "})
    IN  IF Has(raw, <<"\n">>) /\ FirstLineOK(lines[1])
        THEN [method |-> first[1], uri |-> first[2], body |-> BodyOf(lines)]
        ELSE BadRequest

------------------------------------------------------------------------------
\* What clients send: a request line of words with blanks between them, header
\* lines, an empty line and a body.
Crlf == <<"\r", "\n">>
Raw(m) == m.before \o m.method \o m.gap \o m.uri \o <<" ">> \o m.version
          \o Crlf \o FlattenSeq([i \in DOMAIN m.headers |-> m.headers[i] \o Crlf])
          \o Crlf \o m.body

\* Words are free of what separates them; what comes before the line, if anything
\* does, begins with the end of a line.
LineEnds == {"\r", "\n"}
IsMessage(m) ==
    /\ m \in [before : Seq(STRING), method : Seq(STRING), gap : Seq(STRING),
              uri : Seq(STRING), version : Seq(STRING), headers : Seq(Seq(STRING)),
              body : Seq(STRING)]
    /\ m.before # << >> => m.before[1] \in LineEnds
    /\ m.gap # << >> /\ Range(m.gap) = {" "}
    /\ \A word \in {m.method, m.uri, m.version} :
          Range(word) \cap (LineEnds \cup {" "}) = {}

WellFormed(m) == /\ m.before = << >>
                 /\ m.method \in Methods
                 /\ m.uri # << >>
                 /\ Has(m.version, <<"HTTP/1.1">>)

\* A well-formed request whose body is one line is taken apart as it was put
\* together, whatever blanks and headers it has, and everything else counts as a
\* request for "/bad" (request.cc:14-119; request_test.cc).
ReadAsSent(m, request) ==
    /\ WellFormed(m) /\ ~Has(m.body, <<"\n">>) /\ ~Has(m.body, <<"\r">>)
          => request = [method |-> m.method, uri |-> m.uri, body |-> m.body]
    /\ ~WellFormed(m) => request = BadRequest
==============================================================================
