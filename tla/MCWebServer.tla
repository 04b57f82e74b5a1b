----------------------------- MODULE MCWebServer -----------------------------
(***************************************************************************)
(* Instances of WebServer and of the claims about it.                      *)
(***************************************************************************)
EXTENDS WebServerClaims, TLC

Request(handler, url, code) ==
    [url |-> url, code |-> code, handler |-> handler,
     bare |-> FALSE, body |-> FALSE, chunks |-> 1]

Status  == Request("status", "/status", 200)
Static  == Request("static", "/static/a", 200)
Large   == [Static EXCEPT !.url = "/static/b", !.chunks = 2]
Gone    == [Large EXCEPT !.code = 404, !.chunks = 1]   \* the file comes and goes
Bare    == [Static EXCEPT !.url = "/static", !.bare = TRUE]
Echo    == [Request("echo", "/echo", 200) EXCEPT !.body = TRUE]
Proxy   == Request("proxy", "/proxy", 302)
Meme    == [Request("meme", "/meme", 200) EXCEPT !.body = TRUE]

AllRequests    == {Large, Gone, Bare, Echo, Proxy}
LocalRequests  == {Status, Echo, Proxy}
LargeRequests  == {Large}
BareRequests   == {Bare, Static}
BodyRequests   == {Echo, Meme}

Symmetry == Permutations(Conns)
==============================================================================
