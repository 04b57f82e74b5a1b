--------------------------- MODULE WebServerClaims ---------------------------
(***************************************************************************)
(* What comments, the README and tests say of the server and the code,     *)
(* modelled in WebServer, does not keep.                                   *)
(***************************************************************************)
EXTENDS WebServer

\* "If there's an error shutdown the communications" (session.cc:112), and "if
\* fail, give 404 error" (static_handler.cc:53): neither a client's connection
\* nor a request ends the server.
ServerStaysUp == up

\* "serves a static file from a directory on server" (README.md:25): a client
\* that waits for the end of its response gets all of it, as it was built.
ResponseIntact ==
    \A c \in answered : state[c] = "closed" /\ fin[c] # "reset"
                            => left[c] = 0 /\ ~junk[c]

\* "echos request back as response" (README.md:24): a handler is given the
\* request as its client sends it, whenever the pieces arrive.
HandlerSeesWholeRequest == \A c \in Conns : seen[c] # "cut"

\* "Multithreading" (server.cc:13), "server is running multithreaded"
\* (tests/integration_mult_2.sh:19): a request that needs no other server is
\* answered even while another request waits for one.
LocalRequestsAnswered ==
    \A c \in Conns : /\ state[c] \in {"queued", "reading"} /\ sent[c] >= 1
                     /\ req[c].handler # "proxy"
                     ~> state[c] = "closed"
==============================================================================
