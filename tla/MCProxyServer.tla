----------------------------- MODULE MCProxyServer -----------------------------
(***************************************************************************)
(* An instance of ProxyServer: requests that are answered at once and      *)
(* requests that wait for another server.                                  *)
(***************************************************************************)
EXTENDS ProxyServer

Request(handler, url, code) ==
    [url |-> url, code |-> code, handler |-> handler,
     bare |-> FALSE, body |-> FALSE, chunks |-> 1]

Echo  == [Request("echo", "/echo", 200) EXCEPT !.body = TRUE]
Proxy == Request("proxy", "/proxy", 302)

SomeRequests == {Echo, Proxy}
==============================================================================
