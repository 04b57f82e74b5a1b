------------------------------ MODULE ProxyServer ------------------------------
(***************************************************************************)
(* The server with the exchange its proxy handler has with another server: *)
(* WebServer, where the time in state "proxying" is as long as the other   *)
(* server likes, and ProxyFetch, which says what happens in that time.     *)
(* There is one thread, so there is at most one exchange.                  *)
(***************************************************************************)
EXTENDS WebServer

CONSTANTS MaxBody,    \* bound on the pieces of a body
          MayBreak    \* whether the other server may break off or be unreachable

ASSUME ExchangeAssumption == MaxBody \in Nat /\ MayBreak \in BOOLEAN

VARIABLES reply, arrived, ended, pc, to, first, body, notice

F == INSTANCE ProxyFetch

serverVars == vars
fetchVars  == <<reply, arrived, ended, pc, to, first, body, notice>>
allVars    == <<serverVars, fetchVars>>

\* HTTPRequest is called with nothing read and nothing sent.
MutantNewExchange ==                     \* the buffers of the last exchange
    /\ reply' \in F!Replies /\ pc' = "connect"
    /\ UNCHANGED <<arrived, ended, to, first, body, notice>>
NewExchange ==
    /\ reply' \in F!Replies
    /\ arrived' = 0 /\ ended' = "no"
    /\ pc' = "connect"
    /\ to' = 0 /\ first' = 0
    /\ body' = << >> /\ notice' = FALSE

CallProxy(c)   == ServeProxy(c) /\ NewExchange
ProxyAnswer(c) == pc = "done"   /\ ProxyReturn(c) /\ UNCHANGED fetchVars
ProxyFails(c)  == pc = "thrown" /\ ProxyThrow(c)  /\ UNCHANGED fetchVars

Exchanging == up /\ ~Free
Exchange(A) == Exchanging /\ A /\ UNCHANGED serverVars

\* What is neither the beginning nor the end of an exchange.
Local(c) == \/ Accept(c) \/ ReadEof(c) \/ ReadError(c)
            \/ ServeLocal(c) \/ ServeThrowing(c)
            \/ WriteMore(c) \/ WriteDone(c) \/ WriteError(c)

LoopStep(c)  == \/ Local(c) /\ UNCHANGED fetchVars
                \/ CallProxy(c)
HandlerStep  == \/ Exchange(F!Handler)
                \/ \E c \in Conns : ProxyAnswer(c) \/ ProxyFails(c)
OtherServer  == Exchange(F!Arrive \/ F!Close)

ServerInit == Init
ProxyServerInit == ServerInit /\ F!Init
ProxyServerNext ==
    \/ \E c \in Conns : LoopStep(c)
    \/ \E c \in Conns : Client(c) /\ UNCHANGED fetchVars
    \/ HandlerStep
    \/ OtherServer \/ Exchange(F!Break)
    \/ (AcceptError \/ Restart) /\ UNCHANGED fetchVars

\* The thread goes on, inside a handler and outside, and the other server sends
\* what it has and closes, unless it breaks off.
ProxyServerSpec ==
    /\ ProxyServerInit /\ [][ProxyServerNext]_allVars
    /\ \A c \in Conns : WF_allVars(LoopStep(c))
    /\ WF_allVars(HandlerStep)
    /\ WF_allVars(OtherServer)

------------------------------------------------------------------------------
\* The server with its exchanges is a server of WebServer, and one in which
\* every request to the proxy comes to an end, well or badly: neither the reads
\* nor the ends of the other server's connection leave the thread waiting in
\* HTTPRequest (proxy_handler.cc:85-186).
ImplementsServer == FairSpec

\* Each exchange begins with empty buffers: what is sent to one client is the
\* body of its own exchange, whatever an earlier one read or left unread
\* (proxy_handler.cc:100-103, :166).
ExchangeIsItsOwn ==
    Exchanging => F!TypeOK /\ F!OnlyBeginningTwice /\ F!NothingLost
==============================================================================
