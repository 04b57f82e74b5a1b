------------------------------ MODULE WebServer ------------------------------
(***************************************************************************)
(* The server process: one thread in io_service.run (server_main.cc), the  *)
(* acceptor (server.cc), one session per connection (session.cc), and the  *)
(* handlers as far as they matter to it: whether a request is answered at  *)
(* once, only after another server has answered, or with an exception.     *)
(*                                                                         *)
(* Handlers run to completion, so the thread is either free or inside the  *)
(* proxy handler's blocking read.  Connections, the arrival of data, and   *)
(* clients that close or abort interleave with it freely.                  *)
(***************************************************************************)
EXTENDS Naturals, FiniteSets, Sequences, StatusObject

CONSTANTS
    Conns,        \* connections, each of which carries one request
    Requests,     \* the requests clients send
    Faults,       \* which of "reset" and "upstream" may happen
    MaxRestarts   \* bound on restarts

\* A request: the path and the code its answer is counted under, the handler,
\* whether the path is the bare prefix of its handler, whether there is a body
\* beyond the header, and into how many socket writes the response falls.
RequestType ==
    [url : STRING, code : Nat, bare : BOOLEAN, body : BOOLEAN, chunks : Nat \ {0},
     handler : {"echo", "static", "status", "health", "error", "bad", "meme", "proxy"}]

ASSUME ConnAssumption == IsFiniteSet(Conns)
ASSUME RequestAssumption == Requests \subseteq RequestType
ASSUME FaultAssumption == Faults \subseteq {"reset", "upstream"} /\ MaxRestarts \in Nat

VARIABLES
    up,         \* whether the process runs
    accepting,  \* whether an async_accept is outstanding
    state,      \* conn -> where it is, see States
    req,        \* conn -> the request its client sends
    sent,       \* conn -> 0: less than the header, 1: the header, 2: the body too
    fin,        \* conn -> "open", or how the client has ended it
    seen,       \* conn -> what the handler was given: "none", "whole", "cut"
    left,       \* conn -> socket writes the response still needs
    junk,       \* conn -> whether bytes of freed memory were sent
    entries,    \* StatusObject::status_entries_
    answered,   \* history: connections answered by this process
    restarts    \* how often the process was started again

vars == <<up, accepting, state, req, sent, fin, seen, left, junk, entries,
          answered, restarts>>
client  == <<req, sent, fin>>
process == <<up, accepting, restarts>>
status  == <<entries, answered>>
output  == <<left, junk>>

\* "queued": in the listen backlog; "reading": in async_read_until; "proxying":
\* its handler blocks the thread; "writing": in async_write; "lost": the process
\* ended under it.
States == {"new", "queued", "reading", "proxying", "writing", "closed", "lost"}
Live   == {"queued", "reading", "proxying", "writing"}

TypeOK ==
    /\ up \in BOOLEAN
    /\ accepting \in BOOLEAN
    /\ state \in [Conns -> States]
    /\ req \in [Conns -> Requests]
    /\ sent \in [Conns -> 0 .. 2]
    /\ fin \in [Conns -> {"open", "eof", "reset"}]
    /\ seen \in [Conns -> {"none", "whole", "cut"}]
    /\ left \in [Conns -> Nat]
    /\ junk \in [Conns -> BOOLEAN]
    /\ entries \in Seq([n : Nat \ {0}, url : STRING, code : Nat])
    /\ answered \subseteq Conns
    /\ restarts \in Nat

Whole(c) == sent[c] >= IF req[c].body THEN 2 ELSE 1
Throws(r) == r.bare /\ r.handler \in {"static", "meme"}

Move(c, s) == state' = [state EXCEPT ![c] = s]

\* The process ends and every connection with it.
Die == /\ up' = FALSE
       /\ state' = [c \in Conns |-> IF state[c] \in Live THEN "lost" ELSE state[c]]

MutantFree == TRUE                       \* a second thread in io_service.run
Free == \A c \in Conns : state[c] # "proxying"

------------------------------------------------------------------------------
\* Clients.

Connect(c) ==
    /\ up /\ state[c] = "new"
    /\ Move(c, "queued")
    /\ UNCHANGED <<client, process, seen, output, status>>

\* The next piece of the request arrives: the rest of the header, then the body.
Send(c) ==
    /\ state[c] \in Live \cup {"closed"}
    /\ fin[c] = "open" /\ ~Whole(c)
    /\ sent' = [sent EXCEPT ![c] = @ + 1]
    /\ UNCHANGED <<req, fin, process, state, seen, output, status>>

\* The client ends its side in good order, or aborts.
End(c) ==
    /\ state[c] \in Live
    /\ \/ /\ fin[c] = "open"
          /\ fin' = [fin EXCEPT ![c] = "eof"]
       \/ /\ fin[c] # "reset" /\ "reset" \in Faults
          /\ fin' = [fin EXCEPT ![c] = "reset"]
    /\ UNCHANGED <<req, sent, process, state, seen, output, status>>

------------------------------------------------------------------------------
\* The acceptor.  handle_accept ends with start_accept, whatever happened.

MutantStartAccept(failed) == accepting' = ~failed   \* returns early on an error
StartAccept(failed) == accepting' = TRUE

Accept(c) ==
    /\ up /\ Free /\ accepting
    /\ state[c] = "queued"
    /\ Move(c, "reading")
    /\ StartAccept(FALSE)
    /\ UNCHANGED <<client, up, restarts, seen, output, status>>

\* No descriptor, say: the connection stays in the backlog.
AcceptError ==
    /\ up /\ Free /\ accepting
    /\ \E c \in Conns : state[c] = "queued"
    /\ StartAccept(TRUE)
    /\ UNCHANGED <<client, up, restarts, state, seen, output, status>>

------------------------------------------------------------------------------
\* handle_read.

\* "delete this" destroys a session that a shared_ptr in the running handler
\* destroys again: the heap may or may not notice.
DestroyTwice(c) ==
    \/ Move(c, "closed") /\ UNCHANGED up
    \/ Die

\* The delimiter has not come and will not: the last reference to the session
\* goes with the handler.
MutantReadEnded(c) == TRUE               \* gives up on a header in two pieces
ReadEnded(c) == fin[c] = "eof"
MutantReadEof(c) ==                      \* an end of file is an error like another
    /\ up /\ Free
    /\ state[c] = "reading" /\ sent[c] = 0 /\ ReadEnded(c)
    /\ DestroyTwice(c)
    /\ UNCHANGED <<client, accepting, restarts, seen, output, status>>
ReadEof(c) ==
    /\ up /\ Free
    /\ state[c] = "reading" /\ sent[c] = 0 /\ ReadEnded(c)
    /\ Move(c, "closed")
    /\ UNCHANGED <<client, process, seen, output, status>>

ReadError(c) ==
    /\ up /\ Free
    /\ state[c] = "reading" /\ fin[c] = "reset"
    /\ DestroyTwice(c)
    /\ UNCHANGED <<client, accepting, restarts, seen, output, status>>

\* The header is there: everything that has arrived by now is the request.  What
\* a client sent before it aborted can still be read, or has been discarded.
Dispatch(c) ==
    /\ up /\ Free
    /\ state[c] = "reading" /\ sent[c] >= 1
    /\ seen' = [seen EXCEPT ![c] = IF Whole(c) THEN "whole" ELSE "cut"]
    /\ UNCHANGED <<client, accepting, restarts>>

\* The answer is entered in the status list and async_write sends what the
\* socket takes at once: nothing, once the client has aborted.  httpresponse is a
\* local variable: what remains is sent after it has been destroyed.
MutantSentAtOnce == 0                    \* async_write that only queues
SentAtOnce == 1
Answer(c) ==
    /\ entries' = AddStatusEntry(entries, req[c].url, req[c].code)
    /\ answered' = answered \cup {c}
    /\ left' = [left EXCEPT ![c] =
                   req[c].chunks - IF fin[c] = "reset" THEN 0 ELSE SentAtOnce]
    /\ Move(c, "writing")
    /\ UNCHANGED <<up, junk>>

ServeLocal(c) ==
    /\ Dispatch(c)
    /\ req[c].handler # "proxy" /\ ~Throws(req[c])
    /\ Answer(c)

\* substr past the end of the path: nothing catches it before main.
ServeThrowing(c) ==
    /\ Dispatch(c)
    /\ Throws(req[c])
    /\ Die
    /\ UNCHANGED <<output, status>>

ServeProxy(c) ==
    /\ Dispatch(c)
    /\ req[c].handler = "proxy"
    /\ Move(c, "proxying")
    /\ UNCHANGED <<up, output, status>>

\* The other server has answered and closed.
ProxyReturn(c) ==
    /\ up /\ state[c] = "proxying"
    /\ Answer(c)
    /\ UNCHANGED <<client, accepting, restarts, seen>>

\* resolve, connect or read throws.
ProxyThrow(c) ==
    /\ up /\ state[c] = "proxying" /\ "upstream" \in Faults
    /\ Die
    /\ UNCHANGED <<client, accepting, restarts, seen, output, status>>

------------------------------------------------------------------------------
\* async_write and handle_write.

\* The next write reads the destroyed string: as it was, as something else, or
\* memory that is no longer mapped, which is an error of the write.
WriteMore(c) ==
    /\ up /\ Free
    /\ state[c] = "writing" /\ left[c] > 0 /\ fin[c] # "reset"
    /\ \/ /\ left' = [left EXCEPT ![c] = @ - 1]
          /\ \E b \in BOOLEAN : junk' = [junk EXCEPT ![c] = @ \/ b]
          /\ UNCHANGED <<up, state>>
       \/ /\ DestroyTwice(c)
          /\ UNCHANGED output
    /\ UNCHANGED <<client, accepting, restarts, seen, status>>

\* Shut down both ways; the session goes with its last reference.
WriteDone(c) ==
    /\ up /\ Free
    /\ state[c] = "writing" /\ left[c] = 0
    /\ Move(c, "closed")
    /\ UNCHANGED <<client, process, seen, output, status>>

WriteError(c) ==
    /\ up /\ Free
    /\ state[c] = "writing" /\ left[c] > 0 /\ fin[c] = "reset"
    /\ DestroyTwice(c)
    /\ UNCHANGED <<client, accepting, restarts, seen, output, status>>

\* Started again, by hand or by its container: nothing is remembered.
Restart ==
    /\ ~up /\ restarts < MaxRestarts
    /\ up' = TRUE /\ accepting' = TRUE
    /\ restarts' = restarts + 1
    /\ entries' = << >> /\ answered' = {}
    /\ UNCHANGED <<client, state, seen, output>>

------------------------------------------------------------------------------
Init ==
    /\ up = TRUE /\ accepting = TRUE
    /\ req \in [Conns -> Requests]
    /\ state = [c \in Conns |-> "new"]
    /\ sent  = [c \in Conns |-> 0]
    /\ fin   = [c \in Conns |-> "open"]
    /\ seen  = [c \in Conns |-> "none"]
    /\ left  = [c \in Conns |-> 0]
    /\ junk  = [c \in Conns |-> FALSE]
    /\ entries = << >> /\ answered = {}
    /\ restarts = 0

Loop(c) == \/ Accept(c) \/ ReadEof(c) \/ ReadError(c)
           \/ ServeLocal(c) \/ ServeThrowing(c) \/ ServeProxy(c)
           \/ WriteMore(c) \/ WriteDone(c) \/ WriteError(c)
Upstream(c) == ProxyReturn(c) \/ ProxyThrow(c)
Client(c)   == Connect(c) \/ Send(c) \/ End(c)

Next == \/ \E c \in Conns : Client(c) \/ Loop(c) \/ Upstream(c)
        \/ AcceptError
        \/ Restart

Spec == Init /\ [][Next]_vars

\* io_service runs what is ready in the order it became ready, so no handler
\* that stays ready is passed over for ever.
LoopFairness == \A c \in Conns : WF_vars(Loop(c))
LoopSpec == Spec /\ LoopFairness

\* Every server the proxy is configured for answers, sooner or later.
FairSpec == LoopSpec /\ \A c \in Conns : WF_vars(Upstream(c))

------------------------------------------------------------------------------
Key(c) == <<req[c].url, req[c].code>>
AnsweredWith(url, code) == {c \in answered : Key(c) = <<url, code>>}

\* The status page (status_handler.cc:42-51) is right about the past: it has one
\* line for every path and code answered since the process started, with the
\* number of requests answered so, however these were interleaved and although
\* crashes in between lose whole connections (session.cc:81, status_obj.cc:4-18).
StatusAccounts ==
    /\ \A c \in answered : Matches(entries, req[c].url, req[c].code) # {}
    /\ \A i \in DOMAIN entries :
          /\ Matches(entries, entries[i].url, entries[i].code) = {i}
          /\ entries[i].n = Cardinality(AnsweredWith(entries[i].url, entries[i].code))

\* The total the page begins with is the number of requests answered since the
\* process started (status_obj.cc:26-35).
TotalIsAnswered == GetStatusCalls(entries) = Cardinality(answered)

\* The thread is inside one handler at a time (server_main.cc:108), which is
\* what makes the unlocked status list and the meme database safe to use.
OneHandlerAtATime ==
    \A c, d \in Conns : state[c] = "proxying" /\ state[d] = "proxying" => c = d

\* A response the socket takes in one write reaches its client as it was built,
\* although the buffer is destroyed before the write completes (session.cc:47, :92).
SmallResponsesIntact ==
    \A c \in Conns :
        req[c].chunks = 1 => ~junk[c] /\ (fin[c] # "reset" => left[c] = 0)

\* The server hangs up on a client that is still there only after its request
\* was handed to a handler: a header in several pieces is waited for
\* (session.cc:28, :36-44; the half request of tests/integration_test_multi.sh).
NoHangUpUnanswered ==
    \A c \in Conns : state[c] = "closed" /\ fin[c] = "open" => seen[c] # "none"

\* Whether a connection can end the process: its client aborts, its handler throws
\* or waits for another server, or its response takes more than one write.
CanEndProcess(c) ==
    \/ fin[c] = "reset"
    \/ Throws(req[c])
    \/ req[c].handler = "proxy"
    \/ req[c].chunks > 1

\* The process ends only while it serves such a connection (session.cc:100, :119,
\* :92, server_main.cc:111): clients that hang up in good order, before, within or
\* after their request, never end it, however they interleave.
OnlySomeEndProcess ==
    [][up /\ ~up' => \E c \in Conns : state[c] \in Live /\ CanEndProcess(c)]_vars

\* Once its header has arrived, a request is answered and its connection closed,
\* whatever half-sent requests, idle connections, aborted clients, failed accepts
\* and slow upstream servers there are beside it, as long as no exception ends the
\* process.
EveryRequestAnswered ==
    []up => \A c \in Conns : state[c] \in {"queued", "reading"} /\ sent[c] >= 1
                                 ~> state[c] = "closed"
==============================================================================
