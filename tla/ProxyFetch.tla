------------------------------ MODULE ProxyFetch ------------------------------
(***************************************************************************)
(* ProxyHandler::HTTPRequest (proxy_handler.cc): one exchange with the     *)
(* server the proxy stands for.  That server sends a status line, a block  *)
(* of headers and a body, a piece at a time; how the pieces fall together  *)
(* in the reads of the handler is up to the network.                       *)
(*                                                                         *)
(* The pieces are numbered: 1 is the status line, 2 the headers, and the   *)
(* others are the body.  WebServer has the whole exchange as the time its  *)
(* thread spends in state "proxying".                                      *)
(***************************************************************************)
EXTENDS Naturals, Sequences, SequencesExt

CONSTANTS MaxBody,    \* bound on the pieces of a body
          MayBreak    \* whether the other server may break off or be unreachable

ASSUME FetchAssumption == MaxBody \in Nat /\ MayBreak \in BOOLEAN

\* What the other server has to say.  "length" is its Content-Length header: the
\* true one, none, or one that is not a number that fits.
Replies == [status : {"ok", "other", "junk"}, length : {"true", "none", "bad"},
            body : 0 .. MaxBody]

VARIABLES
    reply,    \* what the other server sends
    arrived,  \* pieces that have arrived
    ended,    \* "no", or how the other server ended the connection
    pc,       \* "connect", "status", "headers", "rest", "done" or "thrown"
    to,       \* pieces that have been read into it
    first,    \* length of last_portion
    body,     \* res_body
    notice    \* whether the answer is a notice instead of the body

vars == <<reply, arrived, ended, pc, to, first, body, notice>>
network == <<reply, arrived, ended>>

Total == 2 + reply.body
Pieces(a, b) == [i \in 1 .. b - a |-> a + i]

TypeOK ==
    /\ reply \in Replies
    /\ arrived \in 0 .. Total
    /\ ended \in {"no", "eof", "reset"}
    /\ pc \in {"connect", "status", "headers", "rest", "done", "thrown"}
    /\ to \in 0 .. arrived
    /\ first \in 0 .. MaxBody
    /\ body \in Seq(3 .. Total)
    /\ notice \in BOOLEAN

------------------------------------------------------------------------------
\* The other server.

Arrive ==
    /\ pc # "connect" /\ ended = "no" /\ arrived < Total
    /\ arrived' = arrived + 1
    /\ UNCHANGED <<reply, ended, pc, to, first, body, notice>>

\* It closes when it has sent everything, as "Connection: close" asks of it.
Close ==
    /\ ended = "no" /\ arrived = Total
    /\ ended' = "eof"
    /\ UNCHANGED <<reply, arrived, pc, to, first, body, notice>>

Break ==
    /\ MayBreak /\ pc # "connect" /\ ended = "no"
    /\ ended' \in {"eof", "reset"}
    /\ UNCHANGED <<reply, arrived, pc, to, first, body, notice>>

------------------------------------------------------------------------------
\* The handler.

Throw == pc' = "thrown" /\ UNCHANGED <<network, to, first, body, notice>>

\* resolve and connect throw when they fail; the request is written.
Connect ==
    /\ pc = "connect"
    /\ \/ /\ pc' = "status"
          /\ UNCHANGED <<network, to, first, body, notice>>
       \/ MayBreak /\ Throw

\* read_until returns at once if the buffer has the piece, and otherwise with
\* whatever has arrived when the piece is there; it throws at the end of the
\* connection.
ReadUntil(piece) ==
    \/ to >= piece /\ to' = to
    \/ to < piece /\ to' \in piece .. arrived

MutantCannotRead(piece) ==               \* the end of the connection is no error
    to < piece /\ arrived < piece /\ ended = "reset"
CannotRead(piece) == to < piece /\ arrived < piece /\ ended # "no"

ReadStatus ==
    /\ pc = "status"
    /\ \/ /\ ReadUntil(1)
          /\ IF reply.status = "ok" THEN pc' = "headers" /\ UNCHANGED notice
                                    ELSE pc' = "done" /\ notice' = TRUE
          /\ UNCHANGED <<network, first, body>>
       \/ CannotRead(1) /\ Throw

\* What is in the buffer after the headers is the beginning of the body; it
\* stays in the buffer.  It is all there is if Content-Length says so.
MutantWholeBody == TRUE                  \* never reads on
WholeBody == reply.length = "true" /\ to' - 2 = reply.body
ReadHeaders ==
    /\ pc = "headers"
    /\ \/ /\ ReadUntil(2) /\ reply.length # "bad"
          /\ first' = to' - 2
          /\ body' = body \o Pieces(2, to')
          /\ pc' = IF WholeBody THEN "done" ELSE "rest"
          /\ UNCHANGED <<network, notice>>
       \/ reply.length = "bad" /\ (to >= 2 \/ arrived >= 2) /\ Throw
       \/ CannotRead(2) /\ Throw

\* asio::read returns when the connection has ended, with everything that had
\* arrived, or after an abort with as much as was not thrown away; the error is
\* not looked at, and the read after it has nothing more.  What is appended is the
\* whole buffer, what was taken before included.
MutantAppended(a, b) == Pieces(b, b)     \* the buffer is emptied first
MutantWithHeaders(a, b) == Pieces(1, b)  \* the headers were left in the buffer
Appended(a, b) == Pieces(2, b)
ReadRest ==
    /\ pc = "rest" /\ ended # "no"
    /\ to' \in IF ended = "eof" THEN {arrived} ELSE to .. arrived
    /\ body' = IF to' = to THEN body ELSE body \o Appended(to, to')
    /\ pc' = "done"
    /\ UNCHANGED <<network, first, notice>>

------------------------------------------------------------------------------
Init ==
    /\ reply \in Replies
    /\ arrived = 0 /\ ended = "no"
    /\ pc = "connect"
    /\ to = 0 /\ first = 0
    /\ body = << >> /\ notice = FALSE

Handler == Connect \/ ReadStatus \/ ReadHeaders \/ ReadRest
Next == Arrive \/ Close \/ Break \/ Handler

Spec == Init /\ [][Next]_vars

\* The thread is in the handler until it returns; the other server goes on
\* sending until it is done and then closes, unless it breaks off.
FairSpec == Spec /\ WF_vars(Handler) /\ WF_vars(Arrive \/ Close)

------------------------------------------------------------------------------
\* However the pieces fall, the answer ends with the whole body the other server
\* sent, in order (proxy_handler.cc:162-181): nothing is lost between the buffer
\* of read_until and the reads that follow it.
NothingLost ==
    pc = "done" /\ ~notice /\ arrived = Total /\ ended # "reset"
        => IsSuffix(Pieces(2, Total), body)

\* Nothing but the body's beginning comes twice: the answer is the body itself
\* if all of it or nothing of it came along with the headers, and otherwise the
\* body after its beginning (proxy_handler.cc:164-179).
OnlyBeginningTwice ==
    pc = "done" /\ ~notice =>
        body = (IF first = to - 2 THEN << >> ELSE Pieces(2, 2 + first)) \o Pieces(2, to)

\* The exchange comes to an end, well or badly, so the thread gets back to the
\* other connections.
FetchEnds == <>(pc \in {"done", "thrown"})
==============================================================================
