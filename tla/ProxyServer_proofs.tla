-------------------------- MODULE ProxyServer_proofs --------------------------
(***************************************************************************)
(* Theorems about ProxyServer: it is a server of WebServer and its         *)
(* exchanges are exchanges of ProxyFetch, so what is proved of the two     *)
(* holds of their composition.                                             *)
(***************************************************************************)
EXTENDS ProxyServer, WebServer_proofs

FP == INSTANCE ProxyFetch_proofs

(***************************************************************************)
(* The refinement: a step of the composition is a step of the server, or   *)
(* one within an exchange that the server does not see.                    *)
(***************************************************************************)

LEMMA StepIsServerStep ==
    ASSUME [ProxyServerNext]_allVars
    PROVE  [Next]_vars
<1>1. CASE \E c \in Conns : LoopStep(c)
  BY <1>1 DEF LoopStep, Local, CallProxy, Next, Loop
<1>2. CASE \E c \in Conns : Client(c)
  BY <1>2 DEF Next
<1>3. CASE HandlerStep
  BY <1>3 DEF HandlerStep, ProxyAnswer, ProxyFails, Exchange, serverVars, Next, Upstream
<1>4. CASE OtherServer \/ Exchange(F!Break)
  BY <1>4 DEF OtherServer, Exchange, serverVars
<1>5. CASE AcceptError \/ Restart
  BY <1>5 DEF Next
<1>6. CASE UNCHANGED allVars
  BY <1>6 DEF allVars, serverVars
<1>7. QED BY <1>1, <1>2, <1>3, <1>4, <1>5, <1>6 DEF ProxyServerNext

\* The server with its exchanges never does what WebServer does not allow
\* (proxy_handler.cc:17-82): the safety part of ImplementsServer.
THEOREM ImplementsServerSafely == ProxyServerSpec => Spec
<1>1. ProxyServerInit => Init
  BY DEF ProxyServerInit, ServerInit
<1>2. [ProxyServerNext]_allVars => [Next]_vars
  BY StepIsServerStep
<1>3. QED BY <1>1, <1>2, PTL DEF ProxyServerSpec, Spec

(***************************************************************************)
(* The exchange.  F and FP are two instances of the same definitions.      *)
(***************************************************************************)

LEMMA SameInit == F!Init <=> FP!Init
BY DEF F!Init, FP!Init, F!Replies, FP!Replies

LEMMA SameNext == (F!Arrive \/ F!Close \/ F!Break \/ F!Handler) <=> FP!Next
BY DEF FP!Next, F!Handler, FP!Handler, F!Throw, FP!Throw, F!network, FP!network,
       F!Total, FP!Total, F!Pieces, FP!Pieces,
       F!Arrive, FP!Arrive, F!Close, FP!Close, F!Break, FP!Break,
       F!Connect, FP!Connect, F!ReadStatus, FP!ReadStatus, F!ReadUntil, FP!ReadUntil,
       F!CannotRead, FP!CannotRead, F!ReadHeaders, FP!ReadHeaders,
       F!WholeBody, FP!WholeBody, F!ReadRest, FP!ReadRest, F!Appended, FP!Appended

LEMMA SameTypeOK == F!TypeOK <=> FP!TypeOK
BY DEF F!TypeOK, FP!TypeOK, F!Replies, FP!Replies, F!Total, FP!Total

LEMMA SameBeginning == F!OnlyBeginningTwice <=> FP!OnlyBeginningTwice
BY DEF F!OnlyBeginningTwice, FP!OnlyBeginningTwice, F!Pieces, FP!Pieces

LEMMA SameNothingLost == F!NothingLost <=> FP!NothingLost
BY DEF F!NothingLost, FP!NothingLost, F!Total, FP!Total, F!Pieces, FP!Pieces,
       F!IsSuffix, FP!IsSuffix, F!IsPrefix, FP!IsPrefix, F!Reverse, FP!Reverse

\* What the proofs of ProxyFetch show of an exchange, at its beginning and from
\* step to step.
ExchangeOK == FP!IInv /\ FP!Complete

LEMMA ExchangeBegins == F!Init => ExchangeOK
BY SameInit, FP!InitIInv, ExchangeAssumption DEF ExchangeOK, FP!Init, FP!Complete

LEMMA ExchangeGoesOn ==
    ASSUME ExchangeOK, F!Arrive \/ F!Close \/ F!Break \/ F!Handler
    PROVE  ExchangeOK'
<1>1. FP!Next
  BY SameNext
<1>2. FP!IInv'
  BY <1>1, FP!HeadersStep, FP!RestStep, FP!OtherSteps, ExchangeAssumption
     DEF ExchangeOK, FP!Next, FP!Handler
<1>3. FP!Complete'
  BY <1>1, FP!CompleteStep, ExchangeAssumption DEF ExchangeOK
<1>4. QED BY <1>2, <1>3 DEF ExchangeOK

LEMMA ExchangeKept ==
    ASSUME ExchangeOK, UNCHANGED fetchVars
    PROVE  ExchangeOK'
<1>1. FP!IInv'
  <2>1. UNCHANGED FP!vars
    BY DEF fetchVars, FP!vars
  <2>2. QED BY <2>1, FP!OtherSteps, ExchangeAssumption DEF ExchangeOK
<1>2. FP!Complete'
  BY DEF ExchangeOK, FP!Complete, FP!Total, fetchVars
<1>3. QED BY <1>1, <1>2 DEF ExchangeOK

LEMMA ExchangeShows ==
    ExchangeOK => F!TypeOK /\ F!OnlyBeginningTwice /\ F!NothingLost
<1>1. ExchangeOK => FP!TypeOK /\ FP!OnlyBeginningTwice
  BY DEF ExchangeOK, FP!IInv, FP!Progress
<1>2. ExchangeOK => FP!NothingLost
  BY FP!CompleteSuffices, ExchangeAssumption DEF ExchangeOK
<1>3. QED BY <1>1, <1>2, SameTypeOK, SameBeginning, SameNothingLost

(***************************************************************************)
(* The inductive invariant: an exchange that goes on is one of ProxyFetch, *)
(* and a process that has ended leaves none that the next process would    *)
(* find itself in.                                                         *)
(***************************************************************************)

NoneOutlives == ~up => Free

EInv == /\ NoneOutlives
        /\ Exchanging => ExchangeOK

LEMMA NoneOutlivesStep ==
    ASSUME TypeOK, NoneOutlives, [Next]_vars
    PROVE  NoneOutlives'
<1>1. Die => Free'
  BY DEF Die, Free, Live, TypeOK
<1>2. \/ Die
      \/ up'
      \/ UNCHANGED <<up, state>>
      \/ ~up /\ UNCHANGED state
  <2>1. CASE AcceptError \/ Restart \/ UNCHANGED vars
    BY <2>1 DEF AcceptError, Restart, vars
  <2>2. CASE \E c \in Conns : Client(c) \/ Upstream(c)
    BY <2>2 DEF Client, Connect, Send, End, Upstream, ProxyReturn, ProxyThrow, Answer, process
  <2>3. CASE \E c \in Conns : Loop(c)
    BY <2>3 DEF Loop, Accept, ReadEof, ReadError, DestroyTwice, ServeLocal, ServeThrowing,
                ServeProxy, Dispatch, Answer, WriteMore, WriteDone, WriteError, process
  <2>4. QED BY <2>1, <2>2, <2>3 DEF Next
<1>3. QED BY <1>1, <1>2 DEF NoneOutlives, Free

\* What begins no exchange leaves the process in none that was not there.
LEMMA LocalStep ==
    ASSUME TypeOK, NoneOutlives, NEW c \in Conns,
           \/ Local(c) \/ Client(c) \/ ProxyReturn(c) \/ ProxyThrow(c)
           \/ AcceptError \/ Restart
    PROVE  Exchanging' => Exchanging
<1>1. CASE \E s \in States \ {"proxying"} : Move(c, s) /\ (up \/ UNCHANGED up)
  BY <1>1 DEF Move, Exchanging, Free, NoneOutlives, TypeOK
<1>2. CASE Die
  BY <1>2 DEF Die, Exchanging
<1>3. CASE UNCHANGED state
  BY <1>3 DEF Exchanging, Free, NoneOutlives
<1>4. QED
  BY <1>1, <1>2, <1>3
     DEF Local, Client, Connect, Send, End, Accept, AcceptError, ReadEof,
         ReadError, DestroyTwice, ServeLocal, ServeThrowing, Dispatch,
         Answer, ProxyReturn, ProxyThrow, WriteMore, WriteDone, WriteError, Restart,
         States, process, client

LEMMA EInvStep ==
    ASSUME TypeOK, EInv, [ProxyServerNext]_allVars, (F!Init => ExchangeOK)'
    PROVE  EInv'
<1>1. NoneOutlives'
  BY StepIsServerStep, NoneOutlivesStep DEF EInv
<1>2. CASE UNCHANGED fetchVars /\ (Exchanging' => Exchanging)
  BY <1>1, <1>2, ExchangeKept DEF EInv
<1>3. ASSUME NEW c \in Conns, LoopStep(c)
      PROVE  EInv'
  <2>1. CASE Local(c) /\ UNCHANGED fetchVars
    BY <1>2, <2>1, LocalStep DEF EInv
  <2>2. CASE CallProxy(c)
    <3>1. F!Init'
      BY <2>2 DEF CallProxy, NewExchange, F!Init
    <3>2. QED BY <1>1, <3>1 DEF EInv
  <2>3. QED BY <1>3, <2>1, <2>2 DEF LoopStep
<1>4. ASSUME NEW c \in Conns, Client(c), UNCHANGED fetchVars
      PROVE  EInv'
  BY <1>2, <1>4, LocalStep DEF EInv
<1>5. ASSUME NEW c \in Conns, ProxyAnswer(c) \/ ProxyFails(c)
      PROVE  EInv'
  BY <1>2, <1>5, LocalStep DEF EInv, ProxyAnswer, ProxyFails
<1>6. CASE Exchange(F!Handler) \/ OtherServer \/ Exchange(F!Break)
  <2>1. Exchanging /\ (F!Arrive \/ F!Close \/ F!Break \/ F!Handler)
    BY <1>6 DEF OtherServer, Exchange
  <2>2. QED BY <1>1, <2>1, ExchangeGoesOn DEF EInv
<1>7. CASE (AcceptError \/ Restart) /\ UNCHANGED fetchVars
  <2>1. CASE Conns = {}
    <3>1. Free'
      BY <2>1 DEF Free
    <3>2. QED BY <1>1, <3>1 DEF EInv, Exchanging
  <2>2. CASE Conns # {}
    BY <1>2, <1>7, <2>2, LocalStep DEF EInv
  <2>3. QED BY <2>1, <2>2
<1>8. CASE UNCHANGED allVars
  BY <1>2, <1>8 DEF allVars, serverVars, vars, Exchanging, Free
<1>9. QED
  BY <1>3, <1>4, <1>5, <1>6, <1>7, <1>8 DEF ProxyServerNext, HandlerStep

\* Each exchange begins with empty buffers: what one client is sent is the body of
\* its own exchange, whatever an earlier one read or left unread
\* (proxy_handler.cc:100-103, :166).
THEOREM OwnExchange == ProxyServerSpec => []ExchangeIsItsOwn
<1>1. ProxyServerInit => EInv
  BY DEF ProxyServerInit, ServerInit, Init, EInv, NoneOutlives, Exchanging, Free
<1>2. TypeOK /\ EInv /\ [ProxyServerNext]_allVars /\ (F!Init => ExchangeOK)' => EInv'
  BY EInvStep
<1>3. EInv => ExchangeIsItsOwn
  BY ExchangeShows DEF EInv, ExchangeIsItsOwn
<1>4. QED
  BY <1>1, <1>2, <1>3, ExchangeBegins, ImplementsServerSafely, TypeCorrect, PTL
     DEF ProxyServerSpec

\* What is proved of WebServer holds with any number of exchanges going on in the
\* other server: the status page accounts for the answers, one handler runs at a
\* time, small responses arrive as they were built, nobody is hung up on unanswered,
\* and clients that end in good order do not end the process.
THEOREM ServerTheorems ==
    ProxyServerSpec => /\ [](/\ StatusAccounts
                             /\ OneHandlerAtATime
                             /\ SmallResponsesIntact
                             /\ NoHangUpUnanswered)
                       /\ OnlySomeEndProcess
BY ImplementsServerSafely, StatusIsRight, OneAtATime, SmallIntact, HangUpAfterRequest,
   OnlySomeEnd, PTL
==============================================================================
