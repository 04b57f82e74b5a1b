--------------------------- MODULE WebServer_proofs ---------------------------
(***************************************************************************)
(* Theorems about WebServer for every value of its constants.              *)
(***************************************************************************)
EXTENDS WebServer, TextLemmas, FiniteSetTheorems

EntryType == [n : Nat \ {0}, url : STRING, code : Nat]

\* No two entries of the list are about the same path and code.
Unique(list) ==
    \A i \in DOMAIN list : Matches(list, list[i].url, list[i].code) = {i}

(***************************************************************************)
(* StatusObject                                                            *)
(***************************************************************************)

\* A path and code that the list does not have gets an entry at its end.
LEMMA AddNew ==
    ASSUME NEW list \in Seq(EntryType), NEW url \in STRING, NEW code \in Nat,
           Matches(list, url, code) = {}
    PROVE  LET new == AddStatusEntry(list, url, code)
           IN  /\ new \in Seq(EntryType)
               /\ DOMAIN new = DOMAIN list \cup {Len(list) + 1}
               /\ Len(list) + 1 \notin DOMAIN list
               /\ new[Len(list) + 1] = Entry(1, url, code)
               /\ \A i \in DOMAIN list : new[i] = list[i]
<1>1. AddStatusEntry(list, url, code) = Append(list, Entry(1, url, code))
  BY DEF AddStatusEntry
<1>2. Entry(1, url, code) \in EntryType
  BY DEF Entry, EntryType
<1> DEFINE e == Entry(1, url, code)
           new == Append(list, e)
<1>3. e \in EntryType
  BY <1>2
<1> HIDE DEF e
<1>4. /\ new \in Seq(EntryType) /\ Len(new) = Len(list) + 1
      /\ new[Len(list) + 1] = e
      /\ \A i \in 1 .. Len(list) : new[i] = list[i]
  BY <1>3, AppendProperties
<1> HIDE DEF new
<1>5. /\ Len(list) \in Nat
      /\ DOMAIN list = 1 .. Len(list)
      /\ DOMAIN new = 1 .. Len(new)
  BY <1>4
<1>6. DOMAIN new = DOMAIN list \cup {Len(list) + 1} /\ Len(list) + 1 \notin DOMAIN list
  BY <1>4, <1>5
<1>7. AddStatusEntry(list, url, code) = new
  BY <1>1 DEF new, e
<1>8. QED BY <1>4, <1>5, <1>6, <1>7 DEF e

\* One that the list has, has it once, and that entry alone is counted up.
LEMMA AddKnown ==
    ASSUME NEW list \in Seq(EntryType), NEW url \in STRING, NEW code \in Nat,
           Unique(list), NEW k \in Matches(list, url, code)
    PROVE  LET new == AddStatusEntry(list, url, code)
           IN  /\ new \in Seq(EntryType)
               /\ DOMAIN new = DOMAIN list
               /\ \A i \in DOMAIN list :
                     new[i] = Entry(IF i = k THEN list[i].n + 1 ELSE list[i].n,
                                    list[i].url, list[i].code)
<1>1. k \in DOMAIN list /\ list[k].url = url /\ list[k].code = code
  BY DEF Matches
<1>2. Matches(list, url, code) = {k}
  BY <1>1 DEF Unique
<1>3. (CHOOSE i \in {k} : \A j \in {k} : i <= j) = k
  <2>1. k \in Nat
    BY <1>1
  <2>2. QED BY <2>1
<1>4. AddStatusEntry(list, url, code) = [list EXCEPT ![k].n = @ + 1]
  BY <1>2, <1>3 DEF AddStatusEntry
<1>5. \A i \in DOMAIN list : list[i] \in EntryType
  OBVIOUS
<1>6. \A i \in DOMAIN list :
        [list EXCEPT ![k].n = @ + 1][i] =
            Entry(IF i = k THEN list[i].n + 1 ELSE list[i].n,
                  list[i].url, list[i].code)
  BY <1>1, <1>5 DEF EntryType, Entry
<1>7. [list EXCEPT ![k].n = @ + 1] \in Seq(EntryType)
  <2>1. [list[k] EXCEPT !.n = @ + 1] \in EntryType
    BY <1>1, <1>5 DEF EntryType
  <2>2. QED BY <2>1, <1>1
<1>8. QED BY <1>4, <1>6, <1>7

(***************************************************************************)
(* The inductive invariant.  The counts are right only while no connection *)
(* is answered twice, so where answered connections can be is part of it;  *)
(* a connection is hung up on from a state it entered with its request in  *)
(* a handler.                                                              *)
(***************************************************************************)

AnsweredPlaces == \A c \in answered : state[c] \in {"writing", "closed", "lost"}

Handled == \A c \in Conns : state[c] \in {"proxying", "writing"} => seen[c] # "none"

\* Only a proxied request blocks the thread.
ProxyIsProxy == \A c \in Conns : state[c] = "proxying" => req[c].handler = "proxy"

ConnectionsOK == /\ AnsweredPlaces
                 /\ Handled
                 /\ OneHandlerAtATime
                 /\ SmallResponsesIntact
                 /\ NoHangUpUnanswered

IInv == TypeOK /\ StatusAccounts /\ ConnectionsOK /\ ProxyIsProxy

LEMMA RequestFields ==
    ASSUME TypeOK, NEW c \in Conns
    PROVE  /\ req[c].url \in STRING
           /\ req[c].code \in Nat
           /\ req[c].chunks \in Nat \ {0}
BY RequestAssumption DEF TypeOK, RequestType

LEMMA AnswerType ==
    ASSUME TypeOK, StatusAccounts, NEW c \in Conns, Answer(c)
    PROVE  /\ entries' \in Seq(EntryType)
           /\ answered' \subseteq Conns
           /\ left' \in [Conns -> Nat]
           /\ state' \in [Conns -> States]
           /\ up' \in BOOLEAN
           /\ junk' \in [Conns -> BOOLEAN]
<1>1. /\ req[c].url \in STRING /\ req[c].code \in Nat
      /\ req[c].chunks \in Nat \ {0}
  BY RequestFields
<1>2. entries \in Seq(EntryType) /\ Unique(entries)
  BY DEF TypeOK, EntryType, StatusAccounts, Unique
<1>3. entries' \in Seq(EntryType)
  <2>1. CASE Matches(entries, req[c].url, req[c].code) = {}
    BY <2>1, <1>1, <1>2, AddNew DEF Answer
  <2>2. CASE Matches(entries, req[c].url, req[c].code) # {}
    <3>1. PICK k \in Matches(entries, req[c].url, req[c].code) : TRUE
      BY <2>2
    <3>2. QED BY <3>1, <1>1, <1>2, AddKnown DEF Answer
  <2>3. QED BY <2>1, <2>2
<1>4. left' \in [Conns -> Nat]
  <2>1. req[c].chunks - (IF fin[c] = "reset" THEN 0 ELSE SentAtOnce) \in Nat
    BY <1>1 DEF SentAtOnce
  <2>2. QED BY <2>1 DEF Answer, TypeOK
<1>5. QED BY <1>3, <1>4 DEF Answer, TypeOK, Move, States

\* What every step leaves well typed.
LEMMA TypeStep ==
    ASSUME TypeOK, StatusAccounts, [Next]_vars
    PROVE  TypeOK'
<1> USE DEF TypeOK, States, Move, client, process, status, output
<1>1. ASSUME NEW c \in Conns, Client(c) PROVE TypeOK'
  <2>1. CASE Connect(c) BY <2>1 DEF Connect
  <2>2. CASE Send(c)
    <3>1. sent[c] \in 0 .. 1
      BY <2>2 DEF Send, Whole
    <3>2. sent[c] + 1 \in 0 .. 2
      BY <3>1
    <3>3. sent' \in [Conns -> 0 .. 2]
      BY <2>2, <3>2 DEF Send
    <3>4. QED BY <2>2, <3>3 DEF Send
  <2>3. CASE End(c) BY <2>3 DEF End
  <2>4. QED BY <1>1, <2>1, <2>2, <2>3 DEF Client
<1>2. ASSUME NEW c \in Conns, Loop(c) PROVE TypeOK'
  <2>1. CASE Accept(c) BY <2>1 DEF Accept, StartAccept
  <2>2. CASE ReadEof(c) BY <2>2 DEF ReadEof
  <2>3. CASE ReadError(c) BY <2>3 DEF ReadError, DestroyTwice, Die
  <2>4. CASE ServeLocal(c) BY <2>4, AnswerType DEF ServeLocal, Dispatch, EntryType
  <2>5. CASE ServeThrowing(c) BY <2>5 DEF ServeThrowing, Dispatch, Die
  <2>6. CASE ServeProxy(c) BY <2>6 DEF ServeProxy, Dispatch
  <2>7. CASE WriteMore(c)
    <3>1. CASE DestroyTwice(c) /\ UNCHANGED output
      BY <2>7, <3>1 DEF WriteMore, DestroyTwice, Die
    <3>2. CASE /\ left[c] > 0 /\ left' = [left EXCEPT ![c] = @ - 1]
               /\ \E b \in BOOLEAN : junk' = [junk EXCEPT ![c] = @ \/ b]
               /\ UNCHANGED <<up, state>>
      <4>1. left' \in [Conns -> Nat]
        BY <3>2
      <4>2. junk' \in [Conns -> BOOLEAN]
        BY <3>2
      <4>3. QED BY <2>7, <3>2, <4>1, <4>2 DEF WriteMore
    <3>3. QED BY <2>7, <3>1, <3>2 DEF WriteMore
  <2>8. CASE WriteDone(c) BY <2>8 DEF WriteDone
  <2>9. CASE WriteError(c) BY <2>9 DEF WriteError, DestroyTwice, Die
  <2>10. QED BY <1>2, <2>1, <2>2, <2>3, <2>4, <2>5, <2>6, <2>7, <2>8, <2>9 DEF Loop
<1>3. ASSUME NEW c \in Conns, Upstream(c) PROVE TypeOK'
  <2>1. CASE ProxyReturn(c) BY <2>1, AnswerType DEF ProxyReturn, EntryType
  <2>2. CASE ProxyThrow(c) BY <2>2 DEF ProxyThrow, Die
  <2>3. QED BY <1>3, <2>1, <2>2 DEF Upstream
<1>4. CASE AcceptError BY <1>4 DEF AcceptError, StartAccept
<1>5. CASE Restart BY <1>5 DEF Restart
<1>6. CASE UNCHANGED vars BY <1>6 DEF vars
<1>7. QED BY <1>1, <1>2, <1>3, <1>4, <1>5, <1>6 DEF Next

(***************************************************************************)
(* The status list                                                         *)
(***************************************************************************)

Among(conns, url, code) == {c \in conns : Key(c) = <<url, code>>}

\* A connection that is answered for the first time is one more of its path and
\* code, and none of any other.
LEMMA OneMore ==
    ASSUME NEW done \in SUBSET Conns, NEW c \in Conns \ done, NEW url, NEW code
    PROVE  Cardinality(Among(done \cup {c}, url, code)) =
               IF Key(c) = <<url, code>> THEN Cardinality(Among(done, url, code)) + 1
                                         ELSE Cardinality(Among(done, url, code))
<1>1. IsFiniteSet(Among(done, url, code))
  <2>1. Among(done, url, code) \subseteq Conns
    BY DEF Among
  <2>2. QED BY <2>1, ConnAssumption, FS_Subset
<1>2. c \notin Among(done, url, code)
  BY DEF Among
<1>3. Among(done \cup {c}, url, code) =
          IF Key(c) = <<url, code>> THEN Among(done, url, code) \cup {c}
                                    ELSE Among(done, url, code)
  BY DEF Among
<1>4. Cardinality(Among(done, url, code) \cup {c}) = Cardinality(Among(done, url, code)) + 1
  BY <1>1, <1>2, FS_AddElement
<1>5. QED BY <1>3, <1>4

\* StatusAccounts after a step that leaves the requests alone.
LEMMA Recount ==
    ASSUME req' = req,
           \A d \in answered' : Matches(entries', req[d].url, req[d].code) # {},
           \A i \in DOMAIN entries' :
              /\ Matches(entries', entries'[i].url, entries'[i].code) = {i}
              /\ entries'[i].n =
                     Cardinality(Among(answered', entries'[i].url, entries'[i].code))
    PROVE  StatusAccounts'
BY DEF StatusAccounts, AnsweredWith, Among, Key, Matches

\* The list stays right when a connection is answered.
LEMMA AnswerCounts ==
    ASSUME TypeOK, StatusAccounts, NEW c \in Conns \ answered, Answer(c), req' = req
    PROVE  StatusAccounts'
<1> DEFINE u == req[c].url
           k == req[c].code
           same == Matches(entries, u, k)
           Later(url, code) == Among(answered', url, code)
<1>0. /\ \A url, code : AnsweredWith(url, code) = Among(answered, url, code)
      /\ answered \subseteq Conns
  BY DEF AnsweredWith, Among, TypeOK
<1>1. u \in STRING /\ k \in Nat
  BY RequestFields
<1>2. entries \in Seq(EntryType) /\ Unique(entries)
  BY DEF TypeOK, EntryType, StatusAccounts, Unique
<1>3. entries' = AddStatusEntry(entries, u, k) /\ answered' = answered \cup {c}
  BY DEF Answer
<1>4. ASSUME NEW i \in DOMAIN entries
      PROVE  /\ Matches(entries, entries[i].url, entries[i].code) = {i}
             /\ entries[i].n = Cardinality(Among(answered, entries[i].url, entries[i].code))
  BY <1>0 DEF StatusAccounts
<1>5. CASE same = {}
  <2> DEFINE last == Len(entries) + 1
  <2>1. /\ DOMAIN entries' = DOMAIN entries \cup {last}
        /\ last \notin DOMAIN entries
        /\ entries'[last] = Entry(1, u, k)
        /\ \A i \in DOMAIN entries : entries'[i] = entries[i]
    <3> DEFINE list == AddStatusEntry(entries, u, k)
    <3> HIDE DEF u, k
    <3>1. /\ DOMAIN list = DOMAIN entries \cup {Len(entries) + 1}
          /\ Len(entries) + 1 \notin DOMAIN entries
          /\ list[Len(entries) + 1] = Entry(1, u, k)
          /\ \A i \in DOMAIN entries : list[i] = entries[i]
      BY <1>1, <1>2, <1>5, AddNew
    <3>2. QED BY <1>3, <3>1
  <2> HIDE DEF last
  <2>2. entries'[last].url = u /\ entries'[last].code = k /\ entries'[last].n = 1
    BY <2>1 DEF Entry
  <2>3. \A url, code : Matches(entries', url, code) =
            IF url = u /\ code = k THEN {last} ELSE Matches(entries, url, code)
    BY <1>5, <2>1, <2>2 DEF Matches
  <2>4. \A d \in answered' : Matches(entries', req[d].url, req[d].code) # {}
    BY <1>3, <2>3 DEF StatusAccounts
  <2>5. ASSUME NEW i \in DOMAIN entries
        PROVE  /\ Matches(entries', entries'[i].url, entries'[i].code) = {i}
               /\ entries'[i].n =
                      Cardinality(Later(entries'[i].url, entries'[i].code))
    <3>1. entries[i].url # u \/ entries[i].code # k
      BY <1>5 DEF Matches
    <3>2. Key(c) # <<entries[i].url, entries[i].code>>
      BY <3>1 DEF Key
    <3>3. Cardinality(Later(entries[i].url, entries[i].code))
              = Cardinality(Among(answered, entries[i].url, entries[i].code))
      BY <1>0, <1>3, <3>2, OneMore
    <3>4. QED BY <1>4, <2>1, <2>3, <3>1, <3>3
  <2>6. 1 = Cardinality(Later(u, k))
    <3>1. Among(answered, u, k) = {}
      BY <1>5 DEF Among, Key, StatusAccounts
    <3>2. Cardinality(Later(u, k)) = Cardinality(Among(answered, u, k)) + 1
      BY <1>0, <1>3, OneMore DEF Key
    <3>3. QED BY <3>1, <3>2, FS_EmptySet
  <2>7. ASSUME NEW i \in DOMAIN entries'
        PROVE  /\ Matches(entries', entries'[i].url, entries'[i].code) = {i}
               /\ entries'[i].n = Cardinality(Later(entries'[i].url, entries'[i].code))
    BY <2>1, <2>2, <2>3, <2>5, <2>6
  <2>8. QED BY <2>4, <2>7, Recount
<1>6. CASE same # {}
  <2>1. PICK j \in same : TRUE
    BY <1>6
  <2>2. /\ DOMAIN entries' = DOMAIN entries
        /\ \A i \in DOMAIN entries :
              entries'[i] = Entry(IF i = j THEN entries[i].n + 1 ELSE entries[i].n,
                                  entries[i].url, entries[i].code)
    BY <1>1, <1>2, <1>3, <2>1, AddKnown
  <2>3. \A i \in DOMAIN entries :
            /\ entries'[i].url = entries[i].url
            /\ entries'[i].code = entries[i].code
            /\ entries'[i].n = IF i = j THEN entries[i].n + 1 ELSE entries[i].n
    BY <2>2 DEF Entry
  <2>4. \A url, code : Matches(entries', url, code) = Matches(entries, url, code)
    BY <2>2, <2>3 DEF Matches
  <2>5. \A d \in answered' : Matches(entries', req[d].url, req[d].code) # {}
    BY <1>3, <1>6, <2>4 DEF StatusAccounts
  <2>6. ASSUME NEW i \in DOMAIN entries
        PROVE  entries'[i].n =
                   Cardinality(Later(entries[i].url, entries[i].code))
    <3>1. CASE i = j
      <4>1. Key(c) = <<entries[i].url, entries[i].code>>
        BY <2>1, <3>1 DEF Matches, Key
      <4>2. QED BY <1>0, <1>3, <1>4, <2>3, <3>1, <4>1, OneMore
    <3>2. CASE i # j
      <4>1. Key(c) # <<entries[i].url, entries[i].code>>
        <5>1. j \in DOMAIN entries
          BY <2>1 DEF Matches
        <5>2. ASSUME entries[i].url = u, entries[i].code = k PROVE FALSE
          BY <1>4, <2>1, <3>2, <5>2
        <5>3. QED BY <5>2 DEF Key
      <4>2. QED BY <1>0, <1>3, <1>4, <2>3, <3>2, <4>1, OneMore
    <3>3. QED BY <3>1, <3>2
  <2>7. ASSUME NEW i \in DOMAIN entries'
        PROVE  /\ Matches(entries', entries'[i].url, entries'[i].code) = {i}
               /\ entries'[i].n = Cardinality(Later(entries'[i].url, entries'[i].code))
    BY <1>4, <2>2, <2>3, <2>4, <2>6
  <2>8. QED BY <2>5, <2>7, Recount
<1>7. QED BY <1>5, <1>6

LEMMA CountsKept ==
    ASSUME StatusAccounts, UNCHANGED <<entries, answered, req>>
    PROVE  StatusAccounts'
BY DEF StatusAccounts, AnsweredWith, Matches, Key

LEMMA CountsStep ==
    ASSUME IInv, [Next]_vars
    PROVE  StatusAccounts'
<1> USE DEF client, status
<1>0. TypeOK /\ StatusAccounts /\ AnsweredPlaces
  BY DEF IInv, ConnectionsOK
<1>1. ASSUME NEW c \in Conns, Client(c) PROVE StatusAccounts'
  BY <1>0, <1>1, CountsKept DEF Client, Connect, Send, End
<1>2. ASSUME NEW c \in Conns, Loop(c) PROVE StatusAccounts'
  <2>1. CASE Accept(c) BY <1>0, <2>1, CountsKept DEF Accept
  <2>2. CASE ReadEof(c) BY <1>0, <2>2, CountsKept DEF ReadEof
  <2>3. CASE ReadError(c) BY <1>0, <2>3, CountsKept DEF ReadError
  <2>4. CASE ServeLocal(c)
    <3>1. c \notin answered /\ Answer(c) /\ req' = req
      BY <1>0, <2>4 DEF ServeLocal, Dispatch, AnsweredPlaces
    <3>2. QED BY <1>0, <3>1, AnswerCounts
  <2>5. CASE ServeThrowing(c) BY <1>0, <2>5, CountsKept DEF ServeThrowing, Dispatch
  <2>6. CASE ServeProxy(c) BY <1>0, <2>6, CountsKept DEF ServeProxy, Dispatch
  <2>7. CASE WriteMore(c) BY <1>0, <2>7, CountsKept DEF WriteMore
  <2>8. CASE WriteDone(c) BY <1>0, <2>8, CountsKept DEF WriteDone
  <2>9. CASE WriteError(c) BY <1>0, <2>9, CountsKept DEF WriteError
  <2>10. QED BY <1>2, <2>1, <2>2, <2>3, <2>4, <2>5, <2>6, <2>7, <2>8, <2>9 DEF Loop
<1>3. ASSUME NEW c \in Conns, Upstream(c) PROVE StatusAccounts'
  <2>1. CASE ProxyReturn(c)
    <3>1. c \notin answered /\ Answer(c) /\ req' = req
      BY <1>0, <2>1 DEF ProxyReturn, AnsweredPlaces
    <3>2. QED BY <1>0, <3>1, AnswerCounts
  <2>2. CASE ProxyThrow(c) BY <1>0, <2>2, CountsKept DEF ProxyThrow
  <2>3. QED BY <1>3, <2>1, <2>2 DEF Upstream
<1>4. CASE AcceptError BY <1>0, <1>4, CountsKept DEF AcceptError
<1>5. CASE Restart BY <1>5 DEF Restart, StatusAccounts
<1>6. CASE UNCHANGED vars BY <1>0, <1>6, CountsKept DEF vars
<1>7. QED BY <1>1, <1>2, <1>3, <1>4, <1>5, <1>6 DEF Next

(***************************************************************************)
(* The connections                                                         *)
(***************************************************************************)

\* What is still being written is not a small response, and has been handled.
LEMMA WriteMoreConnections ==
    ASSUME TypeOK, ConnectionsOK, NEW c \in Conns, WriteMore(c)
    PROVE  ConnectionsOK'
<1>1. /\ state[c] = "writing" /\ left[c] > 0 /\ fin[c] # "reset"
      /\ UNCHANGED <<req, sent, fin, seen, answered>>
  BY DEF WriteMore, client, status
<1>2. seen[c] # "none"
  BY <1>1 DEF ConnectionsOK, Handled
<1>3. req[c].chunks # 1
  <2>1. left[c] # 0
    BY <1>1
  <2>2. QED BY <1>1, <2>1 DEF ConnectionsOK, SmallResponsesIntact
<1>4. /\ state' \in [Conns -> States]
      /\ \A d \in Conns : state'[d] # state[d] =>
             state'[d] = "lost" \/ (state'[d] = "closed" /\ d = c)
  BY DEF WriteMore, DestroyTwice, Move, Die, TypeOK, States
<1>5. \A d \in Conns \ {c} : left'[d] = left[d] /\ junk'[d] = junk[d]
  BY DEF WriteMore, output, TypeOK
<1>6. AnsweredPlaces' /\ Handled' /\ OneHandlerAtATime' /\ NoHangUpUnanswered'
  <2>1. AnsweredPlaces' BY <1>1, <1>4 DEF ConnectionsOK, AnsweredPlaces, TypeOK
  <2>2. Handled' BY <1>1, <1>4 DEF ConnectionsOK, Handled
  <2>3. OneHandlerAtATime' BY <1>4 DEF ConnectionsOK, OneHandlerAtATime
  <2>4. NoHangUpUnanswered'
    BY <1>1, <1>2, <1>4 DEF ConnectionsOK, NoHangUpUnanswered
  <2>5. QED BY <2>1, <2>2, <2>3, <2>4
<1>7. SmallResponsesIntact'
  BY <1>1, <1>3, <1>5 DEF ConnectionsOK, SmallResponsesIntact
<1>8. QED BY <1>6, <1>7 DEF ConnectionsOK

\* A connection that ends after its client has aborted, whatever becomes of the
\* process.
LEMMA EndedConnections ==
    ASSUME TypeOK, ConnectionsOK, NEW c \in Conns, DestroyTwice(c), fin[c] = "reset",
           UNCHANGED <<req, fin, seen, left, junk, answered>>
    PROVE  ConnectionsOK'
<1>1. \A d \in Conns : state'[d] # state[d] =>
          state'[d] = "lost" \/ (state'[d] = "closed" /\ d = c)
  BY DEF DestroyTwice, Move, Die, TypeOK
<1>2. AnsweredPlaces'
  BY <1>1 DEF ConnectionsOK, AnsweredPlaces, TypeOK
<1>3. Handled'
  BY <1>1 DEF ConnectionsOK, Handled
<1>4. OneHandlerAtATime'
  BY <1>1 DEF ConnectionsOK, OneHandlerAtATime
<1>5. SmallResponsesIntact'
  BY DEF ConnectionsOK, SmallResponsesIntact
<1>6. NoHangUpUnanswered'
  BY <1>1 DEF ConnectionsOK, NoHangUpUnanswered
<1>7. QED BY <1>2, <1>3, <1>4, <1>5, <1>6 DEF ConnectionsOK

\* What is answered is written, or waits for its next write if it is not small.
LEMMA AnswerConnections ==
    ASSUME TypeOK, ConnectionsOK, NEW c \in Conns, Answer(c),
           req' = req, fin' = fin, seen' \in [Conns -> {"none", "whole", "cut"}],
           seen'[c] # "none", \A d \in Conns \ {c} : seen'[d] = seen[d]
    PROVE  ConnectionsOK'
<1>1. /\ answered' = answered \cup {c}
      /\ state' = [state EXCEPT ![c] = "writing"]
      /\ junk' = junk
      /\ \A d \in Conns \ {c} : left'[d] = left[d]
  BY DEF Answer, Move, TypeOK
<1>2. /\ state'[c] = "writing"
      /\ \A d \in Conns \ {c} : state'[d] = state[d]
  BY <1>1 DEF TypeOK
<1>3. req[c].chunks = 1 /\ fin[c] # "reset" => left'[c] = 0
  BY DEF Answer, SentAtOnce, TypeOK
<1>4. AnsweredPlaces'
  BY <1>1, <1>2 DEF ConnectionsOK, AnsweredPlaces, TypeOK
<1>5. Handled'
  BY <1>2 DEF ConnectionsOK, Handled
<1>6. OneHandlerAtATime'
  BY <1>2 DEF ConnectionsOK, OneHandlerAtATime
<1>7. SmallResponsesIntact'
  BY <1>1, <1>3 DEF ConnectionsOK, SmallResponsesIntact
<1>8. NoHangUpUnanswered'
  BY <1>2 DEF ConnectionsOK, NoHangUpUnanswered
<1>9. QED BY <1>4, <1>5, <1>6, <1>7, <1>8 DEF ConnectionsOK

LEMMA ConnectionsStep ==
    ASSUME IInv, [Next]_vars
    PROVE  ConnectionsOK'
<1> USE DEF ConnectionsOK, AnsweredPlaces, Handled, OneHandlerAtATime,
            SmallResponsesIntact, NoHangUpUnanswered,
            client, process, status, output, Move
<1>0. TypeOK /\ ConnectionsOK
  BY DEF IInv
<1> USE <1>0 DEF TypeOK
<1>1. ASSUME NEW c \in Conns, Client(c) PROVE ConnectionsOK'
  <2>1. CASE Connect(c) BY <2>1 DEF Connect
  <2>2. CASE Send(c) BY <2>2 DEF Send
  <2>3. CASE End(c) BY <2>3 DEF End, Live
  <2>4. QED BY <1>1, <2>1, <2>2, <2>3 DEF Client
<1>2. ASSUME NEW c \in Conns, Loop(c) PROVE ConnectionsOK'
  <2>1. CASE Accept(c) BY <2>1 DEF Accept
  <2>2. CASE ReadEof(c) BY <2>2 DEF ReadEof, ReadEnded
  <2>3. CASE ReadError(c)
    <3>1. /\ DestroyTwice(c) /\ fin[c] = "reset"
          /\ UNCHANGED <<req, fin, seen, left, junk, answered>>
      BY <2>3 DEF ReadError
    <3> HIDE DEF ConnectionsOK, TypeOK
    <3>2. QED BY <1>0, <3>1, EndedConnections
  <2>4. CASE ServeLocal(c)
    <3>1. /\ Answer(c) /\ UNCHANGED <<req, fin>>
          /\ seen' \in [Conns -> {"none", "whole", "cut"}]
          /\ seen'[c] # "none" /\ \A d \in Conns \ {c} : seen'[d] = seen[d]
      BY <2>4 DEF ServeLocal, Dispatch
    <3> HIDE DEF ConnectionsOK, TypeOK
    <3>2. QED BY <1>0, <3>1, AnswerConnections
  <2>5. CASE ServeThrowing(c) BY <2>5 DEF ServeThrowing, Dispatch, Die, Live
  <2>6. CASE ServeProxy(c) BY <2>6 DEF ServeProxy, Dispatch, Free
  <2>7. CASE WriteMore(c) BY <2>7, WriteMoreConnections
  <2>8. CASE WriteDone(c) BY <2>8 DEF WriteDone
  <2>9. CASE WriteError(c)
    <3>1. /\ DestroyTwice(c) /\ fin[c] = "reset"
          /\ UNCHANGED <<req, fin, seen, left, junk, answered>>
      BY <2>9 DEF WriteError
    <3> HIDE DEF ConnectionsOK, TypeOK
    <3>2. QED BY <1>0, <3>1, EndedConnections
  <2>10. QED BY <1>2, <2>1, <2>2, <2>3, <2>4, <2>5, <2>6, <2>7, <2>8, <2>9 DEF Loop
<1>3. ASSUME NEW c \in Conns, Upstream(c) PROVE ConnectionsOK'
  <2>1. CASE ProxyReturn(c)
    <3>1. /\ Answer(c) /\ state[c] = "proxying"
          /\ req' = req /\ fin' = fin /\ seen' = seen
      BY <2>1 DEF ProxyReturn
    <3>2. seen[c] # "none"
      BY <1>0, <3>1
    <3>3. seen' \in [Conns -> {"none", "whole", "cut"}]
      BY <1>0, <3>1
    <3> HIDE DEF ConnectionsOK, TypeOK
    <3>4. QED BY <1>0, <3>1, <3>2, <3>3, AnswerConnections
  <2>2. CASE ProxyThrow(c) BY <2>2 DEF ProxyThrow, Die, Live
  <2>3. QED BY <1>3, <2>1, <2>2 DEF Upstream
<1>4. CASE AcceptError BY <1>4 DEF AcceptError
<1>5. CASE Restart BY <1>5 DEF Restart
<1>6. CASE UNCHANGED vars BY <1>6 DEF vars
<1>7. QED BY <1>1, <1>2, <1>3, <1>4, <1>5, <1>6 DEF Next

\* No step but ServeProxy puts a connection where its handler blocks the thread.
LEMMA ProxyStep ==
    ASSUME TypeOK, ProxyIsProxy, [Next]_vars
    PROVE  ProxyIsProxy'
<1> USE DEF ProxyIsProxy, TypeOK, client, process, output, status, Move
<1>1. ASSUME NEW c \in Conns, Client(c) PROVE ProxyIsProxy'
  BY <1>1 DEF Client, Connect, Send, End
<1>2. ASSUME NEW c \in Conns, Loop(c) PROVE ProxyIsProxy'
  <2> USE DEF Dispatch, DestroyTwice, Die
  <2>1. CASE Accept(c) BY <2>1 DEF Accept
  <2>2. CASE ReadEof(c) BY <2>2 DEF ReadEof
  <2>3. CASE ReadError(c) BY <2>3 DEF ReadError
  <2>4. CASE ServeLocal(c)
    <3>1. req' = req /\ state' = [state EXCEPT ![c] = "writing"]
      BY <2>4 DEF ServeLocal, Answer
    <3>2. QED BY <3>1
  <2>5. CASE ServeThrowing(c) BY <2>5 DEF ServeThrowing
  <2>6. CASE ServeProxy(c) BY <2>6 DEF ServeProxy
  <2>7. CASE WriteMore(c) BY <2>7 DEF WriteMore
  <2>8. CASE WriteDone(c) BY <2>8 DEF WriteDone
  <2>9. CASE WriteError(c) BY <2>9 DEF WriteError
  <2>10. QED BY <1>2, <2>1, <2>2, <2>3, <2>4, <2>5, <2>6, <2>7, <2>8, <2>9 DEF Loop
<1>3. ASSUME NEW c \in Conns, Upstream(c) PROVE ProxyIsProxy'
  <2>1. CASE ProxyReturn(c)
    <3>1. req' = req /\ state' = [state EXCEPT ![c] = "writing"]
      BY <2>1 DEF ProxyReturn, Answer
    <3>2. QED BY <3>1
  <2>2. CASE ProxyThrow(c) BY <2>2 DEF ProxyThrow, Die
  <2>3. QED BY <1>3, <2>1, <2>2 DEF Upstream
<1>4. CASE AcceptError BY <1>4 DEF AcceptError
<1>5. CASE Restart BY <1>5 DEF Restart
<1>6. CASE UNCHANGED vars BY <1>6 DEF vars
<1>7. QED BY <1>1, <1>2, <1>3, <1>4, <1>5, <1>6 DEF Next

(***************************************************************************)
(* The invariant holds                                                     *)
(***************************************************************************)

LEMMA InitIInv == Init => IInv
<1> SUFFICES ASSUME Init PROVE IInv
  OBVIOUS
<1>1. TypeOK
  BY DEF Init, TypeOK, States
<1>2. StatusAccounts
  BY DEF Init, StatusAccounts
<1>3. ConnectionsOK
  BY DEF Init, ConnectionsOK, AnsweredPlaces, Handled, OneHandlerAtATime,
         SmallResponsesIntact, NoHangUpUnanswered
<1>4. ProxyIsProxy
  BY DEF Init, ProxyIsProxy
<1>5. QED BY <1>1, <1>2, <1>3, <1>4 DEF IInv

LEMMA Invariance == Spec => []IInv
<1>1. IInv /\ [Next]_vars => IInv'
  BY TypeStep, CountsStep, ConnectionsStep, ProxyStep DEF IInv
<1>2. QED BY <1>1, InitIInv, PTL DEF Spec

\* Every variable keeps its type, the counts of the status list among them.
THEOREM TypeCorrect == Spec => []TypeOK
BY Invariance, PTL DEF IInv

\* The status page is right about every request answered since the process was
\* started (status_obj.cc:4-18).
THEOREM StatusIsRight == Spec => []StatusAccounts
BY Invariance, PTL DEF IInv

\* The thread is inside one handler at a time (server_main.cc:108).
THEOREM OneAtATime == Spec => []OneHandlerAtATime
BY Invariance, PTL DEF IInv, ConnectionsOK

\* What the socket takes in one write arrives as it was built (session.cc:92).
THEOREM SmallIntact == Spec => []SmallResponsesIntact
BY Invariance, PTL DEF IInv, ConnectionsOK

\* A client that is still there is hung up on only after its request was handed
\* to a handler (session.cc:28, :36-44).
THEOREM HangUpAfterRequest == Spec => []NoHangUpUnanswered
BY Invariance, PTL DEF IInv, ConnectionsOK

(***************************************************************************)
(* What ends the process.  Only an unfinished write needs the invariant:   *)
(* what is left of a response is left of one of several writes.            *)
(***************************************************************************)

LEMMA EndStep ==
    ASSUME IInv, [Next]_vars, up, ~up'
    PROVE  \E c \in Conns : state[c] \in Live /\ CanEndProcess(c)
<1> USE DEF client, process
<1>1. ASSUME NEW c \in Conns, Client(c) PROVE FALSE
  BY <1>1 DEF Client, Connect, Send, End
<1>2. ASSUME NEW c \in Conns, Loop(c)
      PROVE  state[c] \in Live /\ CanEndProcess(c)
  <2>1. CASE Accept(c) BY <2>1 DEF Accept
  <2>2. CASE ReadEof(c) BY <2>2 DEF ReadEof
  <2>3. CASE ReadError(c) BY <2>3 DEF ReadError, Live, CanEndProcess
  <2>4. CASE ServeLocal(c) BY <2>4 DEF ServeLocal, Answer
  <2>5. CASE ServeThrowing(c)
    BY <2>5 DEF ServeThrowing, Dispatch, Live, CanEndProcess
  <2>6. CASE ServeProxy(c) BY <2>6 DEF ServeProxy
  <2>7. CASE WriteMore(c)
    <3>1. state[c] = "writing" /\ left[c] # 0 /\ fin[c] # "reset"
      BY <2>7 DEF WriteMore
    <3>2. req[c].chunks # 1
      BY <3>1 DEF IInv, ConnectionsOK, SmallResponsesIntact
    <3>3. req[c].chunks \in Nat \ {0}
      BY RequestFields DEF IInv
    <3>4. QED BY <3>1, <3>2, <3>3 DEF Live, CanEndProcess
  <2>8. CASE WriteDone(c) BY <2>8 DEF WriteDone
  <2>9. CASE WriteError(c) BY <2>9 DEF WriteError, Live, CanEndProcess
  <2>10. QED BY <1>2, <2>1, <2>2, <2>3, <2>4, <2>5, <2>6, <2>7, <2>8, <2>9 DEF Loop
<1>3. ASSUME NEW c \in Conns, Upstream(c)
      PROVE  state[c] \in Live /\ CanEndProcess(c)
  <2>1. CASE ProxyReturn(c) BY <2>1 DEF ProxyReturn, Answer
  <2>2. CASE ProxyThrow(c)
    <3>1. state[c] = "proxying" /\ req[c].handler = "proxy"
      BY <2>2 DEF ProxyThrow, IInv, ProxyIsProxy
    <3>2. QED BY <3>1 DEF Live, CanEndProcess
  <2>3. QED BY <1>3, <2>1, <2>2 DEF Upstream
<1>4. CASE AcceptError BY <1>4 DEF AcceptError
<1>5. CASE Restart BY <1>5 DEF Restart
<1>6. CASE UNCHANGED vars BY <1>6 DEF vars
<1>7. QED BY <1>1, <1>2, <1>3, <1>4, <1>5, <1>6 DEF Next

\* The process ends only while it serves a connection that can end it
\* (session.cc:92, :100, :119, server_main.cc:111).
THEOREM OnlySomeEnd == Spec => OnlySomeEndProcess
<1>1. IInv /\ [Next]_vars => (up /\ ~up' => \E c \in Conns : state[c] \in Live /\ CanEndProcess(c))
  BY EndStep
<1>2. QED BY <1>1, Invariance, PTL DEF Spec, OnlySomeEndProcess

(***************************************************************************)
(* The total of the status page.  GetStatusCalls takes the entries one     *)
(* after the other, so its value is found by induction over the number of  *)
(* entries that are left.                                                  *)
(***************************************************************************)

\* What is added for a set of entries, given what is for smaller sets.
SumOf(list, f, s) == IF s = {} THEN 0
                     ELSE LET i == CHOOSE i \in s : TRUE IN list[i].n + f[s \ {i}]

Sums(list, f) == f = [s \in SUBSET DOMAIN list |-> SumOf(list, f, s)]

UpTo(D, n) == {s \in SUBSET D : Cardinality(s) <= n}

LEMMA StatusCallsIsSum ==
    ASSUME NEW list
    PROVE  GetStatusCalls(list) = (CHOOSE f : Sums(list, f))[DOMAIN list]
BY DEF GetStatusCalls, FoldFunction, FoldFunctionOnSet, MapThenFoldSet, Sums, SumOf

LEMMA SumExists ==
    ASSUME NEW list, IsFiniteSet(DOMAIN list)
    PROVE  \E f : Sums(list, f)
<1> DEFINE D == DOMAIN list
           S == {n \in Nat : \E f : f = [s \in UpTo(D, n) |-> SumOf(list, f, s)]}
<1>1. \A s \in SUBSET D : IsFiniteSet(s) /\ Cardinality(s) \in Nat
                          /\ Cardinality(s) <= Cardinality(D)
  BY FS_Subset, FS_CardinalityType
<1>2. 0 \in S
  <2> DEFINE f == [s \in UpTo(D, 0) |-> 0]
  <2>1. \A s \in UpTo(D, 0) : s = {}
    BY <1>1, FS_EmptySet DEF UpTo
  <2>2. f = [s \in UpTo(D, 0) |-> SumOf(list, f, s)]
    BY <2>1 DEF SumOf
  <2>3. QED BY <2>2
<1>3. \A n \in S : n + 1 \in S
  <2> TAKE n \in S
  <2>1. PICK f : f = [s \in UpTo(D, n) |-> SumOf(list, f, s)]
    OBVIOUS
  <2> DEFINE g == [s \in UpTo(D, n + 1) |-> SumOf(list, f, s)]
  <2>2. \A s \in UpTo(D, n) : s \in UpTo(D, n + 1) /\ g[s] = f[s]
    <3>1. \A s \in UpTo(D, n) : s \in UpTo(D, n + 1)
      BY <1>1 DEF UpTo
    <3>2. QED BY <2>1, <3>1
  <2>3. \A s \in UpTo(D, n + 1) : SumOf(list, f, s) = SumOf(list, g, s)
    <3> TAKE s \in UpTo(D, n + 1)
    <3>1. CASE s = {}
      BY <3>1 DEF SumOf
    <3>2. CASE s # {}
      <4> DEFINE i == CHOOSE i \in s : TRUE
      <4>1. i \in s
        BY <3>2
      <4>2. s \ {i} \in UpTo(D, n)
        <5>1. s \in SUBSET D /\ IsFiniteSet(s) /\ Cardinality(s) \in Nat /\ Cardinality(s) <= n + 1
          BY <1>1 DEF UpTo
        <5>2. Cardinality(s \ {i}) = Cardinality(s) - 1
          BY <4>1, <5>1, FS_RemoveElement
        <5>3. QED BY <5>1, <5>2 DEF UpTo
      <4>3. g[s \ {i}] = f[s \ {i}]
        BY <2>2, <4>2
      <4>4. QED BY <3>2, <4>3 DEF SumOf
    <3>3. QED BY <3>1, <3>2
  <2>4. g = [s \in UpTo(D, n + 1) |-> SumOf(list, g, s)]
    BY <2>3
  <2>5. \E h : h = [s \in UpTo(D, n + 1) |-> SumOf(list, h, s)]
    <3> HIDE DEF g
    <3>1. QED BY <2>4
  <2>6. QED BY <2>5
<1>4. S = Nat
  <2>1. S \in SUBSET Nat
    OBVIOUS
  <2> HIDE DEF S
  <2>2. QED BY <1>2, <1>3, <2>1, NumberInduction
<1>5. Cardinality(D) \in Nat /\ UpTo(D, Cardinality(D)) = SUBSET D
  BY <1>1, FS_CardinalityType DEF UpTo
<1>6. \E f : f = [s \in UpTo(D, Cardinality(D)) |-> SumOf(list, f, s)]
  <2>1. Cardinality(D) \in S
    BY <1>4, <1>5
  <2>2. QED BY <2>1
<1>7. QED BY <1>5, <1>6 DEF Sums

\* The connections that entries of a set are about.
Counted(s) == {c \in answered : \E i \in s : Key(c) = <<entries[i].url, entries[i].code>>}

LEMMA CountedOneMore ==
    ASSUME TypeOK, StatusAccounts, NEW s \in SUBSET DOMAIN entries, NEW i \in s
    PROVE  Cardinality(Counted(s)) = entries[i].n + Cardinality(Counted(s \ {i}))
<1> DEFINE A == AnsweredWith(entries[i].url, entries[i].code)
           B == Counted(s \ {i})
<1>1. IsFiniteSet(answered)
  BY ConnAssumption, FS_Subset DEF TypeOK
<1>2. IsFiniteSet(A) /\ IsFiniteSet(B)
  BY <1>1, FS_Subset DEF AnsweredWith, Counted
<1>3. Counted(s) = A \cup B
  BY DEF Counted, AnsweredWith
<1>4. A \cap B = {}
  <2> SUFFICES ASSUME NEW c \in A, c \in B PROVE FALSE
    OBVIOUS
  <2>1. PICK j \in s \ {i} : Key(c) = <<entries[j].url, entries[j].code>>
    BY DEF Counted
  <2>2. Key(c) = <<entries[i].url, entries[i].code>>
    BY DEF AnsweredWith
  <2>3. j \in Matches(entries, entries[i].url, entries[i].code)
    BY <2>1, <2>2 DEF Matches
  <2>4. QED BY <2>3 DEF StatusAccounts
<1>5. entries[i].n = Cardinality(A)
  BY DEF StatusAccounts
<1>6. Cardinality({}) = 0 /\ Cardinality(A) \in Nat /\ Cardinality(B) \in Nat
  BY <1>2, FS_EmptySet, FS_CardinalityType
<1> HIDE DEF A, B
<1>7. Cardinality(A \cup B) = Cardinality(A) + Cardinality(B) - Cardinality(A \cap B)
  BY <1>2, FS_Union
<1>8. Cardinality(A \cup B) = Cardinality(A) + Cardinality(B)
  BY <1>4, <1>6, <1>7
<1>9. Cardinality(Counted(s)) = entries[i].n + Cardinality(B)
  BY <1>3, <1>5, <1>8
<1>10. QED BY <1>9 DEF B

LEMMA SumIsCounted ==
    ASSUME TypeOK, StatusAccounts, NEW f, Sums(entries, f)
    PROVE  \A s \in SUBSET DOMAIN entries : f[s] = Cardinality(Counted(s))
<1> DEFINE D == DOMAIN entries
           S == {n \in Nat : \A s \in SUBSET D :
                                 Cardinality(s) = n => f[s] = Cardinality(Counted(s))}
<1>1. IsFiniteSet(D)
  <2>1. D = 1 .. Len(entries) /\ Len(entries) \in Nat
    BY DEF TypeOK
  <2>2. QED BY <2>1, FS_Interval
<1>2. \A s \in SUBSET D : IsFiniteSet(s) /\ Cardinality(s) \in Nat
  BY <1>1, FS_Subset, FS_CardinalityType
<1>3. \A s \in SUBSET D : f[s] = SumOf(entries, f, s)
  BY DEF Sums
<1>4. 0 \in S
  <2> SUFFICES ASSUME NEW s \in SUBSET D, Cardinality(s) = 0
               PROVE  f[s] = Cardinality(Counted(s))
    OBVIOUS
  <2>1. s = {}
    BY <1>2, FS_EmptySet
  <2>2. Counted(s) = {}
    BY <2>1 DEF Counted
  <2>3. QED BY <1>3, <2>1, <2>2, FS_EmptySet DEF SumOf
<1>5. \A n \in S : n + 1 \in S
  <2> SUFFICES ASSUME NEW n \in S, NEW s \in SUBSET D, Cardinality(s) = n + 1
               PROVE  f[s] = Cardinality(Counted(s))
    OBVIOUS
  <2> DEFINE i == CHOOSE i \in s : TRUE
  <2>1. s # {}
    BY FS_EmptySet
  <2>2. i \in s
    BY <2>1
  <2>3. s \ {i} \in SUBSET D /\ Cardinality(s \ {i}) = n
    <3>1. IsFiniteSet(s) /\ Cardinality(s) \in Nat
      BY <1>2
    <3>2. Cardinality(s \ {i}) = Cardinality(s) - 1
      BY <2>2, <3>1, FS_RemoveElement
    <3>3. n \in Nat
      OBVIOUS
    <3>4. QED BY <3>2, <3>3
  <2>4. f[s \ {i}] = Cardinality(Counted(s \ {i}))
    BY <2>3
  <2>5. f[s] = entries[i].n + f[s \ {i}]
    BY <1>3, <2>1 DEF SumOf
  <2>6. Cardinality(Counted(s)) = entries[i].n + Cardinality(Counted(s \ {i}))
    BY <2>2, CountedOneMore
  <2>7. QED BY <2>4, <2>5, <2>6
<1>6. S = Nat
  <2>1. S \in SUBSET Nat
    OBVIOUS
  <2> HIDE DEF S
  <2>2. QED BY <1>4, <1>5, <2>1, NumberInduction
<1>7. QED BY <1>2, <1>6

LEMMA AccountsAddUp ==
    ASSUME TypeOK, StatusAccounts
    PROVE  TotalIsAnswered
<1> DEFINE f == CHOOSE f : Sums(entries, f)
<1>1. IsFiniteSet(DOMAIN entries)
  <2>1. DOMAIN entries = 1 .. Len(entries) /\ Len(entries) \in Nat
    BY DEF TypeOK
  <2>2. QED BY <2>1, FS_Interval
<1>2. Sums(entries, f)
  BY <1>1, SumExists
<1>3. f[DOMAIN entries] = Cardinality(Counted(DOMAIN entries))
  <2> HIDE DEF f
  <2>1. QED BY <1>2, SumIsCounted
<1>4. Counted(DOMAIN entries) = answered
  BY DEF Counted, StatusAccounts, Matches, Key
<1>5. QED BY <1>3, <1>4, StatusCallsIsSum DEF TotalIsAnswered

\* The total of the status page is the number of requests answered since the process
\* started, whatever number of entries they are spread over (status_obj.cc:26-35).
THEOREM TotalIsRight == Spec => []TotalIsAnswered
BY Invariance, AccountsAddUp, PTL DEF IInv
===============================================================================
