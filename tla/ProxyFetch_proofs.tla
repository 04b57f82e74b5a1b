-------------------------- MODULE ProxyFetch_proofs --------------------------
(***************************************************************************)
(* Theorems about ProxyFetch for bodies of any length.                     *)
(***************************************************************************)
EXTENDS ProxyFetch, SequenceTheorems, TLAPS

LEMMA PiecesType ==
    ASSUME NEW t \in Nat, NEW total \in Nat, 2 <= t, t <= total
    PROVE  Pieces(2, t) \in Seq(3 .. total)
<1>1. t - 2 \in Nat
  OBVIOUS
<1>2. \A i \in 1 .. t - 2 : 2 + i \in 3 .. total
  OBVIOUS
<1>3. QED BY <1>1, <1>2 DEF Pieces

LEMMA Difference ==
    ASSUME NEW t \in Nat, NEW m \in Nat, 2 <= t, t <= 2 + m
    PROVE  t - 2 \in 0 .. m /\ t - 2 \in Nat /\ 2 + (t - 2) = t
OBVIOUS

LEMMA Differs ==
    ASSUME NEW t \in Nat, NEW f \in Nat, t # 2 + f
    PROVE  f # t - 2
OBVIOUS

\* What res_body is at each point of the exchange.
Progress ==
    /\ pc \in {"connect", "status", "headers"} => body = << >> /\ ~notice
    /\ pc = "rest" => /\ to = 2 + first
                      /\ body = Pieces(2, to)
                      /\ ~notice
    /\ OnlyBeginningTwice

\* Reading stopped at the length of the body, or at the end of the connection.
Complete ==
    pc = "done" /\ ~notice =>
        to = Total \/ ended = "reset" \/ (ended = "eof" /\ to = arrived)

IInv == TypeOK /\ Progress

LEMMA Bounds ==
    ASSUME reply \in Replies
    PROVE  /\ reply.body \in Nat /\ reply.body <= MaxBody
           /\ Total \in Nat /\ Total = 2 + reply.body
           /\ MaxBody \in Nat
BY FetchAssumption DEF Replies, Total

LEMMA InitIInv == Init => IInv
<1> SUFFICES ASSUME Init PROVE IInv
  OBVIOUS
<1>1. /\ reply \in Replies /\ arrived = 0 /\ to = 0 /\ first = 0
      /\ ended = "no" /\ pc = "connect" /\ body = << >> /\ notice = FALSE
  BY DEF Init
<1>2. Total \in Nat /\ MaxBody \in Nat
  BY <1>1, Bounds
<1>3. TypeOK
  <2>1. arrived \in 0 .. Total /\ to \in 0 .. arrived /\ first \in 0 .. MaxBody
    BY <1>1, <1>2
  <2>2. body \in Seq(3 .. Total)
    BY <1>1
  <2>3. notice \in BOOLEAN
    BY <1>1
  <2>4. ended \in {"no", "eof", "reset"} /\ pc \in {"connect", "status", "headers", "rest", "done", "thrown"}
    BY <1>1
  <2>5. QED BY <1>1, <2>1, <2>2, <2>3, <2>4 DEF TypeOK
<1>4. Progress
  BY <1>1 DEF Progress, OnlyBeginningTwice
<1>5. QED BY <1>3, <1>4 DEF IInv

LEMMA HeadersStep ==
    ASSUME IInv, ReadHeaders
    PROVE  IInv'
<1>1. /\ TypeOK /\ Progress /\ pc = "headers" /\ body = << >> /\ ~notice
      /\ Total \in Nat /\ Total = 2 + reply.body /\ reply.body <= MaxBody
      /\ reply.body \in Nat /\ MaxBody \in Nat
  BY Bounds DEF IInv, TypeOK, Progress, ReadHeaders
<1>2. CASE Throw
  BY <1>1, <1>2 DEF Throw, Progress, OnlyBeginningTwice, Total, network, TypeOK, IInv
<1>3. CASE /\ ReadUntil(2)
           /\ first' = to' - 2
           /\ body' = body \o Pieces(2, to')
           /\ pc' = IF WholeBody THEN "done" ELSE "rest"
           /\ UNCHANGED <<network, notice>>
  <2>1. /\ reply' = reply /\ arrived' = arrived /\ ended' = ended /\ notice' = notice
        /\ Total' = Total /\ pc' \in {"done", "rest"}
    BY <1>3 DEF network, Total
  <2>2. arrived \in Nat /\ arrived <= Total /\ to \in Nat /\ to <= arrived
    BY <1>1 DEF TypeOK
  <2>3. PICK t \in Nat : t = to' /\ 2 <= t /\ t <= arrived
    BY <1>3, <2>2 DEF ReadUntil
  <2>4. Pieces(2, t) \in Seq(3 .. Total)
    BY <1>1, <2>2, <2>3, PiecesType
  <2>5. body' = Pieces(2, t)
    <3>1. << >> \o Pieces(2, t) = Pieces(2, t)
      BY <2>4
    <3>2. QED BY <1>1, <1>3, <2>3, <3>1
  <2>6. first' = t - 2 /\ t = 2 + (t - 2) /\ t - 2 \in 0 .. MaxBody
    <3>1. first' = t - 2
      BY <1>3, <2>3
    <3>2. t <= 2 + MaxBody
      BY <1>1, <2>2, <2>3
    <3>3. t = 2 + (t - 2) /\ t - 2 \in 0 .. MaxBody
      BY <1>1, <2>3, <3>2, Difference
    <3>4. QED BY <3>1, <3>3
  <2>7. TypeOK'
    <3>1. t \in 0 .. arrived
      BY <2>2, <2>3
    <3>2. to' \in 0 .. arrived'
      BY <2>1, <2>3, <3>1
    <3>3. first' \in 0 .. MaxBody
      BY <2>6
    <3>4. body' \in Seq(3 .. Total')
      BY <2>1, <2>4, <2>5
    <3>5. QED BY <1>1, <2>1, <3>2, <3>3, <3>4 DEF TypeOK
  <2>8. Progress'
    <3>1. to' = 2 + first' /\ body' = Pieces(2, to') /\ ~notice'
      BY <1>1, <2>1, <2>3, <2>5, <2>6
    <3>2. OnlyBeginningTwice'
      <4>1. first' = to' - 2
        BY <2>3, <2>6
      <4>2. << >> \o Pieces(2, t) = Pieces(2, t)
        BY <2>4
      <4>3. body' = << >> \o Pieces(2, to')
        BY <2>3, <2>5, <4>2
      <4>4. QED BY <4>1, <4>3 DEF OnlyBeginningTwice
    <3>3. QED BY <2>1, <3>1, <3>2 DEF Progress
  <2>9. QED BY <2>7, <2>8 DEF IInv
<1>4. QED BY <1>2, <1>3 DEF ReadHeaders

LEMMA RestStep ==
    ASSUME IInv, ReadRest
    PROVE  IInv'
<1>1. /\ TypeOK /\ Progress /\ pc = "rest" /\ body = Pieces(2, to) /\ ~notice
      /\ to = 2 + first /\ pc' = "done"
      /\ Total \in Nat /\ MaxBody \in Nat
      /\ UNCHANGED <<reply, arrived, ended, first, notice>> /\ Total' = Total
  BY Bounds DEF IInv, TypeOK, Progress, ReadRest, network, Total
<1>2. /\ arrived \in Nat /\ arrived <= Total /\ first \in 0 .. MaxBody
      /\ to \in Nat /\ 2 <= to /\ to <= arrived
  BY <1>1 DEF TypeOK
<1>3. PICK t \in Nat : t = to' /\ to <= t /\ t <= arrived
  BY <1>2 DEF ReadRest
<1>4. /\ Pieces(2, to) \in Seq(3 .. Total)
      /\ Pieces(2, t) \in Seq(3 .. Total)
  BY <1>1, <1>2, <1>3, PiecesType
<1>5. body' = (IF first = t - 2 THEN << >> ELSE Pieces(2, 2 + first)) \o Pieces(2, t)
  <2>1. CASE t = to
    <3>1. body' = Pieces(2, t) /\ first = t - 2
      BY <1>1, <1>2, <1>3, <2>1 DEF ReadRest
    <3>2. << >> \o Pieces(2, t) = Pieces(2, t)
      BY <1>4
    <3>3. QED BY <3>1, <3>2
  <2>2. CASE t # to
    <3>1. body' = Pieces(2, to) \o Pieces(2, t)
      BY <1>1, <1>3, <2>2 DEF ReadRest, Appended
    <3>2. first # t - 2
      BY <1>1, <1>2, <2>2, Differs
    <3>3. QED BY <1>1, <3>1, <3>2
  <2>3. QED BY <2>1, <2>2
<1>6. body' \in Seq(3 .. Total)
  <2>1. CASE t = to
    BY <1>1, <1>3, <1>4, <2>1 DEF ReadRest
  <2>2. CASE t # to
    BY <1>1, <1>3, <1>4, <2>2 DEF ReadRest, Appended
  <2>3. QED BY <2>1, <2>2
<1>7. TypeOK'
  BY <1>1, <1>2, <1>3, <1>6 DEF TypeOK
<1>8. Progress'
  BY <1>1, <1>3, <1>5 DEF Progress, OnlyBeginningTwice
<1>9. QED BY <1>7, <1>8 DEF IInv

LEMMA OtherSteps ==
    ASSUME IInv, Arrive \/ Close \/ Break \/ Connect \/ ReadStatus \/ UNCHANGED vars
    PROVE  IInv'
<1>1. /\ TypeOK /\ Progress /\ Total \in Nat
      /\ arrived \in Nat /\ arrived <= Total /\ to \in Nat /\ to <= arrived
  BY Bounds DEF IInv, TypeOK
<1> USE DEF Progress, OnlyBeginningTwice, network, Total, TypeOK, IInv
<1>2. CASE Arrive BY <1>1, <1>2 DEF Arrive
<1>3. CASE Close BY <1>1, <1>3 DEF Close
<1>4. CASE Break BY <1>1, <1>4 DEF Break
<1>5. CASE Connect
  <2>1. /\ UNCHANGED <<reply, arrived, ended, to, first, body, notice>>
        /\ pc = "connect" /\ (pc' = "status" \/ pc' = "thrown")
    BY <1>5 DEF Connect, Throw
  <2>2. QED BY <1>1, <2>1
<1>6. CASE ReadStatus
  <2>1. CASE Throw BY <1>1, <1>6, <2>1 DEF ReadStatus, Throw
  <2>2. CASE ReadUntil(1) /\ UNCHANGED <<network, first, body>>
    <3>1. to' \in 0 .. arrived
      BY <1>1, <2>2 DEF ReadUntil
    <3>2. QED BY <1>1, <1>6, <2>2, <3>1 DEF ReadStatus, Throw
  <2>3. QED BY <1>6, <2>1, <2>2 DEF ReadStatus
<1>7. CASE UNCHANGED vars BY <1>1, <1>7 DEF vars
<1>8. QED BY <1>2, <1>3, <1>4, <1>5, <1>6, <1>7

LEMMA Invariance == Spec => []IInv
<1>1. IInv /\ [Next]_vars => IInv'
  BY HeadersStep, RestStep, OtherSteps DEF Next, Handler
<1>2. QED BY <1>1, InitIInv, PTL DEF Spec

LEMMA SuffixOfConcat ==
    ASSUME NEW S, NEW s \in Seq(S), NEW u \in Seq(S)
    PROVE  IsSuffix(s, u \o s)
<1> DEFINE t == u \o s
<1>1. /\ t \in Seq(S) /\ Len(t) = Len(u) + Len(s)
      /\ Len(s) \in Nat /\ Len(u) \in Nat
  OBVIOUS
<1>2. \A i \in 1 .. Len(s) : t[Len(u) + i] = s[i]
  OBVIOUS
<1>3. /\ Reverse(s) = [i \in 1 .. Len(s) |-> s[(Len(s) - i) + 1]]
      /\ Reverse(t) = [i \in 1 .. Len(t) |-> t[(Len(t) - i) + 1]]
  BY DEF Reverse
<1> HIDE DEF t
<1>4. /\ \A i \in 1 .. Len(s) : s[(Len(s) - i) + 1] \in S
      /\ \A i \in 1 .. Len(t) : t[(Len(t) - i) + 1] \in S
  BY <1>1
<1>5. /\ Reverse(s) \in Seq(S) /\ Len(Reverse(s)) = Len(s)
      /\ Reverse(t) \in Seq(S) /\ Len(Reverse(t)) = Len(t)
  BY <1>1, <1>3, <1>4
<1>6. \A i \in 1 .. Len(s) : Reverse(t)[i] = Reverse(s)[i]
  <2> TAKE i \in 1 .. Len(s)
  <2>1. (Len(s) - i) + 1 \in 1 .. Len(s)
    BY <1>1
  <2>2. PICK j \in 1 .. Len(s) : j = (Len(s) - i) + 1
    BY <2>1
  <2>3. i \in 1 .. Len(t) /\ (Len(t) - i) + 1 = Len(u) + j
    BY <1>1, <2>2
  <2>4. Reverse(t)[i] = t[Len(u) + j] /\ Reverse(s)[i] = s[j]
    BY <1>3, <2>2, <2>3
  <2>5. QED BY <1>2, <2>4
<1>7. SubSeq(Reverse(s), 1, Len(s)) = SubSeq(Reverse(t), 1, Len(s))
  <2>1. /\ SubSeq(Reverse(s), 1, Len(s)) = [i \in 1 .. Len(s) |-> Reverse(s)[i]]
        /\ SubSeq(Reverse(t), 1, Len(s)) = [i \in 1 .. Len(s) |-> Reverse(t)[i]]
    BY <1>1, <1>5
  <2>2. QED BY <1>6, <2>1
<1>8. Len(s) <= Len(t)
  BY <1>1
<1>9. IsPrefix(Reverse(s), Reverse(t))
  BY <1>5, <1>7, <1>8 DEF IsPrefix
<1>10. IsSuffix(s, t)
  BY <1>9 DEF IsSuffix
<1>11. QED BY <1>10 DEF t

LEMMA CompleteStep ==
    ASSUME IInv, Complete, [Next]_vars
    PROVE  Complete'
<1>1. /\ reply.body \in Nat /\ arrived \in Nat /\ to \in Nat /\ to <= arrived
      /\ pc \in {"connect", "status", "headers"} => ~notice
  BY Bounds DEF IInv, TypeOK, Progress
<1>2. CASE Arrive BY <1>2 DEF Arrive, Complete, Total
<1>3. CASE Close BY <1>3 DEF Close, Complete, Total
<1>4. CASE Break BY <1>4 DEF Break, Complete, Total
<1>5. CASE Connect
  <2>1. pc' \in {"status", "thrown"}
    BY <1>5 DEF Connect, Throw
  <2>2. QED BY <2>1 DEF Complete
<1>6. CASE ReadStatus
  <2>1. pc' \in {"headers", "thrown"} \/ notice'
    BY <1>6 DEF ReadStatus, Throw
  <2>2. QED BY <2>1 DEF Complete
<1>7. CASE ReadHeaders
  <2>1. pc' \in {"rest", "thrown"} \/ (WholeBody /\ reply' = reply /\ to' \in Nat)
    BY <1>1, <1>7 DEF ReadHeaders, Throw, ReadUntil, network
  <2>2. CASE WholeBody /\ reply' = reply /\ to' \in Nat
    <3>1. to' = 2 + reply'.body
      BY <1>1, <2>2 DEF WholeBody
    <3>2. QED BY <3>1 DEF Complete, Total
  <2>3. QED BY <2>1, <2>2 DEF Complete
<1>8. CASE ReadRest
  <2>1. /\ ended # "no" /\ ended' = ended /\ arrived' = arrived
        /\ ended = "eof" => to' = arrived
    BY <1>8 DEF ReadRest, network
  <2>2. ended \in {"eof", "reset"}
    BY <2>1 DEF IInv, TypeOK
  <2>3. QED BY <2>1, <2>2 DEF Complete
<1>9. CASE UNCHANGED vars BY <1>9 DEF vars, Complete, Total
<1>10. QED BY <1>2, <1>3, <1>4, <1>5, <1>6, <1>7, <1>8, <1>9 DEF Next, Handler

LEMMA CompleteSuffices ==
    ASSUME IInv, Complete
    PROVE  NothingLost
<1> SUFFICES ASSUME pc = "done", ~notice, arrived = Total, ended # "reset"
             PROVE  IsSuffix(Pieces(2, Total), body)
  BY DEF NothingLost
<1>1. to = Total
  BY DEF Complete
<1>2. Total \in Nat /\ 2 <= Total /\ first \in Nat /\ MaxBody \in Nat
  BY Bounds DEF IInv, TypeOK
<1> DEFINE beginning == IF first = to - 2 THEN << >> ELSE Pieces(2, 2 + first)
           N == 3 .. Total + first
<1>3. body = beginning \o Pieces(2, Total)
  BY <1>1 DEF IInv, Progress, OnlyBeginningTwice
<1>4. Pieces(2, Total) \in Seq(N)
  BY <1>2, PiecesType
<1>5. beginning \in Seq(N)
  <2>1. Pieces(2, 2 + first) \in Seq(N)
    BY <1>2, PiecesType
  <2> HIDE DEF N
  <2>2. CASE first = to - 2
    BY <2>2
  <2>3. CASE first # to - 2
    BY <2>1, <2>3
  <2>4. QED BY <2>2, <2>3
<1>6. IsSuffix(Pieces(2, Total), beginning \o Pieces(2, Total))
  <2> HIDE DEF N, beginning
  <2>1. QED BY <1>4, <1>5, SuffixOfConcat
<1>7. QED BY <1>3, <1>6

\* Every variable keeps its type: no piece that is not the body's gets into it.
THEOREM TypeCorrect == Spec => []TypeOK
BY Invariance, PTL DEF IInv

\* The answer is the body, or the body after a beginning of it that came along
\* with the headers (proxy_handler.cc:164-179).
THEOREM BeginningTwice == Spec => []OnlyBeginningTwice
BY Invariance, PTL DEF IInv, Progress

\* However the pieces of the body fall, and however long it is, the answer ends
\* with the whole of it, in order (proxy_handler.cc:162-181).
THEOREM WholeBodyArrives == Spec => []NothingLost
<1>1. Init => Complete
  BY DEF Init, Complete
<1>2. IInv /\ IInv' /\ Complete /\ [Next]_vars => Complete'
  BY CompleteStep
<1>3. IInv /\ Complete => NothingLost
  BY CompleteSuffices
<1>4. QED BY <1>1, <1>2, <1>3, Invariance, PTL DEF Spec
==============================================================================
