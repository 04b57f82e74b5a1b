--------------------------- MODULE MemeVault_proofs ---------------------------
(***************************************************************************)
(* Theorems about MemeVault for every value of its constants.              *)
(***************************************************************************)
EXTENDS MemeVault, TLAPS

\* A table as TypeOK has it.
RowsOK(r) == DOMAIN r \subseteq Ids /\ r \in [DOMAIN r -> Meme]

LEMMA PutRows ==
    ASSUME NEW r, RowsOK(r), NEW id \in Ids, NEW meme \in Meme
    PROVE  /\ RowsOK(Put(r, id, meme))
           /\ DOMAIN Put(r, id, meme) = DOMAIN r \cup {id}
           /\ Put(r, id, meme)[id] = meme
           /\ \A i \in DOMAIN r \ {id} : Put(r, id, meme)[i] = r[i]
<1>1. DOMAIN Put(r, id, meme) = DOMAIN r \cup {id}
  BY DEF Put
<1>2. \A i \in DOMAIN r \cup {id} :
        Put(r, id, meme)[i] = IF i = id THEN meme ELSE r[i]
  BY DEF Put
<1>3. \A i \in DOMAIN r : r[i] \in Meme
  BY DEF RowsOK
<1>4. Put(r, id, meme) \in [DOMAIN r \cup {id} -> Meme]
  BY <1>3 DEF Put
<1>5. QED BY <1>1, <1>2, <1>4 DEF RowsOK

LEMMA DropRows ==
    ASSUME NEW r, RowsOK(r), NEW id
    PROVE  LET s == Restrict(r, DOMAIN r \ {id})
           IN  /\ RowsOK(s)
               /\ DOMAIN s = DOMAIN r \ {id}
               /\ \A i \in DOMAIN r \ {id} : s[i] = r[i]
<1> DEFINE s == Restrict(r, DOMAIN r \ {id})
<1>1. DOMAIN s = DOMAIN r \ {id} /\ \A i \in DOMAIN r \ {id} : s[i] = r[i]
  BY DEF Restrict
<1>2. s \in [DOMAIN r \ {id} -> Meme]
  BY DEF Restrict, RowsOK
<1>3. QED BY <1>1, <1>2 DEF RowsOK

LEMMA LiveTokensIssued ==
    ASSUME NEW r, RowsOK(r)
    PROVE  LiveTokens(r) \subseteq IssuedTokens
BY DEF RowsOK, LiveTokens, Meme, RowTokens

\* What a write does to the table and to the history, whatever is written.
LEMMA WriteType ==
    ASSUME TypeOK, NEW r, RowsOK(r), Write(r)
    PROVE  RowsOK(rows') /\ retired' \subseteq IssuedTokens
                         /\ rows' \in {r, rows}
<1>1. RowsOK(rows) /\ retired \subseteq IssuedTokens
  BY DEF TypeOK, RowsOK
<1>2. LiveTokens(rows) \subseteq IssuedTokens
  BY <1>1, LiveTokensIssued
<1>3. QED BY <1>1, <1>2 DEF Write

LEMMA ReplyType ==
    ASSUME NEW op \in Ops, NEW status \in {0, 200, 404}, NEW id \in Ids \cup {NoId}
    PROVE  Reply(op, status, id) \in
               [op : Ops, status : {0, 200, 404}, id : Ids \cup {NoId}]
BY DEF Reply

LEMMA MemeViewType ==
    ASSUME TypeOK, NEW id \in Ids, up, MemeView(id)
    PROVE  TypeOK'
<1>1. resp' \in [op : Ops, status : {0, 200, 404}, id : Ids \cup {NoId}]
  BY DEF MemeView, Reply, Ops
<1>2. leaked' \in 0 .. FdLimit
  BY LimitAssumption DEF MemeView, TypeOK, DbOpens
<1>3. UNCHANGED <<rows, tableExists, retired, up, rnd, restarts, forms>>
  BY DEF MemeView, disk
<1>4. QED BY <1>1, <1>2, <1>3 DEF TypeOK

LEMMA StopType == ASSUME TypeOK, Stop PROVE TypeOK'
<1>1. resp' \in [op : Ops, status : {0, 200, 404}, id : Ids \cup {NoId}]
  BY DEF Stop, Reply, Ops
<1>2. QED BY <1>1 DEF Stop, TypeOK, disk

LEMMA NewMemeType ==
    ASSUME TypeOK, NEW id \in Numerals, NEW text \in Texts \cup {Blank}
    PROVE  [text |-> text, token |-> NewToken(id)] \in Meme
BY DEF TypeOK, Meme, NewToken, RowTokens, IssuedTokens

LEMMA EditedMemeType ==
    ASSUME TypeOK, NEW id \in Ids, NEW text \in Texts
    PROVE  [text |-> text, token |-> EditedToken(id)] \in Meme
<1>1. EditedToken(id) \in RowTokens
  BY DEF TypeOK, EditedToken, Meme, RowTokens
<1>2. QED BY <1>1 DEF Meme

------------------------------------------------------------------------------
\* Every variable keeps its type, the descriptors in use stay within the limit,
\* and rows exist only in a table that was created.
THEOREM TypeCorrect == Spec => []TypeOK
<1>1. Init => TypeOK
  <2> SUFFICES ASSUME Init PROVE TypeOK
    OBVIOUS
  <2>1. resp \in [op : Ops, status : {0, 200, 404}, id : Ids \cup {NoId}]
    BY DEF Init, Reply, Ops
  <2>2. DOMAIN rows = {} /\ rows \in [DOMAIN rows -> Meme]
    BY DEF Init
  <2>3. tableExists = FALSE /\ up = TRUE
    BY DEF Init
  <2>4. rnd \in 0 .. MaxTokens /\ leaked \in 0 .. FdLimit /\ restarts \in Nat
    BY LimitAssumption, SMT DEF Init
  <2>5. forms \subseteq Ids /\ retired \subseteq IssuedTokens
    BY DEF Init
  <2>6. QED BY <2>1, <2>2, <2>3, <2>4, <2>5 DEF TypeOK
<1>2. TypeOK /\ [Next]_vars => TypeOK'
  <2> SUFFICES ASSUME TypeOK, [Next]_vars PROVE TypeOK'
    OBVIOUS
  <2> USE LimitAssumption
  <2>0. RowsOK(rows)
    BY DEF TypeOK, RowsOK
  <2>1. CASE OpenPage
    <3>1. resp' \in [op : Ops, status : {0, 200, 404}, id : Ids \cup {NoId}]
      BY <2>1 DEF OpenPage, Reply, Ops
    <3>2. QED BY <2>1, <3>1 DEF OpenPage, TypeOK, disk, proc
  <2>2. CASE UnknownPage
    <3>1. resp' \in [op : Ops, status : {0, 200, 404}, id : Ids \cup {NoId}]
      BY <2>2 DEF UnknownPage, Reply, Ops
    <3>2. QED BY <2>2, <3>1 DEF UnknownPage, TypeOK, disk, proc
  <2>3. ASSUME NEW id \in Ids, View(id) PROVE TypeOK'
    BY <2>3, MemeViewType DEF View
  <2>4. ASSUME NEW id \in Ids, NEW token \in Presentable, EditPage(id, token)
        PROVE  TypeOK'
    <3>1. CASE ~Verify(token)
      BY <2>4, <3>1, MemeViewType DEF EditPage
    <3>2. CASE Verify(token)
      <4>1. resp' \in [op : Ops, status : {0, 200, 404}, id : Ids \cup {NoId}]
        BY <2>4, <3>2 DEF EditPage, Reply, Ops
      <4>2. forms' \subseteq Ids /\ UNCHANGED <<disk, proc>>
        BY <2>4, <3>2 DEF EditPage, TypeOK
      <4>3. QED BY <4>1, <4>2 DEF TypeOK, disk, proc
    <3>3. QED BY <3>1, <3>2
  <2>5. ASSUME NEW id \in Ids, NEW token \in Presentable, Delete(id, token)
        PROVE  TypeOK'
    <3>1. CASE ~Verify(token)
      BY <2>5, <3>1, MemeViewType DEF Delete
    <3>2. CASE Verify(token)
      <4>1. resp' \in [op : Ops, status : {0, 200, 404}, id : Ids \cup {NoId}]
        BY <2>5, <3>2 DEF Delete, Reply, Ops
      <4>2. RowsOK(rows') /\ retired' \subseteq IssuedTokens
              /\ DOMAIN rows' \subseteq DOMAIN rows
        <5>1. CASE UNCHANGED <<rows, retired>>
          BY <2>0, <5>1 DEF TypeOK
        <5>2. CASE Write(Restrict(rows, DOMAIN rows \ {id}))
          <6>1. RowsOK(Restrict(rows, DOMAIN rows \ {id}))
                  /\ DOMAIN Restrict(rows, DOMAIN rows \ {id}) = DOMAIN rows \ {id}
            BY <2>0, DropRows
          <6>2. QED BY <5>2, <6>1, WriteType
        <5>3. QED BY <2>5, <3>2, <5>1, <5>2 DEF Delete, disk
      <4>3. UNCHANGED <<tableExists, up, rnd, leaked, restarts, forms>>
        BY <2>5, <3>2 DEF Delete, disk, proc
      <4>4. QED BY <4>1, <4>2, <4>3 DEF TypeOK, RowsOK
    <3>3. QED BY <3>1, <3>2
  <2>6. ASSUME NEW text \in Texts \cup {Blank}, PostNew(text) PROVE TypeOK'
    <3>1. PICK id \in Numerals :
            /\ Write(Put(rows, id, [text |-> text, token |-> NewToken(id)]))
            /\ resp' = Reply("new", 200, id)
      BY <2>6 DEF PostNew
    <3>2. id \in Ids
      BY DEF Ids
    <3>3. RowsOK(Put(rows, id, [text |-> text, token |-> NewToken(id)]))
      BY <2>0, <3>2, PutRows, NewMemeType
    <3>4. RowsOK(rows') /\ retired' \subseteq IssuedTokens
      BY <3>1, <3>3, WriteType
    <3>5. resp' \in [op : Ops, status : {0, 200, 404}, id : Ids \cup {NoId}]
      BY <3>1, <3>2 DEF Reply, Ops
    <3>6. rnd' \in 0 .. MaxTokens /\ tableExists' = TRUE
            /\ UNCHANGED <<up, leaked, restarts, forms>>
      BY <2>6 DEF PostNew, CreateTable, TypeOK
    <3>7. QED BY <3>4, <3>5, <3>6 DEF TypeOK, RowsOK
  <2>7. ASSUME NEW id \in Ids, NEW text \in Texts, PostEdit(id, text)
        PROVE  TypeOK'
    <3>1. RowsOK(Put(rows, id, [text |-> text, token |-> EditedToken(id)]))
      BY <2>0, PutRows, EditedMemeType
    <3>2. RowsOK(rows') /\ retired' \subseteq IssuedTokens
      BY <2>7, <3>1, WriteType DEF PostEdit
    <3>3. resp' \in [op : Ops, status : {0, 200, 404}, id : Ids \cup {NoId}]
      BY <2>7 DEF PostEdit, Reply, Ops
    <3>4. tableExists' = TRUE /\ UNCHANGED <<proc, forms>>
      BY <2>7 DEF PostEdit, CreateTable
    <3>5. QED BY <3>2, <3>3, <3>4 DEF TypeOK, RowsOK, proc
  <2>8. CASE PostAfterWord
    BY <2>8, StopType DEF PostAfterWord
  <2>9. ASSUME NEW op \in {"new", "edit"}, NEW id \in Ids,
               PostOnClosedHandle(op, id)
        PROVE  TypeOK'
    <3>1. CASE Stop
      BY <3>1, StopType
    <3>2. CASE ~Stop
      <4>1. resp' \in [op : Ops, status : {0, 200, 404}, id : Ids \cup {NoId}]
        BY <2>9, <3>2 DEF PostOnClosedHandle, Reply, Ops
      <4>2. UNCHANGED <<disk, proc, forms>>
        BY <2>9, <3>2 DEF PostOnClosedHandle
      <4>3. QED BY <4>1, <4>2 DEF TypeOK, disk, proc
    <3>3. QED BY <3>1, <3>2
  <2>10. CASE Kill
    BY <2>10, StopType DEF Kill
  <2>11. CASE Restart
    <3>1. resp' \in [op : Ops, status : {0, 200, 404}, id : Ids \cup {NoId}]
      BY <2>11 DEF Restart, Reply, Ops
    <3>2. QED BY <2>11, <3>1 DEF Restart, TypeOK, disk
  <2>12. CASE UNCHANGED vars
    BY <2>12 DEF TypeOK, vars
  <2>13. QED
    BY <2>1, <2>2, <2>3, <2>4, <2>5, <2>6, <2>7, <2>8, <2>9, <2>10, <2>11,
       <2>12 DEF Next
<1>3. QED BY <1>1, <1>2, PTL DEF Spec

------------------------------------------------------------------------------
(***************************************************************************)
(* What a step does to the table: nothing, or one of three writes, each    *)
(* with the tokens that leave the table entered in the history.            *)
(***************************************************************************)
Posted(id, text) ==
    /\ IsFreshId(id) /\ rnd' = rnd + 1
    /\ rows' = Put(rows, id, [text |-> text, token |-> NewToken(id)])

Edited(id, text) ==
    rows' = Put(rows, id, [text |-> text, token |-> EditedToken(id)])

Deleted(id) ==
    id \in DOMAIN rows /\ rows' = Restrict(rows, DOMAIN rows \ {id})

TableStep ==
    \/ UNCHANGED <<rows, retired>>
    \/ /\ retired' = retired \cup (LiveTokens(rows) \ LiveTokens(rows'))
       /\ \/ \E id \in Numerals, text \in Texts \cup {Blank} : Posted(id, text)
          \/ \E id \in Ids, text \in Texts : Edited(id, text)
          \/ \E id \in Numerals : Deleted(id)

LEMMA NextTable == ASSUME [Next]_vars PROVE TableStep
<1>1. CASE OpenPage
  BY <1>1 DEF OpenPage, disk, TableStep
<1>2. CASE UnknownPage
  BY <1>2 DEF UnknownPage, disk, TableStep
<1>3. ASSUME NEW id, MemeView(id) PROVE TableStep
  BY <1>3 DEF MemeView, disk, TableStep
<1>4. ASSUME NEW id \in Ids, View(id) PROVE TableStep
  BY <1>3, <1>4 DEF View
<1>5. ASSUME NEW id \in Ids, NEW token, EditPage(id, token) PROVE TableStep
  BY <1>3, <1>5 DEF EditPage, disk, TableStep
<1>6. ASSUME NEW id \in Ids, NEW token, Delete(id, token) PROVE TableStep
  <2>1. CASE UNCHANGED <<rows, retired>>
    BY <2>1 DEF TableStep
  <2>2. CASE id \in Numerals \cap DOMAIN rows
             /\ Write(Restrict(rows, DOMAIN rows \ {id}))
    BY <2>2 DEF Write, Deleted, TableStep
  <2>3. QED BY <1>3, <1>6, <2>1, <2>2 DEF Delete, disk
<1>7. ASSUME NEW text \in Texts \cup {Blank}, PostNew(text) PROVE TableStep
  <2>1. PICK id \in Numerals :
          /\ IsFreshId(id)
          /\ Write(Put(rows, id, [text |-> text, token |-> NewToken(id)]))
    BY <1>7 DEF PostNew
  <2>2. rnd' = rnd + 1
    BY <1>7 DEF PostNew
  <2>3. QED BY <2>1, <2>2 DEF Write, Posted, TableStep
<1>8. ASSUME NEW id \in Ids, NEW text \in Texts, PostEdit(id, text)
      PROVE  TableStep
  BY <1>8 DEF PostEdit, Write, Edited, TableStep
<1>9. CASE Stop
  BY <1>9 DEF Stop, disk, TableStep
<1>10. ASSUME NEW op, NEW id \in Ids, PostOnClosedHandle(op, id) PROVE TableStep
  BY <1>9, <1>10 DEF PostOnClosedHandle, disk, TableStep
<1>11. CASE Restart
  BY <1>11 DEF Restart, disk, TableStep
<1>12. CASE UNCHANGED vars
  BY <1>12 DEF vars, TableStep
<1>13. QED
  BY <1>1, <1>2, <1>4, <1>5, <1>6, <1>7, <1>8, <1>9, <1>10, <1>11, <1>12
     DEF Next, PostAfterWord, Kill

\* The three writes row by row.
Others(id) == \A i \in DOMAIN rows \ {id} : rows'[i] = rows[i]

LEMMA WrittenRow ==
    ASSUME TypeOK, NEW id \in Ids, NEW meme \in Meme, rows' = Put(rows, id, meme)
    PROVE  /\ DOMAIN rows' = DOMAIN rows \cup {id}
           /\ rows'[id] = meme
           /\ Others(id)
<1>1. RowsOK(rows)
  BY DEF TypeOK, RowsOK
<1>2. /\ DOMAIN Put(rows, id, meme) = DOMAIN rows \cup {id}
      /\ Put(rows, id, meme)[id] = meme
      /\ \A i \in DOMAIN rows \ {id} : Put(rows, id, meme)[i] = rows[i]
  BY <1>1, PutRows
<1>3. QED BY <1>2 DEF Others

LEMMA PostedRows ==
    ASSUME TypeOK, NEW id \in Numerals, NEW text \in Texts \cup {Blank},
           Posted(id, text)
    PROVE  /\ DOMAIN rows' = DOMAIN rows \cup {id}
           /\ rows'[id].text = text /\ rows'[id].token = NewToken(id)
           /\ Others(id)
<1>1. id \in Ids
  BY DEF Ids
<1>2. /\ DOMAIN rows' = DOMAIN rows \cup {id}
      /\ rows'[id] = [text |-> text, token |-> NewToken(id)]
      /\ Others(id)
  BY <1>1, WrittenRow, NewMemeType DEF Posted
<1>3. QED BY <1>2

LEMMA EditedRows ==
    ASSUME TypeOK, NEW id \in Ids, NEW text \in Texts, Edited(id, text)
    PROVE  /\ DOMAIN rows' = DOMAIN rows \cup {id}
           /\ rows'[id].text = text /\ rows'[id].token = EditedToken(id)
           /\ Others(id)
<1>1. /\ DOMAIN rows' = DOMAIN rows \cup {id}
      /\ rows'[id] = [text |-> text, token |-> EditedToken(id)]
      /\ Others(id)
  BY WrittenRow, EditedMemeType DEF Edited
<1>2. QED BY <1>1

LEMMA DeletedRows ==
    ASSUME TypeOK, NEW id \in Numerals, Deleted(id)
    PROVE  /\ id \in DOMAIN rows
           /\ DOMAIN rows' = DOMAIN rows \ {id}
           /\ Others(id)
<1>1. RowsOK(rows)
  BY DEF TypeOK, RowsOK
<1>2. QED BY <1>1, DropRows DEF Deleted, Others

------------------------------------------------------------------------------
\* A generated token names the row it is on: the part of TokenNamesMeme that a
\* step has to preserve.
TokensNameRows ==
    \A id \in DOMAIN rows :
        rows[id].token # DefaultToken => rows[id].token.id = id

LEMMA TokensNameRowsStep ==
    ASSUME TypeOK, TypeOK', TokensNameRows, TableStep
    PROVE  TokensNameRows'
<1> SUFFICES ASSUME NEW i \in DOMAIN rows', rows'[i].token # DefaultToken
             PROVE  rows'[i].token.id = i
  BY DEF TokensNameRows
<1>0. i \in DOMAIN rows /\ rows'[i] = rows[i] => rows'[i].token.id = i
  BY DEF TokensNameRows
<1>1. CASE UNCHANGED <<rows, retired>>
  BY <1>0, <1>1
<1>2. ASSUME NEW id \in Numerals, NEW text \in Texts \cup {Blank}, Posted(id, text)
      PROVE  rows'[i].token.id = i
  <2>1. NewToken(id).id = id
    BY DEF NewToken
  <2>2. /\ DOMAIN rows' = DOMAIN rows \cup {id}
        /\ rows'[id].token = NewToken(id)
        /\ Others(id)
    BY <1>2, PostedRows
  <2>3. QED BY <1>0, <2>1, <2>2 DEF Others
<1>3. ASSUME NEW id \in Ids, NEW text \in Texts, Edited(id, text)
      PROVE  rows'[i].token.id = i
  <2>1. EditedToken(id) # DefaultToken => EditedToken(id).id = id
    <3>1. id \in DOMAIN rows => EditedToken(id) = rows[id].token
      BY DEF EditedToken
    <3>2. id \notin DOMAIN rows => EditedToken(id) = DefaultToken
      BY DEF EditedToken
    <3>3. QED BY <3>1, <3>2 DEF TokensNameRows
  <2>2. /\ DOMAIN rows' = DOMAIN rows \cup {id}
        /\ rows'[id].token = EditedToken(id)
        /\ Others(id)
    BY <1>3, EditedRows
  <2>3. CASE i = id
    BY <2>1, <2>2, <2>3
  <2>4. CASE i # id
    BY <1>0, <2>2, <2>4 DEF Others
  <2>5. QED BY <2>3, <2>4
<1>4. ASSUME NEW id \in Numerals, Deleted(id) PROVE rows'[i].token.id = i
  <2>1. DOMAIN rows' = DOMAIN rows \ {id} /\ Others(id)
    BY <1>4, DeletedRows
  <2>2. QED BY <1>0, <2>1 DEF Others
<1>5. QED BY <1>1, <1>2, <1>3, <1>4 DEF TableStep

LEMMA TokensNameRowsInvariant == Spec => []TokensNameRows
<1>1. Init => TokensNameRows
  BY DEF Init, TokensNameRows
<1>2. TypeOK /\ TypeOK' /\ TokensNameRows /\ [Next]_vars => TokensNameRows'
  BY NextTable, TokensNameRowsStep
<1>3. QED BY <1>1, <1>2, TypeCorrect, PTL DEF Spec

\* A row's own token, if one was generated for it, begins with its id and is
\* accepted by verifyTokenAuthentication.
THEOREM OwnTokenVerifies == Spec => []TokenNamesMeme
<1>1. TypeOK /\ TokensNameRows => TokenNamesMeme
  <2> SUFFICES ASSUME TypeOK, TokensNameRows,
                      NEW id \in DOMAIN rows, rows[id].token # DefaultToken
               PROVE  /\ rows[id].token.id = id
                      /\ DbOpens => Verify(rows[id].token)
    BY DEF TokenNamesMeme
  <2>1. rows[id].token.id = id
    BY DEF TokensNameRows
  <2>2. rows[id].token \in IssuedTokens
    BY DEF TypeOK, Meme, RowTokens
  <2>3. QED BY <2>1, <2>2 DEF Verify
<1>2. QED BY <1>1, TypeCorrect, TokensNameRowsInvariant, PTL

------------------------------------------------------------------------------
\* Ids of one width compare as numbers: the next id after the last row's is new.
LEMMA FreshIdIsFresh ==
    ASSUME MaxId <= Rollover, TypeOK, NEW id \in Numerals, IsFreshId(id)
    PROVE  id \notin DOMAIN rows
<1>1. CASE DOMAIN rows = {}
  BY <1>1
<1>2. ASSUME NEW last \in Numerals, IsLastRow(last), id = last + 1,
             id \in DOMAIN rows
      PROVE  FALSE
  <2>1. last \in Nat /\ id \in Nat /\ last < id /\ id <= MaxId
    BY <1>2, IdAssumption DEF Numerals
  <2>2. {last, id} \cap Words = {}
    BY <2>1, WordAssumption
  <2>3. Wide(last) <=> Wide(id)
    BY <2>1, IdAssumption DEF Wide
  <2>4. TextLess(last, id)
    BY <2>1, <2>2, <2>3 DEF TextLess
  <2>5. QED BY <1>2, <2>4 DEF IsLastRow
<1>3. QED BY <1>1, <1>2 DEF IsFreshId

\* As long as ids have one width, a row that stays in the table keeps its token
\* whatever is posted, edited or deleted, and across restarts.
THEOREM TokensStayForGood ==
    ASSUME MaxId <= Rollover PROVE Spec => LiveTokenNeverChanges
<1>1. TypeOK /\ [Next]_vars => TokensStay
  <2> SUFFICES ASSUME TypeOK, [Next]_vars, NEW i \in DOMAIN rows \cap DOMAIN rows'
               PROVE  rows'[i].token = rows[i].token
    BY DEF TokensStay
  <2>1. CASE UNCHANGED <<rows, retired>>
    BY <2>1
  <2>2. ASSUME NEW id \in Numerals, NEW text \in Texts \cup {Blank}, Posted(id, text)
        PROVE  rows'[i].token = rows[i].token
    <3>1. i # id
      BY <2>2, FreshIdIsFresh DEF Posted
    <3>2. QED BY <2>2, <3>1, PostedRows DEF Others
  <2>3. ASSUME NEW id \in Ids, NEW text \in Texts, Edited(id, text)
        PROVE  rows'[i].token = rows[i].token
    BY <2>3, EditedRows DEF EditedToken, Others
  <2>4. ASSUME NEW id \in Numerals, Deleted(id)
        PROVE  rows'[i].token = rows[i].token
    BY <2>4, DeletedRows DEF Others
  <2>5. QED BY <2>1, <2>2, <2>3, <2>4, NextTable DEF TableStep
<1>2. TypeOK /\ [Next]_vars => [TokensStay]_vars
  BY <1>1
<1>3. QED BY <1>2, TypeCorrect, PTL DEF Spec, LiveTokenNeverChanges

------------------------------------------------------------------------------
\* Tokens are numbered in the order they were generated, so while no restart has
\* reset the count a token that has left the table differs from all that follow.
CountedTokens ==
    restarts = 0 =>
        /\ \A t \in retired \cup LiveTokens(rows) : t.n < rnd
        /\ retired \cap LiveTokens(rows) = {}

\* How a step changes the tokens of the table and of the history.
LEMMA LiveTokensStep ==
    ASSUME TypeOK, TableStep, ~UNCHANGED <<rows, retired>>
    PROVE  /\ retired' = retired \cup (LiveTokens(rows) \ LiveTokens(rows'))
           /\ \/ LiveTokens(rows') \subseteq LiveTokens(rows)
              \/ /\ rnd' = rnd + 1
                 /\ \E id \in Numerals :
                       LiveTokens(rows') \subseteq LiveTokens(rows) \cup {NewToken(id)}
<1>1. retired' = retired \cup (LiveTokens(rows) \ LiveTokens(rows'))
  BY DEF TableStep
<1>2. ASSUME NEW i \in DOMAIN rows, rows'[i] = rows[i],
             rows'[i].token # DefaultToken
      PROVE  rows'[i].token \in LiveTokens(rows)
  BY <1>2 DEF LiveTokens
<1>3. ASSUME NEW id \in Numerals, NEW text \in Texts \cup {Blank}, Posted(id, text)
      PROVE  LiveTokens(rows') \subseteq LiveTokens(rows) \cup {NewToken(id)}
                /\ rnd' = rnd + 1
  <2>1. ASSUME NEW i \in DOMAIN rows', rows'[i].token # DefaultToken
        PROVE  rows'[i].token \in LiveTokens(rows) \cup {NewToken(id)}
    <3>0. /\ DOMAIN rows' = DOMAIN rows \cup {id}
          /\ rows'[id].token = NewToken(id)
          /\ Others(id)
      BY <1>3, PostedRows
    <3>1. CASE i = id
      BY <3>0, <3>1
    <3>2. CASE i # id
      <4>1. i \in DOMAIN rows /\ rows'[i] = rows[i]
        BY <3>0, <3>2 DEF Others
      <4>2. QED BY <1>2, <2>1, <4>1
    <3>3. QED BY <3>1, <3>2
  <2>2. rnd' = rnd + 1
    BY <1>3 DEF Posted
  <2>3. QED BY <2>1, <2>2 DEF LiveTokens
<1>4. ASSUME NEW id \in Ids, NEW text \in Texts, Edited(id, text)
      PROVE  LiveTokens(rows') \subseteq LiveTokens(rows)
  <2>1. /\ DOMAIN rows' = DOMAIN rows \cup {id}
        /\ rows'[id].token = EditedToken(id)
        /\ Others(id)
    BY <1>4, EditedRows
  <2>2. ASSUME NEW i \in DOMAIN rows', rows'[i].token # DefaultToken
        PROVE  rows'[i].token \in LiveTokens(rows)
    <3>1. CASE i = id
      <4>1. id \in DOMAIN rows /\ rows'[i].token = rows[id].token
        BY <2>1, <2>2, <3>1 DEF EditedToken
      <4>2. QED BY <2>2, <4>1 DEF LiveTokens
    <3>2. CASE i # id
      <4>1. i \in DOMAIN rows /\ rows'[i] = rows[i]
        BY <2>1, <3>2 DEF Others
      <4>2. QED BY <1>2, <2>2, <4>1
    <3>3. QED BY <3>1, <3>2
  <2>3. QED BY <2>2 DEF LiveTokens
<1>5. ASSUME NEW id \in Numerals, Deleted(id)
      PROVE  LiveTokens(rows') \subseteq LiveTokens(rows)
  <2>1. ASSUME NEW i \in DOMAIN rows', rows'[i].token # DefaultToken
        PROVE  rows'[i].token \in LiveTokens(rows)
    <3>1. DOMAIN rows' = DOMAIN rows \ {id} /\ Others(id)
      BY <1>5, DeletedRows
    <3>2. QED BY <1>2, <2>1, <3>1 DEF Others
  <2>2. QED BY <2>1 DEF LiveTokens
<1>6. QED BY <1>1, <1>3, <1>4, <1>5 DEF TableStep

LEMMA CountNeverGoesBack ==
    ASSUME TypeOK, [Next]_vars, restarts' = 0
    PROVE  restarts = 0 /\ rnd' \in Nat /\ rnd <= rnd'
<1>1. ~Restart
  BY DEF Restart, TypeOK
<1>2. ASSUME NEW text, PostNew(text) PROVE rnd' = rnd + 1 /\ restarts' = restarts
  BY <1>2 DEF PostNew
<1>3. ASSUME NEW id, MemeView(id) PROVE UNCHANGED <<rnd, restarts>>
  BY <1>3 DEF MemeView
<1>4. CASE Stop
  BY <1>4 DEF Stop, TypeOK
<1>5. ASSUME NEW id, NEW token, EditPage(id, token) \/ Delete(id, token) \/ View(id)
      PROVE  UNCHANGED <<rnd, restarts>>
  BY <1>3, <1>5 DEF EditPage, Delete, View, proc
<1>6. ASSUME NEW op, NEW id, NEW text,
             PostEdit(id, text) \/ PostOnClosedHandle(op, id)
      PROVE  UNCHANGED <<rnd, restarts>>
  BY <1>6 DEF PostEdit, PostOnClosedHandle, Stop, proc
<1>7. CASE OpenPage \/ UnknownPage \/ UNCHANGED vars
  BY <1>7 DEF OpenPage, UnknownPage, vars, proc, TypeOK
<1>8. (rnd' = rnd + 1 /\ restarts' = restarts) \/ UNCHANGED <<rnd, restarts>>
  BY <1>1, <1>2, <1>4, <1>5, <1>6, <1>7 DEF Next, PostAfterWord, Kill, Stop,
     OpenPage, UnknownPage, vars, proc
<1>9. QED BY <1>8 DEF TypeOK

LEMMA CountedTokensStep ==
    ASSUME TypeOK, CountedTokens, [Next]_vars
    PROVE  CountedTokens'
<1> SUFFICES ASSUME restarts' = 0
             PROVE  /\ \A t \in retired' \cup LiveTokens(rows') : t.n < rnd'
                    /\ retired' \cap LiveTokens(rows') = {}
  BY DEF CountedTokens, LiveTokens
<1>1. restarts = 0 /\ rnd' \in Nat /\ rnd <= rnd' /\ rnd \in Nat
  BY CountNeverGoesBack DEF TypeOK
<1>2. LiveTokens(rows) \subseteq IssuedTokens /\ retired \subseteq IssuedTokens
  BY LiveTokensIssued DEF TypeOK, RowsOK
<1>3. ASSUME NEW t \in retired \cup LiveTokens(rows) PROVE t.n < rnd /\ t.n < rnd'
  <2>1. t.n \in Nat
    BY <1>2, LimitAssumption DEF IssuedTokens
  <2>2. QED BY <1>1, <2>1 DEF CountedTokens
<1>4. retired \cap LiveTokens(rows) = {}
  BY <1>1 DEF CountedTokens
<1>5. CASE UNCHANGED <<rows, retired>>
  BY <1>3, <1>4, <1>5
<1>6. CASE ~UNCHANGED <<rows, retired>>
  <2>1. retired' = retired \cup (LiveTokens(rows) \ LiveTokens(rows'))
    BY <1>6, NextTable, LiveTokensStep
  <2>2. CASE LiveTokens(rows') \subseteq LiveTokens(rows)
    BY <1>3, <1>4, <2>1, <2>2
  <2>3. CASE /\ rnd' = rnd + 1
             /\ \E id \in Numerals :
                   LiveTokens(rows') \subseteq LiveTokens(rows) \cup {NewToken(id)}
    <3>1. PICK id \in Numerals :
            LiveTokens(rows') \subseteq LiveTokens(rows) \cup {NewToken(id)}
      BY <2>3
    <3>2. NewToken(id).n = rnd
      BY DEF NewToken
    <3>3. NewToken(id).n < rnd'
      BY <1>1, <2>3, <3>2
    <3>4. NewToken(id) \notin retired
      BY <1>1, <1>3, <3>2
    <3>5. QED BY <1>3, <1>4, <2>1, <3>1, <3>3, <3>4
  <2>4. QED BY <1>6, <2>2, <2>3, NextTable, LiveTokensStep
<1>7. QED BY <1>5, <1>6

\* While one process lives, a token that has left the table never comes back.
THEOREM RetiredTokensStayRetired == Spec => []NoRevival
<1>1. Init => CountedTokens
  BY DEF Init, CountedTokens, LiveTokens
<1>2. TypeOK /\ CountedTokens /\ [Next]_vars => CountedTokens'
  BY CountedTokensStep
<1>3. CountedTokens => NoRevival
  BY DEF CountedTokens, NoRevival
<1>4. QED BY <1>1, <1>2, <1>3, TypeCorrect, PTL DEF Spec

------------------------------------------------------------------------------
(***************************************************************************)
(* What an answered post has stored.  Every action answers, so nothing of  *)
(* an earlier state is needed but the types; what matters is that whether  *)
(* a write may fail is the same before and after the step that writes.     *)
(***************************************************************************)
LEMMA WriteMayFailKept ==
    ASSUME UNCHANGED <<restarts, leaked>>
    PROVE  WriteMayFail' = WriteMayFail
BY DEF WriteMayFail, DbWrites

LEMMA StoredByWrite ==
    ASSUME TypeOK, NEW id \in Ids, NEW meme \in Meme, Write(Put(rows, id, meme)),
           ~WriteMayFail
    PROVE  id \in DOMAIN rows'
<1>1. rows' = Put(rows, id, meme)
  BY DEF Write
<1>2. QED BY <1>1, WrittenRow

\* Everything but a post answers something else.
LEMMA NotAPost ==
    ASSUME TypeOK, resp'.op \notin {"new", "edit"} PROVE StoredUnlessStarved'
BY DEF StoredUnlessStarved

LEMMA ViewIsNoPost ==
    ASSUME NEW id, MemeView(id) PROVE resp'.op \notin {"new", "edit"}
BY DEF MemeView, Reply

LEMMA StoredStep ==
    ASSUME TypeOK, StoredUnlessStarved, [Next]_vars
    PROVE  StoredUnlessStarved'
<1>1. CASE OpenPage \/ UnknownPage \/ PostAfterWord \/ Kill \/ Restart
  <2>1. resp'.op \notin {"new", "edit"}
    BY <1>1 DEF OpenPage, UnknownPage, PostAfterWord, Kill, Stop, Restart, Reply
  <2>2. QED BY <2>1, NotAPost
<1>2. ASSUME NEW id \in Ids, NEW token, View(id) \/ EditPage(id, token)
      PROVE  StoredUnlessStarved'
  <2>1. resp'.op \notin {"new", "edit"}
    BY <1>2, ViewIsNoPost DEF View, EditPage, Reply
  <2>2. QED BY <2>1, NotAPost
<1>3. ASSUME NEW id \in Ids, NEW token, Delete(id, token) PROVE StoredUnlessStarved'
  <2>1. resp'.op \notin {"new", "edit"}
    BY <1>3, ViewIsNoPost DEF Delete, Reply
  <2>2. QED BY <2>1, NotAPost
<1>4. ASSUME NEW text \in Texts \cup {Blank}, PostNew(text) PROVE StoredUnlessStarved'
  <2>1. PICK id \in Numerals :
          /\ Write(Put(rows, id, [text |-> text, token |-> NewToken(id)]))
          /\ resp' = Reply("new", 200, id)
    BY <1>4 DEF PostNew
  <2>2. id \in Ids
    BY DEF Ids
  <2>3. ~WriteMayFail => id \in DOMAIN rows'
    BY <2>1, <2>2, NewMemeType, StoredByWrite
  <2>4. WriteMayFail' = WriteMayFail
    BY <1>4, WriteMayFailKept DEF PostNew
  <2>5. resp'.id = id
    BY <2>1 DEF Reply
  <2>6. QED BY <2>3, <2>4, <2>5 DEF StoredUnlessStarved
<1>5. ASSUME NEW id \in Ids, NEW text \in Texts, PostEdit(id, text)
      PROVE  StoredUnlessStarved'
  <2>1. ~WriteMayFail => id \in DOMAIN rows'
    BY <1>5, EditedMemeType, StoredByWrite DEF PostEdit
  <2>2. WriteMayFail' = WriteMayFail
    BY <1>5, WriteMayFailKept DEF PostEdit, proc
  <2>3. resp'.id = id
    BY <1>5 DEF PostEdit, Reply
  <2>4. QED BY <2>1, <2>2, <2>3 DEF StoredUnlessStarved
<1>6. ASSUME NEW op \in {"new", "edit"}, NEW id \in Ids, PostOnClosedHandle(op, id)
      PROVE  StoredUnlessStarved'
  <2>1. CASE Stop
    <3>1. resp'.op \notin {"new", "edit"}
      BY <2>1 DEF Stop, Reply
    <3>2. QED BY <3>1, NotAPost
  <2>2. CASE ~Stop
    <3>1. /\ ~DbOpens \/ CannotCreateTable
          /\ resp' = Reply(op, IF DbOpens THEN 200 ELSE 404, id)
          /\ UNCHANGED <<disk, proc, forms>>
      BY <1>6, <2>2 DEF PostOnClosedHandle
    <3>2. resp'.status = 200 => WriteMayFail
      BY <3>1 DEF Reply, CannotCreateTable
    <3>3. WriteMayFail' = WriteMayFail
      BY <3>1, WriteMayFailKept DEF proc
    <3>4. QED BY <3>2, <3>3 DEF StoredUnlessStarved
  <2>3. QED BY <2>1, <2>2
<1>7. CASE UNCHANGED vars
  BY <1>7 DEF vars, StoredUnlessStarved, WriteMayFail, DbWrites
<1>8. QED BY <1>1, <1>2, <1>3, <1>4, <1>5, <1>6, <1>7 DEF Next

\* A post that was answered is in the table, unless descriptors have run out or
\* the disk fails (AddToDatabase, meme_handler.cc:679-791).
THEOREM AnsweredIsStored == Spec => []StoredUnlessStarved
<1>1. Init => StoredUnlessStarved
  BY DEF Init, StoredUnlessStarved, Reply
<1>2. TypeOK /\ StoredUnlessStarved /\ [Next]_vars => StoredUnlessStarved'
  BY StoredStep
<1>3. QED BY <1>1, <1>2, TypeCorrect, PTL DEF Spec

------------------------------------------------------------------------------
(***************************************************************************)
(* The table implements the board.  A token names its row, so the tokens   *)
(* of the table stand for distinct rows and the board is the table read    *)
(* through them; rows with the default token are not on it.                *)
(***************************************************************************)
LEMMA LiveTokenNamesRow ==
    ASSUME TypeOK, TokensNameRows, NEW t
    PROVE  t \in LiveTokens(rows)
             <=> t \in IssuedTokens /\ t.id \in DOMAIN rows /\ rows[t.id].token = t
<1>1. ASSUME t \in LiveTokens(rows)
      PROVE  t \in IssuedTokens /\ t.id \in DOMAIN rows /\ rows[t.id].token = t
  <2>1. PICK id \in DOMAIN rows : rows[id].token = t /\ t # DefaultToken
    BY <1>1 DEF LiveTokens
  <2>2. t \in IssuedTokens
    BY <1>1, LiveTokensIssued DEF TypeOK, RowsOK
  <2>3. QED BY <2>1, <2>2 DEF TokensNameRows
<1>2. ASSUME t \in IssuedTokens, t.id \in DOMAIN rows, rows[t.id].token = t
      PROVE  t \in LiveTokens(rows)
  BY <1>2, TokenAssumption DEF LiveTokens
<1>3. QED BY <1>1, <1>2

\* The same of the next state.
LEMMA LiveTokenNamesRowNext ==
    ASSUME TypeOK', TokensNameRows', NEW t
    PROVE  t \in LiveTokens(rows')
             <=> t \in IssuedTokens /\ t.id \in DOMAIN rows' /\ rows'[t.id].token = t
<1>1. ASSUME t \in LiveTokens(rows')
      PROVE  t \in IssuedTokens /\ t.id \in DOMAIN rows' /\ rows'[t.id].token = t
  <2>1. PICK id \in DOMAIN rows' : rows'[id].token = t /\ t # DefaultToken
    BY <1>1 DEF LiveTokens
  <2>2. t \in IssuedTokens
    BY <1>1, LiveTokensIssued DEF TypeOK, RowsOK
  <2>3. QED BY <2>1, <2>2 DEF TokensNameRows
<1>2. ASSUME t \in IssuedTokens, t.id \in DOMAIN rows', rows'[t.id].token = t
      PROVE  t \in LiveTokens(rows')
  BY <1>2, TokenAssumption DEF LiveTokens
<1>3. QED BY <1>1, <1>2

LEMMA PostedPublishes ==
    ASSUME MaxId <= Rollover, TypeOK, TypeOK', TokensNameRows, TokensNameRows',
           NEW id \in Numerals, NEW text \in Texts \cup {Blank}, Posted(id, text)
    PROVE  M!Publish(NewToken(id), text)
<1> DEFINE t == NewToken(id)
<1>1. t \in IssuedTokens /\ t.id = id
  BY DEF NewToken, IssuedTokens, TypeOK
<1>2. id \notin DOMAIN rows
  BY FreshIdIsFresh DEF Posted
<1>3. t \notin LiveTokens(rows)
  BY <1>1, <1>2, LiveTokenNamesRow
<1>4. /\ DOMAIN rows' = DOMAIN rows \cup {id}
      /\ rows'[id].text = text /\ rows'[id].token = t
      /\ \A i \in DOMAIN rows : rows'[i] = rows[i]
  BY <1>2, PostedRows DEF Others
<1> HIDE DEF t
<1>5. \A u : u \in LiveTokens(rows') <=> u \in LiveTokens(rows) \cup {t}
  <2> TAKE u
  <2>1. CASE u = t
    BY <1>1, <1>4, <2>1, LiveTokenNamesRowNext
  <2>2. CASE u # t
    <3>1. u.id \in DOMAIN rows /\ rows[u.id].token = u
            <=> u.id \in DOMAIN rows' /\ rows'[u.id].token = u
      BY <1>4, <2>2
    <3>2. QED BY <2>2, <3>1, LiveTokenNamesRow, LiveTokenNamesRowNext
  <2>3. QED BY <2>1, <2>2
<1>6. \A u \in LiveTokens(rows) : u.id \in DOMAIN rows
  BY LiveTokenNamesRow
<1>7. Board' = [u \in DOMAIN Board \cup {t} |-> IF u = t THEN text ELSE Board[u]]
  BY <1>1, <1>3, <1>4, <1>5, <1>6 DEF Board
<1>8. QED BY <1>1, <1>3, <1>7 DEF M!Publish, Board, t

LEMMA DeletedRemoves ==
    ASSUME TypeOK, TypeOK', TokensNameRows, TokensNameRows',
           NEW id \in Numerals, Deleted(id)
    PROVE  M!Remove(rows[id].token) \/ Board' = Board
<1> DEFINE t == rows[id].token
<1>1. /\ id \in DOMAIN rows
      /\ DOMAIN rows' = DOMAIN rows \ {id}
      /\ \A i \in DOMAIN rows' : rows'[i] = rows[i]
  BY DeletedRows DEF Others
<1>2. \A u : u \in LiveTokens(rows') <=> u \in LiveTokens(rows) /\ u.id # id
  BY <1>1, LiveTokenNamesRow, LiveTokenNamesRowNext
<1>3. \A u \in LiveTokens(rows') : rows'[u.id].text = rows[u.id].text
  BY <1>1, LiveTokenNamesRowNext
<1>4. CASE t = DefaultToken
  <2>1. \A u \in LiveTokens(rows) : u.id # id
    BY <1>4, LiveTokenNamesRow DEF LiveTokens
  <2>2. LiveTokens(rows') = LiveTokens(rows)
    BY <1>2, <2>1
  <2>3. QED BY <1>3, <2>2 DEF Board
<1>5. CASE t # DefaultToken
  <2>1. t \in LiveTokens(rows) /\ t.id = id
    BY <1>1, <1>5 DEF LiveTokens, TokensNameRows
  <2>2. \A u \in LiveTokens(rows) : u.id = id <=> u = t
    BY <2>1, LiveTokenNamesRow
  <2> HIDE DEF t
  <2>3. LiveTokens(rows') = LiveTokens(rows) \ {t}
    BY <1>2, <2>2
  <2>4. Board' = [u \in DOMAIN Board \ {t} |-> Board[u]]
    BY <1>3, <2>3 DEF Board
  <2>5. t \in DOMAIN Board
    BY <2>1 DEF Board
  <2>6. M!Remove(t)
    BY <2>4, <2>5 DEF M!Remove, M!Restrict
  <2>7. QED BY <2>6 DEF t
<1>6. QED BY <1>4, <1>5

LEMMA EditedRevises ==
    ASSUME TypeOK, TypeOK', TokensNameRows, TokensNameRows',
           NEW id \in Ids, NEW text \in Texts, Edited(id, text)
    PROVE  M!Revise(EditedToken(id), text) \/ Board' = Board
<1> DEFINE t == EditedToken(id)
<1>1. /\ DOMAIN rows' = DOMAIN rows \cup {id}
      /\ rows'[id].text = text /\ rows'[id].token = t
      /\ \A i \in DOMAIN rows \ {id} : rows'[i] = rows[i]
  BY EditedRows DEF Others
<1>2. id \in DOMAIN rows => t = rows[id].token
  BY DEF EditedToken
<1>3. id \notin DOMAIN rows => t = DefaultToken
  BY DEF EditedToken
<1> HIDE DEF t
<1>4. LiveTokens(rows') = LiveTokens(rows)
  <2>1. ASSUME NEW u PROVE u \in LiveTokens(rows') <=> u \in LiveTokens(rows)
    <3>1. CASE u.id = id
      <4>1. DefaultToken \notin IssuedTokens
        BY TokenAssumption
      <4>2. QED
        BY <1>1, <1>2, <1>3, <3>1, <4>1, LiveTokenNamesRow, LiveTokenNamesRowNext
    <3>2. CASE u.id # id
      BY <1>1, <3>2, LiveTokenNamesRow, LiveTokenNamesRowNext
    <3>3. QED BY <3>1, <3>2
  <2>2. QED BY <2>1
<1>5. \A u \in LiveTokens(rows) : u.id \in DOMAIN rows /\ rows[u.id].token = u
  BY LiveTokenNamesRow
<1>6. CASE t \in LiveTokens(rows)
  <2>1. t.id = id
    <3>1. t # DefaultToken
      BY <1>6 DEF LiveTokens
    <3>2. QED BY <1>2, <1>3, <3>1 DEF TokensNameRows
  <2>2. \A u \in LiveTokens(rows) :
          rows'[u.id].text = IF u = t THEN text ELSE rows[u.id].text
    BY <1>1, <1>2, <1>5, <1>6, <2>1
  <2>3. Board' = [Board EXCEPT ![t] = text]
    BY <1>4, <2>2 DEF Board
  <2>4. t \in DOMAIN Board
    BY <1>6 DEF Board
  <2>5. M!Revise(t, text)
    BY <2>3, <2>4 DEF M!Revise
  <2>6. QED BY <2>5 DEF t
<1>7. CASE t \notin LiveTokens(rows)
  <2>1. \A u \in LiveTokens(rows) : u.id # id
    BY <1>2, <1>5, <1>7
  <2>2. Board' = Board
    BY <1>1, <1>4, <1>5, <2>1 DEF Board
  <2>3. QED BY <2>2
<1>8. QED BY <1>6, <1>7

\* The meme application implements MemeBoard as long as ids have one width:
\* posting publishes, editing revises, deleting removes, everything else, a crash
\* and a restart included, leaves the board alone.
THEOREM Implements == ASSUME MaxId <= Rollover PROVE Spec => ImplementsBoard
<1>1. Init => M!Init
  <2> SUFFICES ASSUME Init PROVE Board = [t \in {} |-> {}]
    BY DEF M!Init
  <2>1. LiveTokens(rows) = {}
    BY DEF Init, LiveTokens
  <2>2. QED BY <2>1 DEF Board
<1>2. /\ TypeOK /\ TypeOK' /\ TokensNameRows /\ TokensNameRows' /\ [Next]_vars
      => [M!Next]_Board
  <2> SUFFICES ASSUME TypeOK, TypeOK', TokensNameRows, TokensNameRows', [Next]_vars
               PROVE  [M!Next]_Board
    OBVIOUS
  <2>1. CASE UNCHANGED <<rows, retired>>
    BY <2>1 DEF Board, LiveTokens
  <2>2. ASSUME NEW id \in Numerals, NEW text \in Texts \cup {Blank}, Posted(id, text)
        PROVE  M!Next
    <3>1. NewToken(id) \in IssuedTokens
      BY DEF NewToken, IssuedTokens, TypeOK
    <3>2. QED BY <2>2, <3>1, PostedPublishes DEF M!Next
  <2>3. ASSUME NEW id \in Ids, NEW text \in Texts, Edited(id, text)
        PROVE  [M!Next]_Board
    <3>1. ASSUME M!Revise(EditedToken(id), text) PROVE M!Next
      <4>1. EditedToken(id) \in IssuedTokens
        BY <3>1, LiveTokenNamesRow DEF M!Revise, Board
      <4>2. QED BY <3>1, <4>1 DEF M!Next
    <3>2. QED BY <2>3, <3>1, EditedRevises
  <2>4. ASSUME NEW id \in Numerals, Deleted(id) PROVE [M!Next]_Board
    <3>1. ASSUME M!Remove(rows[id].token) PROVE M!Next
      <4>1. rows[id].token \in IssuedTokens
        BY <3>1, LiveTokenNamesRow DEF M!Remove, Board
      <4>2. QED BY <3>1, <4>1 DEF M!Next
    <3>2. QED BY <2>4, <3>1, DeletedRemoves
  <2>5. QED BY <2>1, <2>2, <2>3, <2>4, NextTable DEF TableStep
<1>3. QED
  BY <1>1, <1>2, TypeCorrect, TokensNameRowsInvariant, PTL
     DEF Spec, ImplementsBoard, M!Spec
==============================================================================
