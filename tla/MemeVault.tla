------------------------------ MODULE MemeVault ------------------------------
(***************************************************************************)
(* The meme application (meme_handler.cc): its one SQLite table, which is  *)
(* all the state that survives a restart, the process that serves it, and  *)
(* the pages and tokens its users hold.                                    *)
(*                                                                         *)
(* One thread runs the io_service, so a request is one step; what          *)
(* interleaves is users.  A user may hold an edit form while others delete *)
(* the meme it shows, post the same form again and again, or have the body *)
(* of a request cut off (session.cc reads up to the end of the header).    *)
(***************************************************************************)
EXTENDS Naturals, FiniteSets, Functions

CONSTANTS
    FirstId,      \* the id of the first meme, "10000" in the code
    Rollover,     \* the last id with as many digits as FirstId, "99999"
    MaxId,        \* bound: no meme gets a higher id than this one
    Base,         \* the base ids are written in, 10 in the code
    Words,        \* ids that are not numerals and sort after every numeral
    Texts,        \* what users write on memes
    Blank,        \* the text of a meme made from a body without parameters
    Master,       \* the master token
    NoToken,      \* no access token in the request
    DefaultToken, \* "00001", the token of a row no token was generated for
    FdLimit,      \* file descriptors a request may use, leaked ones included
    MaxTokens,    \* bound on the tokens one process generates
    MaxRestarts,  \* bound on restarts
    FaultyLives   \* the lives of the process, counted by restarts, in which a
                  \* write to the database file may fail

Numerals == FirstId .. MaxId
Ids      == Numerals \cup Words

\* gen_access_token is the only caller of rand(), which is never seeded: the
\* scramble is determined by how many were drawn since the process started.
IssuedTokens == [id : Numerals, n : 0 .. MaxTokens]
RowTokens    == IssuedTokens \cup {DefaultToken}

ASSUME IdAssumption ==
    /\ FirstId \in Nat /\ Rollover \in Nat /\ MaxId \in Nat /\ Base \in Nat \ {0}
    /\ FirstId <= Rollover /\ FirstId <= MaxId /\ MaxId < Base * (Rollover + 1)
ASSUME WordAssumption == Words \cap Nat = {}
ASSUME TokenAssumption ==
    /\ {Master, NoToken, DefaultToken} \cap IssuedTokens = {}
    /\ Master # NoToken /\ Master # DefaultToken /\ NoToken # DefaultToken
ASSUME TextAssumption == Blank \notin Texts
ASSUME LimitAssumption ==
    /\ FdLimit \in Nat /\ MaxTokens \in Nat /\ MaxRestarts \in Nat
    /\ FaultyLives \subseteq Nat

VARIABLES
    rows,         \* MEME_HISTORY: id -> its text and access token (on disk)
    tableExists,  \* whether MEME_HISTORY has been created (on disk)
    up,           \* whether the process runs
    rnd,          \* tokens generated since the process started
    leaked,       \* database connections the process has not closed
    forms,        \* ids of the edit forms users hold
    retired,      \* history: tokens that have left the table
    restarts,     \* how often the process was started again
    resp          \* the last response: what was asked, the status, the id

disk == <<rows, tableExists, retired>>
proc == <<up, rnd, leaked, restarts>>
vars == <<rows, tableExists, up, rnd, leaked, forms, retired, restarts, resp>>

Ops == {"none", "page", "unknown", "view", "form", "delete", "new", "edit"}
Reply(op, status, id) == [op |-> op, status |-> status, id |-> id]
NoId == 0

Meme == [text : Texts \cup {Blank}, token : RowTokens]

TypeOK ==
    /\ DOMAIN rows \subseteq Ids
    /\ rows \in [DOMAIN rows -> Meme]
    /\ tableExists \in BOOLEAN
    /\ DOMAIN rows # {} => tableExists
    /\ up \in BOOLEAN
    /\ rnd \in 0 .. MaxTokens
    /\ leaked \in 0 .. FdLimit
    /\ forms \subseteq Ids
    /\ retired \subseteq IssuedTokens
    /\ restarts \in Nat
    /\ resp \in [op : Ops, status : {0, 200, 404}, id : Ids \cup {NoId}]

------------------------------------------------------------------------------
\* The table.

LiveTokens(r) == {r[id].token : id \in DOMAIN r} \ {DefaultToken}

MutantPut(r, id, meme) ==                    \* UPDATE instead of INSERT OR REPLACE
    [i \in DOMAIN r |-> IF i = id THEN meme ELSE r[i]]
Put(r, id, meme) ==
    [i \in DOMAIN r \cup {id} |-> IF i = id THEN meme ELSE r[i]]

\* sqlite3_open opens the file; a write needs a second descriptor for the
\* rollback journal.
MutantDbOpens == leaked <= FdLimit           \* a limit off by one
DbOpens  == leaked < FdLimit
DbWrites == leaked + 1 < FdLimit

\* MEME_ID is a TEXT column, so MAX(MEME_ID) compares digit by digit; a prefix
\* is less than what it is a prefix of.
Wide(i) == i > Rollover
TextLess(a, b) ==
    \/ a \notin Words /\ b \in Words
    \/ /\ {a, b} \cap Words = {}
       /\ \/ (Wide(a) <=> Wide(b)) /\ a < b
          \/ ~Wide(a) /\ Wide(b) /\ a <= b \div Base
          \/ Wide(a) /\ ~Wide(b) /\ a \div Base < b

IsLastRow(id) ==
    id \in DOMAIN rows /\ \A other \in DOMAIN rows : ~TextLess(id, other)

\* COUNT(*) instead of MAX(MEME_ID)
MutantIsFreshId(id) == id = FirstId + Cardinality(DOMAIN rows)

\* "SELECT MAX(MEME_ID)": the id after the last row's, or FirstId if there is none.
IsFreshId(id) ==
    \/ DOMAIN rows = {} /\ id = FirstId
    \/ \E last \in Numerals : IsLastRow(last) /\ id = last + 1

MutantTokenOfLastId(id) ==                   \* made before the id is incremented
    [id |-> IF id = FirstId THEN id ELSE id - 1, n |-> rnd]
MutantSameScramble(id) == [id |-> id, n |-> 0]  \* a scramble that does not vary

\* The id and the output of gen_access_token, joined by a dash.
NewToken(id) == [id |-> id, n |-> rnd]

\* verifyTokenAuthentication: the row the token names must hold that very token.
Verify(token) ==
    \/ token = Master
    \/ /\ token \in IssuedTokens
       /\ DbOpens
       /\ token.id \in DOMAIN rows
       /\ rows[token.id].token = token

\* The tokens a user may present: those they were shown, or none.
Presentable ==
    LiveTokens(rows) \cup retired \cup {Master, NoToken, DefaultToken}

MutantEditedToken(id) == IF id \in Numerals THEN NewToken(id) ELSE DefaultToken

\* The token an edited row ends up with; a row that is gone gets the default.
EditedToken(id) == IF id \in DOMAIN rows THEN rows[id].token ELSE DefaultToken

WriteMayFail == restarts \in FaultyLives \/ ~DbWrites

\* A statement that writes: the result of sqlite3_step is not looked at, so a
\* write that fails leaves the table as it was and the request goes on.
Write(r) ==
    \/ /\ DbWrites
       /\ rows' = r
       /\ retired' = retired \cup (LiveTokens(rows) \ LiveTokens(r))
    \/ /\ WriteMayFail
       /\ UNCHANGED <<rows, retired>>

\* "CREATE TABLE IF NOT EXISTS"
CreateTable == /\ tableExists \/ DbWrites
               /\ tableExists' = TRUE
CannotCreateTable == ~tableExists /\ WriteMayFail

------------------------------------------------------------------------------
\* Requests.  Every page is read from a template file once the database is
\* closed again, so it needs a descriptor too.

\* The create, list and search pages read the table and change nothing.
OpenPage ==
    /\ up
    /\ resp' = Reply("page", IF DbOpens THEN 200 ELSE 404, NoId)
    /\ UNCHANGED <<disk, proc, forms>>

\* A path none of the branches knows, a search without "&sort=", a view
\* without "id=".
UnknownPage ==
    /\ up
    /\ resp' = Reply("unknown", 404, NoId)
    /\ UNCHANGED <<disk, proc, forms>>

\* MemeView.  With no table the statement cannot be prepared and an empty page
\* is served; a row that is not found returns early, without closing.
MemeView(id) ==
    /\ \/ /\ ~DbOpens
          /\ resp' = Reply("view", 404, id)
          /\ UNCHANGED leaked
       \/ /\ DbOpens
          /\ tableExists => id \in DOMAIN rows
          /\ resp' = Reply("view", 200, id)
          /\ UNCHANGED leaked
       \/ /\ DbOpens
          /\ tableExists /\ id \notin DOMAIN rows
          /\ resp' = Reply("view", 404, id)
          /\ leaked' = leaked + 1
    /\ UNCHANGED <<disk, up, rnd, restarts, forms>>

View(id) == up /\ MemeView(id)

\* "edit?id=": the form for the id in the URL, whether or not the row exists,
\* if the token in the body is a good one; otherwise the view page.
EditPage(id, token) ==
    /\ up
    /\ \/ /\ Verify(token)
          /\ forms' = IF DbOpens THEN forms \cup {id} ELSE forms
          /\ resp' = Reply("form", IF DbOpens THEN 200 ELSE 404, id)
          /\ UNCHANGED <<disk, proc>>
       \/ /\ ~Verify(token)
          /\ MemeView(id)

\* "delete?id=".  The id goes into the statement unquoted: a word names a
\* column that does not exist and nothing is deleted.  MemeDelete has no return
\* on its last path, so the status is whatever the caller finds.
Delete(id, token) ==
    /\ up
    /\ \/ /\ Verify(token) /\ DbOpens
          /\ IF id \in Numerals \cap DOMAIN rows
             THEN Write(Restrict(rows, DOMAIN rows \ {id}))
             ELSE UNCHANGED <<rows, retired>>
          /\ \E status \in {200, 404} : resp' = Reply("delete", status, id)
          /\ UNCHANGED <<tableExists, proc, forms>>
       \/ /\ Verify(token) /\ ~DbOpens
          /\ resp' = Reply("delete", 404, id)
          /\ UNCHANGED <<disk, proc, forms>>
       \/ /\ ~Verify(token)
          /\ MemeView(id)

\* A POST without "posttype=edit": a meme under a fresh id.  A body that was cut
\* off, of an edit form's too, says nothing and makes a blank one.
PostNew(text) ==
    /\ up /\ DbOpens /\ CreateTable
    /\ rnd < MaxTokens
    /\ \E id \in Numerals :
          /\ IsFreshId(id)
          /\ Write(Put(rows, id, [text |-> text, token |-> NewToken(id)]))
          /\ resp' = Reply("new", 200, id)
    /\ rnd' = rnd + 1
    /\ UNCHANGED <<up, leaked, restarts, forms>>

\* A POST of an edit form, which carries the id and no token.
PostEdit(id, text) ==
    /\ up /\ DbOpens /\ CreateTable
    /\ id \in forms
    /\ Write(Put(rows, id, [text |-> text, token |-> EditedToken(id)]))
    /\ resp' = Reply("edit", 200, id)
    /\ UNCHANGED <<proc, forms>>

Stop == /\ up' = FALSE
        /\ resp' = Reply("none", 0, NoId)
        /\ UNCHANGED <<disk, rnd, leaked, restarts, forms>>

\* stoi throws on a word and nothing catches it before main.
PostAfterWord ==
    /\ up /\ DbOpens
    /\ \E last \in Words : IsLastRow(last)
    /\ Stop

\* AddToDatabase goes on with a handle it has closed.  Either the library
\* rejects every call, and the result page is that of "10000" or of the id the
\* form has, or the process dies.
PostOnClosedHandle(op, id) ==
    /\ up
    /\ ~DbOpens \/ CannotCreateTable
    /\ \/ op = "new" /\ id = FirstId
       \/ op = "edit" /\ id \in forms
    /\ \/ /\ resp' = Reply(op, IF DbOpens THEN 200 ELSE 404, id)
          /\ UNCHANGED <<disk, proc, forms>>
       \/ Stop

Kill == up /\ Stop

Restart ==
    /\ ~up /\ restarts < MaxRestarts
    /\ up' = TRUE
    /\ rnd' = 0 /\ leaked' = 0
    /\ restarts' = restarts + 1
    /\ resp' = Reply("none", 0, NoId)
    /\ UNCHANGED <<disk, forms>>

------------------------------------------------------------------------------
Init ==
    /\ rows = [id \in {} |-> {}]
    /\ tableExists = FALSE
    /\ up = TRUE
    /\ rnd = 0 /\ leaked = 0 /\ restarts = 0
    /\ forms = {} /\ retired = {}
    /\ resp = Reply("none", 0, NoId)

Next ==
    \/ OpenPage
    \/ UnknownPage
    \/ \E id \in Ids : View(id)
    \/ \E id \in Ids, token \in Presentable : EditPage(id, token)
    \/ \E id \in Ids, token \in Presentable : Delete(id, token)
    \/ \E text \in Texts \cup {Blank} : PostNew(text)
    \/ \E id \in Ids, text \in Texts : PostEdit(id, text)
    \/ PostAfterWord
    \/ \E op \in {"new", "edit"}, id \in Ids : PostOnClosedHandle(op, id)
    \/ Kill
    \/ Restart

Spec == Init /\ [][Next]_vars

------------------------------------------------------------------------------
\* The token a meme's author holds begins with the id of that meme
\* (AddToDatabase, meme_handler.cc:732), which is what verifyTokenAuthentication
\* relies on when it takes the id from the token (:137-144): a row's own token,
\* if it was generated for it at all, is always accepted.
TokenNamesMeme ==
    \A id \in DOMAIN rows :
        LET token == rows[id].token
        IN  token # DefaultToken => token.id = id /\ (DbOpens => Verify(token))

\* However posts, edits, deletions and restarts follow one another, a row that
\* stays in the table keeps its token: "read access token of existing entry"
\* (meme_handler.cc:753), and a new meme never lands on the row of another one.
TokensStay ==
    \A id \in DOMAIN rows \cap DOMAIN rows' : rows'[id].token = rows[id].token
LiveTokenNeverChanges == [][TokensStay]_vars

\* While one process lives, the token of a meme that is gone opens no other
\* meme, although the ids of deleted memes are given out again
\* (meme_handler.cc:729, :732).  After a restart rand() starts over and it may.
NoRevival == restarts = 0 => retired \cap LiveTokens(rows) = {}

\* Unless descriptors have run out or the disk fails, a post that was answered is
\* in the table when it is answered (AddToDatabase, then MemeResult, in one step).
StoredUnlessStarved ==
    resp.op \in {"new", "edit"} /\ resp.status = 200 /\ ~WriteMayFail
        => resp.id \in DOMAIN rows

\* The board users see: what each generated token stands for.
Board == [t \in LiveTokens(rows) |-> rows[t.id].text]
M == INSTANCE MemeBoard WITH Tokens <- IssuedTokens,
                             Texts  <- Texts \cup {Blank},
                             board  <- Board

\* The table implements the board (ids of one width).
ImplementsBoard == M!Spec
==============================================================================
