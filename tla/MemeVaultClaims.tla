--------------------------- MODULE MemeVaultClaims ---------------------------
(***************************************************************************)
(* What comments and tests of the repository say of the meme application   *)
(* and MemeVault, written from the code, does not do.  Each has a run of   *)
(* its own that finds the steps by which the code departs from it.         *)
(***************************************************************************)
EXTENDS MemeVault

\* "New meme, assign a fresh ID" (meme_handler.cc:720): the id a post is
\* answered with was no row's id before.  Ids compare as text, so after the
\* last id of a width the next one is handed out for ever.
NewIdIsFresh ==
    [][resp' # resp /\ resp'.op = "new" /\ resp'.status = 200
          => resp'.id \notin DOMAIN rows]_vars

\* "Access Token (Used for Deletion)" (meme_handler.cc:497) is printed with
\* every stored meme that has one: the token on a meme's page verifies.  A form
\* posted after its meme was deleted brings the row back under "00001".
EveryTokenWorks ==
    \A id \in DOMAIN rows : DbOpens => Verify(rows[id].token)

\* "Deletes meme specified by id" (meme_handler.cc:200): a deletion that was
\* carried out and answered with success leaves no row of that id.
DeletedIsGone ==
    resp.op = "delete" /\ resp.status = 200 => resp.id \notin DOMAIN rows

\* PostNoParameterTest (tests/meme_handler_test.cc:125-132) expects a post
\* without parameters to be refused: no meme without parameters is on the board.
NoBlankMemes == \A id \in DOMAIN rows : rows[id].text # Blank

\* PostTest (tests/meme_handler_test.cc:97-104) expects a post to be answered
\* with 200; every view of a missing meme leaves a database connection open.
PostsAreAnswered == resp.op = "new" => resp.status = 200

\* "Successfully added entry!" (meme_handler.cc:782): a post answered with 200
\* is in the table.
PostedIsStored ==
    resp.op \in {"new", "edit"} /\ resp.status = 200 => resp.id \in DOMAIN rows

\* BadIDTest (tests/meme_handler_test.cc:144-151): viewing a meme that does not
\* exist is a 404.
UnknownMemeNotFound ==
    resp.op = "view" /\ resp.id \notin DOMAIN rows => resp.status = 404
==============================================================================
