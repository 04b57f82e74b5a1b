--------------------------- MODULE MemeFormsClaims ---------------------------
(***************************************************************************)
(* What meme_handler.cc says of its search.                                *)
(***************************************************************************)
EXTENDS MCMemeForms

\* "Returns all the memes in the database that contain the term string"
\* (meme_handler.cc:873): no other meme is found.
SearchIsExact ==
    last.op = "search" =>
        \A id \in last.found : \E key \in Texts :
            Has(Visible(memes[id][key]), last.form.fill)
==============================================================================
