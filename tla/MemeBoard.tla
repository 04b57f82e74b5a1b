------------------------------ MODULE MemeBoard ------------------------------
(***************************************************************************)
(* What the meme application promises its users, apart from how the        *)
(* database table delivers it: every published meme is known by the access *)
(* token its author was given, keeps that token for its whole life, is     *)
(* changed only by editing and disappears only by being deleted.           *)
(* MemeVault is shown to implement this specification.                     *)
(***************************************************************************)
EXTENDS Functions

CONSTANTS Tokens,  \* the access tokens handed out with memes
          Texts    \* what a meme may say

VARIABLE board     \* token -> text, for every meme on the board

Init == board = [t \in {} |-> {}]

\* A new meme takes a token no other meme on the board has; no other meme is
\* touched by its arrival.
Publish(t, x) ==
    /\ t \in Tokens \ DOMAIN board
    /\ board' = [u \in DOMAIN board \cup {t} |-> IF u = t THEN x ELSE board[u]]

\* Editing replaces the text and keeps the token.
Revise(t, x) ==
    /\ t \in DOMAIN board
    /\ board' = [board EXCEPT ![t] = x]

Remove(t) ==
    /\ t \in DOMAIN board
    /\ board' = Restrict(board, DOMAIN board \ {t})

Next == \E t \in Tokens : \/ \E x \in Texts : Publish(t, x) \/ Revise(t, x)
                          \/ Remove(t)

Spec == Init /\ [][Next]_board
==============================================================================
