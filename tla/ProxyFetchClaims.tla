--------------------------- MODULE ProxyFetchClaims ---------------------------
(***************************************************************************)
(* What the README says of the proxy and the code does not keep.           *)
(***************************************************************************)
EXTENDS ProxyFetch

\* "serves content of another server via itself" (README.md:30): the answer is
\* the body the other server sent.
ServesContent == pc = "done" /\ ~notice => body = Pieces(2, Total)
==============================================================================
