---------------------------- MODULE MCHttpCache ----------------------------
(* A small instance of HttpCache for TLC.                                  *)
EXTENDS HttpCache, TLC

CONSTANTS r1, r2, u1, u2, u4, h1, h2

\* u4 is a page of h2, the others are pages of h1.
MCHostOf == [u \in Urls |-> IF u = u4 THEN h2 ELSE h1]

\* Handlers are interchangeable, and so are the pages of h1.
Symmetric == Permutations(Reqs) \cup Permutations(Urls \ {u4})
=============================================================================
