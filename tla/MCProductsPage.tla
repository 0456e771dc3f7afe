--------------------------- MODULE MCProductsPage ---------------------------
(* ProductsPage with three rows, two concurrent requests and two clock values. *)
EXTENDS ProductsPage, TLC

CONSTANTS p1, p2, p3, q1, q2

MCProducts == {p1, p2, p3}
MCRequests == {q1, q2}

\* Rows and requests are interchangeable model values.
MCSymmetry == Permutations(MCProducts) \cup Permutations(MCRequests)
=============================================================================
