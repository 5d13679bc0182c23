--------------------------- MODULE MCPagerCommit ---------------------------
(***************************************************************************)
(* TLC instances of PagerCommit; the clients are interchangeable.          *)
(***************************************************************************)
EXTENDS PagerCommit, TLC

\* Bound: behind the first misled client no second fault and no second
\* transaction is explored.
MisledBound == misled => faults <= 1 /\ nTxn <= 1

Symmetry == Permutations(Client)
=============================================================================
