----------------------------- MODULE MCFdTable -----------------------------
(***************************************************************************)
(* FdTable for TLC.  Files are interchangeable, and so are descriptors.    *)
(***************************************************************************)
EXTENDS FdTable

Symmetry == Permutations(Handle) \cup Permutations(Fd)
=============================================================================
