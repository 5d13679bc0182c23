--------------------------- MODULE MCRemoteFault ---------------------------
(***************************************************************************)
(* RemoteFault for TLC.                                                    *)
(***************************************************************************)
EXTENDS RemoteFault, TLC

Symmetry == Permutations(Client) \cup Permutations(Fd)
=============================================================================
