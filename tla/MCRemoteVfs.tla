---------------------------- MODULE MCRemoteVfs ----------------------------
(***************************************************************************)
(* RemoteVfs for TLC.  Clients are interchangeable, and so are descriptors.*)
(***************************************************************************)
EXTENDS RemoteVfs, TLC

Symmetry == Permutations(Client) \cup Permutations(Fd)
=============================================================================
