----------------------------- MODULE LockLevels -----------------------------
(***************************************************************************)
(* The levels of the database lock.  The code compares them as numbers, so *)
(* their order is part of the model.                                       *)
(***************************************************************************)
EXTENDS Naturals

NO_LOCK        == 0
SHARED_LOCK    == 1
RESERVED_LOCK  == 2
PENDING_LOCK   == 3
EXCLUSIVE_LOCK == 4
UNKNOWN_LOCK   == EXCLUSIVE_LOCK + 1     \* only ever a value of Pager.eLock

Level == NO_LOCK .. EXCLUSIVE_LOCK
=============================================================================
