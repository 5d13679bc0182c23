------------------------------ MODULE VfsLock ------------------------------
(***************************************************************************)
(* What the lock methods of a SQLite VFS promise to the pagers that share  *)
(* one database file, with no server, no descriptors and no messages: each *)
(* connection holds one of five levels, and a level is granted only when   *)
(* the levels of all the others allow it.  RemoteVfs implements this.      *)
(***************************************************************************)
EXTENDS LockLevels

CONSTANT Client            \* the connections, one per client process

VARIABLE held              \* held[c]: the level connection c holds

Others(c) == Client \ {c}

Init == held = [c \in Client |-> NO_LOCK]

\* A reader gets in unless somebody waits for, or has, the whole file.
Share(c) ==
    /\ held[c] = NO_LOCK
    /\ \A d \in Others(c) : held[d] < PENDING_LOCK
    /\ held' = [held EXCEPT ![c] = SHARED_LOCK]

\* One reader at a time may announce that it will write.
Reserve(c) ==
    /\ held[c] = SHARED_LOCK
    /\ \A d \in Others(c) : held[d] <= SHARED_LOCK
    /\ held' = [held EXCEPT ![c] = RESERVED_LOCK]

\* It keeps new readers out while the present ones finish ...
Pend(c) ==
    /\ held[c] \in {SHARED_LOCK, RESERVED_LOCK}
    /\ \A d \in Others(c) : held[d] <= SHARED_LOCK
    /\ held' = [held EXCEPT ![c] = PENDING_LOCK]

\* ... and writes when they are gone.
Exclude(c) ==
    /\ held[c] \in SHARED_LOCK .. PENDING_LOCK
    /\ \A d \in Others(c) : held[d] = NO_LOCK
    /\ held' = [held EXCEPT ![c] = EXCLUSIVE_LOCK]

Release(c, lvl) ==
    /\ held[c] > lvl
    /\ held' = [held EXCEPT ![c] = lvl]

Next ==
    \E c \in Client :
        \/ Share(c) \/ Reserve(c) \/ Pend(c) \/ Exclude(c)
        \/ \E lvl \in {NO_LOCK, SHARED_LOCK} : Release(c, lvl)

Spec == Init /\ [][Next]_held
=============================================================================
