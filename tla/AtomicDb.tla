------------------------------ MODULE AtomicDb ------------------------------
(***************************************************************************)
(* What a database file promises to the transactions of its clients, with  *)
(* no locks, no journal and no caches: a transaction replaces the content  *)
(* in one step or not at all, and only a loss of power may take the last   *)
(* one back, as long as the removal of its journal has not reached the     *)
(* disk.  The promise ends, and void says so, when a client is let in that *)
(* should have recovered the database first.  PagerCommit implements this. *)
(***************************************************************************)
EXTENDS Naturals

CONSTANTS
    NPage,               \* the pages of the database; page 1 is the header
    Txn                  \* the transactions, numbered in the order they start

VARIABLES
    content,             \* content[p]: the transaction that wrote page p;
                         \* of page 1, the file change counter
    fallback,            \* the content a loss of power may bring back
    void                 \* a client was let in before a recovery: no promise

Page == 1 .. NPage

Init ==
    /\ content = [p \in Page |-> 0]
    /\ fallback = content
    /\ void = FALSE

\* A transaction later than all that the content shows writes the pages W.
Commit(t, W) ==
    /\ \A p \in Page \ {1} : content[p] < t
    /\ content' = [p \in Page |-> CASE p = 1 -> content[1] + 1
                                    [] p \in W -> t
                                    [] OTHER -> content[p]]
    /\ fallback' = content

\* From now on a loss of power finds the present content.
Settle == fallback' = content /\ UNCHANGED content

\* The power fails and the last transaction is taken back.
Revert == content' = fallback /\ fallback' = fallback

Promised ==
    \/ \E t \in Txn, W \in SUBSET (Page \ {1}) : W # {} /\ Commit(t, W)
    \/ Settle
    \/ Revert
    \/ UNCHANGED <<content, fallback>>

Next ==
    \/ ~void /\ ~void' /\ Promised
    \/ void' = TRUE

Spec == Init /\ [][Next]_<<content, fallback, void>>
=============================================================================
