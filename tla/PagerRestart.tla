---------------------------- MODULE PagerRestart ----------------------------
(***************************************************************************)
(* A restart of the server that the clients survive, during a commit.  A   *)
(* call made while nobody listens fails in gRPC; the client wrapper prints *)
(* the error and leaves the reply buffer as it was, all zeros, so that the *)
(* remote VFS method returns 0, which is SQLITE_OK.  A method of a file    *)
(* also copies the zeros over the handle: its pMethods are NULL then, and  *)
(* what sqlite3Os does with such a file depends on the call.  xWrite,      *)
(* xSync and xDeviceCharacteristics follow the pointer; xClose does        *)
(* nothing, xFileControl says SQLITE_NOTFOUND, which the pager takes for   *)
(* SQLITE_OK, and pagerUnlockDb skips a file that is not open.             *)
(*                                                                         *)
(* A handle that the running server process has not issued points into the *)
(* memory of another process.  Of the calls with such a handle the end of  *)
(* a commit is modelled, xClose of the journal and xUnlock; a client that  *)
(* is anywhere else opens the database again.                              *)
(***************************************************************************)
EXTENDS PagerCommit

VARIABLES
    up,              \* the server process runs
    connected,       \* the clients whose handles this process has issued
    zeroed,          \* <<client, file>>: the handle has become all zeros
    acked            \* change counter of the last commit that returned OK

serverProcess == <<held, up, connected>>
restartVars == <<vars, up, connected, zeroed, acked>>

RestartInit == Init /\ up = TRUE /\ connected = Client /\ zeroed = {} /\ acked = 0

\* sqlite3PagerCommitPhaseTwo returns when the lock is back at SHARED.
Acknowledge(c) ==
    acked' = IF At(c, "none", "unlock") THEN pager[c].vers ELSE acked

Served(c) ==
    /\ up /\ c \in connected
    /\ ClientStep(c)
    /\ Acknowledge(c)
    /\ UNCHANGED <<up, connected, zeroed>>

\* A call of sqlite3PagerCommitPhaseOne is lost: the client ends with the next
\* one about the same file.
LostCallKills(c) ==
    /\ ~up /\ pager[c].op = "commit"
    /\ pager' = [pager EXCEPT ![c] = [NewPager EXCEPT !.state = "DEAD"]]
    /\ UNCHANGED <<server, nTxn, faults, misled, serverProcess, zeroed, acked>>

\* Unless it is the last one, and the server was there for the xFileControl of
\* sqlite3PagerSync and not for the xSync behind it.
LostSync(c) ==
    /\ ~up /\ At(c, "commit", "dbsync")
    /\ pager' = [pager EXCEPT ![c].op = "none", ![c].pc = "idle",
                              ![c].state = "WRITER_FINISHED"]
    /\ zeroed' = zeroed \cup {<<c, "db">>}
    /\ UNCHANGED <<server, nTxn, faults, misled, serverProcess, acked>>

ServerEnds ==
    /\ up' = FALSE
    /\ connected' = {}
    /\ held' = [c \in Client |-> NO_LOCK]

\* A call with a handle of a process that is gone: it has no effect, or there is
\* a server, which follows the pInode in the handle and ends as well.
StaleCall(c, file) ==
    \/ UNCHANGED serverProcess
    \/ up /\ <<c, file>> \notin zeroed /\ ServerEnds

\* pager_end_transaction of a client that this server process does not know.
\* A journal has no pInode, but the methods of its descriptor, if the list of
\* this process has none, are those of a database: unixClose follows NULL.
StaleClose(c) ==
    /\ c \notin connected /\ <<c, "journal">> \notin zeroed
    /\ pager[c].state = "WRITER_FINISHED" /\ At(c, "none", "idle")
    /\ StaleCall(c, "journal")
    /\ zeroed' = zeroed \cup {<<c, "journal">>}
    /\ UNCHANGED <<pager, server, nTxn, faults, misled, acked>>

\* xDelete goes by the name of the file, and so works as soon as there is a
\* server; the journal may have been rolled back and deleted by then.
StaleDelete(c) ==
    /\ c \notin connected /\ <<c, "journal">> \in zeroed
    /\ pager[c].state = "WRITER_FINISHED" /\ At(c, "none", "idle")
    /\ \/ up /\ Exists(jrnl) /\ EndTransaction(c)
       \/ /\ up /\ ~Exists(jrnl)
          /\ pager' = [pager EXCEPT ![c].state = "ERROR"]
          /\ UNCHANGED <<held, server, nTxn, faults, misled>>
       \/ /\ ~up
          /\ Goto(c, "unlock")
          /\ UNCHANGED <<held, server, nTxn, faults, misled>>
    /\ UNCHANGED <<up, connected, zeroed, acked>>

StaleUnlock(c) ==
    /\ c \notin connected
    /\ At(c, "none", "unlock")
    /\ StaleCall(c, "db")
    /\ pager' = [pager EXCEPT ![c] = Ended(@)]
    /\ Acknowledge(c)
    /\ UNCHANGED <<server, nTxn, faults, misled, zeroed>>

ServerStops ==
    /\ up /\ Fault
    /\ ServerEnds
    /\ UNCHANGED <<pager, server, nTxn, zeroed, acked>>

ServerStarts ==
    /\ ~up
    /\ up' = TRUE
    /\ UNCHANGED <<vars, connected, zeroed, acked>>

Reopen(c) ==
    /\ up /\ c \notin connected
    /\ connected' = connected \cup {c}
    /\ zeroed' = {z \in zeroed : z[1] # c}
    /\ pager' = [pager EXCEPT ![c] = NewPager]
    /\ UNCHANGED <<held, server, nTxn, faults, misled, up, acked>>

RestartNext ==
    \/ \E c \in Client :
          \/ Served(c) \/ LostCallKills(c) \/ LostSync(c)
          \/ StaleClose(c) \/ StaleDelete(c) \/ StaleUnlock(c) \/ Reopen(c)
    \/ ServerStops \/ ServerStarts

RestartSpec == RestartInit /\ [][RestartNext]_restartVars

\* A commit that was reported as done stays in the database: "Once this is
\* done the transaction is irrevocably committed" (sqlite3PagerCommitPhaseTwo).
\* The database of the next reader has at least the change counter of the
\* last commit that returned SQLITE_OK.
CommitIsIrrevocable == Content[1] >= acked
=============================================================================
