----------------------------- MODULE PagerLock -----------------------------
(***************************************************************************)
(* The caller of the lock methods: the lock layer of the pager, with the   *)
(* order in which it makes the calls.  Pager.eLock is what the pager       *)
(* believes it holds; it is all that the code above ever looks at.         *)
(***************************************************************************)
EXTENDS RemoteClient

VARIABLES
    eLock,     \* eLock[c]: Pager.eLock
    phase      \* phase[c]: where the pager of c is, see Phase

pagerVars == <<eLock, phase>>

(***************************************************************************)
(* closed  no file                                                         *)
(* open    PAGER_OPEN, between transactions                                *)
(* check   SHARED just granted: the hot-journal check is next              *)
(* hot     no RESERVED lock was seen: the journal may be hot               *)
(* ready   reading or writing                                              *)
(* failed  PagerSharedLock goes to failed: with pager_unlock() next        *)
(* error   PAGER_ERROR, pager_unlock() next                                *)
(***************************************************************************)
Phase == {"closed", "open", "check", "hot", "ready", "failed", "error"}

PagerInit ==
    /\ eLock = [c \in Client |-> NO_LOCK]
    /\ phase = [c \in Client |-> "closed"]

To(c, p) == phase' = [phase EXCEPT ![c] = p]

-----------------------------------------------------------------------------
\* The calls the pager makes.
OpenDatabase(c) ==
    /\ phase[c] = "closed"
    /\ \E flags \in Flag : remoteOpen(c, flags)
    /\ UNCHANGED <<id, pagerVars>>

BeginRead(c) ==
    /\ phase[c] = "open"
    /\ remoteLock(c, SHARED_LOCK)
    /\ UNCHANGED <<id, pagerVars>>

\* A journal exists: is its writer alive?
CheckHotJournal(c) ==
    /\ phase[c] = "check" /\ eLock[c] <= SHARED_LOCK
    /\ remoteCheckReservedLock(c)
    /\ UNCHANGED <<id, pagerVars>>

BeginHotRollback(c) ==
    /\ \/ phase[c] = "hot"
       \/ phase[c] = "check" /\ eLock[c] = UNKNOWN_LOCK
    /\ remoteLock(c, EXCLUSIVE_LOCK)
    /\ UNCHANGED <<id, pagerVars>>

BeginWrite(c) ==
    /\ phase[c] \in {"check", "hot", "ready"}
    /\ eLock[c] = SHARED_LOCK
    /\ remoteLock(c, RESERVED_LOCK)
    /\ UNCHANGED <<id, pagerVars>>

BeginCommit(c) ==
    /\ phase[c] = "ready" /\ eLock[c] = RESERVED_LOCK
    /\ remoteLock(c, EXCLUSIVE_LOCK)
    /\ UNCHANGED <<id, pagerVars>>

\* pager_end_transaction() keeps the read lock.
EndWrite(c) ==
    /\ phase[c] = "ready" /\ eLock[c] \in {RESERVED_LOCK, EXCLUSIVE_LOCK}
    /\ remoteUnlock(c, SHARED_LOCK)
    /\ UNCHANGED <<id, pagerVars>>

\* pager_unlock() of a reader, and after an error.
PagerUnlock(c) ==
    /\ \/ phase[c] \in {"check", "hot", "ready"} /\ eLock[c] = SHARED_LOCK
       \/ phase[c] \in {"failed", "error"}
    /\ remoteUnlock(c, NO_LOCK)
    /\ UNCHANGED <<id, pagerVars>>

CloseDatabase(c) ==
    /\ phase[c] = "open"
    /\ remoteClose(c)
    /\ UNCHANGED <<id, pagerVars>>

\* Reading, writing or rolling back fails with an I/O error.
WriterFails(c) ==
    /\ call[c].pc = "idle"
    /\ phase[c] = "ready" /\ eLock[c] > SHARED_LOCK
    /\ To(c, "error")
    /\ UNCHANGED <<call, id, eLock>>

-----------------------------------------------------------------------------
\* The returns.
OpenReturns(c) ==
    /\ Returned(c, "Open") /\ StoreHandle(c)
    /\ To(c, IF call[c].rc = "OK" THEN "open" ELSE "closed")
    /\ UNCHANGED eLock

\* Faulty variant: the result code is not looked at.
LockDb_IgnoresResult(c) == eLock' = [eLock EXCEPT ![c] = call[c].lvl]

\* pagerLockDb()
LockDb(c) ==
    eLock' = [eLock EXCEPT ![c] =
                IF call[c].rc = "OK" /\ (@ # UNKNOWN_LOCK \/ call[c].lvl = EXCLUSIVE_LOCK)
                  THEN call[c].lvl ELSE @]

\* A BUSY answer for SHARED is asked again while the busy handler says so.
SharedLockReturns(c) ==
    /\ call[c].lvl = SHARED_LOCK
    /\ Returned(c, "Lock") /\ StoreHandle(c) /\ LockDb(c)
    /\ \/ call[c].rc = "OK" /\ To(c, "check")
       \/ call[c].rc # "OK" /\ To(c, "failed")
       \/ call[c].rc = "BUSY" /\ UNCHANGED phase

\* A writer that is refused keeps what it has; a rollback that is, gives up.
WriteLockReturns(c) ==
    /\ call[c].lvl > SHARED_LOCK
    /\ Returned(c, "Lock") /\ StoreHandle(c) /\ LockDb(c)
    /\ CASE call[c].rc = "OK" -> To(c, "ready")
         [] call[c].rc # "OK" /\ (call[c].lvl = RESERVED_LOCK \/ phase[c] = "ready") ->
              UNCHANGED phase
         [] OTHER -> To(c, "failed")

\* pagerUnlockDb(), after which pager_unlock() makes the pager OPEN.
UnlockDb(c) ==
    [eLock EXCEPT ![c] = IF @ = UNKNOWN_LOCK THEN @ ELSE call[c].lvl]

EndWriteReturns(c) ==
    /\ call[c].lvl = SHARED_LOCK
    /\ Returned(c, "Unlock") /\ StoreHandle(c)
    /\ eLock' = UnlockDb(c)
    /\ \/ UNCHANGED phase
       \/ call[c].rc # "OK" /\ To(c, "error")

PagerUnlockReturns(c) ==
    /\ call[c].lvl = NO_LOCK
    /\ Returned(c, "Unlock") /\ StoreHandle(c)
    /\ eLock' = IF call[c].rc # "OK" /\ phase[c] = "error"
                  THEN [eLock EXCEPT ![c] = UNKNOWN_LOCK] ELSE UnlockDb(c)
    /\ To(c, "open")

CheckReservedReturns(c) ==
    /\ Returned(c, "CheckReservedLock") /\ StoreHandle(c)
    /\ To(c, CASE call[c].rc # "OK" -> "failed"
               [] call[c].rc = "OK" /\ call[c].out -> "ready"
               [] OTHER -> "hot")
    /\ UNCHANGED eLock

CloseReturns(c) ==
    /\ Returned(c, "Close") /\ ForgetHandle(c)
    /\ eLock' = [eLock EXCEPT ![c] = NO_LOCK]
    /\ To(c, "closed")

Calls(c) ==
    \/ OpenDatabase(c) \/ BeginRead(c) \/ CheckHotJournal(c) \/ BeginHotRollback(c)
    \/ BeginWrite(c) \/ BeginCommit(c) \/ EndWrite(c) \/ PagerUnlock(c)
    \/ CloseDatabase(c) \/ WriterFails(c)

Returns(c) ==
    \/ OpenReturns(c) \/ SharedLockReturns(c) \/ WriteLockReturns(c)
    \/ EndWriteReturns(c) \/ PagerUnlockReturns(c) \/ CheckReservedReturns(c)
    \/ CloseReturns(c)
=============================================================================
