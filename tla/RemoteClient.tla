---------------------------- MODULE RemoteClient ----------------------------
(***************************************************************************)
(* The client's half of the VFS: the remoteX() methods.  Each sends the    *)
(* client's copy of the handle, waits, and stores what comes back.  A      *)
(* method is two steps, the sending and the return; between them run the   *)
(* server and the other clients.                                           *)
(***************************************************************************)
EXTENDS Rpc

VARIABLE id            \* id[c]: the sqlite3_file of client c

ClientInit == id = [c \in Client |-> ZeroFile]

remoteOpen(c, flags) == Send(c, "Open", NO_LOCK, flags, id[c])

remoteLock(c, lvl) == Send(c, "Lock", lvl, ReadOnly, id[c])

remoteUnlock(c, lvl) == Send(c, "Unlock", lvl, ReadOnly, id[c])

remoteCheckReservedLock(c) == Send(c, "CheckReservedLock", NO_LOCK, ReadOnly, id[c])

remoteClose(c) == Send(c, "Close", NO_LOCK, ReadOnly, id[c])

\* XConvertCharToReturn(): the returned copy replaces the client's handle.
StoreHandle(c) == id' = [id EXCEPT ![c] = call[c].file]

(***************************************************************************)
(* unixCloseConvertCharToReturn() stores no handle; sqlite3OsClose() then  *)
(* clears the methods, and the other fields keep what they had.            *)
(***************************************************************************)
ForgetHandle(c) == id' = [id EXCEPT ![c].pInode = FALSE]
=============================================================================
