---------------------------- MODULE RemoteFault ----------------------------
(***************************************************************************)
(* RemoteVfs when calls fail and client processes die.                     *)
(*                                                                         *)
(* A call that gRPC gives up on is only printed: the reply buffer, zeroed  *)
(* before the call, is decoded as if it had come from the server, so the   *)
(* client stores an empty handle and the result code is SQLITE_OK.  The    *)
(* server never learns that a client is gone: it has no sessions.          *)
(***************************************************************************)
EXTENDS RemoteVfs

CONSTANTS
    RpcMayFail,        \* TRUE: networks where gRPC gives up on calls, too
    MaxCrashes         \* how many client processes die in one behaviour

ASSUME RpcAssumption   == RpcMayFail \in BOOLEAN
ASSUME CrashAssumption == MaxCrashes \in Nat

VARIABLES
    crashes,           \* how many have died so far
    lossy              \* TRUE: on this network gRPC may give up on a call

faultVars == <<vars, crashes, lossy>>

FaultInit == Init /\ crashes = 0 /\ lossy \in {FALSE, RpcMayFail}

(***************************************************************************)
(* gRPC gives up, before the server had the request or after it replied.   *)
(* A handler that is running finishes first: it does not notice.           *)
(***************************************************************************)
RpcFails(c) ==
    /\ lossy
    /\ call[c].pc \in {"request", "reply"}
    /\ Proceed(c, "reply", ZeroFile, "OK")
    /\ UNCHANGED <<id, pagerVars, serverVars, crashes>>

\* sqlite3OsX() goes through pMethods, which an empty handle does not have.
HasMethods(c) == id[c].pInode \/ phase[c] = "closed"

PagerCalls(c) ==
    /\ HasMethods(c)
    /\ Calls(c)
    /\ UNCHANGED <<serverVars, crashes>>

(***************************************************************************)
(* A pager whose handle is empty goes on as long as nothing it does needs  *)
(* the methods: pagerLockDb() makes no call for a lock it believes it has, *)
(* pagerUnlockDb() and sqlite3OsClose() look first, and then do nothing.   *)
(***************************************************************************)
LocksNothing(c) ==
    /\ call[c].pc = "idle" /\ ~HasMethods(c)
    /\ phase[c] = "open" /\ eLock[c] \in {SHARED_LOCK, EXCLUSIVE_LOCK}
    /\ To(c, "check")
    /\ UNCHANGED <<call, id, eLock, serverVars, crashes>>

UnlocksNothing(c) ==
    /\ call[c].pc = "idle" /\ ~HasMethods(c)
    /\ phase[c] \in {"check", "hot", "ready", "failed", "error"}
    /\ To(c, "open")
    /\ UNCHANGED <<call, id, eLock, serverVars, crashes>>

ClosesNothing(c) ==
    /\ call[c].pc = "idle" /\ ~HasMethods(c)
    /\ phase[c] = "open"
    /\ eLock' = [eLock EXCEPT ![c] = NO_LOCK]
    /\ To(c, "closed")
    /\ UNCHANGED <<call, id, serverVars, crashes>>

(***************************************************************************)
(* The client process dies, for its own reasons or because it called a     *)
(* method of an empty handle.  A new process may take its place.  A client *)
(* that dies while a handler works for it dies when that handler replies.  *)
(***************************************************************************)
ClientDies(c) ==
    /\ crashes < MaxCrashes
    /\ crashes' = crashes + 1
    /\ call[c].pc \in {"idle", "request", "reply"}
    /\ call' = [call EXCEPT ![c] = NoCall]
    /\ id' = [id EXCEPT ![c] = ZeroFile]
    /\ eLock' = [eLock EXCEPT ![c] = NO_LOCK]
    /\ To(c, "closed")
    /\ UNCHANGED serverVars

FaultStep(c) ==
    \/ ServerStep(c) /\ UNCHANGED crashes
    \/ PagerCalls(c)
    \/ Returns(c) /\ UNCHANGED <<serverVars, crashes>>
    \/ RpcFails(c)
    \/ LocksNothing(c)
    \/ UnlocksNothing(c)
    \/ ClosesNothing(c)
    \/ ClientDies(c)

FaultNext == \E c \in Client : FaultStep(c) /\ UNCHANGED lossy

FaultSpec == FaultInit /\ [][FaultNext]_faultVars

-----------------------------------------------------------------------------
(***************************************************************************)
(* Dead clients leave references and locks in the unixInodeInfo.  It may   *)
(* say too much, then, and never too little: that is what keeps the living *)
(* clients apart.                                                          *)
(***************************************************************************)
TableBoundsHandles ==
    /\ Cardinality(Attached) <= inode.nRef
    /\ Cardinality(Readers) <= inode.nShared
    /\ \A c \in Client :
          /\ Held(c) <= inode.eFileLock
          /\ Held(c) > SHARED_LOCK => Held(c) = inode.eFileLock
    /\ inode.nLock = inode.nShared

(***************************************************************************)
(* As long as no call is lost, what dead clients leave behind harms nobody *)
(* living: a pager has on the server the lock it believes it has, and one  *)
(* that believes in EXCLUSIVE is alone.                                    *)
(***************************************************************************)
CrashesKeepExclusion == ~lossy => BeliefIsHeld /\ WriterExcludesReaders

(***************************************************************************)
(* When unixCheckReservedLock answers from the unixInodeInfo that somebody *)
(* has a RESERVED lock, some connection does (sqlite.h.in on the method    *)
(* xCheckReservedLock).                                                    *)
(***************************************************************************)
ReservedLockHasOwner ==
    inode.eFileLock > SHARED_LOCK => \E c \in Client : Held(c) > SHARED_LOCK
=============================================================================
