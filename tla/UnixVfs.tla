------------------------------ MODULE UnixVfs ------------------------------
(***************************************************************************)
(* The server: WrapOpen, WrapLock, WrapUnlock, WrapCheckReservedLock and   *)
(* WrapClose, each run by a thread of the gRPC pool, down to the unix VFS  *)
(* they call.  All the clients' handles on one database share one          *)
(* unixInodeInfo, and the operating system sees them all as one process.   *)
(*                                                                         *)
(* Steps are the critical sections of the code.  unixLock, posixUnlock and *)
(* unixCheckReservedLock hold pInode->pLockMutex from the first read of    *)
(* *pInode to the last write.  unixOpen and unixClose do not: they have    *)
(* several sections, and unixClose decides what to do with its descriptor  *)
(* in one section of pLockMutex and does it after leaving it.              *)
(***************************************************************************)
EXTENDS Rpc

CONSTANT
    NetworkMount       \* TRUE: giving an fcntl() lock back may fail

ASSUME NetworkMountAssumption == NetworkMount \in BOOLEAN

VARIABLES
    inode,     \* the unixInodeInfo; nRef = 0 when it is not on inodeList
    fds,       \* descriptors the server process has open on the database
    klock      \* fcntl() locks of the server process on the database

serverVars == <<inode, fds, klock>>

InodeInfo == [nRef : Nat, nShared : Nat, nLock : Nat, eFileLock : Level,
              pUnused : SUBSET [fd : Fd, flags : Flag]]

NoInode == [nRef |-> 0, nShared |-> 0, nLock |-> 0, eFileLock |-> NO_LOCK,
            pUnused |-> {}]

\* The three byte ranges the locking protocol uses, and the fcntl() lock types.
UNLCK == 0
RDLCK == 1
WRLCK == 2

KernelLock == [pending : UNLCK .. WRLCK, reserved : UNLCK .. WRLCK, shared : UNLCK .. WRLCK]

NoKernelLock == [pending |-> UNLCK, reserved |-> UNLCK, shared |-> UNLCK]

ServerInit ==
    /\ inode = NoInode
    /\ fds = {}
    /\ klock = NoKernelLock

(***************************************************************************)
(* Closing any descriptor on a file drops every fcntl() lock the process   *)
(* has on that file.                                                       *)
(***************************************************************************)
AfterClosing(closed, k) == IF closed = {} THEN k ELSE NoKernelLock

UnusedFds == {u.fd : u \in inode.pUnused}

\* Nobody is between unixEnterMutex() and unixLeaveMutex().
BigLockFree == \A d \in Client : call[d].pc # "release"

-----------------------------------------------------------------------------
(***************************************************************************)
(* unixOpen of the database.  First a descriptor, one that waits on        *)
(* pUnused if the flags are the same.                                      *)
(***************************************************************************)
Reusable(flags) == {u \in inode.pUnused : u.flags = flags}

OpenReusesFd(c) ==
    /\ Requested(c, "Open") /\ BigLockFree
    /\ \E u \in Reusable(call[c].flags) :
          /\ inode' = [inode EXCEPT !.pUnused = @ \ {u}]
          /\ Proceed(c, "fill", NewFile(u.fd, u.flags), "OK")
    /\ UNCHANGED <<fds, klock>>

OpenNewFd(c) ==
    /\ Requested(c, "Open") /\ BigLockFree
    /\ Reusable(call[c].flags) = {}
    /\ \E fd \in Fd \ fds, flags \in {call[c].flags, ReadOnly} :
          /\ fds' = fds \cup {fd}
          /\ Proceed(c, "fill", NewFile(fd, flags), "OK")
    /\ UNCHANGED <<inode, klock>>

\* open() fails for reading too, or there is no memory for the UnixUnusedFd.
OpenFails(c) ==
    /\ Requested(c, "Open") /\ BigLockFree
    /\ Reusable(call[c].flags) = {}
    /\ Reply(c, ZeroFile, "CANTOPEN")
    /\ UNCHANGED serverVars

\* fillInUnixFile: the handle is attached to the unixInodeInfo of its file.
FillInUnixFile(c) ==
    /\ call[c].pc = "fill" /\ BigLockFree
    /\ inode' = [inode EXCEPT !.nRef = @ + 1]
    /\ Reply(c, WithInode(call[c].file), "OK")
    /\ UNCHANGED <<fds, klock>>

\* findInodeInfo() has to allocate a new unixInodeInfo and cannot.  That fstat()
\* of a descriptor just opened fails, the code's other case, is left out.
FillInFails(c) ==
    /\ call[c].pc = "fill" /\ BigLockFree
    /\ inode.nRef = 0
    /\ fds' = fds \ {call[c].file.h}
    /\ klock' = AfterClosing({call[c].file.h}, klock)
    /\ Reply(c, call[c].file, "NOMEM")
    /\ UNCHANGED inode

-----------------------------------------------------------------------------
(***************************************************************************)
(* unixLock.  The request is c's copy p of the handle and the level lvl.   *)
(***************************************************************************)
LockAlreadyHeld(c) ==
    /\ Requested(c, "Lock")
    /\ call[c].file.eFileLock >= call[c].lvl
    /\ Reply(c, call[c].file, "OK")
    /\ UNCHANGED serverVars

\* Faulty variant: the handler waits for the other handle instead of answering.
LockPrecluded_Waits(c) ==
    /\ Requested(c, "Lock")
    /\ call[c].file.eFileLock < call[c].lvl
    /\ call[c].file.eFileLock # inode.eFileLock
    /\ UNCHANGED <<call, serverVars>>

\* Faulty variant: only PENDING and EXCLUSIVE of another handle are looked at.
Precluded_IgnoresReserved(p, lvl) ==
    /\ p.eFileLock # inode.eFileLock
    /\ inode.eFileLock >= PENDING_LOCK

\* A lock that some other handle of this process has precludes the request.
Precluded(p, lvl) ==
    /\ p.eFileLock # inode.eFileLock
    /\ inode.eFileLock >= PENDING_LOCK \/ lvl > SHARED_LOCK

\* The request for a higher level gets past the test above.
Locking(c) ==
    /\ Requested(c, "Lock")
    /\ call[c].file.eFileLock < call[c].lvl
    /\ ~Precluded(call[c].file, call[c].lvl)

LockPrecluded(c) ==
    /\ Requested(c, "Lock")
    /\ call[c].file.eFileLock < call[c].lvl
    /\ Precluded(call[c].file, call[c].lvl)
    /\ Reply(c, call[c].file, "BUSY")
    /\ UNCHANGED serverVars

\* Faulty variant: nShared is not incremented.
LockJoinsReaders_NotCounted(c) ==
    /\ Locking(c)
    /\ call[c].lvl = SHARED_LOCK
    /\ inode.eFileLock \in {SHARED_LOCK, RESERVED_LOCK}
    /\ inode' = [inode EXCEPT !.nLock = @ + 1]
    /\ Reply(c, WithLock(call[c].file, SHARED_LOCK), "OK")
    /\ UNCHANGED <<fds, klock>>

\* The process has the read lock already: only the counts change.
LockJoinsReaders(c) ==
    /\ Locking(c)
    /\ call[c].lvl = SHARED_LOCK
    /\ inode.eFileLock \in {SHARED_LOCK, RESERVED_LOCK}
    /\ inode' = [inode EXCEPT !.nShared = @ + 1, !.nLock = @ + 1]
    /\ Reply(c, WithLock(call[c].file, SHARED_LOCK), "OK")
    /\ UNCHANGED <<fds, klock>>

FirstReader(c) ==
    /\ Locking(c)
    /\ call[c].lvl = SHARED_LOCK
    /\ inode.eFileLock \notin {SHARED_LOCK, RESERVED_LOCK}

\* Faulty variant: nLock is not incremented.
LockFirstReader_NotCounted(c) ==
    /\ FirstReader(c)
    /\ inode' = [inode EXCEPT !.nShared = 1, !.eFileLock = SHARED_LOCK]
    /\ klock' = [klock EXCEPT !.pending = UNLCK, !.shared = RDLCK]
    /\ Reply(c, WithLock(call[c].file, SHARED_LOCK), "OK")
    /\ UNCHANGED fds

LockFirstReader(c) ==
    /\ FirstReader(c)
    /\ inode' = [inode EXCEPT !.nShared = 1, !.nLock = @ + 1, !.eFileLock = SHARED_LOCK]
    /\ klock' = [klock EXCEPT !.pending = UNLCK, !.shared = RDLCK]
    /\ Reply(c, WithLock(call[c].file, SHARED_LOCK), "OK")
    /\ UNCHANGED fds

\* Another process has the pending byte or the shared range; or the pending
\* byte cannot be given back, and then both read locks stay.
LockFirstReaderFails(c) ==
    /\ FirstReader(c)
    /\ \/ \E rc \in {"BUSY", "IOERR"} :
             /\ Reply(c, call[c].file, rc)
             /\ \/ klock' \in {klock, [klock EXCEPT !.pending = UNLCK]}
                \/ NetworkMount /\ klock' = [klock EXCEPT !.pending = RDLCK]
       \/ /\ NetworkMount
          /\ Reply(c, call[c].file, "IOERR")
          /\ klock' = [klock EXCEPT !.pending = RDLCK, !.shared = RDLCK]
    /\ UNCHANGED <<inode, fds>>

\* RESERVED needs the reserved byte.
LockReserves(c) ==
    /\ Locking(c)
    /\ call[c].lvl = RESERVED_LOCK
    /\ inode' = [inode EXCEPT !.eFileLock = RESERVED_LOCK]
    /\ klock' = [klock EXCEPT !.reserved = WRLCK]
    /\ Reply(c, WithLock(call[c].file, RESERVED_LOCK), "OK")
    /\ UNCHANGED fds

LockReserveFails(c) ==
    /\ Locking(c)
    /\ call[c].lvl = RESERVED_LOCK
    /\ \E rc \in {"BUSY", "IOERR"} : Reply(c, call[c].file, rc)
    /\ UNCHANGED serverVars

\* EXCLUSIVE needs the pending byte first, unless the handle has it.
LockPendingFails(c) ==
    /\ Locking(c)
    /\ call[c].lvl = EXCLUSIVE_LOCK
    /\ call[c].file.eFileLock < PENDING_LOCK
    /\ \E rc \in {"BUSY", "IOERR"} : Reply(c, call[c].file, rc)
    /\ UNCHANGED serverVars

\* Faulty variant: the handle does not learn that it has PENDING.
LockStopsAtPending_HandleUnchanged(c) ==
    /\ Locking(c)
    /\ call[c].lvl = EXCLUSIVE_LOCK
    /\ inode' = [inode EXCEPT !.eFileLock = PENDING_LOCK]
    /\ klock' = [klock EXCEPT !.pending = WRLCK]
    /\ Reply(c, call[c].file, "BUSY")
    /\ UNCHANGED fds

\* Readers remain, in this process or in another: PENDING is what is left.
LockStopsAtPending(c) ==
    /\ Locking(c)
    /\ call[c].lvl = EXCLUSIVE_LOCK
    /\ inode' = [inode EXCEPT !.eFileLock = PENDING_LOCK]
    /\ klock' = [klock EXCEPT !.pending = WRLCK]
    /\ \E rc \in IF inode.nShared > 1 THEN {"BUSY"} ELSE {"BUSY", "IOERR"} :
          Reply(c, WithLock(call[c].file, PENDING_LOCK), rc)
    /\ UNCHANGED fds

\* Faulty variant: readers of this process are not looked at.
LockExcludes_IgnoresReaders(c) ==
    /\ Locking(c)
    /\ call[c].lvl = EXCLUSIVE_LOCK
    /\ inode' = [inode EXCEPT !.eFileLock = EXCLUSIVE_LOCK]
    /\ klock' = [klock EXCEPT !.pending = WRLCK, !.shared = WRLCK]
    /\ Reply(c, WithLock(call[c].file, EXCLUSIVE_LOCK), "OK")
    /\ UNCHANGED fds

LockExcludes(c) ==
    /\ Locking(c)
    /\ call[c].lvl = EXCLUSIVE_LOCK
    /\ inode.nShared <= 1
    /\ inode' = [inode EXCEPT !.eFileLock = EXCLUSIVE_LOCK]
    /\ klock' = [klock EXCEPT !.pending = WRLCK, !.shared = WRLCK]
    /\ Reply(c, WithLock(call[c].file, EXCLUSIVE_LOCK), "OK")
    /\ UNCHANGED fds

-----------------------------------------------------------------------------
(***************************************************************************)
(* posixUnlock to level lvl, after which the handler is at the stage given.*)
(***************************************************************************)
UnlockIsNoop(c, lvl, stage) ==
    /\ call[c].file.eFileLock <= lvl
    /\ Proceed(c, stage, call[c].file, "OK")
    /\ UNCHANGED serverVars

\* Faulty variant: the table is lowered although the fcntl() failed.
UnlockFails_LowersTable(c, lvl, stage) ==
    /\ NetworkMount
    /\ call[c].file.eFileLock > SHARED_LOCK
    /\ inode' = [inode EXCEPT !.eFileLock = SHARED_LOCK]
    /\ Proceed(c, stage, call[c].file, "IOERR")
    /\ UNCHANGED <<fds, klock>>

\* Nothing changes but perhaps the shared range, read-locked on the way down.
UnlockFails(c, lvl, stage) ==
    /\ NetworkMount
    /\ call[c].file.eFileLock > SHARED_LOCK
    /\ Proceed(c, stage, call[c].file, "IOERR")
    /\ \/ UNCHANGED klock
       \/ lvl = SHARED_LOCK /\ klock' = [klock EXCEPT !.shared = RDLCK]
    /\ UNCHANGED <<inode, fds>>

\* Faulty variant: the whole file is unlocked, no read lock stays.
UnlockToShared_DropsAll(c, lvl, stage) ==
    /\ lvl = SHARED_LOCK
    /\ call[c].file.eFileLock > SHARED_LOCK
    /\ inode' = [inode EXCEPT !.eFileLock = SHARED_LOCK]
    /\ klock' = NoKernelLock
    /\ Proceed(c, stage, WithLock(call[c].file, SHARED_LOCK), "OK")
    /\ UNCHANGED fds

UnlockToShared(c, lvl, stage) ==
    /\ lvl = SHARED_LOCK
    /\ call[c].file.eFileLock > SHARED_LOCK
    /\ inode' = [inode EXCEPT !.eFileLock = SHARED_LOCK]
    /\ klock' = [pending |-> UNLCK, reserved |-> UNLCK, shared |-> RDLCK]
    /\ Proceed(c, stage, WithLock(call[c].file, SHARED_LOCK), "OK")
    /\ UNCHANGED fds

\* Faulty variant: a writer that leaves readers behind does not lower the table.
UnlockLeavesReaders_KeepsLevel(c, lvl, stage) ==
    /\ lvl = NO_LOCK
    /\ call[c].file.eFileLock > NO_LOCK
    /\ inode.nShared > 1
    /\ inode' = [inode EXCEPT !.nShared = @ - 1, !.nLock = @ - 1]
    /\ Proceed(c, stage, WithLock(call[c].file, NO_LOCK), "OK")
    /\ UNCHANGED <<fds, klock>>

\* Other handles keep the process's read lock.
UnlockLeavesReaders(c, lvl, stage) ==
    /\ lvl = NO_LOCK
    /\ call[c].file.eFileLock > NO_LOCK
    /\ inode.nShared > 1
    /\ inode' = [inode EXCEPT !.nShared = @ - 1, !.nLock = @ - 1,
                  !.eFileLock = IF call[c].file.eFileLock > SHARED_LOCK
                                  THEN SHARED_LOCK ELSE @]
    /\ klock' = IF call[c].file.eFileLock > SHARED_LOCK
                  THEN [klock EXCEPT !.pending = UNLCK, !.reserved = UNLCK]
                  ELSE klock
    /\ Proceed(c, stage, WithLock(call[c].file, NO_LOCK), "OK")
    /\ UNCHANGED fds

\* Faulty variant: closePendingFds() is not called.
UnlockLastReader_KeepsUnused(c, lvl, stage) ==
    /\ lvl = NO_LOCK
    /\ call[c].file.eFileLock > NO_LOCK
    /\ inode.nShared <= 1
    /\ inode' = [inode EXCEPT !.nShared = @ - 1, !.nLock = @ - 1, !.eFileLock = NO_LOCK]
    /\ klock' = NoKernelLock
    /\ Proceed(c, stage, WithLock(call[c].file, NO_LOCK), "OK")
    /\ UNCHANGED fds

(***************************************************************************)
(* The last one out unlocks the whole file and closes the descriptors that *)
(* waited on pUnused.  If the fcntl() fails the tables are cleared all the *)
(* same.                                                                   *)
(***************************************************************************)
UnlockLastReader(c, lvl, stage) ==
    /\ lvl = NO_LOCK
    /\ call[c].file.eFileLock > NO_LOCK
    /\ inode.nShared <= 1
    /\ inode' = [inode EXCEPT !.nShared = @ - 1, !.nLock = @ - 1,
                  !.eFileLock = NO_LOCK, !.pUnused = {}]
    /\ fds' = fds \ UnusedFds
    /\ \/ /\ klock' = NoKernelLock
          /\ Proceed(c, stage, WithLock(call[c].file, NO_LOCK), "OK")
       \/ /\ NetworkMount
          /\ klock' = AfterClosing(UnusedFds,
                         IF call[c].file.eFileLock > SHARED_LOCK
                           THEN [klock EXCEPT !.pending = UNLCK, !.reserved = UNLCK]
                           ELSE klock)
          /\ Proceed(c, stage, WithLock(call[c].file, NO_LOCK), "IOERR")

PosixUnlock(c, lvl, stage) ==
    \/ UnlockIsNoop(c, lvl, stage)
    \/ UnlockFails(c, lvl, stage)
    \/ UnlockToShared(c, lvl, stage)
    \/ UnlockLeavesReaders(c, lvl, stage)
    \/ UnlockLastReader(c, lvl, stage)

Unlock(c) == Requested(c, "Unlock") /\ PosixUnlock(c, call[c].lvl, "reply")

-----------------------------------------------------------------------------
(***************************************************************************)
(* unixCheckReservedLock: a handle of this process, or another process     *)
(* (F_GETLK finds one, none, or fails).                                    *)
(***************************************************************************)
CheckReservedLock(c) ==
    /\ Requested(c, "CheckReservedLock")
    /\ \E out \in BOOLEAN, rc \in {"OK", "IOERR"} :
          /\ inode.eFileLock > SHARED_LOCK => out /\ rc = "OK"
          /\ rc = "IOERR" => ~out
          /\ Answer(c, rc, out)
    /\ UNCHANGED serverVars

-----------------------------------------------------------------------------
(***************************************************************************)
(* unixClose.  Its unixUnlock() result is not looked at.                   *)
(***************************************************************************)
CloseUnlocks(c) ==
    /\ Requested(c, "Close")
    /\ PosixUnlock(c, NO_LOCK, "close")

\* Faulty variant: the handle keeps the descriptor it hands over.
CloseSetsPendingFd_KeepsFd(c) ==
    /\ call[c].pc = "close" /\ BigLockFree
    /\ inode' = IF inode.nLock > 0
                  THEN [inode EXCEPT !.pUnused = @ \cup
                          {[fd |-> call[c].file.h, flags |-> call[c].file.flags]}]
                  ELSE inode
    /\ Proceed(c, "release", call[c].file, "OK")
    /\ UNCHANGED <<fds, klock>>

\* Faulty variant: the descriptor is always closed at once.
CloseSetsPendingFd_NeverDefers(c) ==
    /\ call[c].pc = "close" /\ BigLockFree
    /\ Proceed(c, "release", call[c].file, "OK")
    /\ UNCHANGED serverVars

\* The descriptor is handed to pUnused if some handle has a lock now.
CloseSetsPendingFd(c) ==
    /\ call[c].pc = "close" /\ BigLockFree
    /\ IF inode.nLock > 0
         THEN /\ inode' = [inode EXCEPT !.pUnused = @ \cup
                             {[fd |-> call[c].file.h, flags |-> call[c].file.flags]}]
              /\ Proceed(c, "release", WithoutFd(call[c].file), "OK")
         ELSE Proceed(c, "release", call[c].file, "OK") /\ UNCHANGED inode
    /\ UNCHANGED <<fds, klock>>

\* releaseInodeInfo() and closeUnixFile(): what is still there is closed.
CloseReleases(c) ==
    LET own    == {call[c].file.h} \ {NoFd}
        closed == own \cup IF inode.nRef = 1 THEN UnusedFds ELSE {}
    IN  /\ call[c].pc = "release"
        /\ inode' = IF inode.nRef = 1 THEN NoInode ELSE [inode EXCEPT !.nRef = @ - 1]
        /\ fds' = fds \ closed
        /\ klock' = AfterClosing(closed, klock)
        /\ Reply(c, ZeroFile, "OK")

-----------------------------------------------------------------------------
Lock(c) ==
    \/ LockAlreadyHeld(c) \/ LockPrecluded(c) \/ LockJoinsReaders(c)
    \/ LockFirstReader(c) \/ LockFirstReaderFails(c)
    \/ LockReserves(c) \/ LockReserveFails(c)
    \/ LockPendingFails(c) \/ LockStopsAtPending(c) \/ LockExcludes(c)

Open(c)  == OpenReusesFd(c) \/ OpenNewFd(c) \/ OpenFails(c)
Fill(c)  == FillInUnixFile(c) \/ FillInFails(c)
Close(c) == CloseSetsPendingFd(c) \/ CloseReleases(c)

Serve(c) ==
    \/ Open(c) \/ Fill(c) \/ Lock(c) \/ Unlock(c) \/ CheckReservedLock(c)
    \/ CloseUnlocks(c) \/ Close(c)
=============================================================================
