----------------------------- MODULE RemoteVfs -----------------------------
(***************************************************************************)
(* The pagers of several client processes, their remote VFS, and the one   *)
(* server that runs the unix VFS for all of them.  Calls reach the server  *)
(* and replies reach the clients; RemoteFault drops that assumption.       *)
(***************************************************************************)
EXTENDS UnixVfs, PagerLock

vars == <<call, id, eLock, phase, inode, fds, klock>>

Init == CallInit /\ ClientInit /\ PagerInit /\ ServerInit

ServerStep(c) == Serve(c) /\ UNCHANGED <<id, pagerVars>>
ClientStep(c) == (Calls(c) \/ Returns(c)) /\ UNCHANGED serverVars

Next == \E c \in Client : ServerStep(c) \/ ClientStep(c)

Spec == Init /\ [][Next]_vars

(***************************************************************************)
(* A gRPC call has no deadline and the transport delivers it; the server   *)
(* hands waiting calls to its threads in the order they arrive, and a      *)
(* mutex is passed on; so a call that could be served again and again is   *)
(* served.  Whether a pager makes a call is up to its application.         *)
(***************************************************************************)
Fairness ==
    \A c \in Client : SF_vars(ServerStep(c)) /\ WF_vars(Returns(c) /\ UNCHANGED serverVars)

FairSpec == Spec /\ Fairness

-----------------------------------------------------------------------------
\* The handle of client c, wherever it is.
File(c) == IF call[c].pc = "idle" THEN id[c] ELSE call[c].file

\* The level the handle of client c has.
Held(c) == IF File(c).pInode THEN File(c).eFileLock ELSE NO_LOCK

Readers == {c \in Client : Held(c) >= SHARED_LOCK}

Attached == {c \in Client : File(c).pInode}

\* c is giving its lock up: the server may have taken it back already.
Releasing(c) == call[c].pc # "idle" /\ call[c].op \in {"Unlock", "Close"}

-----------------------------------------------------------------------------
(***************************************************************************)
(* TypeOK: the variables keep the shapes the C declarations give them.     *)
(***************************************************************************)
TypeOK ==
    /\ call \in [Client -> Call]
    /\ id \in [Client -> UnixFile]
    /\ eLock \in [Client -> NO_LOCK .. UNKNOWN_LOCK]
    /\ phase \in [Client -> Phase]
    /\ inode \in InodeInfo
    /\ fds \in SUBSET Fd
    /\ klock \in KernelLock

\* An open handle has its descriptor until unixClose gives it to pUnused.
HasFd(c) ==
    (File(c).pInode \/ call[c].pc = "fill") /\ call[c].pc # "release" => File(c).h # NoFd

(***************************************************************************)
(* A handle is attached to the inode from the reply of a successful        *)
(* unixOpen to the end of unixClose, and the pager knows when.             *)
(***************************************************************************)
HandleOK(c) ==
    LET k == call[c] IN
    /\ k.pc = "idle" => (id[c].pInode <=> phase[c] # "closed")
    /\ k.pc # "idle" => (k.op = "Open" <=> phase[c] = "closed")
    /\ k.pc = "request" => (k.file.pInode <=> k.op # "Open")
    /\ k.pc = "fill" => k.op = "Open" /\ ~k.file.pInode /\ k.file.eFileLock = NO_LOCK
    /\ k.pc \in {"close", "release"} => k.op = "Close" /\ k.file.pInode
    /\ k.pc \in {"close", "release"} /\ ~NetworkMount => k.file.eFileLock = NO_LOCK
    /\ k.pc = "reply" =>
          (k.file.pInode <=> \/ k.op \in {"Lock", "Unlock", "CheckReservedLock"}
                             \/ k.op = "Open" /\ k.rc = "OK")
    /\ k.pc = "reply" /\ k.op = "Open" => k.file.eFileLock = NO_LOCK
    /\ HasFd(c)

HandleInv == \A c \in Client : HandleOK(c)

\* What the pager believes, and may therefore ask for, is backed by its handle.
BeliefOK(c) ==
    LET k == call[c] IN
    /\ ~Releasing(c) /\ eLock[c] # UNKNOWN_LOCK => eLock[c] <= Held(c)
    /\ ~Releasing(c) /\ phase[c] \in {"check", "hot", "ready"} => Held(c) >= SHARED_LOCK
    /\ k.pc # "idle" /\ k.op = "Lock" =>
          /\ k.lvl \in {SHARED_LOCK, RESERVED_LOCK, EXCLUSIVE_LOCK}
          /\ k.lvl > SHARED_LOCK => phase[c] \in {"check", "hot", "ready"}
    /\ k.pc = "reply" /\ k.op = "Lock" /\ k.rc = "OK" => k.lvl <= Held(c)
    /\ k.pc # "idle" /\ k.op = "Unlock" =>
          /\ k.lvl \in {NO_LOCK, SHARED_LOCK}
          /\ k.lvl = SHARED_LOCK => phase[c] = "ready" /\ Held(c) >= SHARED_LOCK
    /\ k.pc # "idle" /\ k.op = "CheckReservedLock" => phase[c] = "check"

BeliefInv == \A c \in Client : BeliefOK(c)

\* The unixInodeInfo bounds what the handles have.
TableInv ==
    /\ inode.nRef = Cardinality(Attached)
    /\ inode.nLock = inode.nShared
    /\ Cardinality(Readers) <= inode.nShared
    /\ inode.eFileLock = NO_LOCK <=> inode.nShared = 0
    /\ inode.eFileLock = EXCLUSIVE_LOCK => inode.nShared = 1
    /\ \A c \in Client :
          /\ Held(c) <= inode.eFileLock
          /\ Held(c) > SHARED_LOCK => Held(c) = inode.eFileLock
    /\ \A c, d \in Client : c # d /\ Held(c) > SHARED_LOCK => Held(d) <= SHARED_LOCK

\* If locks can always be given back, it says exactly what they have.
ExactInv ==
    ~NetworkMount =>
        /\ inode.nShared = Cardinality(Readers)
        /\ inode.eFileLock > SHARED_LOCK => \E c \in Client : Held(c) = inode.eFileLock

(***************************************************************************)
(* IInv: the inductive invariant, everything above together.  No part is   *)
(* inductive alone: a lock request keeps the table right only because the  *)
(* pager's belief is, and the belief is right only because the table is.   *)
(***************************************************************************)
IInv == TypeOK /\ HandleInv /\ BeliefInv /\ TableInv /\ ExactInv

(***************************************************************************)
(* The two counters and the level in the one unixInodeInfo say what the    *)
(* handles, scattered over the clients and the messages, add up to.        *)
(***************************************************************************)
TableMatchesHandles ==
    /\ inode.nRef = Cardinality(Attached)
    /\ inode.nShared = Cardinality(Readers)
    /\ inode.nLock = inode.nShared
    /\ \A c \in Client : Held(c) <= inode.eFileLock
    /\ inode.eFileLock # NO_LOCK => \E c \in Client : Held(c) = inode.eFileLock

(***************************************************************************)
(* What the pagers rely on: while one believes that it may write, no other *)
(* believes that it may read.  A pager whose xUnlock is under way is past  *)
(* its last use of the lock.                                               *)
(***************************************************************************)
WriterExcludesReaders ==
    \A c, d \in Client :
        /\ c # d
        /\ eLock[c] = EXCLUSIVE_LOCK /\ ~Releasing(c)
        /\ ~Releasing(d)
        => eLock[d] \in {NO_LOCK, UNKNOWN_LOCK}

(***************************************************************************)
(* Pager.eLock, which pagerLockDb and pagerUnlockDb maintain, is never     *)
(* more exclusive than the level in the handle, which is what the server   *)
(* granted (the comment above UNKNOWN_LOCK in pager.c).                    *)
(***************************************************************************)
BeliefIsHeld ==
    \A c \in Client :
        eLock[c] # UNKNOWN_LOCK /\ ~Releasing(c) => eLock[c] <= Held(c)

(***************************************************************************)
(* Every descriptor the server has open on the database belongs to exactly *)
(* one handle or waits on pUnused: none is leaked, closed early or shared. *)
(***************************************************************************)
OwnsFd(c) == File(c).h # NoFd /\ (File(c).pInode \/ call[c].pc = "fill")

DescriptorsAccounted ==
    /\ fds = UnusedFds \cup {File(c).h : c \in {d \in Client : OwnsFd(d)}}
    /\ \A c \in Client : OwnsFd(c) => File(c).h \notin UnusedFds
    /\ \A c, d \in Client : OwnsFd(c) /\ OwnsFd(d) /\ File(c).h = File(d).h => c = d

(***************************************************************************)
(* A descriptor whose close was deferred waits on pUnused only as long as  *)
(* some handle has a lock: posixUnlock closes the waiting ones with the    *)
(* last lock, and unixClose defers none when there is no lock.             *)
(***************************************************************************)
UnusedFdsAreTemporary == inode.pUnused # {} => inode.nLock > 0

(***************************************************************************)
(* Other processes on the server's machine see only fcntl() locks: they    *)
(* must be there for whatever level the table says this process has.       *)
(***************************************************************************)
KernelBacksTable ==
    /\ inode.eFileLock >= SHARED_LOCK => klock.shared >= RDLCK
    /\ inode.eFileLock = RESERVED_LOCK => klock.reserved = WRLCK
    /\ inode.eFileLock >= PENDING_LOCK => klock.pending = WRLCK
    /\ inode.eFileLock = EXCLUSIVE_LOCK => klock.shared = WRLCK

(***************************************************************************)
(* unixClose left pLockMutex with the descriptor in its hands because no   *)
(* handle had a lock, and closes it now that some handle has one.          *)
(***************************************************************************)
RacingClose(c) ==
    /\ call[c].pc = "release" /\ call'[c].pc = "reply"
    /\ call[c].file.h # NoFd /\ inode.nLock > 0

(***************************************************************************)
(* However many threads serve the calls, that close is the only step which *)
(* takes away an fcntl() lock the table stands for: no lock, unlock, open, *)
(* deferred close or close of the last handle does.                        *)
(***************************************************************************)
OnlyRacingCloseDropsLocks ==
    [][KernelBacksTable => KernelBacksTable' \/ \E c \in Client : RacingClose(c)]_vars

(***************************************************************************)
(* The assertions unixLock, posixUnlock, unixCheckReservedLock and         *)
(* unixClose make of handle and unixInodeInfo (os_unix.c 1704-1706, 1765,  *)
(* 1904-1906, 1498, 2109) hold whenever a handler takes up the call, for   *)
(* handles that have travelled to the client and back.  The server is      *)
(* built without them: if one failed it would go on with a wrong table.    *)
(***************************************************************************)
AssertionsHold ==
    \A c \in Client :
        LET p == call[c].file IN
        /\ Requested(c, "Lock") /\ p.eFileLock < call[c].lvl =>
              /\ p.eFileLock # NO_LOCK \/ call[c].lvl = SHARED_LOCK
              /\ call[c].lvl = RESERVED_LOCK => p.eFileLock = SHARED_LOCK
              /\ call[c].lvl = SHARED_LOCK /\ inode.eFileLock = NO_LOCK => inode.nShared = 0
        /\ Requested(c, "Unlock") /\ p.eFileLock > call[c].lvl =>
              /\ inode.nShared # 0
              /\ p.eFileLock > SHARED_LOCK => inode.eFileLock = p.eFileLock
        /\ Requested(c, "CheckReservedLock") => p.eFileLock <= SHARED_LOCK
        /\ Requested(c, "Close") => p.pInode

(***************************************************************************)
(* ImplementsVfsLock: seen through the handles, the clients, the messages  *)
(* and the server's counters behave like the abstract lock of VfsLock.     *)
(***************************************************************************)
Abstract == INSTANCE VfsLock WITH held <- [c \in Client |-> Held(c)]
ImplementsVfsLock == Abstract!Spec

(***************************************************************************)
(* Every VFS call a client sends comes back, whatever the other clients    *)
(* do: no handler waits for a lock, for a mutex that is never left, or for *)
(* a thread that is never free.                                            *)
(***************************************************************************)
CallsReturn == \A c \in Client : call[c].pc = "request" ~> call[c].pc = "idle"
=============================================================================
