-------------------------- MODULE DescriptorProofs --------------------------
(***************************************************************************)
(* Proofs about the server's descriptors in RemoteVfs, about the fcntl()   *)
(* locks that closing one of them drops, and about the assertions of       *)
(* os_unix.c.                                                              *)
(***************************************************************************)
EXTENDS RemoteVfsProofs

-----------------------------------------------------------------------------
(* Who owns which descriptor, over a step. *)

\* A handler moves its own call and no other.
LEMMA Proceeded ==
  ASSUME TypeOK, NEW c \in Client, NEW stage, NEW file, NEW rc, Proceed(c, stage, file, rc)
  PROVE  /\ \A d \in Client \ {c} : call'[d] = call[d]
         /\ call'[c].pc = stage /\ call'[c].file = file /\ call'[c].rc = rc
         /\ call'[c].op = call[c].op /\ call'[c].lvl = call[c].lvl
BY DEF Proceed, TypeOK

\* The descriptor of a handle that is in a handler, and those of the others.
Serves(c, stage, file) ==
    /\ \A d \in Client \ {c} : /\ File(d)' = File(d) /\ (OwnsFd(d)' <=> OwnsFd(d))
                               /\ call'[d] = call[d]
    /\ File(c) = call[c].file /\ File(c)' = file
    /\ call'[c].pc = stage /\ call'[c].file = file
    /\ OwnsFd(c) <=> call[c].file.h # NoFd /\ (call[c].file.pInode \/ call[c].pc = "fill")
    /\ OwnsFd(c)' <=> file.h # NoFd /\ (file.pInode \/ stage = "fill")

\* A handler step says what it does to them.
LEMMA ServesFacts ==
  ASSUME IInv, NEW c \in Client, call[c].pc # "idle", NEW stage, stage # "idle",
         NEW file, NEW rc, Proceed(c, stage, file, rc), UNCHANGED id
  PROVE  Serves(c, stage, file)
<1>1. /\ \A d \in Client \ {c} : call'[d] = call[d]
      /\ call'[c].pc = stage /\ call'[c].file = file
  BY Proceeded DEF IInv
<1>2. \A d \in Client \ {c} : File(d)' = File(d) /\ (OwnsFd(d)' <=> OwnsFd(d))
  BY <1>1 DEF File, OwnsFd
<1>3. File(c) = call[c].file /\ File(c)' = file
  BY <1>1 DEF File
<1> QED
  BY <1>1, <1>2, <1>3 DEF OwnsFd, Serves

(***************************************************************************)
(* The invariant of the descriptors.  That a descriptor waits on pUnused   *)
(* once only is what makes a reused one leave it.                          *)
(***************************************************************************)
UnusedOnce == \A u, v \in inode.pUnused : u.fd = v.fd => u = v

DescriptorInv == DescriptorsAccounted /\ UnusedOnce /\ UnusedFdsAreTemporary

\* What a step of c must show: what is open is what is owned or waits.
LEMMA DescriptorsMoved ==
  ASSUME DescriptorInv, NEW c \in Client,
         \A d \in Client \ {c} : File(d)' = File(d) /\ (OwnsFd(d)' <=> OwnsFd(d)),
         \A fd : fd \in fds' <=> \/ fd \in UnusedFds'
                                 \/ OwnsFd(c)' /\ File(c)'.h = fd
                                 \/ \E d \in Client \ {c} : OwnsFd(d) /\ File(d).h = fd,
         OwnsFd(c)' => /\ File(c)'.h \notin UnusedFds'
                       /\ \A d \in Client \ {c} : OwnsFd(d) => File(d).h # File(c)'.h,
         \A d \in Client \ {c} : OwnsFd(d) => File(d).h \notin UnusedFds',
         UnusedOnce', UnusedFdsAreTemporary'
  PROVE  DescriptorInv'
<1> DEFINE O == {File(d).h : d \in {e \in Client : OwnsFd(e)}}
<1>1. \A fd : fd \in O' <=> \/ OwnsFd(c)' /\ File(c)'.h = fd
                            \/ \E d \in Client \ {c} : OwnsFd(d) /\ File(d).h = fd
  <2> SUFFICES ASSUME NEW fd
               PROVE  fd \in O' <=> \/ OwnsFd(c)' /\ File(c)'.h = fd
                                    \/ \E d \in Client \ {c} : OwnsFd(d) /\ File(d).h = fd
    OBVIOUS
  <2>1. fd \in O' <=> \E d \in Client : OwnsFd(d)' /\ File(d)'.h = fd
    OBVIOUS
  <2> QED
    BY <2>1
<1>2. fds' = UnusedFds' \cup O'
  <2> HIDE DEF O
  <2> QED
    BY <1>1
<1>3. \A d \in Client : OwnsFd(d)' => File(d)'.h \notin UnusedFds'
  OBVIOUS
<1>4. \A d, e \in Client : OwnsFd(d)' /\ OwnsFd(e)' /\ File(d)'.h = File(e)'.h => d = e
  BY DEF DescriptorInv, DescriptorsAccounted
<1> QED
  BY <1>2, <1>3, <1>4 DEF DescriptorInv, DescriptorsAccounted

\* The three facts of the invariant, descriptor by descriptor.
LEMMA Accounted ==
  ASSUME DescriptorInv
  PROVE  /\ \A fd : fd \in fds <=> \/ fd \in UnusedFds
                                   \/ \E d \in Client : OwnsFd(d) /\ File(d).h = fd
         /\ \A d \in Client : OwnsFd(d) => File(d).h \notin UnusedFds
         /\ \A c, d \in Client : OwnsFd(c) /\ OwnsFd(d) /\ File(c).h = File(d).h => c = d
         /\ UnusedOnce /\ UnusedFdsAreTemporary
BY DEF DescriptorInv, DescriptorsAccounted

\* A step that moves no descriptor.
LEMMA DescriptorsKept ==
  ASSUME DescriptorInv, NEW c \in Client,
         \A d \in Client \ {c} : File(d)' = File(d) /\ (OwnsFd(d)' <=> OwnsFd(d)),
         OwnsFd(c)' <=> OwnsFd(c), OwnsFd(c) => File(c)'.h = File(c).h,
         fds' = fds, inode'.pUnused = inode.pUnused,
         inode.nLock > 0 => inode'.nLock > 0
  PROVE  DescriptorInv'
<1>1. UnusedFds' = UnusedFds
  BY DEF UnusedFds
<1>2. UnusedOnce' /\ UnusedFdsAreTemporary'
  BY Accounted DEF UnusedOnce, UnusedFdsAreTemporary
<1>3. ASSUME NEW fd
      PROVE  fd \in fds' <=> \/ fd \in UnusedFds'
                             \/ OwnsFd(c)' /\ File(c)'.h = fd
                             \/ \E d \in Client \ {c} : OwnsFd(d) /\ File(d).h = fd
  <2>1. fd \in fds <=> fd \in UnusedFds \/ \E d \in Client : OwnsFd(d) /\ File(d).h = fd
    BY Accounted
  <2>2. OwnsFd(c)' /\ File(c)'.h = fd <=> OwnsFd(c) /\ File(c).h = fd
    OBVIOUS
  <2> QED
    BY <1>1, <2>1, <2>2
<1> QED
  BY <1>1, <1>2, <1>3, Accounted, DescriptorsMoved

-----------------------------------------------------------------------------
(* The steps of the server. *)

\* unixOpen up to the descriptor.
LEMMA OpenKeepsDescriptors ==
  ASSUME IInv, DescriptorInv, NEW c \in Client, Open(c), UNCHANGED <<id, pagerVars>>
  PROVE  DescriptorInv'
<1>1. call[c].pc = "request" /\ call[c].op = "Open" /\ ~call[c].file.pInode /\ inode \in InodeInfo
  BY Known DEF Open, OpenReusesFd, OpenNewFd, OpenFails, Requested, HandleOK
<1>2. CASE OpenReusesFd(c)
  <2>1. PICK u \in Reusable(call[c].flags) :
           /\ inode' = [inode EXCEPT !.pUnused = @ \ {u}]
           /\ Proceed(c, "fill", NewFile(u.fd, u.flags), "OK")
           /\ fds' = fds
    BY <1>2 DEF OpenReusesFd
  <2>2. u \in inode.pUnused /\ u.fd \in Fd /\ u.flags \in Flag
    BY <1>1 DEF Reusable, InodeInfo
  <2>3. inode'.pUnused = inode.pUnused \ {u} /\ inode'.nLock = inode.nLock
    BY <1>1, <2>1 DEF InodeInfo
  <2>4. /\ NewFile(u.fd, u.flags).h = u.fd /\ u.fd # NoFd
    BY <2>2, NewFileFacts, FdAssumption
  <2>5. Serves(c, "fill", NewFile(u.fd, u.flags))
    BY <1>1, <2>1, ServesFacts
  <2>6. ~OwnsFd(c) /\ OwnsFd(c)' /\ File(c)'.h = u.fd
    BY <1>1, <2>4, <2>5 DEF Serves
  <2>7. UnusedFds' = UnusedFds \ {u.fd} /\ u.fd \in UnusedFds
    BY <2>2, <2>3, Accounted DEF UnusedFds, UnusedOnce
  <2>8. UnusedOnce' /\ UnusedFdsAreTemporary'
    BY <2>3, Accounted DEF UnusedOnce, UnusedFdsAreTemporary
  <2>9. \A d \in Client \ {c} : File(d)' = File(d) /\ (OwnsFd(d)' <=> OwnsFd(d))
    BY <2>5 DEF Serves
  <2>10. \A fd : fd \in fds' <=> \/ fd \in UnusedFds'
                                 \/ OwnsFd(c)' /\ File(c)'.h = fd
                                 \/ \E d \in Client \ {c} : OwnsFd(d) /\ File(d).h = fd
    BY <2>1, <2>6, <2>7, Accounted
  <2> QED
    BY <2>6, <2>7, <2>8, <2>9, <2>10, Accounted, DescriptorsMoved
<1>3. CASE OpenNewFd(c)
  <2>1. PICK fd \in Fd \ fds, flags \in {call[c].flags, ReadOnly} :
           /\ fds' = fds \cup {fd}
           /\ Proceed(c, "fill", NewFile(fd, flags), "OK")
           /\ inode' = inode
    BY <1>3 DEF OpenNewFd
  <2>2. NewFile(fd, flags).h = fd /\ fd # NoFd
    BY FdAssumption DEF NewFile
  <2>3. Serves(c, "fill", NewFile(fd, flags))
    BY <1>1, <2>1, ServesFacts
  <2>4. ~OwnsFd(c) /\ OwnsFd(c)' /\ File(c)'.h = fd
    BY <1>1, <2>2, <2>3 DEF Serves
  <2>5. UnusedFds' = UnusedFds /\ UnusedOnce' /\ UnusedFdsAreTemporary'
    BY <2>1, Accounted DEF UnusedFds, UnusedOnce, UnusedFdsAreTemporary
  <2>6. \A d \in Client \ {c} : File(d)' = File(d) /\ (OwnsFd(d)' <=> OwnsFd(d))
    BY <2>3 DEF Serves
  <2>7. \A x : x \in fds' <=> \/ x \in UnusedFds'
                              \/ OwnsFd(c)' /\ File(c)'.h = x
                              \/ \E d \in Client \ {c} : OwnsFd(d) /\ File(d).h = x
    BY <2>1, <2>4, <2>5, Accounted
  <2>8. fd \notin UnusedFds /\ \A d \in Client : OwnsFd(d) => File(d).h # fd
    BY Accounted
  <2> QED
    BY <2>4, <2>5, <2>6, <2>7, <2>8, Accounted, DescriptorsMoved
<1>4. CASE OpenFails(c)
  <2>1. Proceed(c, "reply", ZeroFile, "CANTOPEN") /\ inode' = inode /\ fds' = fds
    BY <1>4 DEF OpenFails, Reply, serverVars
  <2>2. Serves(c, "reply", ZeroFile)
    BY <1>1, <2>1, ServesFacts
  <2>3. ~OwnsFd(c) /\ ~OwnsFd(c)'
    BY <1>1, <2>2, ZeroFacts DEF Serves
  <2> QED
    BY <2>1, <2>2, <2>3, DescriptorsKept DEF Serves
<1> QED
  BY <1>2, <1>3, <1>4 DEF Open

\* fillInUnixFile.
LEMMA FillKeepsDescriptors ==
  ASSUME IInv, DescriptorInv, NEW c \in Client, Fill(c), UNCHANGED <<id, pagerVars>>
  PROVE  DescriptorInv'
<1>1. /\ call[c].pc = "fill" /\ ~call[c].file.pInode /\ inode \in InodeInfo
      /\ call[c].file \in UnixFile
  BY Known DEF Fill, FillInUnixFile, FillInFails, HandleOK
<1>2. call[c].file.h # NoFd
  BY <1>1, Known DEF HandleOK, HasFd, File
<1>3. CASE FillInUnixFile(c)
  <2>1. /\ inode' = [inode EXCEPT !.nRef = @ + 1] /\ fds' = fds
        /\ Proceed(c, "reply", WithInode(call[c].file), "OK")
    BY <1>3 DEF FillInUnixFile, Reply
  <2>2. WithInode(call[c].file).pInode = TRUE /\ WithInode(call[c].file).h = call[c].file.h
    BY <1>1, FileFacts
  <2>3. inode'.pUnused = inode.pUnused /\ inode'.nLock = inode.nLock
    BY <1>1, <2>1 DEF InodeInfo
  <2>4. Serves(c, "reply", WithInode(call[c].file))
    BY <1>1, <2>1, ServesFacts
  <2>5. OwnsFd(c) /\ OwnsFd(c)' /\ File(c)'.h = File(c).h
    BY <1>1, <1>2, <2>2, <2>4 DEF Serves
  <2> QED
    BY <2>1, <2>3, <2>4, <2>5, DescriptorsKept DEF Serves
<1>4. CASE FillInFails(c)
  <2>1. /\ inode' = inode /\ fds' = fds \ {call[c].file.h}
        /\ Proceed(c, "reply", call[c].file, "NOMEM")
    BY <1>4 DEF FillInFails, Reply
  <2>2. Serves(c, "reply", call[c].file)
    BY <1>1, <2>1, ServesFacts
  <2>3. OwnsFd(c) /\ ~OwnsFd(c)' /\ File(c).h = call[c].file.h
    BY <1>1, <1>2, <2>2 DEF Serves
  <2>4. UnusedFds' = UnusedFds /\ UnusedOnce' /\ UnusedFdsAreTemporary'
    BY <2>1, Accounted DEF UnusedFds, UnusedOnce, UnusedFdsAreTemporary
  <2>5. \A d \in Client \ {c} : File(d)' = File(d) /\ (OwnsFd(d)' <=> OwnsFd(d))
    BY <2>2 DEF Serves
  <2>6. \A x : x \in fds' <=> \/ x \in UnusedFds'
                              \/ OwnsFd(c)' /\ File(c)'.h = x
                              \/ \E d \in Client \ {c} : OwnsFd(d) /\ File(d).h = x
    BY <2>1, <2>3, <2>4, Accounted
  <2> QED
    BY <2>3, <2>4, <2>5, <2>6, Accounted, DescriptorsMoved
<1> QED
  BY <1>3, <1>4 DEF Fill

\* A handler step that leaves the handle its descriptor and its inode.
LEMMA SameDescriptor ==
  ASSUME IInv, DescriptorInv, NEW c \in Client, call[c].pc = "request",
         NEW stage, stage \notin {"idle", "fill"}, NEW file, NEW rc,
         Proceed(c, stage, file, rc), UNCHANGED id,
         file.h = call[c].file.h, file.pInode = call[c].file.pInode,
         fds' = fds, inode'.pUnused = inode.pUnused,
         inode.nLock > 0 => inode'.nLock > 0
  PROVE  DescriptorInv'
<1>1. Serves(c, stage, file)
  BY ServesFacts
<1>2. (OwnsFd(c)' <=> OwnsFd(c)) /\ File(c)'.h = File(c).h
  BY <1>1 DEF Serves
<1> QED
  BY <1>1, <1>2, DescriptorsKept DEF Serves

\* unixLock.
LEMMA LockKeepsDescriptors ==
  ASSUME IInv, DescriptorInv, NEW c \in Client, Lock(c), UNCHANGED <<id, pagerVars>>
  PROVE  DescriptorInv'
<1>1. call[c].pc = "request" /\ fds' = fds
  BY DEF Lock, LockAlreadyHeld, LockPrecluded, LockJoinsReaders, LockFirstReader, FirstReader,
         LockFirstReaderFails, LockReserves, LockReserveFails, LockPendingFails,
         LockStopsAtPending, LockExcludes, Locking, Requested, serverVars
<1>2. inode \in InodeInfo /\ inode.nLock \in Nat /\ call[c].file \in UnixFile
  BY Known
<1>3. \A lvl \in Level : /\ WithLock(call[c].file, lvl).h = call[c].file.h
                         /\ WithLock(call[c].file, lvl).pInode = call[c].file.pInode
  BY <1>2 DEF WithLock, UnixFile
<1>4. PICK file, rc : /\ Proceed(c, "reply", file, rc)
                      /\ file.h = call[c].file.h /\ file.pInode = call[c].file.pInode
  <2>1. CASE \/ LockAlreadyHeld(c) \/ LockPrecluded(c) \/ LockReserveFails(c)
             \/ LockPendingFails(c)
    BY <2>1 DEF LockAlreadyHeld, LockPrecluded, LockReserveFails, LockPendingFails, Reply
  <2>2. CASE LockFirstReaderFails(c)
    BY <2>2 DEF LockFirstReaderFails, Reply
  <2>3. CASE LockJoinsReaders(c) \/ LockFirstReader(c)
    BY <1>3, <2>3, Levels DEF LockJoinsReaders, LockFirstReader, Reply
  <2>4. CASE LockReserves(c)
    BY <1>3, <2>4, Levels DEF LockReserves, Reply
  <2>5. CASE LockStopsAtPending(c)
    <3>1. \E rc : Proceed(c, "reply", WithLock(call[c].file, PENDING_LOCK), rc)
      BY <2>5 DEF LockStopsAtPending, Reply
    <3> QED
      BY <1>3, <3>1, Levels
  <2>6. CASE LockExcludes(c)
    BY <1>3, <2>6, Levels DEF LockExcludes, Reply
  <2> QED
    BY <2>1, <2>2, <2>3, <2>4, <2>5, <2>6 DEF Lock
<1>5. inode'.pUnused = inode.pUnused /\ (inode.nLock > 0 => inode'.nLock > 0)
  <2>1. CASE inode' = inode
    BY <2>1
  <2>2. CASE inode' = [inode EXCEPT !.nShared = @ + 1, !.nLock = @ + 1]
    BY <1>2, <2>2 DEF InodeInfo
  <2>3. CASE inode' = [inode EXCEPT !.nShared = 1, !.nLock = @ + 1, !.eFileLock = SHARED_LOCK]
    BY <1>2, <2>3 DEF InodeInfo
  <2>4. ASSUME NEW lvl, inode' = [inode EXCEPT !.eFileLock = lvl]
        PROVE  inode'.pUnused = inode.pUnused /\ inode'.nLock = inode.nLock
    BY <1>2, <2>4 DEF InodeInfo
  <2> QED
    BY <2>1, <2>2, <2>3, <2>4
       DEF Lock, LockAlreadyHeld, LockPrecluded, LockJoinsReaders, LockFirstReader,
           LockFirstReaderFails, LockReserves, LockReserveFails, LockPendingFails,
           LockStopsAtPending, LockExcludes, serverVars
<1> QED
  BY <1>1, <1>4, <1>5, SameDescriptor

\* unixCheckReservedLock.
LEMMA CheckKeepsDescriptors ==
  ASSUME IInv, DescriptorInv, NEW c \in Client, CheckReservedLock(c), UNCHANGED <<id, pagerVars>>
  PROVE  DescriptorInv'
<1>1. PICK out \in BOOLEAN, rc \in {"OK", "IOERR"} : Answer(c, rc, out)
  BY DEF CheckReservedLock
<1>2. call[c].pc = "request" /\ fds' = fds /\ inode' = inode
  BY DEF CheckReservedLock, Requested, serverVars
<1>3. /\ \A d \in Client \ {c} : call'[d] = call[d]
      /\ call'[c].pc = "reply" /\ call'[c].file = call[c].file
  BY <1>1, Known DEF Answer, TypeOK
<1>4. \A d \in Client \ {c} : File(d)' = File(d) /\ (OwnsFd(d)' <=> OwnsFd(d))
  BY <1>3 DEF File, OwnsFd
<1>5. File(c)' = File(c) /\ (OwnsFd(c)' <=> OwnsFd(c))
  BY <1>2, <1>3 DEF File, OwnsFd
<1> QED
  BY <1>2, <1>4, <1>5, DescriptorsKept

\* posixUnlock, called by unixUnlock and by unixClose: the last lock takes the
\* waiting descriptors with it.
LEMMA UnlockKeepsDescriptors ==
  ASSUME IInv, DescriptorInv, NEW c \in Client, UNCHANGED <<id, pagerVars>>,
         NEW lvl \in {0, 1}, NEW stage \in {"reply", "close"}, call[c].pc = "request",
         PosixUnlock(c, lvl, stage)
  PROVE  DescriptorInv'
<1>1. /\ inode \in InodeInfo /\ inode.nLock \in Nat /\ inode.nShared = inode.nLock
      /\ call[c].file \in UnixFile
  BY Known DEF TableInv
<1>2. \A l \in {0, 1} : /\ WithLock(call[c].file, l).h = call[c].file.h
                        /\ WithLock(call[c].file, l).pInode = call[c].file.pInode
  BY <1>1 DEF WithLock, UnixFile
<1>3. CASE UnlockIsNoop(c, lvl, stage) \/ UnlockFails(c, lvl, stage)
  <2>1. /\ \E rc : Proceed(c, stage, call[c].file, rc)
        /\ inode' = inode /\ fds' = fds
    BY <1>3 DEF UnlockIsNoop, UnlockFails, serverVars
  <2> QED
    BY <2>1, SameDescriptor
<1>4. CASE UnlockToShared(c, lvl, stage)
  <2>1. /\ Proceed(c, stage, WithLock(call[c].file, 1), "OK")
        /\ inode' = [inode EXCEPT !.eFileLock = 1] /\ fds' = fds
    BY <1>4, Levels DEF UnlockToShared
  <2>2. inode'.pUnused = inode.pUnused /\ inode'.nLock = inode.nLock
    BY <1>1, <2>1 DEF InodeInfo
  <2> QED
    BY <1>2, <2>1, <2>2, SameDescriptor
<1>5. CASE UnlockLeavesReaders(c, lvl, stage)
  <2>1. /\ Proceed(c, stage, WithLock(call[c].file, 0), "OK")
        /\ fds' = fds /\ inode.nShared > 1
        /\ \E l : inode' = [inode EXCEPT !.nShared = @ - 1, !.nLock = @ - 1, !.eFileLock = l]
    BY <1>5, Levels DEF UnlockLeavesReaders
  <2>2. inode'.pUnused = inode.pUnused /\ inode'.nLock = inode.nLock - 1
    BY <1>1, <2>1 DEF InodeInfo
  <2>3. inode'.nLock > 0
    BY <1>1, <2>1, <2>2
  <2> QED
    BY <1>2, <2>1, <2>2, <2>3, SameDescriptor
<1>6. CASE UnlockLastReader(c, lvl, stage)
  <2>1. /\ \E rc : Proceed(c, stage, WithLock(call[c].file, 0), rc)
        /\ fds' = fds \ UnusedFds
        /\ inode' = [inode EXCEPT !.nShared = @ - 1, !.nLock = @ - 1,
                                  !.eFileLock = NO_LOCK, !.pUnused = {}]
    BY <1>6, Levels DEF UnlockLastReader
  <2>2. inode'.pUnused = {}
    BY <1>1, <2>1 DEF InodeInfo
  <2>3. Serves(c, stage, WithLock(call[c].file, 0))
    BY <2>1, ServesFacts
  <2>4. (OwnsFd(c)' <=> OwnsFd(c)) /\ File(c)'.h = File(c).h
    BY <1>2, <2>3 DEF Serves
  <2>5. UnusedFds' = {} /\ UnusedOnce' /\ UnusedFdsAreTemporary'
    BY <2>2 DEF UnusedFds, UnusedOnce, UnusedFdsAreTemporary
  <2>6. \A d \in Client \ {c} : File(d)' = File(d) /\ (OwnsFd(d)' <=> OwnsFd(d))
    BY <2>3 DEF Serves
  <2>7. ASSUME NEW x
        PROVE  x \in fds' <=> \/ x \in UnusedFds'
                              \/ OwnsFd(c)' /\ File(c)'.h = x
                              \/ \E d \in Client \ {c} : OwnsFd(d) /\ File(d).h = x
    <3>1. /\ x \in fds <=> x \in UnusedFds \/ \E d \in Client : OwnsFd(d) /\ File(d).h = x
          /\ \A d \in Client : OwnsFd(d) => File(d).h \notin UnusedFds
      BY Accounted
    <3>2. OwnsFd(c)' /\ File(c)'.h = x <=> OwnsFd(c) /\ File(c).h = x
      BY <2>4
    <3> QED
      BY <2>1, <2>5, <3>1, <3>2
  <2> QED
    BY <2>4, <2>5, <2>6, <2>7, Accounted, DescriptorsMoved
<1> QED
  BY <1>3, <1>4, <1>5, <1>6 DEF PosixUnlock

\* unixClose after its unixUnlock().
LEMMA CloseKeepsDescriptors ==
  ASSUME IInv, DescriptorInv, NEW c \in Client, Close(c), UNCHANGED <<id, pagerVars>>
  PROVE  DescriptorInv'
<1>1. /\ call[c].file.pInode /\ call[c].pc \in {"close", "release"} /\ inode \in InodeInfo
      /\ inode.nLock \in Nat /\ call[c].file \in UnixFile
  BY Known DEF Close, CloseSetsPendingFd, CloseReleases, HandleOK
<1>2. CASE CloseSetsPendingFd(c) /\ ~(inode.nLock > 0)
  <2>1. Proceed(c, "release", call[c].file, "OK") /\ inode' = inode /\ fds' = fds
    BY <1>2 DEF CloseSetsPendingFd
  <2>2. Serves(c, "release", call[c].file)
    BY <1>1, <2>1, ServesFacts
  <2>3. (OwnsFd(c)' <=> OwnsFd(c)) /\ File(c)'.h = File(c).h
    BY <1>1, <2>2 DEF Serves
  <2> QED
    BY <2>1, <2>2, <2>3, DescriptorsKept DEF Serves
<1>3. CASE CloseSetsPendingFd(c) /\ inode.nLock > 0
  <2> DEFINE u == [fd |-> call[c].file.h, flags |-> call[c].file.flags]
  <2>1. /\ Proceed(c, "release", WithoutFd(call[c].file), "OK") /\ fds' = fds
        /\ inode' = [inode EXCEPT !.pUnused = @ \cup {u}] /\ call[c].pc = "close"
    BY <1>3 DEF CloseSetsPendingFd
  <2>2. inode'.pUnused = inode.pUnused \cup {u} /\ inode'.nLock = inode.nLock
    BY <1>1, <2>1 DEF InodeInfo
  <2>3. Serves(c, "release", WithoutFd(call[c].file))
    BY <1>1, <2>1, ServesFacts
  <2>4. call[c].file.h # NoFd /\ WithoutFd(call[c].file).h = NoFd
    <3>1. call[c].file.h # NoFd
      BY <1>1, <2>1, Known DEF HandleOK, HasFd, File
    <3> QED
      BY <1>1, <3>1 DEF WithoutFd, UnixFile
  <2>5. OwnsFd(c) /\ ~OwnsFd(c)' /\ File(c).h = call[c].file.h
    BY <1>1, <2>3, <2>4 DEF Serves
  <2>6. u.fd = File(c).h
    BY <2>5
  <2> HIDE DEF u
  <2>7. UnusedFds' = UnusedFds \cup {File(c).h}
    BY <2>2, <2>6 DEF UnusedFds
  <2>8. File(c).h \notin UnusedFds
    BY <2>5, Accounted
  <2>9. UnusedOnce'
    BY <2>2, <2>6, <2>8, Accounted DEF UnusedFds, UnusedOnce
  <2>10. UnusedFdsAreTemporary'
    BY <1>3, <2>2 DEF UnusedFdsAreTemporary
  <2>11. \A d \in Client \ {c} : File(d)' = File(d) /\ (OwnsFd(d)' <=> OwnsFd(d))
    BY <2>3 DEF Serves
  <2>12. \A x : x \in fds' <=> \/ x \in UnusedFds'
                               \/ OwnsFd(c)' /\ File(c)'.h = x
                               \/ \E d \in Client \ {c} : OwnsFd(d) /\ File(d).h = x
    BY <2>1, <2>5, <2>7, Accounted
  <2>13. \A d \in Client \ {c} : OwnsFd(d) => File(d).h \notin UnusedFds'
    BY <2>5, <2>7, Accounted
  <2> QED
    BY <2>5, <2>9, <2>10, <2>11, <2>12, <2>13, DescriptorsMoved
<1>4. CASE CloseReleases(c)
  <2> DEFINE own == {call[c].file.h} \ {NoFd}
             closed == own \cup IF inode.nRef = 1 THEN UnusedFds ELSE {}
  <2>1. /\ Proceed(c, "reply", ZeroFile, "OK") /\ fds' = fds \ closed
        /\ inode' = IF inode.nRef = 1 THEN NoInode ELSE [inode EXCEPT !.nRef = @ - 1]
    BY <1>4 DEF CloseReleases, Reply
  <2>2. Serves(c, "reply", ZeroFile)
    BY <1>1, <2>1, ServesFacts
  <2>3. /\ OwnsFd(c) <=> call[c].file.h # NoFd
        /\ ~OwnsFd(c)' /\ File(c).h = call[c].file.h
    BY <1>1, <2>2, ZeroFacts DEF Serves
  <2>4. \A d \in Client \ {c} : File(d)' = File(d) /\ (OwnsFd(d)' <=> OwnsFd(d))
    BY <2>2 DEF Serves
  <2>5. inode'.pUnused = (IF inode.nRef = 1 THEN {} ELSE inode.pUnused)
        /\ (inode.nRef # 1 => inode'.nLock = inode.nLock)
    BY <1>1, <2>1 DEF InodeInfo, NoInode
  <2>6. UnusedFds' = IF inode.nRef = 1 THEN {} ELSE UnusedFds
    BY <2>5 DEF UnusedFds
  <2>7. UnusedOnce' /\ UnusedFdsAreTemporary'
    BY <2>5, Accounted DEF UnusedOnce, UnusedFdsAreTemporary
  <2>8. \A x : x \in own <=> OwnsFd(c) /\ File(c).h = x
    BY <2>3
  <2> HIDE DEF own
  <2>9. ASSUME NEW x
        PROVE  x \in fds' <=> \/ x \in UnusedFds'
                              \/ OwnsFd(c)' /\ File(c)'.h = x
                              \/ \E d \in Client \ {c} : OwnsFd(d) /\ File(d).h = x
    <3>1. /\ x \in fds <=> x \in UnusedFds \/ \E d \in Client : OwnsFd(d) /\ File(d).h = x
          /\ \A d \in Client : OwnsFd(d) => File(d).h \notin UnusedFds
          /\ \A d, e \in Client : OwnsFd(d) /\ OwnsFd(e) /\ File(d).h = File(e).h => d = e
      BY Accounted
    <3>2. x \in fds' <=> x \in fds /\ x \notin own /\ ~(inode.nRef = 1 /\ x \in UnusedFds)
      BY <2>1
    <3>3. x \in UnusedFds' <=> inode.nRef # 1 /\ x \in UnusedFds
      BY <2>6
    <3>4. x \in own <=> OwnsFd(c) /\ File(c).h = x
      BY <2>8
    <3> QED
      BY <2>3, <3>1, <3>2, <3>3, <3>4
  <2>10. \A d \in Client \ {c} : OwnsFd(d) => File(d).h \notin UnusedFds'
    BY <2>6, Accounted
  <2> QED
    BY <2>3, <2>4, <2>7, <2>9, <2>10, DescriptorsMoved
<1> QED
  BY <1>2, <1>3, <1>4 DEF Close

-----------------------------------------------------------------------------
(* The steps of the pagers. *)

\* A pager's call takes its handle along, and its return brings it back: no
\* descriptor changes hands.
LEMMA ClientKeepsHandle ==
  ASSUME IInv, NEW c \in Client, Calls(c) \/ Returns(c)
  PROVE  /\ \A d \in Client \ {c} : /\ call'[d] = call[d] /\ File(d)' = File(d)
                                    /\ (OwnsFd(d)' <=> OwnsFd(d))
         /\ call[c].pc \in {"idle", "reply"} /\ call'[c].pc \in {"idle", "request"}
         /\ OwnsFd(c)' <=> OwnsFd(c)
         /\ OwnsFd(c) => File(c)'.h = File(c).h
<1>1. call \in [Client -> Call] /\ id \in [Client -> UnixFile]
  BY DEF IInv, TypeOK
<1>2. ASSUME NEW op, NEW lvl, NEW flags, Send(c, op, lvl, flags, id[c]), id' = id
      PROVE  /\ \A d \in Client \ {c} : call'[d] = call[d] /\ id'[d] = id[d]
             /\ call[c].pc = "idle" /\ call'[c].pc = "request" /\ File(c)' = File(c)
  BY <1>1, <1>2 DEF Send, File
<1>3. CASE WriterFails(c)
  <2>1. call' = call /\ id' = id /\ call[c].pc = "idle"
    BY <1>3 DEF WriterFails
  <2> QED
    BY <2>1 DEF File, OwnsFd
<1>4. CASE Calls(c) /\ ~WriterFails(c)
  <2>1. \E op, lvl, flags : Send(c, op, lvl, flags, id[c]) /\ id' = id
    BY <1>4 DEF Calls, OpenDatabase, BeginRead, CheckHotJournal, BeginHotRollback, BeginWrite,
                BeginCommit, EndWrite, PagerUnlock, CloseDatabase, remoteOpen, remoteLock,
                remoteUnlock, remoteCheckReservedLock, remoteClose
  <2>2. /\ \A d \in Client \ {c} : call'[d] = call[d] /\ id'[d] = id[d]
        /\ call[c].pc = "idle" /\ call'[c].pc = "request" /\ File(c)' = File(c)
    BY <1>2, <2>1
  <2> QED
    BY <2>2 DEF File, OwnsFd
<1>5. CASE Returns(c)
  <2>1. PICK op \in Op : /\ Returned(c, op)
                         /\ op # "Close" => StoreHandle(c)
                         /\ op = "Close" => ForgetHandle(c)
    BY <1>5 DEF Returns, OpenReturns, SharedLockReturns, WriteLockReturns, EndWriteReturns,
                PagerUnlockReturns, CheckReservedReturns, CloseReturns, Op
  <2>2. /\ \A d \in Client \ {c} : call'[d] = call[d]
        /\ call[c].pc = "reply" /\ call[c].op = op /\ call'[c] = NoCall
    BY <1>1, <2>1, ReturnedFacts
  <2>3. File(c) = call[c].file /\ File(c)' = id'[c] /\ call'[c].pc = "idle"
    BY <2>2, ZeroFacts DEF File
  <2>4. CASE op # "Close"
    <3>1. id'[c] = call[c].file /\ \A d \in Client \ {c} : id'[d] = id[d]
      BY <1>1, <2>1, <2>4 DEF StoreHandle
    <3> QED
      BY <2>2, <2>3, <3>1 DEF OwnsFd, File
  <2>5. CASE op = "Close"
    <3>1. ~call[c].file.pInode
      BY <2>2, <2>5, Known DEF HandleOK
    <3>2. id[c] \in UnixFile /\ id' = [id EXCEPT ![c] = [id[c] EXCEPT !.pInode = FALSE]]
      BY <1>1, <2>1, <2>5 DEF ForgetHandle
    <3>3. [id[c] EXCEPT !.pInode = FALSE].pInode = FALSE
      BY <3>2 DEF UnixFile
    <3>4. id'[c].pInode = FALSE /\ \A d \in Client \ {c} : id'[d] = id[d]
      BY <1>1, <3>2, <3>3
    <3>5. ~OwnsFd(c) /\ ~OwnsFd(c)'
      BY <2>2, <2>3, <3>1, <3>4 DEF OwnsFd
    <3> QED
      BY <2>2, <2>3, <3>4, <3>5 DEF OwnsFd, File
  <2> QED
    BY <2>4, <2>5
<1> QED
  BY <1>3, <1>4, <1>5

\* Every step keeps the account of the descriptors.
LEMMA DescriptorStep ==
  ASSUME IInv, DescriptorInv, Next
  PROVE  DescriptorInv'
<1>1. PICK c \in Client : ServerStep(c) \/ ClientStep(c)
  BY DEF Next
<1>2. CASE ServerStep(c)
  <2>1. Serve(c) /\ UNCHANGED <<id, pagerVars>>
    BY <1>2 DEF ServerStep
  <2>2. CASE Unlock(c)
    <3>1. call[c].pc = "request" /\ call[c].op = "Unlock" /\ PosixUnlock(c, call[c].lvl, "reply")
      BY <2>2 DEF Unlock, Requested
    <3>2. call[c].lvl \in {0, 1}
      BY <3>1, Known, Levels DEF BeliefOK
    <3> QED
      BY <2>1, <3>1, <3>2, UnlockKeepsDescriptors
  <2>3. CASE CloseUnlocks(c)
    <3>1. call[c].pc = "request" /\ PosixUnlock(c, 0, "close")
      BY <2>3, Levels DEF CloseUnlocks, Requested
    <3> QED
      BY <2>1, <3>1, UnlockKeepsDescriptors
  <2> QED
    BY <2>1, <2>2, <2>3, OpenKeepsDescriptors, FillKeepsDescriptors, LockKeepsDescriptors,
       CheckKeepsDescriptors, CloseKeepsDescriptors DEF Serve
<1>3. CASE ClientStep(c)
  <2>1. (Calls(c) \/ Returns(c)) /\ inode' = inode /\ fds' = fds
    BY <1>3 DEF ClientStep, serverVars
  <2> QED
    BY <2>1, ClientKeepsHandle, DescriptorsKept
<1> QED
  BY <1>1, <1>2, <1>3

\* There are no descriptors, and a step that changes nothing moves none.
LEMMA DescriptorInvariance == Spec => [](IInv /\ DescriptorInv)
<1>1. Init => DescriptorInv
  <2> SUFFICES ASSUME Init PROVE DescriptorInv
    OBVIOUS
  <2>1. inode.pUnused = {} /\ fds = {} /\ UnusedFds = {}
    BY DEF Init, ServerInit, NoInode, UnusedFds
  <2>2. \A c \in Client : ~OwnsFd(c)
    BY ZeroFacts DEF Init, CallInit, ClientInit, OwnsFd, File
  <2> QED
    BY <2>1, <2>2 DEF DescriptorInv, DescriptorsAccounted, UnusedOnce, UnusedFdsAreTemporary
<1>2. DescriptorInv /\ UNCHANGED vars => DescriptorInv'
  <2> SUFFICES ASSUME DescriptorInv, UNCHANGED vars PROVE DescriptorInv'
    OBVIOUS
  <2>1. \A c \in Client : File(c)' = File(c) /\ (OwnsFd(c)' <=> OwnsFd(c))
    BY DEF vars, File, OwnsFd
  <2>2. inode' = inode /\ fds' = fds /\ UnusedFds' = UnusedFds
    BY DEF vars, UnusedFds
  <2>3. {File(c).h : c \in {d \in Client : OwnsFd(d)}}' = {File(c).h : c \in {d \in Client : OwnsFd(d)}}
    BY <2>1
  <2> QED
    BY <2>1, <2>2, <2>3 DEF DescriptorInv, DescriptorsAccounted, UnusedOnce, UnusedFdsAreTemporary
<1>3. IInv /\ DescriptorInv /\ [Next]_vars => DescriptorInv'
  BY <1>2, DescriptorStep
<1> QED
  BY <1>1, <1>3, Invariance, PTL DEF Spec

\* Every descriptor open on the database belongs to one handle or waits on
\* pUnused: however clients open, lock and close, none leaks and none is shared.
THEOREM NoDescriptorLeaks == Spec => []DescriptorsAccounted
<1>1. IInv /\ DescriptorInv => DescriptorsAccounted
  BY DEF DescriptorInv
<1> QED
  BY <1>1, DescriptorInvariance, PTL

\* A descriptor whose close was deferred waits only while some handle has a lock.
THEOREM DeferredClosesEnd == Spec => []UnusedFdsAreTemporary
<1>1. IInv /\ DescriptorInv => UnusedFdsAreTemporary
  BY DEF DescriptorInv
<1> QED
  BY <1>1, DescriptorInvariance, PTL

-----------------------------------------------------------------------------
(* The fcntl() locks. *)

\* The table and the fcntl() locks stay as they are.
LEMMA KernelKept ==
  ASSUME KernelBacksTable, inode'.eFileLock = inode.eFileLock, klock' = klock
  PROVE  KernelBacksTable'
BY DEF KernelBacksTable

\* A table without a lock needs no fcntl() lock.
LEMMA KernelNone ==
  ASSUME inode'.eFileLock = 0
  PROVE  KernelBacksTable'
BY Levels DEF KernelBacksTable

\* The lock types are numbers, and the updates of the locks set what they say.
LEMMA KernelFields ==
  ASSUME NEW k \in KernelLock, NEW a, NEW b
  PROVE  /\ UNLCK = 0 /\ RDLCK = 1 /\ WRLCK = 2
         /\ k.pending \in 0 .. 2 /\ k.reserved \in 0 .. 2 /\ k.shared \in 0 .. 2
         /\ [k EXCEPT !.reserved = a].reserved = a /\ [k EXCEPT !.reserved = a].shared = k.shared
         /\ [k EXCEPT !.reserved = a].pending = k.pending
         /\ [k EXCEPT !.pending = a].pending = a /\ [k EXCEPT !.pending = a].shared = k.shared
         /\ [k EXCEPT !.pending = a].reserved = k.reserved
         /\ [k EXCEPT !.pending = a, !.shared = b].pending = a
         /\ [k EXCEPT !.pending = a, !.shared = b].shared = b
         /\ [k EXCEPT !.pending = a, !.reserved = b].shared = k.shared
BY DEF KernelLock, UNLCK, RDLCK, WRLCK

\* The levels of the unixInodeInfo after each kind of update.
LEMMA InodeFields ==
  ASSUME NEW i \in InodeInfo, NEW n, NEW m, NEW lvl, NEW U
  PROVE  /\ [i EXCEPT !.eFileLock = lvl].eFileLock = lvl
         /\ [i EXCEPT !.nShared = n, !.nLock = m, !.eFileLock = lvl].eFileLock = lvl
         /\ [i EXCEPT !.nShared = n, !.nLock = m, !.eFileLock = lvl, !.pUnused = U].eFileLock = lvl
         /\ [i EXCEPT !.nShared = n, !.nLock = m].eFileLock = i.eFileLock
         /\ [i EXCEPT !.pUnused = U].eFileLock = i.eFileLock
         /\ [i EXCEPT !.pUnused = U].nLock = i.nLock
         /\ [i EXCEPT !.nRef = n].eFileLock = i.eFileLock
BY DEF InodeInfo

\* unixLock asks for the fcntl() lock before it enters the level in the table.
LEMMA LockKeepsKernel ==
  ASSUME IInv, KernelBacksTable, ~NetworkMount, NEW c \in Client, Lock(c)
  PROVE  KernelBacksTable'
<1>1. /\ KernelBacksTable /\ inode \in InodeInfo /\ inode.eFileLock \in 0 .. 4
      /\ klock \in KernelLock /\ call[c].file.eFileLock \in 0 .. 4
  BY Known
<1>2. Requested(c, "Lock")
  BY DEF Lock, LockAlreadyHeld, LockPrecluded, LockJoinsReaders, LockFirstReader, FirstReader,
         LockFirstReaderFails, LockReserves, LockReserveFails, LockPendingFails,
         LockStopsAtPending, LockExcludes, Locking
<1>3. /\ call[c].lvl \in {1, 2, 4} /\ (call[c].lvl > 1 => call[c].file.eFileLock >= 1)
  BY <1>2, LockRequest
<1>4. CASE \/ LockAlreadyHeld(c) \/ LockPrecluded(c) \/ LockReserveFails(c)
           \/ LockPendingFails(c)
  <2>1. inode' = inode /\ klock' = klock
    BY <1>4 DEF LockAlreadyHeld, LockPrecluded, LockReserveFails, LockPendingFails, serverVars
  <2> QED
    BY <1>1, <2>1, KernelKept
<1>5. CASE LockJoinsReaders(c)
  <2>1. inode' = [inode EXCEPT !.nShared = @ + 1, !.nLock = @ + 1] /\ klock' = klock
    BY <1>5 DEF LockJoinsReaders
  <2>2. inode'.eFileLock = inode.eFileLock
    BY <1>1, <2>1, InodeFields
  <2> QED
    BY <1>1, <2>1, <2>2, KernelKept
<1>6. CASE LockFirstReader(c)
  <2>1. /\ inode' = [inode EXCEPT !.nShared = 1, !.nLock = @ + 1, !.eFileLock = SHARED_LOCK]
        /\ klock' = [klock EXCEPT !.pending = UNLCK, !.shared = RDLCK]
    BY <1>6 DEF LockFirstReader
  <2>2. inode'.eFileLock = 1
    BY <1>1, <2>1, InodeFields, Levels
  <2>3. klock'.shared = RDLCK
    BY <1>1, <2>1, KernelFields
  <2> QED
    BY <2>2, <2>3, Levels DEF KernelBacksTable, RDLCK
<1>7. CASE LockFirstReaderFails(c)
  <2>1. inode' = inode /\ FirstReader(c)
    BY <1>7 DEF LockFirstReaderFails
  <2>2. call[c].file.eFileLock = 0 /\ inode.eFileLock = 0
    BY <1>1, <2>1, Levels DEF FirstReader, Locking, Precluded
  <2> QED
    BY <2>1, <2>2, KernelNone
<1>8. CASE LockReserves(c) \/ LockStopsAtPending(c) \/ LockExcludes(c)
  <2>1. Locking(c) /\ call[c].lvl > 1
    BY <1>8, Levels DEF LockReserves, LockStopsAtPending, LockExcludes
  <2>2. inode.eFileLock >= 1
    BY <1>1, <1>3, <2>1, Levels DEF Locking, Precluded
  <2>3. klock.shared >= RDLCK /\ klock.shared \in 0 .. 2
    BY <1>1, <2>2, Levels, KernelFields DEF KernelBacksTable
  <2>4. CASE LockReserves(c)
    <3>1. /\ inode' = [inode EXCEPT !.eFileLock = RESERVED_LOCK]
          /\ klock' = [klock EXCEPT !.reserved = WRLCK]
      BY <2>4 DEF LockReserves
    <3>2. inode'.eFileLock = 2
      BY <1>1, <3>1, InodeFields, Levels
    <3>3. klock'.reserved = WRLCK /\ klock'.shared = klock.shared
      BY <1>1, <3>1, KernelFields
    <3> QED
      BY <2>3, <3>2, <3>3, Levels DEF KernelBacksTable
  <2>5. CASE LockStopsAtPending(c)
    <3>1. /\ inode' = [inode EXCEPT !.eFileLock = PENDING_LOCK]
          /\ klock' = [klock EXCEPT !.pending = WRLCK]
      BY <2>5 DEF LockStopsAtPending
    <3>2. inode'.eFileLock = 3
      BY <1>1, <3>1, InodeFields, Levels
    <3>3. klock'.pending = WRLCK /\ klock'.shared = klock.shared
      BY <1>1, <3>1, KernelFields
    <3> QED
      BY <2>3, <3>2, <3>3, Levels DEF KernelBacksTable
  <2>6. CASE LockExcludes(c)
    <3>1. /\ inode' = [inode EXCEPT !.eFileLock = EXCLUSIVE_LOCK]
          /\ klock' = [klock EXCEPT !.pending = WRLCK, !.shared = WRLCK]
      BY <2>6 DEF LockExcludes
    <3>2. inode'.eFileLock = 4
      BY <1>1, <3>1, InodeFields, Levels
    <3>3. klock'.pending = WRLCK /\ klock'.shared = WRLCK
      BY <1>1, <3>1, KernelFields
    <3> QED
      BY <3>2, <3>3, Levels DEF KernelBacksTable, RDLCK, WRLCK
  <2> QED
    BY <1>8, <2>4, <2>5, <2>6
<1> QED
  BY <1>4, <1>5, <1>6, <1>7, <1>8 DEF Lock

\* posixUnlock gives back no fcntl() lock that the table still needs.
LEMMA UnlockKeepsKernel ==
  ASSUME IInv, KernelBacksTable, ~NetworkMount, NEW c \in Client, NEW lvl, NEW stage,
         PosixUnlock(c, lvl, stage)
  PROVE  KernelBacksTable'
<1>1. /\ KernelBacksTable /\ inode \in InodeInfo /\ inode.eFileLock \in 0 .. 4
      /\ inode.nShared \in Nat /\ klock \in KernelLock /\ call[c].file.eFileLock \in 0 .. 4
      /\ (inode.eFileLock = 0 <=> inode.nShared = 0)
  BY Known, Levels DEF TableInv
<1>2. CASE UnlockIsNoop(c, lvl, stage)
  BY <1>1, <1>2, KernelKept DEF UnlockIsNoop, serverVars
<1>3. CASE UnlockToShared(c, lvl, stage)
  <2>1. /\ inode' = [inode EXCEPT !.eFileLock = SHARED_LOCK]
        /\ klock' = [pending |-> UNLCK, reserved |-> UNLCK, shared |-> RDLCK]
    BY <1>3 DEF UnlockToShared
  <2>2. inode'.eFileLock = 1
    BY <1>1, <2>1, InodeFields, Levels
  <2>3. klock'.shared = RDLCK
    BY <2>1
  <2> QED
    BY <2>2, <2>3, Levels DEF KernelBacksTable, RDLCK
<1>4. CASE UnlockLeavesReaders(c, lvl, stage)
  <2> DEFINE l == IF call[c].file.eFileLock > SHARED_LOCK THEN SHARED_LOCK ELSE inode.eFileLock
  <2>1. /\ inode' = [inode EXCEPT !.nShared = @ - 1, !.nLock = @ - 1, !.eFileLock = l]
        /\ klock' = IF call[c].file.eFileLock > SHARED_LOCK
                      THEN [klock EXCEPT !.pending = UNLCK, !.reserved = UNLCK] ELSE klock
        /\ inode.nShared > 1
    BY <1>4 DEF UnlockLeavesReaders
  <2>2. inode'.eFileLock = l
    BY <1>1, <2>1, InodeFields
  <2>3. CASE call[c].file.eFileLock > SHARED_LOCK
    <3>1. klock'.shared = klock.shared
      BY <1>1, <2>1, <2>3, KernelFields
    <3>2. klock.shared >= RDLCK
      BY <1>1, <2>1, Levels DEF KernelBacksTable
    <3> QED
      BY <2>2, <2>3, <3>1, <3>2, Levels DEF KernelBacksTable
  <2>4. CASE ~(call[c].file.eFileLock > SHARED_LOCK)
    BY <1>1, <2>1, <2>2, <2>4, KernelKept
  <2> QED
    BY <2>3, <2>4
<1>5. CASE UnlockLastReader(c, lvl, stage)
  <2>1. inode' = [inode EXCEPT !.nShared = @ - 1, !.nLock = @ - 1,
                    !.eFileLock = NO_LOCK, !.pUnused = {}]
    BY <1>5 DEF UnlockLastReader
  <2>2. inode'.eFileLock = 0
    BY <1>1, <2>1, InodeFields, Levels
  <2> QED
    BY <2>2, KernelNone
<1> QED
  BY <1>2, <1>3, <1>4, <1>5 DEF PosixUnlock, UnlockFails

\* Every step keeps the fcntl() locks behind the table, but for the close that races.
LEMMA KernelStep ==
  ASSUME IInv, KernelBacksTable, ~NetworkMount, Next
  PROVE  KernelBacksTable' \/ \E c \in Client : RacingClose(c)
<1>1. PICK c \in Client : ServerStep(c) \/ ClientStep(c)
  BY DEF Next
<1>2. /\ TypeOK /\ inode \in InodeInfo /\ klock \in KernelLock
      /\ call[c].file \in UnixFile
  BY Known
<1>3. CASE ClientStep(c)
  <2>1. inode' = inode /\ klock' = klock
    BY <1>3 DEF ClientStep, serverVars
  <2> QED
    BY <2>1, KernelKept
<1>4. CASE ServerStep(c)
  <2>1. Serve(c)
    BY <1>4 DEF ServerStep
  <2>2. CASE Open(c)
    <3>1. klock' = klock
      BY <2>2 DEF Open, OpenReusesFd, OpenNewFd, OpenFails, serverVars
    <3>2. inode'.eFileLock = inode.eFileLock
      <4>1. inode' = inode \/ \E U : inode' = [inode EXCEPT !.pUnused = U]
        BY <2>2 DEF Open, OpenReusesFd, OpenNewFd, OpenFails, serverVars
      <4> QED
        BY <1>2, <4>1 DEF InodeInfo
    <3> QED
      BY <3>1, <3>2, KernelKept
  <2>3. CASE FillInUnixFile(c)
    <3>1. inode' = [inode EXCEPT !.nRef = @ + 1] /\ klock' = klock
      BY <2>3 DEF FillInUnixFile
    <3>2. inode'.eFileLock = inode.eFileLock
      BY <1>2, <3>1, InodeFields
    <3> QED
      BY <3>1, <3>2, KernelKept
  <2>4. CASE FillInFails(c)
    <3>1. inode' = inode /\ inode.nRef = 0
      BY <2>4 DEF FillInFails
    <3>2. Cardinality(Attached) = 0 /\ IsFiniteSet(Attached)
      BY <3>1, Known, ClientAssumption, FS_Subset DEF TableInv, Attached
    <3>3. Attached = {}
      BY <3>2, FS_EmptySet
    <3>4. Readers = {}
      BY <3>3, Levels DEF Readers, Attached, Held
    <3>5. inode.nShared = 0
      BY <3>4, Known, FS_EmptySet DEF ExactInv
    <3>6. inode'.eFileLock = 0
      BY <3>1, <3>5, Known, Levels DEF TableInv
    <3> QED
      BY <3>6, KernelNone
  <2>5. CASE CheckReservedLock(c)
    BY <2>5, KernelKept DEF CheckReservedLock, serverVars
  <2>6. CASE CloseSetsPendingFd(c)
    <3>1. inode' = inode \/ \E U : inode' = [inode EXCEPT !.pUnused = U]
      BY <2>6 DEF CloseSetsPendingFd
    <3>2. klock' = klock
      BY <2>6 DEF CloseSetsPendingFd
    <3>3. inode'.eFileLock = inode.eFileLock
      BY <1>2, <3>1 DEF InodeInfo
    <3> QED
      BY <3>2, <3>3, KernelKept
  <2>7. CASE CloseReleases(c)
    <3> DEFINE own    == {call[c].file.h} \ {NoFd}
               closed == own \cup IF inode.nRef = 1 THEN UnusedFds ELSE {}
    <3>1. /\ inode' = IF inode.nRef = 1 THEN NoInode ELSE [inode EXCEPT !.nRef = @ - 1]
          /\ klock' = AfterClosing(closed, klock) /\ call[c].pc = "release"
          /\ Proceed(c, "reply", ZeroFile, "OK")
      BY <2>7 DEF CloseReleases, Reply
    <3>2. CASE inode.nRef = 1
      <4>1. inode'.eFileLock = 0
        BY <3>1, <3>2, Levels DEF NoInode
      <4> QED
        BY <4>1, KernelNone
    <3>3. CASE inode.nRef # 1 /\ call[c].file.h = NoFd
      <4>1. inode'.eFileLock = inode.eFileLock
        BY <1>2, <3>1, <3>3, InodeFields
      <4>2. closed = {}
        BY <3>3
      <4>3. klock' = klock
        BY <3>1, <4>2 DEF AfterClosing
      <4> QED
        BY <4>1, <4>3, KernelKept
    <3>4. CASE inode.nRef # 1 /\ call[c].file.h # NoFd /\ inode.nLock > 0
      <4>1. call'[c].pc = "reply"
        BY <1>2, <3>1, Proceeded
      <4> QED
        BY <3>1, <3>4, <4>1 DEF RacingClose
    <3>5. CASE inode.nRef # 1 /\ ~(inode.nLock > 0)
      <4>1. inode'.eFileLock = inode.eFileLock
        BY <1>2, <3>1, <3>5, InodeFields
      <4>2. inode.nLock = 0
        BY <3>5, Known
      <4>3. inode.eFileLock = 0
        BY <4>2, Known, Levels DEF TableInv
      <4> QED
        BY <4>1, <4>3, KernelNone
    <3> QED
      BY <3>2, <3>3, <3>4, <3>5
  <2> QED
    BY <2>1, <2>2, <2>3, <2>4, <2>5, <2>6, <2>7, LockKeepsKernel, UnlockKeepsKernel
       DEF Serve, Fill, Close, Unlock, CloseUnlocks
<1> QED
  BY <1>1, <1>3, <1>4

(***************************************************************************)
(* If fcntl() locks can be given back, any number of threads keep the      *)
(* locks that other processes on the server's machine see in step with the *)
(* table, with one exception: a close that decided before the first lock   *)
(* was taken and happens after it.                                         *)
(***************************************************************************)
THEOREM LocksDroppedByRacingClose ==
  ASSUME ~NetworkMount
  PROVE  Spec => OnlyRacingCloseDropsLocks
<1> DEFINE Kept == KernelBacksTable => KernelBacksTable' \/ \E c \in Client : RacingClose(c)
<1>1. IInv /\ [Next]_vars => [Kept]_vars
  BY KernelStep
<1> QED
  BY <1>1, Invariance, PTL DEF Spec, OnlyRacingCloseDropsLocks

-----------------------------------------------------------------------------
(* The assertions of os_unix.c hold for handles that the clients keep: what  *)
(* the pager asks for next depends on how far it is, so the level of its     *)
(* handle has to be known in each phase.                                     *)

(***************************************************************************)
(* A pager between transactions has no lock, and one that is about to look *)
(* for a hot journal no more than SHARED, whatever became of its requests. *)
(***************************************************************************)
PhaseOK(c) ==
    LET k == call[c] IN
    /\ k.pc = "idle" /\ phase[c] = "open" => Held(c) = 0
    /\ k.pc = "idle" /\ phase[c] = "check" => Held(c) <= 1
    /\ k.pc = "request" /\ k.op = "Lock" /\ k.lvl = 1 => Held(c) = 0
    /\ k.pc = "reply" /\ k.op = "Lock" /\ k.lvl = 1 =>
          Held(c) = IF k.rc = "OK" THEN 1 ELSE 0
    /\ k.pc = "request" /\ k.op = "Lock" /\ phase[c] = "check" => Held(c) <= 1
    /\ k.pc = "reply" /\ k.op = "Lock" /\ k.lvl = 2 /\ k.rc # "OK" /\ phase[c] = "check" =>
          Held(c) <= 1
    /\ k.pc = "reply" /\ k.op = "Unlock" /\ k.lvl = 0 => Held(c) = 0
    /\ k.pc # "idle" /\ k.op = "CheckReservedLock" => Held(c) <= 1

PhaseInv == \A c \in Client : PhaseOK(c)

\* The clients that take no step stay where they are.
LEMMA PhaseMoved ==
  ASSUME PhaseInv, NEW c \in Client, PhaseOK(c)',
         \A d \in Client \ {c} : /\ call'[d] = call[d] /\ File(d)' = File(d)
                                 /\ phase'[d] = phase[d]
  PROVE  PhaseInv'
<1> SUFFICES ASSUME NEW d \in Client \ {c} PROVE PhaseOK(d)'
  BY DEF PhaseInv
<1>1. Held(d)' = Held(d)
  BY DEF Held
<1> QED
  BY <1>1 DEF PhaseInv, PhaseOK

\* A handler step of c: where it leaves the call and what level the handle has.
LEMMA PhaseServed ==
  ASSUME IInv, PhaseInv, NEW c \in Client, call[c].pc # "idle",
         NEW stage, stage # "idle", NEW file, NEW rc, Proceed(c, stage, file, rc),
         UNCHANGED <<id, pagerVars>>,
         stage = "reply" =>
            /\ call[c].op = "Lock" /\ call[c].lvl = 1 =>
                  (IF file.pInode THEN file.eFileLock ELSE 0) = IF rc = "OK" THEN 1 ELSE 0
            /\ call[c].op = "Lock" /\ call[c].lvl = 2 /\ rc # "OK" /\ phase[c] = "check" =>
                  (IF file.pInode THEN file.eFileLock ELSE 0) <= 1
            /\ call[c].op = "Unlock" /\ call[c].lvl = 0 =>
                  (IF file.pInode THEN file.eFileLock ELSE 0) = 0,
         stage # "request", call[c].op # "CheckReservedLock"
  PROVE  PhaseInv'
<1>1. /\ call'[c].pc = stage /\ call'[c].file = file /\ call'[c].rc = rc
      /\ call'[c].op = call[c].op /\ call'[c].lvl = call[c].lvl
  BY Known, Proceeded
<1>2. Serves(c, stage, file) /\ phase' = phase
  BY ServesFacts DEF pagerVars
<1>3. Held(c)' = IF file.pInode THEN file.eFileLock ELSE 0
  BY <1>2, Levels DEF Held, Serves
<1>4. PhaseOK(c)'
  BY <1>1, <1>2, <1>3 DEF PhaseOK
<1> QED
  BY <1>2, <1>4, PhaseMoved DEF Serves

\* unixLock.
LEMMA LockKeepsPhase ==
  ASSUME IInv, PhaseInv, ~NetworkMount, NEW c \in Client, Lock(c), UNCHANGED <<id, pagerVars>>
  PROVE  PhaseInv'
<1>1. Requested(c, "Lock")
  BY DEF Lock, LockAlreadyHeld, LockPrecluded, LockJoinsReaders, LockFirstReader, FirstReader,
         LockFirstReaderFails, LockReserves, LockReserveFails, LockPendingFails,
         LockStopsAtPending, LockExcludes, Locking
<1>2. /\ call[c].pc = "request" /\ call[c].op = "Lock" /\ call[c].file.pInode
      /\ call[c].lvl \in {1, 2, 4} /\ Held(c) = call[c].file.eFileLock
      /\ call[c].file.eFileLock \in 0 .. 4 /\ call[c].file \in UnixFile
  BY <1>1, LockRequest, Known
<1>3. /\ call[c].lvl = 1 => call[c].file.eFileLock = 0
      /\ phase[c] = "check" => call[c].file.eFileLock <= 1
  BY <1>2 DEF PhaseInv, PhaseOK
<1>4. \A l \in Level : /\ WithLock(call[c].file, l).eFileLock = l
                       /\ WithLock(call[c].file, l).pInode = call[c].file.pInode
  BY <1>2 DEF WithLock, UnixFile
<1>5. CASE LockAlreadyHeld(c)
  <2>1. Proceed(c, "reply", call[c].file, "OK") /\ call[c].file.eFileLock >= call[c].lvl
    BY <1>5 DEF LockAlreadyHeld, Reply
  <2>2. call[c].lvl # 1
    BY <1>3, <2>1
  <2> QED
    BY <1>2, <2>1, <2>2, PhaseServed
<1>6. CASE \/ LockPrecluded(c) \/ LockFirstReaderFails(c) \/ LockReserveFails(c)
           \/ LockPendingFails(c)
  <2>1. PICK rc \in {"BUSY", "IOERR"} : Proceed(c, "reply", call[c].file, rc)
    <3>1. CASE LockPrecluded(c)
      BY <3>1 DEF LockPrecluded, Reply
    <3>2. CASE LockFirstReaderFails(c)
      BY <3>2 DEF LockFirstReaderFails, Reply
    <3>3. CASE LockReserveFails(c) \/ LockPendingFails(c)
      BY <3>3 DEF LockReserveFails, LockPendingFails, Reply
    <3> QED
      BY <1>6, <3>1, <3>2, <3>3
  <2>2. rc # "OK" /\ (IF call[c].file.pInode THEN call[c].file.eFileLock ELSE 0) = call[c].file.eFileLock
    BY <1>2
  <2> QED
    BY <1>2, <1>3, <2>1, <2>2, PhaseServed
<1>7. CASE LockJoinsReaders(c) \/ LockFirstReader(c)
  <2>1. Proceed(c, "reply", WithLock(call[c].file, 1), "OK") /\ call[c].lvl = 1
    BY <1>7, Levels DEF LockJoinsReaders, LockFirstReader, FirstReader, Reply
  <2>2. WithLock(call[c].file, 1).eFileLock = 1 /\ WithLock(call[c].file, 1).pInode
    <3>1. /\ WithLock(call[c].file, 1).eFileLock = 1
          /\ WithLock(call[c].file, 1).pInode = call[c].file.pInode
      BY <1>4, Levels
    <3> QED
      BY <1>2, <3>1
  <2> QED
    BY <1>2, <2>1, <2>2, PhaseServed
<1>8. CASE LockReserves(c)
  <2>1. Proceed(c, "reply", WithLock(call[c].file, 2), "OK") /\ call[c].lvl = 2
    BY <1>8, Levels DEF LockReserves, Reply
  <2> QED
    BY <1>2, <2>1, PhaseServed
<1>9. CASE LockStopsAtPending(c) \/ LockExcludes(c)
  <2>1. call[c].lvl = 4 /\ \E file, rc : Proceed(c, "reply", file, rc)
    BY <1>9, Levels DEF LockStopsAtPending, LockExcludes, Reply
  <2> QED
    BY <1>2, <2>1, PhaseServed
<1> QED
  BY <1>5, <1>6, <1>7, <1>8, <1>9 DEF Lock

\* unixUnlock to NO_LOCK leaves no lock, where fcntl() locks can be given back.
LEMMA UnlockKeepsPhase ==
  ASSUME IInv, PhaseInv, ~NetworkMount, NEW c \in Client, Unlock(c), UNCHANGED <<id, pagerVars>>
  PROVE  PhaseInv'
<1>1. /\ call[c].pc = "request" /\ call[c].op = "Unlock"
      /\ PosixUnlock(c, call[c].lvl, "reply")
  BY DEF Unlock, Requested
<1>2. call[c].file.eFileLock \in 0 .. 4 /\ call[c].file \in UnixFile
  BY Known
<1>3. /\ WithLock(call[c].file, 0).eFileLock = 0
  BY <1>2, Levels DEF WithLock, UnixFile
<1>4. PICK file, rc : /\ Proceed(c, "reply", file, rc)
                      /\ call[c].lvl = 0 => file.eFileLock = 0
  <2>1. CASE UnlockIsNoop(c, call[c].lvl, "reply")
    <3>1. Proceed(c, "reply", call[c].file, "OK") /\ call[c].file.eFileLock <= call[c].lvl
      BY <2>1 DEF UnlockIsNoop
    <3>2. call[c].lvl = 0 => call[c].file.eFileLock = 0
      BY <1>2, <3>1
    <3> QED
      BY <3>1, <3>2
  <2>2. CASE UnlockToShared(c, call[c].lvl, "reply")
    <3>1. call[c].lvl = 1 /\ Proceed(c, "reply", WithLock(call[c].file, 1), "OK")
      BY <2>2, Levels DEF UnlockToShared
    <3> QED
      BY <3>1
  <2>3. CASE \/ UnlockLeavesReaders(c, call[c].lvl, "reply")
             \/ UnlockLastReader(c, call[c].lvl, "reply")
    <3>1. \E rc : Proceed(c, "reply", WithLock(call[c].file, 0), rc)
      BY <2>3, Levels DEF UnlockLeavesReaders, UnlockLastReader
    <3> QED
      BY <1>3, <3>1
  <2> QED
    BY <1>1, <2>1, <2>2, <2>3 DEF PosixUnlock, UnlockFails
<1> QED
  BY <1>1, <1>4, PhaseServed

\* The other handlers.
LEMMA ServerKeepsPhase ==
  ASSUME IInv, PhaseInv, ~NetworkMount, NEW c \in Client, ServerStep(c)
  PROVE  PhaseInv'
<1>1. Serve(c) /\ UNCHANGED <<id, pagerVars>>
  BY DEF ServerStep
<1>2. CASE CheckReservedLock(c)
  <2>1. PICK out, rc : Answer(c, rc, out)
    BY <1>2 DEF CheckReservedLock
  <2>2. call[c].pc = "request" /\ call[c].op = "CheckReservedLock"
    BY <1>2 DEF CheckReservedLock, Requested
  <2>3. /\ \A d \in Client \ {c} : call'[d] = call[d]
        /\ call'[c].pc = "reply" /\ call'[c].file = call[c].file /\ call'[c].op = call[c].op
    BY <2>1, Known DEF Answer, TypeOK
  <2>4. \A d \in Client : File(d)' = File(d)
    BY <1>1, <2>2, <2>3 DEF File
  <2>5. Held(c)' = Held(c) /\ Held(c) <= 1
    BY <2>2, <2>4 DEF Held, PhaseInv, PhaseOK
  <2>6. PhaseOK(c)'
    BY <2>2, <2>3, <2>5 DEF PhaseOK
  <2> QED
    BY <1>1, <2>3, <2>4, <2>6, PhaseMoved DEF pagerVars
<1>3. CASE Open(c) \/ Fill(c) \/ CloseUnlocks(c) \/ Close(c)
  <2>1. call[c].pc # "idle" /\ call[c].op \in {"Open", "Close"}
    BY <1>3, Known DEF Open, OpenReusesFd, OpenNewFd, OpenFails, Fill, FillInUnixFile,
       FillInFails, CloseUnlocks, Close, CloseSetsPendingFd, CloseReleases, Requested, HandleOK
  <2>2. \E stage \in {"fill", "close", "release", "reply"} : \E file, rc : Proceed(c, stage, file, rc)
    <3>1. CASE Open(c)
      BY <3>1 DEF Open, OpenReusesFd, OpenNewFd, OpenFails, Reply
    <3>2. CASE Fill(c)
      BY <3>2 DEF Fill, FillInUnixFile, FillInFails, Reply
    <3>3. CASE CloseUnlocks(c)
      BY <3>3 DEF CloseUnlocks, PosixUnlock, UnlockIsNoop, UnlockFails, UnlockToShared,
                  UnlockLeavesReaders, UnlockLastReader
    <3>4. CASE Close(c)
      BY <3>4 DEF Close, CloseSetsPendingFd, CloseReleases, Reply
    <3> QED
      BY <1>3, <3>1, <3>2, <3>3, <3>4
  <2> QED
    BY <1>1, <2>1, <2>2, PhaseServed
<1> QED
  BY <1>1, <1>2, <1>3, LockKeepsPhase, UnlockKeepsPhase DEF Serve

\* A pager's call: it asks for what its phase allows.
LEMMA CallsKeepPhase ==
  ASSUME IInv, PhaseInv, NEW c \in Client, Calls(c)
  PROVE  PhaseInv'
<1>1. call \in [Client -> Call] /\ phase \in [Client -> Phase]
  BY DEF IInv, TypeOK
<1>2. PhaseOK(c)
  BY DEF PhaseInv
<1>3. CASE WriterFails(c)
  <2>1. /\ call[c].pc = "idle" /\ call' = call /\ id' = id
        /\ phase' = [phase EXCEPT ![c] = "error"]
    BY <1>3 DEF WriterFails, To
  <2>2. \A d \in Client : File(d)' = File(d)
    BY <2>1 DEF File
  <2>3. phase'[c] = "error" /\ \A d \in Client \ {c} : phase'[d] = phase[d]
    BY <1>1, <2>1
  <2>4. PhaseOK(c)'
    BY <2>1, <2>3 DEF PhaseOK
  <2> QED
    BY <2>1, <2>2, <2>3, <2>4, PhaseMoved
<1>4. ASSUME NEW op, NEW lvl, NEW flags, Send(c, op, lvl, flags, id[c]),
             UNCHANGED <<id, pagerVars>>,
             op = "Lock" /\ lvl = 1 => phase[c] = "open",
             op = "CheckReservedLock" => phase[c] = "check"
      PROVE  PhaseInv'
  <2>1. /\ \A d \in Client \ {c} : call'[d] = call[d]
        /\ call[c].pc = "idle" /\ call'[c].pc = "request" /\ call'[c].op = op
        /\ call'[c].lvl = lvl /\ call'[c].file = id[c]
    BY <1>1, <1>4 DEF Send
  <2>2. \A d \in Client : File(d)' = File(d)
    BY <1>4, <2>1 DEF File
  <2>3. Held(c)' = Held(c) /\ phase' = phase
    BY <1>4, <2>2 DEF Held, pagerVars
  <2>4. PhaseOK(c)'
    BY <1>2, <1>4, <2>1, <2>3 DEF PhaseOK
  <2> QED
    BY <2>1, <2>2, <2>3, <2>4, PhaseMoved
<1>5. CASE OpenDatabase(c)
  <2>1. PICK flags \in Flag : Send(c, "Open", NO_LOCK, flags, id[c])
    BY <1>5 DEF OpenDatabase, remoteOpen
  <2> QED
    BY <1>4, <1>5, <2>1 DEF OpenDatabase
<1>6. CASE BeginRead(c)
  BY <1>4, <1>6 DEF BeginRead, remoteLock
<1>7. CASE CheckHotJournal(c)
  BY <1>4, <1>7 DEF CheckHotJournal, remoteCheckReservedLock
<1>8. CASE BeginHotRollback(c) \/ BeginCommit(c)
  <2>1. Send(c, "Lock", 4, ReadOnly, id[c]) /\ UNCHANGED <<id, pagerVars>>
    BY <1>8, Levels DEF BeginHotRollback, BeginCommit, remoteLock
  <2> QED
    BY <1>4, <2>1
<1>9. CASE BeginWrite(c)
  <2>1. Send(c, "Lock", 2, ReadOnly, id[c]) /\ UNCHANGED <<id, pagerVars>>
    BY <1>9, Levels DEF BeginWrite, remoteLock
  <2> QED
    BY <1>4, <2>1
<1>10. CASE EndWrite(c) \/ PagerUnlock(c)
  <2>1. (\E lvl : Send(c, "Unlock", lvl, ReadOnly, id[c])) /\ UNCHANGED <<id, pagerVars>>
    BY <1>10 DEF EndWrite, PagerUnlock, remoteUnlock
  <2> QED
    BY <1>4, <2>1
<1>11. CASE CloseDatabase(c)
  BY <1>4, <1>11 DEF CloseDatabase, remoteClose
<1> QED
  BY <1>3, <1>5, <1>6, <1>7, <1>8, <1>9, <1>10, <1>11 DEF Calls

\* A return: the level the reply brought fits the phase the pager goes to.
LEMMA ReturnsKeepPhase ==
  ASSUME IInv, PhaseInv, ~NetworkMount, NEW c \in Client, Returns(c)
  PROVE  PhaseInv'
<1>1. /\ call \in [Client -> Call] /\ phase \in [Client -> Phase] /\ id \in [Client -> UnixFile]
      /\ HandleOK(c) /\ BeliefOK(c) /\ PhaseOK(c)
  BY Known DEF IInv, TypeOK, PhaseInv
<1>2. ASSUME NEW op, Returned(c, op), StoreHandle(c),
             \A d \in Client \ {c} : phase'[d] = phase[d],
             phase'[c] = "open" => Held(c) = 0, phase'[c] = "check" => Held(c) <= 1
      PROVE  PhaseInv'
  <2>1. /\ \A d \in Client \ {c} : call'[d] = call[d] /\ id'[d] = id[d]
        /\ call[c].pc = "reply" /\ call'[c] = NoCall /\ id'[c] = call[c].file
    BY <1>1, <1>2, ReturnedFacts DEF StoreHandle
  <2>2. call'[c].pc = "idle"
    BY <2>1, ZeroFacts
  <2>3. \A d \in Client : File(d)' = File(d)
    BY <2>1, <2>2 DEF File
  <2>4. Held(c)' = Held(c)
    BY <2>3 DEF Held
  <2>5. PhaseOK(c)'
    BY <1>2, <2>2, <2>4 DEF PhaseOK
  <2> QED
    BY <1>2, <2>1, <2>3, <2>5, PhaseMoved
<1>3. ASSUME NEW p, To(c, p)
      PROVE  phase'[c] = p /\ \A d \in Client \ {c} : phase'[d] = phase[d]
  BY <1>1, <1>3 DEF To
<1>4. CASE OpenReturns(c)
  <2>1. Returned(c, "Open") /\ StoreHandle(c) /\ call[c].pc = "reply" /\ call[c].op = "Open"
    BY <1>4 DEF OpenReturns, Returned
  <2>2. PICK p \in {"open", "closed"} : To(c, p)
    BY <1>4 DEF OpenReturns
  <2>3. Held(c) = 0
    BY <1>1, <2>1, Levels DEF HandleOK, Held, File
  <2> QED
    BY <1>2, <1>3, <2>1, <2>2, <2>3
<1>5. CASE SharedLockReturns(c)
  <2>1. /\ Returned(c, "Lock") /\ StoreHandle(c) /\ call[c].pc = "reply" /\ call[c].op = "Lock"
        /\ call[c].lvl = 1
        /\ \/ call[c].rc = "OK" /\ To(c, "check")
           \/ call[c].rc # "OK" /\ To(c, "failed")
           \/ call[c].rc = "BUSY" /\ phase' = phase
    BY <1>5, Levels DEF SharedLockReturns, Returned
  <2>2. Held(c) = IF call[c].rc = "OK" THEN 1 ELSE 0
    BY <1>1, <2>1 DEF PhaseOK
  <2>3. CASE call[c].rc = "OK" /\ To(c, "check")
    BY <1>2, <1>3, <2>1, <2>2, <2>3
  <2>4. CASE call[c].rc # "OK" /\ To(c, "failed")
    BY <1>2, <1>3, <2>1, <2>4
  <2>5. CASE call[c].rc = "BUSY" /\ phase' = phase
    BY <1>2, <2>1, <2>2, <2>5
  <2> QED
    BY <2>1, <2>3, <2>4, <2>5
<1>6. CASE WriteLockReturns(c)
  <2>1. /\ Returned(c, "Lock") /\ StoreHandle(c) /\ call[c].pc = "reply" /\ call[c].op = "Lock"
        /\ call[c].lvl > 1
        /\ \/ To(c, "ready") \/ To(c, "failed")
           \/ /\ call[c].rc # "OK" /\ (call[c].lvl = 2 \/ phase[c] = "ready") /\ phase' = phase
    BY <1>6, Levels DEF WriteLockReturns, Returned
  <2>2. phase[c] \in {"check", "hot", "ready"}
    BY <1>1, <2>1, Levels DEF BeliefOK
  <2>3. CASE To(c, "ready")
    BY <1>2, <1>3, <2>1, <2>3
  <2>4. CASE To(c, "failed")
    BY <1>2, <1>3, <2>1, <2>4
  <2>5. CASE call[c].rc # "OK" /\ (call[c].lvl = 2 \/ phase[c] = "ready") /\ phase' = phase
    <3>1. phase'[c] = "check" => Held(c) <= 1
      BY <1>1, <2>1, <2>5 DEF PhaseOK
    <3> QED
      BY <1>2, <2>1, <2>2, <2>5, <3>1
  <2> QED
    BY <2>1, <2>3, <2>4, <2>5
<1>7. CASE EndWriteReturns(c)
  <2>1. /\ Returned(c, "Unlock") /\ StoreHandle(c) /\ call[c].pc = "reply" /\ call[c].op = "Unlock"
        /\ call[c].lvl = 1 /\ (phase' = phase \/ To(c, "error"))
    BY <1>7, Levels DEF EndWriteReturns, Returned
  <2>2. phase[c] = "ready"
    BY <1>1, <2>1, Levels DEF BeliefOK
  <2>3. CASE phase' = phase
    BY <1>2, <2>1, <2>2, <2>3
  <2>4. CASE To(c, "error")
    BY <1>2, <1>3, <2>1, <2>4
  <2> QED
    BY <2>1, <2>3, <2>4
<1>8. CASE PagerUnlockReturns(c)
  <2>1. /\ Returned(c, "Unlock") /\ StoreHandle(c) /\ call[c].pc = "reply" /\ call[c].op = "Unlock"
        /\ call[c].lvl = 0 /\ To(c, "open")
    BY <1>8, Levels DEF PagerUnlockReturns, Returned
  <2>2. Held(c) = 0
    BY <1>1, <2>1 DEF PhaseOK
  <2> QED
    BY <1>2, <1>3, <2>1, <2>2
<1>9. CASE CheckReservedReturns(c)
  <2>1. Returned(c, "CheckReservedLock") /\ StoreHandle(c)
    BY <1>9 DEF CheckReservedReturns
  <2>2. PICK p \in {"failed", "ready", "hot"} : To(c, p)
    BY <1>9 DEF CheckReservedReturns
  <2> QED
    BY <1>2, <1>3, <2>1, <2>2
<1>10. CASE CloseReturns(c)
  <2>1. Returned(c, "Close") /\ ForgetHandle(c) /\ To(c, "closed")
    BY <1>10 DEF CloseReturns
  <2>2. /\ \A d \in Client \ {c} : call'[d] = call[d] /\ id'[d] = id[d]
        /\ call'[c] = NoCall
    BY <1>1, <2>1, ReturnedFacts DEF ForgetHandle
  <2>3. \A d \in Client \ {c} : File(d)' = File(d)
    BY <2>2 DEF File
  <2>4. phase'[c] = "closed" /\ \A d \in Client \ {c} : phase'[d] = phase[d]
    BY <1>3, <2>1
  <2>5. PhaseOK(c)'
    BY <2>2, <2>4, ZeroFacts DEF PhaseOK
  <2> QED
    BY <2>2, <2>3, <2>4, <2>5, PhaseMoved
<1> QED
  BY <1>4, <1>5, <1>6, <1>7, <1>8, <1>9, <1>10 DEF Returns

\* The phases and the levels agree in every behaviour.
LEMMA PhaseInvariance ==
  ASSUME ~NetworkMount
  PROVE  Spec => [](IInv /\ PhaseInv)
<1>1. Init => PhaseInv
  BY ZeroFacts DEF Init, CallInit, PagerInit, PhaseInv, PhaseOK
<1>2. PhaseInv /\ UNCHANGED vars => PhaseInv'
  BY DEF vars, PhaseInv, PhaseOK, Held, File
<1>3. IInv /\ PhaseInv /\ Next => PhaseInv'
  BY ServerKeepsPhase, CallsKeepPhase, ReturnsKeepPhase DEF Next, ClientStep
<1>4. IInv /\ PhaseInv /\ [Next]_vars => PhaseInv'
  BY <1>2, <1>3
<1> QED
  BY <1>1, <1>4, Invariance, PTL DEF Spec

(***************************************************************************)
(* Where fcntl() locks can always be given back, no assertion of unixLock, *)
(* posixUnlock, unixCheckReservedLock or unixClose about a handle and its  *)
(* unixInodeInfo would fail, whichever client's call is served when.       *)
(***************************************************************************)
THEOREM UnixAssertions ==
  ASSUME ~NetworkMount
  PROVE  Spec => []AssertionsHold
<1>1. IInv /\ PhaseInv => AssertionsHold
  <2> SUFFICES ASSUME IInv, PhaseInv, NEW c \in Client
               PROVE  LET p == call[c].file IN
        /\ Requested(c, "Lock") /\ p.eFileLock < call[c].lvl =>
              /\ p.eFileLock # NO_LOCK \/ call[c].lvl = SHARED_LOCK
              /\ call[c].lvl = RESERVED_LOCK => p.eFileLock = SHARED_LOCK
              /\ call[c].lvl = SHARED_LOCK /\ inode.eFileLock = NO_LOCK => inode.nShared = 0
        /\ Requested(c, "Unlock") /\ p.eFileLock > call[c].lvl =>
              /\ inode.nShared # 0
              /\ p.eFileLock > SHARED_LOCK => inode.eFileLock = p.eFileLock
        /\ Requested(c, "CheckReservedLock") => p.eFileLock <= SHARED_LOCK
        /\ Requested(c, "Close") => p.pInode
    BY DEF AssertionsHold
  <2> DEFINE p == call[c].file
  <2>1. p.eFileLock \in 0 .. 4 /\ HandleOK(c) /\ TableInv /\ call[c].lvl \in Level
    BY Known
  <2>2. call[c].pc = "request" /\ call[c].op # "Open" => p.pInode /\ Held(c) = p.eFileLock
    BY <2>1 DEF HandleOK, Held, File
  <2>3. ASSUME Requested(c, "Lock"), p.eFileLock < call[c].lvl
        PROVE  /\ p.eFileLock # NO_LOCK \/ call[c].lvl = SHARED_LOCK
               /\ call[c].lvl = RESERVED_LOCK => p.eFileLock = SHARED_LOCK
               /\ call[c].lvl = SHARED_LOCK /\ inode.eFileLock = NO_LOCK => inode.nShared = 0
    <3>1. call[c].lvl \in {1, 2, 4} /\ (call[c].lvl > 1 => p.eFileLock >= 1)
      BY <2>3, LockRequest
    <3> QED
      BY <2>1, <2>3, <3>1, Levels DEF TableInv
  <2>4. ASSUME Requested(c, "Unlock"), p.eFileLock > call[c].lvl
        PROVE  /\ inode.nShared # 0
               /\ p.eFileLock > SHARED_LOCK => inode.eFileLock = p.eFileLock
    <3>1. Held(c) = p.eFileLock /\ Held(c) >= 1
      BY <2>1, <2>2, <2>4, Levels DEF Requested
    <3>2. c \in Readers /\ Readers \subseteq Client
      BY <3>1, Levels DEF Readers
    <3>3. Cardinality(Readers) >= 1 /\ Cardinality(Readers) \in Nat
      BY <3>2, SetCounts
    <3>4. inode.nShared \in Nat
      BY Known
    <3> QED
      BY <2>1, <3>1, <3>3, <3>4, Levels DEF TableInv
  <2>5. Requested(c, "CheckReservedLock") => p.eFileLock <= SHARED_LOCK
    BY <2>2, Levels DEF PhaseInv, PhaseOK, Requested
  <2>6. Requested(c, "Close") => p.pInode
    BY <2>2 DEF Requested
  <2> QED
    BY <2>3, <2>4, <2>5, <2>6
<1> QED
  BY <1>1, PhaseInvariance, PTL
=============================================================================
