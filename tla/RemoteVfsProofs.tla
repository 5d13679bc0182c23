-------------------------- MODULE RemoteVfsProofs --------------------------
(***************************************************************************)
(* Proofs about RemoteVfs, for any finite set of clients, any descriptors  *)
(* and flags, any number of handler threads, and both values of            *)
(* NetworkMount.                                                           *)
(***************************************************************************)
EXTENDS RemoteVfs, FiniteSetTheorems, TLAPS

-----------------------------------------------------------------------------
(* Handles and messages. *)

\* The zero handle and the absent call are a handle and a call.
LEMMA ZeroFacts ==
  /\ ZeroFile \in UnixFile /\ ~ZeroFile.pInode /\ ZeroFile.eFileLock = NO_LOCK
  /\ NoCall \in Call /\ NoCall.pc = "idle"
BY FlagAssumption DEF ZeroFile, UnixFile, NoCall, Call, Stage, Op, ResultCode,
   Level, NO_LOCK, EXCLUSIVE_LOCK

\* What the updates of a handle give.
LEMMA FileFacts ==
  ASSUME NEW f \in UnixFile
  PROVE  /\ f.pInode \in BOOLEAN /\ f.eFileLock \in Level
         /\ \A lvl \in Level : /\ WithLock(f, lvl) \in UnixFile
                               /\ WithLock(f, lvl).eFileLock = lvl
                               /\ WithLock(f, lvl).pInode = f.pInode
                               /\ WithLock(f, lvl).h = f.h
         /\ /\ WithInode(f) \in UnixFile
            /\ WithInode(f).eFileLock = f.eFileLock
            /\ WithInode(f).pInode = TRUE
            /\ WithInode(f).h = f.h
         /\ /\ WithoutFd(f) \in UnixFile
            /\ WithoutFd(f).eFileLock = f.eFileLock
            /\ WithoutFd(f).pInode = f.pInode
            /\ WithoutFd(f).h = NoFd
BY DEF UnixFile, WithLock, WithInode, WithoutFd

\* unixOpen's handle before it has its inode.
LEMMA NewFileFacts ==
  ASSUME NEW fd \in Fd, NEW flags \in Flag
  PROVE  /\ NewFile(fd, flags) \in UnixFile
         /\ ~NewFile(fd, flags).pInode
         /\ NewFile(fd, flags).eFileLock = NO_LOCK
         /\ NewFile(fd, flags).h = fd
BY DEF NewFile, ZeroFile, UnixFile, Level, NO_LOCK, EXCLUSIVE_LOCK

\* A call that is sent is a call, and no other call changes.
LEMMA SendFacts ==
  ASSUME call \in [Client -> Call], NEW c \in Client, NEW op \in Op,
         NEW lvl \in Level, NEW flags \in Flag, NEW file \in UnixFile,
         Send(c, op, lvl, flags, file)
  PROVE  /\ call' \in [Client -> Call]
         /\ \A d \in Client \ {c} : call'[d] = call[d]
         /\ call[c].pc = "idle" /\ call'[c].pc = "request"
         /\ call'[c].op = op /\ call'[c].lvl = lvl /\ call'[c].file = file
BY DEF Send, Call, Stage, ResultCode

\* A call that a handler moves on is a call, and no other call changes.
LEMMA ProceedFacts ==
  ASSUME call \in [Client -> Call], NEW c \in Client, NEW stage \in Stage,
         NEW file \in UnixFile, NEW rc \in ResultCode, Proceed(c, stage, file, rc)
  PROVE  /\ call' \in [Client -> Call]
         /\ \A d \in Client \ {c} : call'[d] = call[d]
         /\ call'[c].pc = stage /\ call'[c].file = file /\ call'[c].rc = rc
         /\ call'[c].op = call[c].op /\ call'[c].lvl = call[c].lvl
BY DEF Proceed, Call

\* The same for the reply of xCheckReservedLock.
LEMMA AnswerFacts ==
  ASSUME call \in [Client -> Call], NEW c \in Client,
         NEW rc \in ResultCode, NEW out \in BOOLEAN, Answer(c, rc, out)
  PROVE  /\ call' \in [Client -> Call]
         /\ \A d \in Client \ {c} : call'[d] = call[d]
         /\ call'[c].pc = "reply" /\ call'[c].file = call[c].file /\ call'[c].rc = rc
         /\ call'[c].op = call[c].op /\ call'[c].lvl = call[c].lvl
BY DEF Answer, Call, Stage

\* A call that has returned leaves no call behind, and no other call changes.
LEMMA ReturnedFacts ==
  ASSUME call \in [Client -> Call], NEW c \in Client, NEW op, Returned(c, op)
  PROVE  /\ call' \in [Client -> Call]
         /\ \A d \in Client \ {c} : call'[d] = call[d]
         /\ call[c].pc = "reply" /\ call[c].op = op /\ call'[c] = NoCall
BY ZeroFacts DEF Returned

-----------------------------------------------------------------------------
(* The server's records. *)

\* The updates of the fcntl() locks give fcntl() locks.
LEMMA KernelTyped ==
  ASSUME NEW k \in KernelLock, NEW a \in UNLCK .. WRLCK, NEW b \in UNLCK .. WRLCK
  PROVE  /\ [k EXCEPT !.pending = a] \in KernelLock
         /\ [k EXCEPT !.reserved = a] \in KernelLock
         /\ [k EXCEPT !.shared = a] \in KernelLock
         /\ [k EXCEPT !.pending = a, !.shared = b] \in KernelLock
         /\ [k EXCEPT !.pending = a, !.reserved = b] \in KernelLock
<1>1. /\ \A j \in KernelLock, v \in {a, b} : [j EXCEPT !.pending = v] \in KernelLock
      /\ \A j \in KernelLock, v \in {a, b} : [j EXCEPT !.reserved = v] \in KernelLock
      /\ \A j \in KernelLock, v \in {a, b} : [j EXCEPT !.shared = v] \in KernelLock
  BY DEF KernelLock
<1>2. /\ [k EXCEPT !.pending = a, !.shared = b] = [[k EXCEPT !.pending = a] EXCEPT !.shared = b]
      /\ [k EXCEPT !.pending = a, !.reserved = b] = [[k EXCEPT !.pending = a] EXCEPT !.reserved = b]
  BY DEF KernelLock
<1> QED
  BY <1>1, <1>2

\* The fcntl() lock types are the numbers they are, and no lock is a lock record.
LEMMA KernelTypes ==
  /\ UNLCK \in UNLCK .. WRLCK /\ RDLCK \in UNLCK .. WRLCK /\ WRLCK \in UNLCK .. WRLCK
  /\ NoKernelLock \in KernelLock
BY DEF UNLCK, RDLCK, WRLCK, NoKernelLock, KernelLock

\* The updates of the unixInodeInfo give a unixInodeInfo with the new counts.
LEMMA InodeTyped ==
  ASSUME NEW i \in InodeInfo, NEW n \in Nat, NEW m \in Nat, NEW lvl \in Level
  PROVE  /\ [i EXCEPT !.nShared = n, !.nLock = m] \in InodeInfo
         /\ [i EXCEPT !.nShared = n, !.nLock = m, !.eFileLock = lvl] \in InodeInfo
         /\ [i EXCEPT !.nShared = n, !.nLock = m, !.eFileLock = lvl, !.pUnused = {}] \in InodeInfo
<1>1. /\ \A j \in InodeInfo : [j EXCEPT !.nShared = n] \in InodeInfo
      /\ \A j \in InodeInfo : [j EXCEPT !.nLock = m] \in InodeInfo
      /\ \A j \in InodeInfo : [j EXCEPT !.eFileLock = lvl] \in InodeInfo
      /\ \A j \in InodeInfo : [j EXCEPT !.pUnused = {}] \in InodeInfo
  BY DEF InodeInfo
<1>2. /\ [i EXCEPT !.nShared = n, !.nLock = m] = [[i EXCEPT !.nShared = n] EXCEPT !.nLock = m]
      /\ [i EXCEPT !.nShared = n, !.nLock = m, !.eFileLock = lvl]
           = [[[i EXCEPT !.nShared = n] EXCEPT !.nLock = m] EXCEPT !.eFileLock = lvl]
      /\ [i EXCEPT !.nShared = n, !.nLock = m, !.eFileLock = lvl, !.pUnused = {}]
           = [[[[i EXCEPT !.nShared = n] EXCEPT !.nLock = m] EXCEPT !.eFileLock = lvl]
                EXCEPT !.pUnused = {}]
  BY DEF InodeInfo
<1> QED
  BY <1>1, <1>2

-----------------------------------------------------------------------------
(* Levels and the handles of the clients that take no step. *)

\* The levels are the numbers they are.
LEMMA Levels ==
  /\ Level = 0 .. 4 /\ NO_LOCK = 0 /\ SHARED_LOCK = 1 /\ RESERVED_LOCK = 2
  /\ PENDING_LOCK = 3 /\ EXCLUSIVE_LOCK = 4 /\ UNKNOWN_LOCK = 5
BY DEF Level, NO_LOCK, SHARED_LOCK, RESERVED_LOCK, PENDING_LOCK, EXCLUSIVE_LOCK, UNKNOWN_LOCK

\* A client has a handle and holds a level.
LEMMA HeldType ==
  ASSUME TypeOK, NEW c \in Client
  PROVE  /\ File(c) \in UnixFile
         /\ call[c].file \in UnixFile /\ id[c] \in UnixFile
         /\ File(c).pInode \in BOOLEAN
         /\ Held(c) \in Level
<1>1. call[c] \in Call /\ id[c] \in UnixFile
  BY DEF TypeOK
<1>2. call[c].file \in UnixFile
  BY <1>1 DEF Call
<1>3. File(c) \in UnixFile
  BY <1>1, <1>2 DEF File
<1>4. File(c).pInode \in BOOLEAN /\ File(c).eFileLock \in Level
  BY <1>3 DEF UnixFile
<1> QED
  BY <1>1, <1>2, <1>3, <1>4, Levels DEF Held

\* Client d takes no step.
Still(d) == /\ call'[d] = call[d] /\ id'[d] = id[d]
            /\ eLock'[d] = eLock[d] /\ phase'[d] = phase[d]

\* What is said of a client is untouched by the steps of the others.
LEMMA StillFacts ==
  ASSUME NEW d \in Client, Still(d)
  PROVE  /\ File(d)' = File(d) /\ Held(d)' = Held(d)
         /\ HandleOK(d) => HandleOK(d)'
         /\ BeliefOK(d) => BeliefOK(d)'
<1>1. File(d)' = File(d)
  BY DEF Still, File
<1>2. Held(d)' = Held(d)
  BY <1>1 DEF Held
<1>3. Releasing(d)' <=> Releasing(d)
  BY DEF Still, Releasing
<1>4. HandleOK(d) => HandleOK(d)'
  BY <1>1 DEF Still, HandleOK, HasFd
<1>5. BeliefOK(d) => BeliefOK(d)'
  BY <1>2, <1>3 DEF Still, BeliefOK
<1> QED
  BY <1>1, <1>2, <1>4, <1>5

\* The handle of a client with a call under way is the one in the call.
LEMMA InCall ==
  ASSUME TypeOK, NEW c \in Client, call[c].pc # "idle"
  PROVE  File(c) = call[c].file
BY DEF File

\* If all the clients but c take no step, only what holds of c is in question.
LEMMA Frame ==
  ASSUME HandleInv, BeliefInv, NEW c \in Client, \A d \in Client \ {c} : Still(d),
         HandleOK(c)', BeliefOK(c)'
  PROVE  HandleInv' /\ BeliefInv'
<1>1. ASSUME NEW d \in Client PROVE HandleOK(d)' /\ BeliefOK(d)'
  <2>1. CASE d = c
    BY <2>1
  <2>2. CASE d # c
    BY <2>2, StillFacts DEF HandleInv, BeliefInv
  <2> QED
    BY <2>1, <2>2
<1> QED
  BY <1>1 DEF HandleInv, BeliefInv

-----------------------------------------------------------------------------
(* Counting the handles. *)

\* How the size of a set of clients changes when one of them joins or leaves.
LEMMA SetCounts ==
  ASSUME NEW S, NEW T, S \subseteq Client, T \subseteq Client, NEW c \in Client,
         \A d \in Client \ {c} : d \in S <=> d \in T
  PROVE  /\ Cardinality(S) \in Nat /\ Cardinality(T) \in Nat
         /\ (c \in S <=> c \in T) => Cardinality(T) = Cardinality(S)
         /\ c \notin S /\ c \in T => Cardinality(T) = Cardinality(S) + 1
         /\ c \in S /\ c \notin T => Cardinality(T) = Cardinality(S) - 1
         /\ c \in S => Cardinality(S) >= 1
         /\ c \in S /\ Cardinality(S) <= 1 => S = {c}
<1>1. IsFiniteSet(S) /\ IsFiniteSet(T)
  BY ClientAssumption, FS_Subset
<1>2. Cardinality(S) \in Nat /\ Cardinality(T) \in Nat
  BY <1>1, FS_CardinalityType
<1>3. (c \in S <=> c \in T) => T = S
  OBVIOUS
<1>4. ASSUME c \notin S, c \in T PROVE Cardinality(T) = Cardinality(S) + 1
  <2>1. T = S \cup {c}
    BY <1>4
  <2> QED
    BY <1>1, <1>4, <2>1, FS_AddElement
<1>5. ASSUME c \in S PROVE /\ IsFiniteSet(S \ {c})
                           /\ Cardinality(S \ {c}) = Cardinality(S) - 1
                           /\ Cardinality(S \ {c}) \in Nat
  BY <1>1, <1>5, FS_RemoveElement, FS_CardinalityType
<1>6. ASSUME c \in S, c \notin T PROVE Cardinality(T) = Cardinality(S) - 1
  <2>1. T = S \ {c}
    BY <1>6
  <2> QED
    BY <1>5, <1>6, <2>1
<1>7. ASSUME c \in S, Cardinality(S) <= 1 PROVE S = {c}
  <2>1. Cardinality(S \ {c}) = 0
    BY <1>2, <1>5, <1>7
  <2>2. S \ {c} = {}
    BY <1>5, <1>7, <2>1, FS_EmptySet
  <2> QED
    BY <1>7, <2>2
<1>8. c \in S => Cardinality(S) >= 1
  BY <1>2, <1>5
<1> QED
  BY <1>2, <1>3, <1>4, <1>6, <1>7, <1>8

\* The same for the readers and for the attached handles, over a step of c.
LEMMA Counts ==
  ASSUME TypeOK, NEW c \in Client, Held(c)' \in Level, \A d \in Client \ {c} : Still(d)
  PROVE  /\ Cardinality(Readers) \in Nat /\ Cardinality(Readers)' \in Nat
         /\ (Held(c) >= 1 <=> Held(c)' >= 1) => Cardinality(Readers)' = Cardinality(Readers)
         /\ Held(c) = 0 /\ Held(c)' >= 1 => Cardinality(Readers)' = Cardinality(Readers) + 1
         /\ Held(c) >= 1 /\ Held(c)' = 0 => Cardinality(Readers)' = Cardinality(Readers) - 1
         /\ Held(c) >= 1 => Cardinality(Readers) >= 1
         /\ Held(c) >= 1 /\ Cardinality(Readers) <= 1 =>
               \A d \in Client \ {c} : Held(d) = 0
         /\ Cardinality(Attached) \in Nat
         /\ (File(c)'.pInode <=> File(c).pInode) => Cardinality(Attached)' = Cardinality(Attached)
         /\ ~File(c).pInode /\ File(c)'.pInode => Cardinality(Attached)' = Cardinality(Attached) + 1
         /\ File(c).pInode /\ ~File(c)'.pInode => Cardinality(Attached)' = Cardinality(Attached) - 1
         /\ File(c).pInode /\ Cardinality(Attached) = 1 =>
               \A d \in Client \ {c} : ~File(d).pInode
<1>1. /\ Readers \subseteq Client /\ Readers' \subseteq Client
      /\ Attached \subseteq Client /\ Attached' \subseteq Client
  BY DEF Readers, Attached
<1>2. \A d \in Client \ {c} : d \in Readers <=> d \in Readers'
  BY StillFacts DEF Readers
<1>3. \A d \in Client \ {c} : d \in Attached <=> d \in Attached'
  BY StillFacts DEF Attached
<1>4. /\ c \in Readers <=> Held(c) >= 1
      /\ c \in Readers' <=> Held(c)' >= 1
      /\ c \in Attached <=> File(c).pInode
      /\ c \in Attached' <=> File(c)'.pInode
  BY Levels DEF Readers, Attached
<1>5. /\ Held(c) \in 0 .. 4 /\ Held(c)' \in 0 .. 4
      /\ \A d \in Client : Held(d) \in 0 .. 4
  BY HeldType, Levels
<1>6. \A d \in Client : d \in Readers <=> Held(d) # 0
  BY <1>5, Levels DEF Readers
<1>7. /\ Cardinality(Readers) \in Nat /\ Cardinality(Readers') \in Nat
      /\ (c \in Readers <=> c \in Readers') => Cardinality(Readers') = Cardinality(Readers)
      /\ c \notin Readers /\ c \in Readers' => Cardinality(Readers') = Cardinality(Readers) + 1
      /\ c \in Readers /\ c \notin Readers' => Cardinality(Readers') = Cardinality(Readers) - 1
      /\ c \in Readers => Cardinality(Readers) >= 1
      /\ c \in Readers /\ Cardinality(Readers) <= 1 => Readers = {c}
  BY <1>1, <1>2, SetCounts
<1>8. /\ Cardinality(Attached) \in Nat
      /\ (c \in Attached <=> c \in Attached') => Cardinality(Attached') = Cardinality(Attached)
      /\ c \notin Attached /\ c \in Attached' => Cardinality(Attached') = Cardinality(Attached) + 1
      /\ c \in Attached /\ c \notin Attached' => Cardinality(Attached') = Cardinality(Attached) - 1
      /\ c \in Attached /\ Cardinality(Attached) <= 1 => Attached = {c}
  BY <1>1, <1>3, SetCounts
<1>9. Cardinality(Readers)' = Cardinality(Readers') /\ Cardinality(Attached)' = Cardinality(Attached')
  OBVIOUS
<1>10. Readers = {c} => \A d \in Client \ {c} : Held(d) = 0
  BY <1>6
<1>11. Attached = {c} => \A d \in Client \ {c} : ~File(d).pInode
  BY DEF Attached
<1>12. /\ Held(c) = 0 => c \notin Readers
       /\ Held(c)' = 0 => c \notin Readers'
  BY <1>4
<1> QED
  BY <1>4, <1>7, <1>8, <1>9, <1>10, <1>11, <1>12

-----------------------------------------------------------------------------
(* The unixInodeInfo, over each kind of change. *)

\* Every handle has a level.
LEMMA HeldLevels == TypeOK => \A d \in Client : Held(d) \in 0 .. 4
BY HeldType, Levels

\* Before and after a step every handle has a level.
LEMMA HeldTypes ==
  ASSUME TypeOK, TypeOK'
  PROVE  \A d \in Client : Held(d) \in 0 .. 4 /\ Held(d)' \in 0 .. 4
<1>1. (TypeOK => \A d \in Client : Held(d) \in 0 .. 4)'
  BY HeldLevels, PTL
<1> QED
  BY <1>1, HeldLevels

\* Nothing that is counted changes.
LEMMA TableKept ==
  ASSUME TypeOK, TypeOK', TableInv, ExactInv, NEW c \in Client,
         \A d \in Client \ {c} : Still(d),
         Held(c)' = Held(c), (File(c)'.pInode <=> File(c).pInode),
         inode'.nRef = inode.nRef, inode'.nShared = inode.nShared,
         inode'.nLock = inode.nLock, inode'.eFileLock = inode.eFileLock
  PROVE  TableInv' /\ ExactInv'
<1>1. /\ \A d \in Client : Held(d) \in 0 .. 4 /\ Held(d)' \in 0 .. 4
      /\ \A d \in Client \ {c} : Held(d)' = Held(d)
  BY HeldTypes, StillFacts
<1>2. /\ inode.nRef \in Nat /\ inode.nShared \in Nat /\ inode.nLock \in Nat
      /\ inode.eFileLock \in 0 .. 4 /\ inode'.eFileLock \in 0 .. 4
  BY Levels DEF TypeOK, InodeInfo
<1>3. Cardinality(Readers)' = Cardinality(Readers) /\ Cardinality(Attached)' = Cardinality(Attached)
  BY <1>1, Counts, Levels
<1>4. TableInv'
  BY <1>1, <1>2, <1>3, Levels DEF TableInv
<1>5. ExactInv'
  BY <1>1, <1>2, <1>3, Levels DEF TableInv, ExactInv
<1> QED
  BY <1>4, <1>5

\* A reader joins: unixLock with the read lock of the process there already.
LEMMA TableJoined ==
  ASSUME TypeOK, TypeOK', TableInv, ExactInv, NEW c \in Client,
         \A d \in Client \ {c} : Still(d),
         Held(c) = 0, Held(c)' = 1, (File(c)'.pInode <=> File(c).pInode),
         inode.eFileLock \in {1, 2},
         inode'.nRef = inode.nRef, inode'.nShared = inode.nShared + 1,
         inode'.nLock = inode.nLock + 1, inode'.eFileLock = inode.eFileLock
  PROVE  TableInv' /\ ExactInv'
<1>1. /\ \A d \in Client : Held(d) \in 0 .. 4 /\ Held(d)' \in 0 .. 4
      /\ \A d \in Client \ {c} : Held(d)' = Held(d)
  BY HeldTypes, StillFacts
<1>2. /\ inode.nRef \in Nat /\ inode.nShared \in Nat /\ inode.nLock \in Nat
      /\ inode.eFileLock \in 0 .. 4 /\ inode'.eFileLock \in 0 .. 4
  BY Levels DEF TypeOK, InodeInfo
<1>3. /\ Cardinality(Readers)' = Cardinality(Readers) + 1
      /\ Cardinality(Readers) \in Nat
      /\ Cardinality(Attached)' = Cardinality(Attached)
  BY <1>1, Counts, Levels
<1>4. TableInv'
  BY <1>1, <1>2, <1>3, Levels DEF TableInv
<1>5. ExactInv'
  BY <1>1, <1>2, <1>3, Levels DEF TableInv, ExactInv
<1> QED
  BY <1>4, <1>5

\* The first reader: unixLock on an unlocked file.
LEMMA TableFirst ==
  ASSUME TypeOK, TypeOK', TableInv, ExactInv, NEW c \in Client,
         \A d \in Client \ {c} : Still(d),
         Held(c) = 0, Held(c)' = 1, (File(c)'.pInode <=> File(c).pInode),
         inode.eFileLock = 0,
         inode'.nRef = inode.nRef, inode'.nShared = 1,
         inode'.nLock = inode.nLock + 1, inode'.eFileLock = 1
  PROVE  TableInv' /\ ExactInv'
<1>1. /\ \A d \in Client : Held(d) \in 0 .. 4 /\ Held(d)' \in 0 .. 4
      /\ \A d \in Client \ {c} : Held(d)' = Held(d)
  BY HeldTypes, StillFacts
<1>2. /\ inode.nRef \in Nat /\ inode.nShared \in Nat /\ inode.nLock \in Nat
      /\ inode.eFileLock \in 0 .. 4 /\ inode'.eFileLock \in 0 .. 4
  BY Levels DEF TypeOK, InodeInfo
<1>3. /\ Cardinality(Readers)' = Cardinality(Readers) + 1
      /\ Cardinality(Readers) \in Nat
      /\ Cardinality(Attached)' = Cardinality(Attached)
  BY <1>1, Counts, Levels
<1>4. TableInv'
  BY <1>1, <1>2, <1>3, Levels DEF TableInv
<1>5. ExactInv'
  BY <1>1, <1>2, <1>3, Levels DEF TableInv, ExactInv
<1> QED
  BY <1>4, <1>5

\* A reader raises its lock: unixLock of a handle that has what the process has.
LEMMA TableRaised ==
  ASSUME TypeOK, TypeOK', TableInv, ExactInv, NEW c \in Client,
         \A d \in Client \ {c} : Still(d),
         Held(c) >= 1, Held(c) = inode.eFileLock, Held(c)' >= Held(c), Held(c)' >= 2,
         Held(c)' = 4 => inode.nShared <= 1,
         (File(c)'.pInode <=> File(c).pInode),
         inode'.nRef = inode.nRef, inode'.nShared = inode.nShared,
         inode'.nLock = inode.nLock, inode'.eFileLock = Held(c)'
  PROVE  TableInv' /\ ExactInv'
<1>1. /\ \A d \in Client : Held(d) \in 0 .. 4 /\ Held(d)' \in 0 .. 4
      /\ \A d \in Client \ {c} : Held(d)' = Held(d)
  BY HeldTypes, StillFacts
<1>2. /\ inode.nRef \in Nat /\ inode.nShared \in Nat /\ inode.nLock \in Nat
      /\ inode.eFileLock \in 0 .. 4 /\ inode'.eFileLock \in 0 .. 4
  BY Levels DEF TypeOK, InodeInfo
<1>3. /\ Cardinality(Readers)' = Cardinality(Readers)
      /\ Cardinality(Readers) \in Nat
      /\ Held(c)' = 4 => Cardinality(Readers) >= 1
      /\ Held(c)' = 4 => \A d \in Client \ {c} : Held(d) = 0
      /\ Cardinality(Attached)' = Cardinality(Attached)
  <2>1. /\ Held(c)' = 4 => Cardinality(Readers) <= 1
        /\ Cardinality(Readers) <= inode.nShared
    BY <1>2, Counts, Levels, <1>1 DEF TableInv
  <2> QED
    BY <1>1, <2>1, Counts, Levels
<1>a. inode.eFileLock = 1 \/ \A d \in Client \ {c} : Held(d) <= 1
  BY <1>1, <1>2, Levels DEF TableInv
<1>b. \A d \in Client \ {c} : Held(d) <= 1
  BY <1>1, <1>2, <1>a, Levels DEF TableInv
<1>4. TableInv'
  BY <1>1, <1>2, <1>3, <1>b, Levels DEF TableInv
<1>5. ExactInv'
  BY <1>1, <1>2, <1>3, Levels DEF TableInv, ExactInv
<1> QED
  BY <1>4, <1>5

\* A writer goes back to SHARED: posixUnlock to SHARED_LOCK.
LEMMA TableLowered ==
  ASSUME TypeOK, TypeOK', TableInv, ExactInv, NEW c \in Client,
         \A d \in Client \ {c} : Still(d),
         Held(c) > 1, Held(c)' = 1, (File(c)'.pInode <=> File(c).pInode),
         inode'.nRef = inode.nRef, inode'.nShared = inode.nShared,
         inode'.nLock = inode.nLock, inode'.eFileLock = 1
  PROVE  TableInv' /\ ExactInv'
<1>1. /\ \A d \in Client : Held(d) \in 0 .. 4 /\ Held(d)' \in 0 .. 4
      /\ \A d \in Client \ {c} : Held(d)' = Held(d)
  BY HeldTypes, StillFacts
<1>2. /\ inode.nRef \in Nat /\ inode.nShared \in Nat /\ inode.nLock \in Nat
      /\ inode.eFileLock \in 0 .. 4 /\ inode'.eFileLock \in 0 .. 4
  BY Levels DEF TypeOK, InodeInfo
<1>3. /\ Cardinality(Readers)' = Cardinality(Readers)
      /\ Cardinality(Attached)' = Cardinality(Attached)
  BY <1>1, Counts, Levels
<1>4. TableInv'
  BY <1>1, <1>2, <1>3, Levels DEF TableInv
<1>5. ExactInv'
  BY <1>1, <1>2, <1>3, Levels DEF TableInv, ExactInv
<1> QED
  BY <1>4, <1>5

\* One of several readers leaves: posixUnlock to NO_LOCK with nShared > 1.
LEMMA TableLeft ==
  ASSUME TypeOK, TypeOK', TableInv, ExactInv, NEW c \in Client,
         \A d \in Client \ {c} : Still(d),
         Held(c) >= 1, Held(c)' = 0, (File(c)'.pInode <=> File(c).pInode),
         inode.nShared > 1,
         inode'.nRef = inode.nRef, inode'.nShared = inode.nShared - 1,
         inode'.nLock = inode.nLock - 1,
         inode'.eFileLock = IF Held(c) > 1 THEN 1 ELSE inode.eFileLock
  PROVE  TableInv' /\ ExactInv'
<1>1. /\ \A d \in Client : Held(d) \in 0 .. 4 /\ Held(d)' \in 0 .. 4
      /\ \A d \in Client \ {c} : Held(d)' = Held(d)
  BY HeldTypes, StillFacts
<1>2. /\ inode.nRef \in Nat /\ inode.nShared \in Nat /\ inode.nLock \in Nat
      /\ inode.eFileLock \in 0 .. 4 /\ inode'.eFileLock \in 0 .. 4
  BY Levels DEF TypeOK, InodeInfo
<1>3. /\ Cardinality(Readers)' = Cardinality(Readers) - 1
      /\ Cardinality(Readers) \in Nat
      /\ Cardinality(Attached)' = Cardinality(Attached)
  BY <1>1, Counts, Levels
<1>4. TableInv'
  BY <1>1, <1>2, <1>3, Levels DEF TableInv
<1>5. ExactInv'
  BY <1>1, <1>2, <1>3, Levels DEF TableInv, ExactInv
<1> QED
  BY <1>4, <1>5

\* The last reader leaves: posixUnlock to NO_LOCK with nShared = 1.
LEMMA TableEmptied ==
  ASSUME TypeOK, TypeOK', TableInv, ExactInv, NEW c \in Client,
         \A d \in Client \ {c} : Still(d),
         Held(c) >= 1, Held(c)' = 0, (File(c)'.pInode <=> File(c).pInode),
         inode.nShared <= 1,
         inode'.nRef = inode.nRef, inode'.nShared = inode.nShared - 1,
         inode'.nLock = inode.nLock - 1, inode'.eFileLock = 0
  PROVE  TableInv' /\ ExactInv'
<1>1. /\ \A d \in Client : Held(d) \in 0 .. 4 /\ Held(d)' \in 0 .. 4
      /\ \A d \in Client \ {c} : Held(d)' = Held(d)
  BY HeldTypes, StillFacts
<1>2. /\ inode.nRef \in Nat /\ inode.nShared \in Nat /\ inode.nLock \in Nat
      /\ inode.eFileLock \in 0 .. 4 /\ inode'.eFileLock \in 0 .. 4
  BY Levels DEF TypeOK, InodeInfo
<1>3. /\ Cardinality(Readers)' = Cardinality(Readers) - 1
      /\ Cardinality(Readers) \in Nat
      /\ Cardinality(Readers) >= 1
      /\ Cardinality(Readers) <= inode.nShared
      /\ Cardinality(Attached)' = Cardinality(Attached)
  BY <1>1, Counts, Levels DEF TableInv
<1>a. \A d \in Client \ {c} : Held(d) = 0
  BY <1>1, <1>2, <1>3, Counts, Levels
<1>4. TableInv'
  BY <1>1, <1>2, <1>3, <1>a, Levels DEF TableInv
<1>5. ExactInv'
  BY <1>1, <1>2, <1>3, Levels DEF TableInv, ExactInv
<1> QED
  BY <1>4, <1>5

\* fillInUnixFile attaches a handle.
LEMMA TableAttached ==
  ASSUME TypeOK, TypeOK', TableInv, ExactInv, NEW c \in Client,
         \A d \in Client \ {c} : Still(d),
         Held(c) = 0, Held(c)' = 0, ~File(c).pInode, File(c)'.pInode,
         inode'.nRef = inode.nRef + 1, inode'.nShared = inode.nShared,
         inode'.nLock = inode.nLock, inode'.eFileLock = inode.eFileLock
  PROVE  TableInv' /\ ExactInv'
<1>1. /\ \A d \in Client : Held(d) \in 0 .. 4 /\ Held(d)' \in 0 .. 4
      /\ \A d \in Client \ {c} : Held(d)' = Held(d)
  BY HeldTypes, StillFacts
<1>2. /\ inode.nRef \in Nat /\ inode.nShared \in Nat /\ inode.nLock \in Nat
      /\ inode.eFileLock \in 0 .. 4 /\ inode'.eFileLock \in 0 .. 4
  BY Levels DEF TypeOK, InodeInfo
<1>3. /\ Cardinality(Readers)' = Cardinality(Readers)
      /\ Cardinality(Attached)' = Cardinality(Attached) + 1
  BY <1>1, Counts, Levels
<1>4. TableInv'
  BY <1>1, <1>2, <1>3, Levels DEF TableInv
<1>5. ExactInv'
  BY <1>1, <1>2, <1>3, Levels DEF TableInv, ExactInv
<1> QED
  BY <1>4, <1>5

\* releaseInodeInfo detaches a handle and frees the table with the last one.
LEMMA TableDetached ==
  ASSUME TypeOK, TypeOK', TableInv, ExactInv, NEW c \in Client,
         \A d \in Client \ {c} : Still(d),
         File(c).pInode, ~File(c)'.pInode, ~NetworkMount => Held(c) = 0,
         inode' = IF inode.nRef = 1 THEN NoInode ELSE [inode EXCEPT !.nRef = @ - 1]
  PROVE  TableInv' /\ ExactInv'
<1>1. /\ \A d \in Client : Held(d) \in 0 .. 4 /\ Held(d)' \in 0 .. 4
      /\ \A d \in Client \ {c} : Held(d)' = Held(d)
  BY HeldTypes, StillFacts
<1>2. /\ inode.nRef \in Nat /\ inode.nShared \in Nat /\ inode.nLock \in Nat
      /\ inode.eFileLock \in 0 .. 4 /\ inode'.eFileLock \in 0 .. 4
  BY Levels DEF TypeOK, InodeInfo
<1>a. Held(c)' = 0
  BY Levels DEF Held
<1>3. /\ Cardinality(Readers)' \in Nat /\ Cardinality(Readers) \in Nat
      /\ Cardinality(Readers)' <= Cardinality(Readers)
      /\ ~NetworkMount => Cardinality(Readers)' = Cardinality(Readers)
      /\ Cardinality(Attached)' = Cardinality(Attached) - 1
      /\ Cardinality(Attached) = inode.nRef
  BY <1>1, <1>a, Counts, Levels DEF TableInv
<1>4. CASE inode.nRef = 1
  <2>1. \A d \in Client : Held(d)' = 0
    BY <1>1, <1>3, <1>4, <1>a, Counts, Levels DEF Held
  <2>2. Readers' = {}
    BY <2>1, Levels DEF Readers
  <2>3. Cardinality(Readers)' = 0
    BY <2>2, FS_EmptySet
  <2>4. /\ inode'.nRef = 0 /\ inode'.nShared = 0 /\ inode'.nLock = 0
        /\ inode'.eFileLock = 0
    BY <1>4, Levels DEF NoInode
  <2>5. TableInv'
    BY <1>3, <1>4, <2>1, <2>3, <2>4, Levels DEF TableInv
  <2>6. ExactInv'
    BY <2>3, <2>4, Levels DEF ExactInv
  <2> QED
    BY <2>5, <2>6
<1>5. CASE inode.nRef # 1
  <2>1. /\ inode'.nRef = inode.nRef - 1 /\ inode'.nShared = inode.nShared
        /\ inode'.nLock = inode.nLock /\ inode'.eFileLock = inode.eFileLock
    BY <1>5 DEF TypeOK, InodeInfo
  <2>2. TableInv'
    BY <1>1, <1>2, <1>3, <1>a, <2>1, Levels DEF TableInv
  <2>3. ExactInv'
    BY <1>1, <1>2, <1>3, <1>a, <2>1, Levels DEF ExactInv
  <2> QED
    BY <2>2, <2>3
<1> QED
  BY <1>4, <1>5

-----------------------------------------------------------------------------
(* The steps of the server. *)

\* What a handler step does to the types, to its own handle and to the others.
Handled(c, stage, file, rc) ==
    /\ TypeOK'
    /\ \A d \in Client \ {c} : Still(d)
    /\ call'[c].pc = stage /\ call'[c].file = file /\ call'[c].rc = rc
    /\ call'[c].op = call[c].op /\ call'[c].lvl = call[c].lvl
    /\ id'[c] = id[c] /\ eLock'[c] = eLock[c] /\ phase'[c] = phase[c]
    /\ File(c) = call[c].file /\ File(c)' = file
    /\ Held(c) = IF call[c].file.pInode THEN call[c].file.eFileLock ELSE 0
    /\ Held(c)' = IF file.pInode THEN file.eFileLock ELSE 0

\* It does that.
LEMMA Served ==
  ASSUME IInv, NEW c \in Client, call[c].pc # "idle",
         NEW stage \in Stage \ {"idle"}, NEW file \in UnixFile, NEW rc \in ResultCode,
         Proceed(c, stage, file, rc), UNCHANGED <<id, pagerVars>>,
         inode' \in InodeInfo, fds' \in SUBSET Fd, klock' \in KernelLock
  PROVE  Handled(c, stage, file, rc)
<1>1. TypeOK
  BY DEF IInv
<1>2. /\ call' \in [Client -> Call]
      /\ \A d \in Client \ {c} : call'[d] = call[d]
      /\ call'[c].pc = stage /\ call'[c].file = file /\ call'[c].rc = rc
      /\ call'[c].op = call[c].op /\ call'[c].lvl = call[c].lvl
  BY <1>1, ProceedFacts DEF TypeOK
<1>3. TypeOK'
  BY <1>1, <1>2 DEF TypeOK, pagerVars
<1>4. \A d \in Client \ {c} : Still(d)
  BY <1>2 DEF Still, pagerVars
<1>5. File(c) = call[c].file /\ File(c)' = file
  BY <1>2 DEF File
<1> QED
  BY <1>2, <1>3, <1>4, <1>5, Levels DEF Held, pagerVars, Handled

\* VfsLock lets client c go from the level it holds to another.
MayGoTo(c, lvl) ==
    \/ lvl = Held(c)
    \/ lvl = 1 /\ Held(c) = 0 /\ \A d \in Client \ {c} : Held(d) < 3
    \/ lvl = 2 /\ Held(c) = 1 /\ \A d \in Client \ {c} : Held(d) <= 1
    \/ lvl = 3 /\ Held(c) \in {1, 2} /\ \A d \in Client \ {c} : Held(d) <= 1
    \/ lvl = 4 /\ Held(c) \in 1 .. 3 /\ \A d \in Client \ {c} : Held(d) = 0
    \/ lvl \in {0, 1} /\ lvl < Held(c)

\* A step of c is one that keeps the invariant and that VfsLock allows.
StepOK(c) ==
    /\ IInv'
    /\ MayGoTo(c, Held(c)')
    /\ \A d \in Client \ {c} : Held(d)' = Held(d)

\* The parts of the invariant give the invariant.
LEMMA Assembled ==
  ASSUME IInv, NEW c \in Client, \A d \in Client \ {c} : Still(d),
         TypeOK', HandleOK(c)', BeliefOK(c)', TableInv', ExactInv', MayGoTo(c, Held(c)')
  PROVE  StepOK(c)
BY Frame, StillFacts DEF IInv, StepOK

\* A client that holds what it held.
LEMMA Stays ==
  ASSUME NEW c \in Client, Held(c)' = Held(c)
  PROVE  MayGoTo(c, Held(c)')
BY DEF MayGoTo

\* A handler step that changes neither the counts nor its handle's level.
LEMMA TableUnmoved ==
  ASSUME IInv, NEW c \in Client, NEW stage, NEW file, NEW rc,
         Handled(c, stage, file, rc),
         Held(c)' = Held(c), File(c)'.pInode <=> File(c).pInode,
         inode'.nRef = inode.nRef, inode'.nShared = inode.nShared,
         inode'.nLock = inode.nLock, inode'.eFileLock = inode.eFileLock
  PROVE  TableInv' /\ ExactInv'
BY TableKept DEF IInv, Handled

\* unixOpen up to the descriptor.
LEMMA OpenStep ==
  ASSUME IInv, NEW c \in Client, Open(c), UNCHANGED <<id, pagerVars>>
  PROVE  StepOK(c)
<1>1. /\ TypeOK /\ HandleOK(c) /\ BeliefOK(c) /\ TableInv /\ ExactInv
      /\ call[c] \in Call /\ call[c].flags \in Flag
      /\ inode \in InodeInfo /\ klock \in KernelLock /\ fds \in SUBSET Fd
  BY DEF IInv, HandleInv, BeliefInv, TypeOK, Call
<1>2. call[c].pc = "request" /\ call[c].op = "Open"
  BY DEF Open, OpenReusesFd, OpenNewFd, OpenFails, Requested
<1>3. PICK stage \in {"fill", "reply"}, file \in UnixFile, rc \in {"OK", "CANTOPEN"} :
         /\ Proceed(c, stage, file, rc)
         /\ stage = "reply" => rc = "CANTOPEN"
         /\ ~file.pInode /\ file.eFileLock = NO_LOCK
         /\ stage = "fill" => file.h # NoFd
         /\ inode' \in InodeInfo /\ fds' \in SUBSET Fd /\ klock' = klock
         /\ inode'.nRef = inode.nRef /\ inode'.nShared = inode.nShared
         /\ inode'.nLock = inode.nLock /\ inode'.eFileLock = inode.eFileLock
  <2>1. CASE OpenReusesFd(c)
    <3>1. PICK u \in Reusable(call[c].flags) :
             /\ inode' = [inode EXCEPT !.pUnused = @ \ {u}]
             /\ Proceed(c, "fill", NewFile(u.fd, u.flags), "OK")
             /\ UNCHANGED <<fds, klock>>
      BY <2>1 DEF OpenReusesFd
    <3>2. u.fd \in Fd /\ u.flags \in Flag
      BY <1>1 DEF Reusable, InodeInfo
    <3>3. inode' \in InodeInfo
      BY <1>1, <3>1 DEF InodeInfo
    <3>4. /\ inode'.nRef = inode.nRef /\ inode'.nShared = inode.nShared
          /\ inode'.nLock = inode.nLock /\ inode'.eFileLock = inode.eFileLock
      BY <1>1, <3>1 DEF InodeInfo
    <3> QED
      BY <1>1, <3>1, <3>2, <3>3, <3>4, NewFileFacts, FdAssumption
  <2>2. CASE OpenNewFd(c)
    <3>1. PICK fd \in Fd \ fds, flags \in {call[c].flags, ReadOnly} :
             /\ fds' = fds \cup {fd}
             /\ Proceed(c, "fill", NewFile(fd, flags), "OK")
             /\ UNCHANGED <<inode, klock>>
      BY <2>2 DEF OpenNewFd
    <3> QED
      BY <1>1, <3>1, NewFileFacts, FlagAssumption, FdAssumption
  <2>3. CASE OpenFails(c)
    BY <1>1, <2>3, ZeroFacts DEF OpenFails, Reply, serverVars
  <2> QED
    BY <2>1, <2>2, <2>3 DEF Open
<1>4. Handled(c, stage, file, rc)
  BY <1>1, <1>2, <1>3, Served DEF Stage, ResultCode
<1>5. ~call[c].file.pInode /\ call[c].file \in UnixFile
  BY <1>1, <1>2, HeldType DEF HandleOK, Op
<1>6. TableInv' /\ ExactInv'
  BY <1>1, <1>3, <1>4, <1>5, TableKept DEF Handled
<1>7. HandleOK(c)'
  BY <1>1, <1>2, <1>3, <1>4 DEF HandleOK, HasFd, Handled
<1>8. BeliefOK(c)'
  BY <1>1, <1>2, <1>3, <1>4, <1>5 DEF BeliefOK, Releasing, Handled
<1>9. MayGoTo(c, Held(c)')
  BY <1>3, <1>4, <1>5, Levels, Stays DEF Handled
<1> QED
  BY <1>4, <1>6, <1>7, <1>8, <1>9, Assembled DEF Handled

\* What the invariant says of the client whose call is served.
LEMMA Known ==
  ASSUME IInv, NEW c \in Client
  PROVE  /\ TypeOK /\ HandleOK(c) /\ BeliefOK(c) /\ TableInv /\ ExactInv
         /\ call[c] \in Call /\ call[c].flags \in Flag /\ call[c].lvl \in Level
         /\ call[c].op \in Op /\ call[c].pc \in Stage
         /\ call[c].file \in UnixFile /\ call[c].file.eFileLock \in 0 .. 4
         /\ call[c].file.pInode \in BOOLEAN
         /\ inode \in InodeInfo /\ klock \in KernelLock /\ fds \in SUBSET Fd
         /\ inode.nRef \in Nat /\ inode.nShared \in Nat /\ inode.nLock \in Nat
         /\ inode.eFileLock \in 0 .. 4
<1>1. /\ TypeOK /\ HandleOK(c) /\ BeliefOK(c) /\ TableInv /\ ExactInv
      /\ call[c] \in Call
      /\ inode \in InodeInfo /\ klock \in KernelLock /\ fds \in SUBSET Fd
  BY DEF IInv, HandleInv, BeliefInv, TypeOK
<1>2. call[c].file \in UnixFile
  BY <1>1, HeldType
<1>3. call[c].file.eFileLock \in 0 .. 4 /\ call[c].file.pInode \in BOOLEAN
  BY <1>2, Levels DEF UnixFile
<1>4. /\ call[c].flags \in Flag /\ call[c].lvl \in Level
      /\ call[c].op \in Op /\ call[c].pc \in Stage
  BY <1>1 DEF Call
<1>5. /\ inode.nRef \in Nat /\ inode.nShared \in Nat /\ inode.nLock \in Nat
      /\ inode.eFileLock \in 0 .. 4
  BY <1>1, Levels DEF InodeInfo
<1> QED
  BY <1>1, <1>2, <1>3, <1>4, <1>5

\* fillInUnixFile.
LEMMA FillStep ==
  ASSUME IInv, NEW c \in Client, Fill(c), UNCHANGED <<id, pagerVars>>
  PROVE  StepOK(c)
<1>1. call[c].pc = "fill"
  BY DEF Fill, FillInUnixFile, FillInFails
<1>2. call[c].op = "Open" /\ ~call[c].file.pInode /\ call[c].file.eFileLock = 0
  BY <1>1, Known, Levels DEF HandleOK
<1>3. CASE FillInUnixFile(c)
  <2>1. /\ inode' \in InodeInfo /\ inode'.nRef = inode.nRef + 1
        /\ inode'.nShared = inode.nShared /\ inode'.nLock = inode.nLock
        /\ inode'.eFileLock = inode.eFileLock
    BY <1>3, Known DEF FillInUnixFile, InodeInfo
  <2>2. /\ WithInode(call[c].file) \in UnixFile
        /\ WithInode(call[c].file).pInode
        /\ WithInode(call[c].file).eFileLock = 0
        /\ WithInode(call[c].file).h = call[c].file.h
    BY <1>2, Known, FileFacts
  <2>3. Handled(c, "reply", WithInode(call[c].file), "OK")
    BY <1>1, <1>3, <2>1, <2>2, Known, Served DEF FillInUnixFile, Reply, Stage, ResultCode
  <2>4. TableInv' /\ ExactInv'
    BY <1>2, <2>1, <2>2, <2>3, Known, TableAttached DEF Handled
  <2>a. call[c].file.h # NoFd
    BY <1>1, Known DEF HandleOK, HasFd, File
  <2>5. HandleOK(c)'
    BY <1>1, <1>2, <2>2, <2>3, <2>a, Known, Levels DEF HandleOK, HasFd, Handled
  <2>6. BeliefOK(c)'
    BY <1>1, <1>2, <2>2, <2>3, Known, Levels DEF BeliefOK, Releasing, Handled
  <2>7. MayGoTo(c, Held(c)')
    BY <1>2, <2>2, <2>3, Stays DEF Handled
  <2> QED
    BY <2>3, <2>4, <2>5, <2>6, <2>7, Assembled DEF Handled
<1>4. CASE FillInFails(c)
  <2>1. klock' \in KernelLock /\ fds' \in SUBSET Fd /\ inode' = inode
    BY <1>4, Known DEF FillInFails, AfterClosing, NoKernelLock, KernelLock, UNLCK, WRLCK
  <2>2. Handled(c, "reply", call[c].file, "NOMEM")
    BY <1>1, <1>4, <2>1, Known, Served DEF FillInFails, Reply, Stage, ResultCode
  <2>3. TableInv' /\ ExactInv'
    BY <1>2, <2>1, <2>2, Known, TableKept DEF Handled
  <2>4. HandleOK(c)'
    BY <1>1, <1>2, <2>2, Known, Levels DEF HandleOK, HasFd, Handled
  <2>5. BeliefOK(c)'
    BY <1>1, <1>2, <2>2, Known, Levels DEF BeliefOK, Releasing, Handled
  <2>6. MayGoTo(c, Held(c)')
    BY <1>2, <2>2, Stays DEF Handled
  <2> QED
    BY <2>2, <2>3, <2>4, <2>5, <2>6, Assembled DEF Handled
<1> QED
  BY <1>3, <1>4 DEF Fill

\* A lock request comes from a handle that backs what its pager believes.
LEMMA LockRequest ==
  ASSUME IInv, NEW c \in Client, Requested(c, "Lock")
  PROVE  /\ call[c].pc = "request" /\ call[c].op = "Lock" /\ call[c].file.pInode
         /\ call[c].lvl \in {1, 2, 4}
         /\ call[c].lvl > 1 => call[c].file.eFileLock >= 1
         /\ Held(c) = call[c].file.eFileLock
         /\ File(c) = call[c].file
<1>1. call[c].pc = "request" /\ call[c].op = "Lock"
  BY DEF Requested
<1>2. call[c].file.pInode
  BY <1>1, Known DEF HandleOK
<1>3. File(c) = call[c].file
  BY <1>1 DEF File
<1>4. Held(c) = call[c].file.eFileLock
  BY <1>2, <1>3 DEF Held
<1> QED
  BY <1>1, <1>2, <1>3, <1>4, Known, Levels DEF BeliefOK, Releasing

\* A reply that lowers nothing, and says OK only to what it gave, keeps the belief.
LEMMA LockReplied ==
  ASSUME IInv, NEW c \in Client, Requested(c, "Lock"),
         NEW file \in UnixFile, NEW rc, Handled(c, "reply", file, rc),
         file.pInode, file.h = call[c].file.h, file.eFileLock >= call[c].file.eFileLock,
         rc = "OK" => file.eFileLock >= call[c].lvl
  PROVE  HandleOK(c)' /\ BeliefOK(c)'
<1>1. HandleOK(c)'
  BY LockRequest, Known DEF HandleOK, HasFd, Handled
<1>2. file.eFileLock \in 0 .. 4 /\ Held(c) = call[c].file.eFileLock
      /\ Held(c)' = file.eFileLock
  BY LockRequest, Levels DEF Handled, UnixFile
<1>3. ~Releasing(c) /\ ~Releasing(c)'
  BY LockRequest DEF Handled, Releasing
<1>4. eLock[c] \in 0 .. 5 /\ call[c].lvl \in 0 .. 4
  BY Known, Levels DEF TypeOK
<1>5. BeliefOK(c)'
  BY <1>2, <1>3, <1>4, LockRequest, Known, Levels DEF BeliefOK, Handled
<1> QED
  BY <1>1, <1>5

\* unixLock where it grants nothing.
LEMMA LockRefused ==
  ASSUME IInv, NEW c \in Client, UNCHANGED <<id, pagerVars>>,
         \/ LockAlreadyHeld(c) \/ LockPrecluded(c) \/ LockFirstReaderFails(c)
         \/ LockReserveFails(c) \/ LockPendingFails(c)
  PROVE  StepOK(c)
<1>1. Requested(c, "Lock")
  BY DEF LockAlreadyHeld, LockPrecluded, LockFirstReaderFails, LockReserveFails,
         LockPendingFails, FirstReader, Locking
<1>2. PICK rc \in ResultCode :
         /\ Reply(c, call[c].file, rc)
         /\ inode' = inode /\ fds' = fds /\ klock' \in KernelLock
         /\ rc = "OK" => call[c].file.eFileLock >= call[c].lvl
  <2>1. CASE LockAlreadyHeld(c)
    BY <2>1, Known DEF LockAlreadyHeld, ResultCode, serverVars
  <2>2. CASE LockPrecluded(c)
    BY <2>2, Known DEF LockPrecluded, ResultCode, serverVars
  <2>3. CASE LockFirstReaderFails(c)
    <3>1. klock' \in KernelLock
      <4>1. \/ klock' = klock
            \/ klock' = [klock EXCEPT !.pending = UNLCK]
            \/ klock' = [klock EXCEPT !.pending = RDLCK]
            \/ klock' = [klock EXCEPT !.pending = RDLCK, !.shared = RDLCK]
        BY <2>3, Zenon DEF LockFirstReaderFails
      <4>2. klock \in KernelLock
        BY Known
      <4>3. [klock EXCEPT !.pending = UNLCK] \in KernelLock
        BY <4>2, KernelTyped, KernelTypes, Zenon
      <4>4. [klock EXCEPT !.pending = RDLCK] \in KernelLock
        BY <4>2, KernelTyped, KernelTypes, Zenon
      <4>5. [klock EXCEPT !.pending = RDLCK, !.shared = RDLCK] \in KernelLock
        BY <4>2, KernelTyped, KernelTypes, Zenon
      <4> QED
        BY <4>1, <4>2, <4>3, <4>4, <4>5
    <3> QED
      BY <2>3, <3>1, Known DEF LockFirstReaderFails, ResultCode
  <2>4. CASE LockReserveFails(c)
    BY <2>4, Known DEF LockReserveFails, ResultCode, serverVars
  <2>5. CASE LockPendingFails(c)
    BY <2>5, Known DEF LockPendingFails, ResultCode, serverVars
  <2> QED
    BY <2>1, <2>2, <2>3, <2>4, <2>5
<1>3. Handled(c, "reply", call[c].file, rc)
  BY <1>1, <1>2, Known, Served, LockRequest DEF Reply, Stage
<1>a. Held(c)' = Held(c) /\ (File(c)'.pInode <=> File(c).pInode)
  BY <1>1, <1>3, LockRequest DEF Handled
<1>4. TableInv' /\ ExactInv'
  BY <1>2, <1>3, <1>a, TableUnmoved
<1>5. HandleOK(c)' /\ BeliefOK(c)'
  <2>1. /\ call[c].file \in UnixFile /\ call[c].file.pInode
        /\ call[c].file.eFileLock >= call[c].file.eFileLock
    BY <1>1, Known, LockRequest
  <2> QED
    BY <1>1, <1>2, <1>3, <2>1, LockReplied
<1> QED
  BY <1>3, <1>4, <1>5, <1>a, Stays, Assembled DEF Handled

\* unixLock where it gives the handle a higher level.
LEMMA LockGranted ==
  ASSUME IInv, NEW c \in Client, UNCHANGED <<id, pagerVars>>,
         \/ LockJoinsReaders(c) \/ LockFirstReader(c) \/ LockReserves(c)
         \/ LockStopsAtPending(c) \/ LockExcludes(c)
  PROVE  StepOK(c)
<1>1. Requested(c, "Lock") /\ Locking(c)
  BY DEF LockJoinsReaders, LockFirstReader, LockReserves,
         LockStopsAtPending, LockExcludes, FirstReader, Locking
<1>2. /\ call[c].file.eFileLock < call[c].lvl
      /\ call[c].file.eFileLock = inode.eFileLock \/ (inode.eFileLock < 3 /\ call[c].lvl = 1)
  BY <1>1, LockRequest, Known, Levels DEF Locking, Precluded
<1>3. ASSUME NEW lvl \in 1 .. 4, NEW rc \in ResultCode,
             Reply(c, WithLock(call[c].file, lvl), rc),
             lvl >= call[c].file.eFileLock, rc = "OK" => lvl >= call[c].lvl,
             MayGoTo(c, lvl),
             inode' \in InodeInfo, fds' = fds, klock' \in KernelLock,
             Handled(c, "reply", WithLock(call[c].file, lvl), rc)
                /\ Held(c)' = lvl /\ (File(c)'.pInode <=> File(c).pInode)
                => TableInv' /\ ExactInv'
      PROVE  StepOK(c)
  <2>1. /\ WithLock(call[c].file, lvl) \in UnixFile
        /\ WithLock(call[c].file, lvl).eFileLock = lvl
        /\ WithLock(call[c].file, lvl).pInode
        /\ WithLock(call[c].file, lvl).h = call[c].file.h
    <3>1. lvl \in Level /\ call[c].file \in UnixFile /\ call[c].file.pInode
      BY <1>1, Known, LockRequest, Levels
    <3> QED
      <4>1. WithLock(call[c].file, lvl).pInode = call[c].file.pInode
        BY <3>1, FileFacts, Zenon
      <4>2. /\ WithLock(call[c].file, lvl) \in UnixFile
            /\ WithLock(call[c].file, lvl).eFileLock = lvl
            /\ WithLock(call[c].file, lvl).h = call[c].file.h
        BY <3>1, FileFacts, Zenon
      <4> QED
        BY <3>1, <4>1, <4>2
  <2>2. Handled(c, "reply", WithLock(call[c].file, lvl), rc)
    BY <1>1, <1>3, <2>1, Known, Served, LockRequest DEF Reply, Stage
  <2>3. Held(c)' = lvl /\ (File(c)'.pInode <=> File(c).pInode)
    BY <1>1, <2>1, <2>2, LockRequest DEF Handled
  <2>4. HandleOK(c)' /\ BeliefOK(c)'
    BY <1>1, <1>3, <2>1, <2>2, LockReplied
  <2> QED
    BY <1>3, <2>2, <2>3, <2>4, Assembled DEF Handled, MayGoTo
<1>a. \A d \in Client : Held(d) \in 0 .. 4 /\ Held(d) <= inode.eFileLock
  BY Known, HeldType, Levels DEF TableInv
<1>4. CASE LockJoinsReaders(c)
  <2>1. /\ inode' \in InodeInfo /\ inode'.nRef = inode.nRef
        /\ inode'.nShared = inode.nShared + 1 /\ inode'.nLock = inode.nLock + 1
        /\ inode'.eFileLock = inode.eFileLock /\ inode.eFileLock \in {1, 2}
    <3>1. inode' = [inode EXCEPT !.nShared = inode.nShared + 1, !.nLock = inode.nLock + 1]
      BY <1>4, Known DEF LockJoinsReaders, InodeInfo
    <3>2. inode' \in InodeInfo
      <4>1. inode \in InodeInfo /\ inode.nShared + 1 \in Nat /\ inode.nLock + 1 \in Nat /\ 1 \in Nat
        BY Known
      <4>2. 1 \in Level
        BY Levels
      <4> QED
        BY <3>1, <4>1, <4>2, InodeTyped, Zenon
    <3>3. inode.eFileLock \in {1, 2}
      BY <1>4, Levels DEF LockJoinsReaders
    <3> QED
      BY <3>1, <3>2, <3>3, Known DEF InodeInfo
  <2>2. Held(c) = 0 /\ call[c].lvl = 1
    BY <1>1, <1>2, <1>4, LockRequest, Known, Levels DEF LockJoinsReaders
  <2>3. MayGoTo(c, 1)
    BY <1>a, <2>1, <2>2, Known DEF MayGoTo
  <2> QED
    BY <1>3, <1>4, <2>1, <2>2, <2>3, Known, LockRequest, <1>1, Levels, TableJoined
       DEF LockJoinsReaders, Handled, ResultCode
<1>5. CASE LockFirstReader(c)
  <2>1. /\ inode' \in InodeInfo /\ inode'.nRef = inode.nRef
        /\ inode'.nShared = 1 /\ inode'.nLock = inode.nLock + 1
        /\ inode'.eFileLock = 1
    <3>1. inode' = [inode EXCEPT !.nShared = 1, !.nLock = inode.nLock + 1, !.eFileLock = 1]
      BY <1>5, Known, Levels DEF LockFirstReader, InodeInfo
    <3>2. inode' \in InodeInfo
      <4>1. inode \in InodeInfo /\ inode.nShared + 1 \in Nat /\ inode.nLock + 1 \in Nat /\ 1 \in Nat
        BY Known
      <4>2. 1 \in Level
        BY Levels
      <4> QED
        BY <3>1, <4>1, <4>2, InodeTyped, Zenon
    <3> QED
      BY <3>1, <3>2, Known DEF InodeInfo
  <2>2. Held(c) = 0 /\ call[c].lvl = 1 /\ inode.eFileLock = 0
    BY <1>1, <1>2, <1>5, LockRequest, Known, Levels DEF LockFirstReader, FirstReader
  <2>3. klock' \in KernelLock
    BY <1>5, Known, KernelTyped, KernelTypes DEF LockFirstReader
  <2>4. MayGoTo(c, 1)
    BY <1>a, <2>2, Known DEF MayGoTo
  <2> QED
    BY <1>3, <1>5, <2>1, <2>2, <2>3, <2>4, Known, LockRequest, <1>1, Levels, TableFirst
       DEF LockFirstReader, Handled, ResultCode
<1>6. ASSUME NEW lvl \in 2 .. 4, NEW rc \in ResultCode, NEW k \in KernelLock,
             Reply(c, WithLock(call[c].file, lvl), rc), call[c].lvl # 1,
             lvl >= call[c].file.eFileLock, rc = "OK" => lvl >= call[c].lvl,
             lvl = 4 => inode.nShared <= 1, lvl = 2 => call[c].lvl = 2,
             inode' = [inode EXCEPT !.eFileLock = lvl], fds' = fds, klock' = k
      PROVE  StepOK(c)
  <2>1. /\ inode' \in InodeInfo /\ inode'.nRef = inode.nRef
        /\ inode'.nShared = inode.nShared /\ inode'.nLock = inode.nLock
        /\ inode'.eFileLock = lvl
    BY <1>6, Known, Levels DEF InodeInfo
  <2>2. Held(c) = inode.eFileLock /\ Held(c) >= 1 /\ lvl >= Held(c) /\ lvl >= 2
    BY <1>1, <1>2, <1>6, LockRequest, Known
  <2>3. /\ \A d \in Client \ {c} : Held(d) <= 1
        /\ lvl = 2 => Held(c) = 1
    BY <1>1, <1>2, <1>6, <1>a, <2>2, LockRequest, Known, Levels DEF TableInv
  <2>4. lvl = 4 => \A d \in Client \ {c} : Held(d) = 0
    <3>1. Readers \subseteq Client /\ c \in Readers
      BY <1>a, <2>2, Levels DEF Readers
    <3>2. /\ Cardinality(Readers) \in Nat
          /\ Cardinality(Readers) <= 1 => Readers = {c}
      BY <3>1, SetCounts
    <3>3. lvl = 4 => Cardinality(Readers) <= 1
      BY <1>6, <3>2, Known DEF TableInv
    <3>4. Readers = {c} => \A d \in Client \ {c} : Held(d) = 0
      BY <1>a, Levels DEF Readers
    <3> QED
      BY <3>2, <3>3, <3>4
  <2>5. MayGoTo(c, lvl)
    BY <1>6, <1>a, <2>2, <2>3, <2>4 DEF MayGoTo
  <2> QED
    BY <1>3, <1>6, <2>1, <2>2, <2>5, Known, TableRaised DEF Handled
<1>7. CASE LockReserves(c)
  <2>1. [klock EXCEPT !.reserved = WRLCK] \in KernelLock
    BY Known, KernelTyped, KernelTypes
  <2> QED
    BY <1>1, <1>2, <1>6, <1>7, <2>1, Known, Levels DEF LockReserves, ResultCode
<1>8. CASE LockStopsAtPending(c)
  <2>1. [klock EXCEPT !.pending = WRLCK] \in KernelLock
    BY Known, KernelTyped, KernelTypes
  <2>2. PICK rc \in {"BUSY", "IOERR"} : Reply(c, WithLock(call[c].file, 3), rc)
    BY <1>8, Levels DEF LockStopsAtPending
  <2>3. /\ call[c].lvl = 4 /\ fds' = fds
        /\ inode' = [inode EXCEPT !.eFileLock = 3]
        /\ klock' = [klock EXCEPT !.pending = WRLCK]
    BY <1>8, Levels DEF LockStopsAtPending
  <2> QED
    BY <1>1, <1>2, <1>6, <2>1, <2>2, <2>3, Known DEF ResultCode
<1>9. CASE LockExcludes(c)
  <2>1. [klock EXCEPT !.pending = WRLCK, !.shared = WRLCK] \in KernelLock
    BY Known, KernelTyped, KernelTypes
  <2> QED
    BY <1>1, <1>2, <1>6, <1>9, <2>1, Known, Levels DEF LockExcludes, ResultCode
<1> QED
  BY <1>4, <1>5, <1>7, <1>8, <1>9

\* posixUnlock, called by unixUnlock and by unixClose.
LEMMA UnlockStep ==
  ASSUME IInv, NEW c \in Client, UNCHANGED <<id, pagerVars>>,
         NEW lvl \in {0, 1}, NEW stage \in {"reply", "close"}, call[c].pc = "request",
         \/ call[c].op = "Unlock" /\ call[c].lvl = lvl /\ stage = "reply"
         \/ call[c].op = "Close" /\ lvl = 0 /\ stage = "close",
         PosixUnlock(c, lvl, stage)
  PROVE  StepOK(c)
<1>1. call[c].file.pInode
  BY Known DEF HandleOK
<1>2. File(c) = call[c].file /\ Held(c) = call[c].file.eFileLock
  BY <1>1 DEF File, Held
<1>3. call[c].op = "Unlock" /\ lvl = 1 => phase[c] = "ready" /\ Held(c) >= 1
  BY Known, Levels DEF BeliefOK
<1>4. ASSUME NEW file \in UnixFile, NEW rc \in ResultCode, Proceed(c, stage, file, rc),
             file.pInode <=> call[c].file.pInode, file.h = call[c].file.h,
             file.eFileLock <= lvl \/ (NetworkMount /\ file.eFileLock > 1),
             file.eFileLock = Held(c) \/ (file.eFileLock = lvl /\ lvl < Held(c)),
             lvl = 1 => file.eFileLock >= 1 \/ file.eFileLock = Held(c),
             inode' \in InodeInfo, fds' \in SUBSET Fd, klock' \in KernelLock,
             \/ /\ file.eFileLock = Held(c)
                /\ inode'.nRef = inode.nRef /\ inode'.nShared = inode.nShared
                /\ inode'.nLock = inode.nLock /\ inode'.eFileLock = inode.eFileLock
             \/ /\ Handled(c, stage, file, rc) /\ Held(c)' = file.eFileLock
                /\ File(c)'.pInode <=> File(c).pInode
                => TableInv' /\ ExactInv'
      PROVE  StepOK(c)
  <2>1. Handled(c, stage, file, rc)
    BY <1>4, Served DEF Stage
  <2>2. Held(c)' = file.eFileLock /\ (File(c)'.pInode <=> File(c).pInode)
    BY <1>1, <1>2, <1>4, <2>1 DEF Handled
  <2>3. TableInv' /\ ExactInv'
    BY <1>2, <1>4, <2>1, <2>2, TableUnmoved
  <2>4. file.eFileLock \in 0 .. 4
    BY Levels DEF UnixFile
  <2>5. HandleOK(c)'
    BY <1>1, <1>4, <2>1, <2>4, Known, Levels DEF HandleOK, HasFd, Handled
  <2>6. Releasing(c)'
    BY <2>1 DEF Releasing, Handled
  <2>7. BeliefOK(c)'
    BY <1>3, <1>4, <2>1, <2>2, <2>4, <2>6, Levels DEF BeliefOK, Handled
  <2>8. MayGoTo(c, Held(c)')
    BY <1>2, <1>4, <2>2, <2>4, Known DEF MayGoTo
  <2> QED
    BY <2>1, <2>3, <2>5, <2>7, <2>8, Assembled DEF Handled
<1>5. \A l \in {0, 1} : /\ WithLock(call[c].file, l) \in UnixFile
                        /\ WithLock(call[c].file, l).eFileLock = l
                        /\ WithLock(call[c].file, l).pInode <=> call[c].file.pInode
                        /\ WithLock(call[c].file, l).h = call[c].file.h
  <2>1. call[c].file \in UnixFile /\ \A l \in {0, 1} : l \in Level
    BY Known, Levels
  <2>2. \A l \in Level : /\ WithLock(call[c].file, l) \in UnixFile
                         /\ WithLock(call[c].file, l).eFileLock = l
                         /\ WithLock(call[c].file, l).pInode = call[c].file.pInode
                         /\ WithLock(call[c].file, l).h = call[c].file.h
    BY <2>1 DEF WithLock, UnixFile
  <2> QED
    BY <2>1, <2>2
<1>6. CASE UnlockIsNoop(c, lvl, stage)
  <2>1. call[c].file.eFileLock <= lvl /\ Proceed(c, stage, call[c].file, "OK")
        /\ inode' = inode /\ fds' = fds /\ klock' = klock
    BY <1>6 DEF UnlockIsNoop, serverVars
  <2> QED
    BY <1>2, <1>4, <2>1, Known DEF ResultCode
<1>7. CASE UnlockFails(c, lvl, stage)
  <2>1. /\ NetworkMount /\ call[c].file.eFileLock > 1
        /\ Proceed(c, stage, call[c].file, "IOERR")
        /\ inode' = inode /\ fds' = fds
        /\ klock' = klock \/ klock' = [klock EXCEPT !.shared = RDLCK]
    BY <1>7, Levels DEF UnlockFails
  <2>2. [klock EXCEPT !.shared = RDLCK] \in KernelLock /\ klock \in KernelLock
    BY Known, KernelTyped, KernelTypes
  <2> QED
    BY <1>2, <1>4, <2>1, <2>2, Known DEF ResultCode
<1>8. CASE UnlockToShared(c, lvl, stage)
  <2>1. /\ lvl = 1 /\ call[c].file.eFileLock > 1
        /\ inode' = [inode EXCEPT !.eFileLock = 1]
        /\ klock' = [pending |-> UNLCK, reserved |-> UNLCK, shared |-> RDLCK]
        /\ Proceed(c, stage, WithLock(call[c].file, 1), "OK") /\ fds' = fds
    BY <1>8, Levels DEF UnlockToShared
  <2>2. /\ inode' \in InodeInfo /\ inode'.nRef = inode.nRef
        /\ inode'.nShared = inode.nShared /\ inode'.nLock = inode.nLock
        /\ inode'.eFileLock = 1
    BY <2>1, Known, Levels DEF InodeInfo
  <2>3. klock' \in KernelLock
    BY <2>1 DEF KernelLock, UNLCK, RDLCK, WRLCK
  <2> QED
    BY <1>2, <1>4, <1>5, <2>1, <2>2, <2>3, Known, TableLowered DEF ResultCode, Handled
<1>9. CASE UnlockLeavesReaders(c, lvl, stage)
  <2>1. /\ lvl = 0 /\ call[c].file.eFileLock > 0 /\ inode.nShared > 1
        /\ Proceed(c, stage, WithLock(call[c].file, 0), "OK") /\ fds' = fds
        /\ \/ klock' = klock
           \/ klock' = [klock EXCEPT !.pending = UNLCK, !.reserved = UNLCK]
    BY <1>9, Levels DEF UnlockLeavesReaders
  <2>2. inode.nLock = inode.nShared
    BY Known DEF TableInv
  <2>3. inode' = [inode EXCEPT !.nShared = inode.nShared - 1, !.nLock = inode.nLock - 1,
                    !.eFileLock = IF Held(c) > 1 THEN 1 ELSE inode.eFileLock]
    BY <1>2, <1>9, Known, Levels DEF UnlockLeavesReaders, InodeInfo
  <2>4. inode' \in InodeInfo
    <3>1. /\ inode \in InodeInfo /\ inode.nShared - 1 \in Nat /\ inode.nLock - 1 \in Nat
          /\ (IF Held(c) > 1 THEN 1 ELSE inode.eFileLock) \in Level
      BY <2>1, <2>2, Known, Levels
    <3> QED
      BY <2>3, <3>1, InodeTyped, Zenon
  <2>5. /\ inode'.nRef = inode.nRef /\ inode'.nShared = inode.nShared - 1
        /\ inode'.nLock = inode.nLock - 1
        /\ inode'.eFileLock = IF Held(c) > 1 THEN 1 ELSE inode.eFileLock
    BY <2>3, Known DEF InodeInfo
  <2>6. klock' \in KernelLock
    <3>1. klock \in KernelLock
      BY Known
    <3>2. [klock EXCEPT !.pending = UNLCK, !.reserved = UNLCK] \in KernelLock
      BY <3>1, KernelTyped, KernelTypes, Zenon
    <3> QED
      BY <2>1, <3>1, <3>2
  <2> QED
    BY <1>2, <1>4, <1>5, <2>1, <2>4, <2>5, <2>6, Known, TableLeft DEF ResultCode, Handled
<1>10. CASE UnlockLastReader(c, lvl, stage)
  <2>1. /\ lvl = 0 /\ call[c].file.eFileLock > 0 /\ inode.nShared <= 1
        /\ fds' \in SUBSET Fd
    BY <1>10, Known, Levels DEF UnlockLastReader
  <2>2. PICK rc \in {"OK", "IOERR"} : Proceed(c, stage, WithLock(call[c].file, 0), rc)
    BY <1>10, Levels DEF UnlockLastReader
  <2>3. inode.nLock = inode.nShared /\ inode.nShared \in Nat \ {0}
    <3>1. Cardinality(Readers) \in Nat
      BY ClientAssumption, FS_Subset, FS_CardinalityType DEF Readers
    <3>2. c \in Readers
      BY <1>2, <2>1, Known, Levels DEF Readers
    <3>3. Cardinality(Readers) # 0
      BY <3>2, ClientAssumption, FS_Subset, FS_EmptySet DEF Readers
    <3> QED
      BY <3>1, <3>3, Known DEF TableInv
  <2>4. inode' = [inode EXCEPT !.nShared = inode.nShared - 1, !.nLock = inode.nLock - 1,
                    !.eFileLock = 0, !.pUnused = {}]
    BY <1>10, Known, Levels DEF UnlockLastReader, InodeInfo
  <2>5. inode' \in InodeInfo
    <3>1. /\ inode \in InodeInfo /\ inode.nShared - 1 \in Nat /\ inode.nLock - 1 \in Nat
          /\ 0 \in Level
      BY <2>3, Known, Levels
    <3> QED
      BY <2>4, <3>1, InodeTyped, Zenon
  <2>6. /\ inode'.nRef = inode.nRef /\ inode'.nShared = inode.nShared - 1
        /\ inode'.nLock = inode.nLock - 1 /\ inode'.eFileLock = 0
    BY <2>4, Known DEF InodeInfo
  <2>7. klock' \in KernelLock
    <3>1. klock \in KernelLock /\ NoKernelLock \in KernelLock
      BY Known, KernelTypes
    <3>2. [klock EXCEPT !.pending = UNLCK, !.reserved = UNLCK] \in KernelLock
      BY <3>1, KernelTyped, KernelTypes, Zenon
    <3>3. \/ klock' = NoKernelLock \/ klock' = klock
          \/ klock' = [klock EXCEPT !.pending = UNLCK, !.reserved = UNLCK]
      BY <1>10, Zenon DEF UnlockLastReader, AfterClosing
    <3> QED
      BY <3>1, <3>2, <3>3
  <2> QED
    BY <1>2, <1>4, <1>5, <2>1, <2>2, <2>5, <2>6, <2>7, Known, TableEmptied DEF ResultCode, Handled
<1> QED
  BY <1>6, <1>7, <1>8, <1>9, <1>10 DEF PosixUnlock

\* unixCheckReservedLock.
LEMMA CheckStep ==
  ASSUME IInv, NEW c \in Client, CheckReservedLock(c), UNCHANGED <<id, pagerVars>>
  PROVE  StepOK(c)
<1>1. call[c].pc = "request" /\ call[c].op = "CheckReservedLock" /\ UNCHANGED serverVars
  BY DEF CheckReservedLock, Requested
<1>2. PICK rc \in ResultCode, out \in BOOLEAN : Answer(c, rc, out)
  BY DEF CheckReservedLock, ResultCode
<1>3. /\ call' \in [Client -> Call]
      /\ \A d \in Client \ {c} : call'[d] = call[d]
      /\ call'[c].pc = "reply" /\ call'[c].file = call[c].file /\ call'[c].rc = rc
      /\ call'[c].op = call[c].op /\ call'[c].lvl = call[c].lvl
  BY <1>2, Known, AnswerFacts DEF TypeOK
<1>4. TypeOK'
  BY <1>1, <1>3, Known DEF TypeOK, pagerVars, serverVars
<1>5. \A d \in Client \ {c} : Still(d)
  BY <1>3 DEF Still, pagerVars
<1>6. File(c)' = File(c) /\ Held(c)' = Held(c)
  BY <1>1, <1>3 DEF File, Held
<1>7. TableInv' /\ ExactInv'
  BY <1>1, <1>4, <1>5, <1>6, Known, TableKept DEF serverVars
<1>8. HandleOK(c)'
  BY <1>1, <1>3, <1>6, Known DEF HandleOK, HasFd, pagerVars
<1>9. Releasing(c)' <=> Releasing(c)
  BY <1>1, <1>3 DEF Releasing
<1>10. BeliefOK(c)'
  BY <1>1, <1>3, <1>6, <1>9, Known DEF BeliefOK, pagerVars
<1> QED
  BY <1>4, <1>5, <1>6, <1>7, <1>8, <1>10, Stays, Assembled

\* unixClose after its unixUnlock().
LEMMA CloseStep ==
  ASSUME IInv, NEW c \in Client, Close(c), UNCHANGED <<id, pagerVars>>
  PROVE  StepOK(c)
<1>1. /\ call[c].pc \in {"close", "release"} /\ call[c].op = "Close"
      /\ call[c].file.pInode /\ (~NetworkMount => call[c].file.eFileLock = 0)
  BY Known, Levels DEF Close, CloseSetsPendingFd, CloseReleases, HandleOK
<1>2. CASE CloseSetsPendingFd(c)
  <2>1. /\ call[c].pc = "close" /\ call[c].file.h # NoFd /\ call[c].file.h \in Fd
        /\ call[c].file.flags \in Flag
    BY <1>2, Known DEF CloseSetsPendingFd, HandleOK, HasFd, File, UnixFile
  <2>2. PICK file \in {call[c].file, WithoutFd(call[c].file)} :
           /\ Proceed(c, "release", file, "OK")
           /\ UNCHANGED <<fds, klock>>
           /\ \/ inode' = inode
              \/ inode' = [inode EXCEPT !.pUnused = @ \cup
                             {[fd |-> call[c].file.h, flags |-> call[c].file.flags]}]
    BY <1>2, Zenon DEF CloseSetsPendingFd
  <2>3. /\ inode' \in InodeInfo /\ inode'.nRef = inode.nRef
        /\ inode'.nShared = inode.nShared /\ inode'.nLock = inode.nLock
        /\ inode'.eFileLock = inode.eFileLock
    <3>1. CASE inode' = inode
      BY <3>1, Known
    <3>2. CASE inode' = [inode EXCEPT !.pUnused = @ \cup
                           {[fd |-> call[c].file.h, flags |-> call[c].file.flags]}]
      <4>1. [fd |-> call[c].file.h, flags |-> call[c].file.flags] \in [fd : Fd, flags : Flag]
        BY <2>1
      <4>2. inode.pUnused \cup {[fd |-> call[c].file.h, flags |-> call[c].file.flags]}
              \in SUBSET [fd : Fd, flags : Flag]
        BY <4>1, Known DEF InodeInfo
      <4> QED
        BY <3>2, <4>2, Known DEF InodeInfo
    <3> QED
      BY <2>2, <3>1, <3>2
  <2>4. /\ file \in UnixFile /\ file.eFileLock = call[c].file.eFileLock
        /\ file.pInode
    <3>1. call[c].file \in UnixFile
      BY Known
    <3>2. /\ WithoutFd(call[c].file) \in UnixFile
          /\ WithoutFd(call[c].file).eFileLock = call[c].file.eFileLock
          /\ WithoutFd(call[c].file).pInode = call[c].file.pInode
      BY <3>1 DEF WithoutFd, UnixFile
    <3> QED
      BY <1>1, <3>1, <3>2
  <2>5. Handled(c, "release", file, "OK")
    BY <1>1, <2>2, <2>3, <2>4, Known, Served DEF Stage, ResultCode
  <2>6. Held(c)' = Held(c) /\ (File(c)'.pInode <=> File(c).pInode)
    BY <1>1, <2>4, <2>5 DEF Handled
  <2>7. TableInv' /\ ExactInv'
    BY <2>3, <2>5, <2>6, TableUnmoved
  <2>8. HandleOK(c)'
    BY <1>1, <2>4, <2>5, Known, Levels DEF HandleOK, HasFd, Handled
  <2>9. BeliefOK(c)'
    BY <1>1, <2>5, Known DEF BeliefOK, Handled, Releasing
  <2> QED
    BY <2>5, <2>6, <2>7, <2>8, <2>9, Stays, Assembled DEF Handled
<1>3. CASE CloseReleases(c)
  <2>1. /\ Proceed(c, "reply", ZeroFile, "OK")
        /\ inode' = IF inode.nRef = 1 THEN NoInode ELSE [inode EXCEPT !.nRef = @ - 1]
        /\ fds' \in SUBSET Fd
        /\ klock' = klock \/ klock' = NoKernelLock
    BY <1>3, Known, Zenon DEF CloseReleases, Reply, AfterClosing
  <2>2. inode.nRef \in Nat \ {0}
    <3>1. Attached \subseteq Client /\ c \in Attached
      BY <1>1 DEF Attached, File
    <3>2. Cardinality(Attached) >= 1
      BY <3>1, SetCounts
    <3> QED
      BY <3>2, Known DEF TableInv
  <2>3. inode' \in InodeInfo
    BY <2>1, <2>2, Known, Levels DEF InodeInfo, NoInode
  <2>4. Handled(c, "reply", ZeroFile, "OK")
    BY <1>1, <2>1, <2>3, Known, KernelTypes, ZeroFacts, Served DEF Stage, ResultCode
  <2>5. TableInv' /\ ExactInv'
    BY <1>1, <2>1, <2>4, Known, ZeroFacts, TableDetached DEF Handled
  <2>6. HandleOK(c)'
    BY <1>1, <2>4, Known, ZeroFacts DEF HandleOK, HasFd, Handled
  <2>7. BeliefOK(c)'
    BY <1>1, <2>4, Known DEF BeliefOK, Handled, Releasing
  <2>8. MayGoTo(c, Held(c)')
    BY <1>1, <2>4, ZeroFacts, Known DEF MayGoTo, Handled
  <2> QED
    BY <2>4, <2>5, <2>6, <2>7, <2>8, Assembled DEF Handled
<1> QED
  BY <1>2, <1>3 DEF Close

-----------------------------------------------------------------------------
(* The steps of the pagers. *)

\* What a client step does to the others and to its own handle.
LEMMA CallSent ==
  ASSUME IInv, NEW c \in Client, NEW op \in Op, NEW lvl \in Level, NEW flags \in Flag,
         Send(c, op, lvl, flags, id[c]), UNCHANGED <<id, pagerVars>>, UNCHANGED serverVars,
         op = "Open" <=> phase[c] = "closed",
         BeliefOK(c)'
  PROVE  StepOK(c)
<1>1. id[c] \in UnixFile
  BY Known, HeldType
<1>2. /\ call' \in [Client -> Call]
      /\ \A d \in Client \ {c} : call'[d] = call[d]
      /\ call[c].pc = "idle" /\ call'[c].pc = "request"
      /\ call'[c].op = op /\ call'[c].lvl = lvl /\ call'[c].file = id[c]
  BY <1>1, Known, SendFacts DEF TypeOK
<1>3. TypeOK'
  BY <1>2, Known DEF TypeOK, pagerVars, serverVars
<1>4. \A d \in Client \ {c} : Still(d)
  BY <1>2 DEF Still, pagerVars
<1>5. File(c)' = File(c) /\ Held(c)' = Held(c)
  BY <1>2 DEF File, Held
<1>6. TableInv' /\ ExactInv'
  BY <1>3, <1>4, <1>5, Known, TableKept DEF serverVars
<1>7. HandleOK(c)'
  BY <1>2, <1>5, Known DEF HandleOK, HasFd, pagerVars
<1> QED
  BY <1>3, <1>4, <1>5, <1>6, <1>7, Stays, Assembled

\* The pager's calls.
LEMMA CallsStep ==
  ASSUME IInv, NEW c \in Client, Calls(c), UNCHANGED serverVars
  PROVE  StepOK(c)
<1>1. ASSUME NEW op \in Op, NEW lvl \in Level, NEW flags \in Flag,
             Send(c, op, lvl, flags, id[c]), UNCHANGED <<id, pagerVars>>,
             op = "Open" <=> phase[c] = "closed",
             op = "Lock" => /\ lvl \in {1, 2, 4}
                            /\ lvl > 1 => phase[c] \in {"check", "hot", "ready"},
             op = "Unlock" => /\ lvl \in {0, 1}
                              /\ lvl = 1 => phase[c] = "ready",
             op = "CheckReservedLock" => phase[c] = "check"
      PROVE  StepOK(c)
  <2>1. id[c] \in UnixFile
    BY Known, HeldType
  <2>2. /\ call[c].pc = "idle" /\ call'[c].pc = "request"
        /\ call'[c].op = op /\ call'[c].lvl = lvl /\ call'[c].file = id[c]
    BY <1>1, <2>1, Known, SendFacts DEF TypeOK
  <2>3. Held(c)' = Held(c) /\ ~Releasing(c)
    BY <1>1, <2>2 DEF Held, File, Releasing
  <2>4. BeliefOK(c)'
    BY <1>1, <2>2, <2>3, Known, Levels DEF BeliefOK, pagerVars
  <2> QED
    BY <1>1, <2>4, CallSent
<1>2. CASE OpenDatabase(c)
  BY <1>1, <1>2, Levels DEF OpenDatabase, remoteOpen, Op
<1>3. CASE BeginRead(c)
  BY <1>1, <1>3, Levels, FlagAssumption DEF BeginRead, remoteLock, Op
<1>4. CASE CheckHotJournal(c)
  BY <1>1, <1>4, Levels, FlagAssumption DEF CheckHotJournal, remoteCheckReservedLock, Op
<1>5. CASE BeginHotRollback(c)
  BY <1>1, <1>5, Levels, FlagAssumption DEF BeginHotRollback, remoteLock, Op
<1>6. CASE BeginWrite(c)
  BY <1>1, <1>6, Levels, FlagAssumption DEF BeginWrite, remoteLock, Op
<1>7. CASE BeginCommit(c)
  BY <1>1, <1>7, Levels, FlagAssumption DEF BeginCommit, remoteLock, Op
<1>8. CASE EndWrite(c)
  BY <1>1, <1>8, Levels, FlagAssumption DEF EndWrite, remoteUnlock, Op
<1>9. CASE PagerUnlock(c)
  BY <1>1, <1>9, Levels, FlagAssumption DEF PagerUnlock, remoteUnlock, Op
<1>10. CASE CloseDatabase(c)
  BY <1>1, <1>10, Levels, FlagAssumption DEF CloseDatabase, remoteClose, Op
<1>11. CASE WriterFails(c)
  <2>1. /\ call[c].pc = "idle" /\ phase[c] = "ready"
        /\ phase' = [phase EXCEPT ![c] = "error"]
        /\ call' = call /\ id' = id /\ eLock' = eLock
    BY <1>11 DEF WriterFails, To
  <2>2. TypeOK'
    BY <2>1, Known DEF TypeOK, Phase, serverVars
  <2>3. phase'[c] = "error" /\ \A d \in Client \ {c} : Still(d)
    BY <2>1, Known DEF TypeOK, Still
  <2>4. File(c)' = File(c) /\ Held(c)' = Held(c)
    BY <2>1 DEF File, Held
  <2>5. TableInv' /\ ExactInv'
    BY <2>2, <2>3, <2>4, Known, TableKept DEF serverVars
  <2>6. HandleOK(c)'
    BY <2>1, <2>3, <2>4, Known DEF HandleOK, HasFd
  <2>7. BeliefOK(c)'
    BY <2>1, <2>3, <2>4, Known DEF BeliefOK, Releasing
  <2> QED
    BY <2>2, <2>3, <2>4, <2>5, <2>6, <2>7, Stays, Assembled
<1> QED
  BY <1>2, <1>3, <1>4, <1>5, <1>6, <1>7, <1>8, <1>9, <1>10, <1>11 DEF Calls

\* The returns: the handle is what the reply brought, except after xClose.
LEMMA ReturnsStep ==
  ASSUME IInv, NEW c \in Client, Returns(c), UNCHANGED serverVars
  PROVE  StepOK(c)
<1>1. ASSUME NEW op \in Op, Returned(c, op),
             eLock' \in [Client -> 0 .. 5], \A d \in Client \ {c} : eLock'[d] = eLock[d],
             phase' \in [Client -> Phase], \A d \in Client \ {c} : phase'[d] = phase[d],
             op # "Close" => StoreHandle(c), op = "Close" => ForgetHandle(c),
             call[c].file.pInode <=> phase'[c] # "closed",
             eLock'[c] # 5 => eLock'[c] <= Held(c),
             phase'[c] \in {"check", "hot", "ready"} => Held(c) >= 1
      PROVE  StepOK(c)
  <2>1. /\ call' \in [Client -> Call]
        /\ \A d \in Client \ {c} : call'[d] = call[d]
        /\ call[c].pc = "reply" /\ call[c].op = op /\ call'[c] = NoCall
    BY <1>1, Known, ReturnedFacts DEF TypeOK
  <2>2. /\ id' \in [Client -> UnixFile]
        /\ id'[c].pInode <=> phase'[c] # "closed"
        /\ op # "Close" => id'[c] = call[c].file
        /\ \A d \in Client \ {c} : id'[d] = id[d]
    <3>1. CASE op # "Close"
      BY <1>1, <3>1, Known DEF StoreHandle, TypeOK
    <3>2. CASE op = "Close"
      <4>1. id \in [Client -> UnixFile] /\ id' = [id EXCEPT ![c].pInode = FALSE]
        BY <1>1, <3>2, Known DEF ForgetHandle, TypeOK
      <4>2. ~call[c].file.pInode
        BY <2>1, <3>2, Known DEF HandleOK
      <4>3. [id[c] EXCEPT !.pInode = FALSE] \in UnixFile
        BY <4>1 DEF UnixFile
      <4>4. id' = [id EXCEPT ![c] = [id[c] EXCEPT !.pInode = FALSE]]
        BY <4>1
      <4>5. [id[c] EXCEPT !.pInode = FALSE].pInode = FALSE
        BY <4>1 DEF UnixFile
      <4> QED
        BY <1>1, <3>2, <4>1, <4>2, <4>3, <4>4, <4>5
    <3> QED
      BY <3>1, <3>2
  <2>3. TypeOK'
    BY <1>1, <2>1, <2>2, Known, Levels DEF TypeOK, serverVars
  <2>4. \A d \in Client \ {c} : Still(d)
    BY <1>1, <2>1, <2>2, Known DEF TypeOK, Still
  <2>5. File(c)' = id'[c] /\ File(c) = call[c].file
    BY <2>1, ZeroFacts DEF File
  <2>6. File(c)'.pInode <=> File(c).pInode
    BY <1>1, <2>2, <2>5
  <2>7. Held(c)' = Held(c)
    <3>1. CASE op # "Close"
      BY <2>2, <2>5, <3>1 DEF Held
    <3>2. CASE op = "Close"
      <4>1. ~call[c].file.pInode
        BY <2>1, <3>2, Known DEF HandleOK
      <4> QED
        BY <2>5, <2>6, <4>1 DEF Held
    <3> QED
      BY <3>1, <3>2
  <2>8. TableInv' /\ ExactInv'
    BY <2>3, <2>4, <2>6, <2>7, Known, TableKept DEF serverVars
  <2>9. HandleOK(c)'
    <3>1. HasFd(c)'
      BY <1>1, <2>1, <2>2, <2>5, <2>6, Known, ZeroFacts DEF HandleOK, HasFd
    <3> QED
      BY <1>1, <2>1, <2>2, <2>4, <3>1, ZeroFacts DEF HandleOK
  <2>10. BeliefOK(c)'
    BY <1>1, <2>1, <2>4, <2>7, ZeroFacts, Levels DEF BeliefOK
  <2> QED
    BY <2>3, <2>4, <2>7, <2>8, <2>9, <2>10, Stays, Assembled
<1>2. /\ eLock \in [Client -> 0 .. 5] /\ phase \in [Client -> Phase]
      /\ eLock = [eLock EXCEPT ![c] = eLock[c]]
      /\ phase = [phase EXCEPT ![c] = phase[c]]
      /\ eLock[c] \in 0 .. 5 /\ phase[c] \in Phase /\ Held(c) \in 0 .. 4
  BY Known, HeldType, Levels DEF TypeOK
<1>3. CASE OpenReturns(c)
  <2>1. /\ Returned(c, "Open") /\ StoreHandle(c) /\ eLock' = eLock
        /\ phase' = [phase EXCEPT ![c] = IF call[c].rc = "OK" THEN "open" ELSE "closed"]
    BY <1>3 DEF OpenReturns, To
  <2>2. call[c].pc = "reply" /\ call[c].op = "Open"
    BY <2>1 DEF Returned
  <2>3. call[c].file.pInode <=> call[c].rc = "OK"
    BY <2>2, Known DEF HandleOK
  <2>4. eLock[c] # 5 => eLock[c] <= Held(c)
    BY <2>2, Known, Levels DEF BeliefOK, Releasing
  <2>5. /\ phase' \in [Client -> Phase] /\ \A d \in Client \ {c} : phase'[d] = phase[d]
        /\ phase'[c] = IF call[c].rc = "OK" THEN "open" ELSE "closed"
    BY <1>2, <2>1 DEF Phase
  <2> QED
    BY <1>1, <1>2, <2>1, <2>3, <2>4, <2>5 DEF Op
<1>4. ASSUME Returned(c, "Lock"), StoreHandle(c), LockDb(c),
             phase' \in [Client -> Phase], \A d \in Client \ {c} : phase'[d] = phase[d],
             phase'[c] # "closed",
             phase'[c] \in {"check", "hot", "ready"} =>
                phase[c] \in {"check", "hot", "ready"} \/ call[c].rc = "OK"
      PROVE  StepOK(c)
  <2>1. /\ call[c].pc = "reply" /\ call[c].op = "Lock" /\ ~Releasing(c)
    BY <1>4 DEF Returned, Releasing
  <2>2. /\ call[c].file.pInode
        /\ call[c].rc = "OK" => call[c].lvl <= Held(c)
        /\ eLock[c] # 5 => eLock[c] <= Held(c)
        /\ phase[c] \in {"check", "hot", "ready"} => Held(c) >= 1
        /\ call[c].lvl \in {1, 2, 4}
    BY <2>1, Known, Levels DEF BeliefOK, HandleOK
  <2>3. /\ eLock' \in [Client -> 0 .. 5] /\ \A d \in Client \ {c} : eLock'[d] = eLock[d]
        /\ \/ eLock'[c] = eLock[c]
           \/ eLock'[c] = call[c].lvl /\ call[c].rc = "OK"
    BY <1>2, <1>4, <2>2, Levels DEF LockDb
  <2> QED
    BY <1>1, <1>2, <1>4, <2>2, <2>3 DEF Op
<1>5. CASE SharedLockReturns(c)
  <2>1. Returned(c, "Lock") /\ StoreHandle(c) /\ LockDb(c)
    BY <1>5 DEF SharedLockReturns
  <2>2. phase[c] # "closed"
    BY <2>1, Known DEF Returned, HandleOK
  <2>3. /\ phase' \in [Client -> Phase] /\ \A d \in Client \ {c} : phase'[d] = phase[d]
        /\ \/ call[c].rc = "OK" /\ phase'[c] = "check"
           \/ phase'[c] = "failed"
           \/ phase'[c] = phase[c]
    BY <1>2, <1>5 DEF SharedLockReturns, To, Phase
  <2> QED
    BY <1>2, <1>4, <2>1, <2>2, <2>3
<1>6. CASE WriteLockReturns(c)
  <2>1. Returned(c, "Lock") /\ StoreHandle(c) /\ LockDb(c)
    BY <1>6 DEF WriteLockReturns
  <2>2. phase[c] # "closed"
    BY <2>1, Known DEF Returned, HandleOK
  <2>3. /\ phase' \in [Client -> Phase] /\ \A d \in Client \ {c} : phase'[d] = phase[d]
        /\ \/ call[c].rc = "OK" /\ phase'[c] = "ready"
           \/ phase'[c] = "failed"
           \/ phase'[c] = phase[c]
    BY <1>2, <1>6 DEF WriteLockReturns, To, Phase
  <2> QED
    BY <1>2, <1>4, <2>1, <2>2, <2>3
<1>7. CASE EndWriteReturns(c)
  <2>1. /\ Returned(c, "Unlock") /\ StoreHandle(c) /\ call[c].lvl = 1
        /\ eLock' = [eLock EXCEPT ![c] = IF eLock[c] = 5 THEN eLock[c] ELSE 1]
        /\ \/ phase' = phase
           \/ phase' = [phase EXCEPT ![c] = "error"]
    BY <1>2, <1>7, Levels DEF EndWriteReturns, UnlockDb, To
  <2>2. call[c].pc = "reply" /\ call[c].op = "Unlock"
    BY <2>1 DEF Returned
  <2>3. call[c].file.pInode /\ phase[c] = "ready" /\ Held(c) >= 1
    BY <2>1, <2>2, Known, Levels DEF BeliefOK, HandleOK
  <2>4. /\ eLock' \in [Client -> 0 .. 5] /\ \A d \in Client \ {c} : eLock'[d] = eLock[d]
        /\ eLock'[c] \in {1, 5}
    BY <1>2, <2>1
  <2>5. /\ phase' \in [Client -> Phase] /\ \A d \in Client \ {c} : phase'[d] = phase[d]
        /\ phase'[c] \in {"ready", "error"}
    BY <1>2, <2>1, <2>3 DEF Phase
  <2> QED
    BY <1>1, <1>2, <2>1, <2>3, <2>4, <2>5 DEF Op
<1>8. CASE PagerUnlockReturns(c)
  <2>1. /\ Returned(c, "Unlock") /\ StoreHandle(c)
        /\ \/ eLock' = [eLock EXCEPT ![c] = 5]
           \/ eLock' = [eLock EXCEPT ![c] = IF eLock[c] = 5 THEN eLock[c] ELSE 0]
        /\ phase' = [phase EXCEPT ![c] = "open"]
    BY <1>2, <1>8, Levels DEF PagerUnlockReturns, UnlockDb, To
  <2>2. call[c].file.pInode
    BY <2>1, Known DEF HandleOK, Returned
  <2>3. /\ eLock' \in [Client -> 0 .. 5] /\ \A d \in Client \ {c} : eLock'[d] = eLock[d]
        /\ eLock'[c] \in {0, 5}
    BY <1>2, <2>1
  <2>4. /\ phase' \in [Client -> Phase] /\ \A d \in Client \ {c} : phase'[d] = phase[d]
        /\ phase'[c] = "open"
    BY <1>2, <2>1 DEF Phase
  <2> QED
    BY <1>1, <1>2, <2>1, <2>2, <2>3, <2>4 DEF Op
<1>9. CASE CheckReservedReturns(c)
  <2>1. /\ Returned(c, "CheckReservedLock") /\ StoreHandle(c) /\ eLock' = eLock
    BY <1>9 DEF CheckReservedReturns
  <2>2. /\ phase' \in [Client -> Phase] /\ \A d \in Client \ {c} : phase'[d] = phase[d]
        /\ phase'[c] \in {"failed", "ready", "hot"}
    BY <1>2, <1>9 DEF CheckReservedReturns, To, Phase
  <2>3. /\ call[c].pc = "reply" /\ call[c].op = "CheckReservedLock" /\ ~Releasing(c)
    BY <2>1 DEF Returned, Releasing
  <2>4. /\ call[c].file.pInode /\ Held(c) >= 1
        /\ eLock[c] # 5 => eLock[c] <= Held(c)
    BY <2>3, Known, Levels DEF BeliefOK, HandleOK
  <2> QED
    BY <1>1, <1>2, <2>1, <2>2, <2>4 DEF Op
<1>10. CASE CloseReturns(c)
  <2>1. /\ Returned(c, "Close") /\ ForgetHandle(c)
        /\ eLock' = [eLock EXCEPT ![c] = 0]
        /\ phase' = [phase EXCEPT ![c] = "closed"]
    BY <1>10, Levels DEF CloseReturns, To
  <2>2. ~call[c].file.pInode
    BY <2>1, Known DEF HandleOK, Returned
  <2>3. /\ eLock' \in [Client -> 0 .. 5] /\ \A d \in Client \ {c} : eLock'[d] = eLock[d]
        /\ eLock'[c] = 0
    BY <1>2, <2>1
  <2>4. /\ phase' \in [Client -> Phase] /\ \A d \in Client \ {c} : phase'[d] = phase[d]
        /\ phase'[c] = "closed"
    BY <1>2, <2>1 DEF Phase
  <2> QED
    BY <1>1, <1>2, <2>1, <2>2, <2>3, <2>4 DEF Op
<1> QED
  BY <1>3, <1>5, <1>6, <1>7, <1>8, <1>9, <1>10 DEF Returns

-----------------------------------------------------------------------------
(* The theorems. *)

\* No file is open, no call is under way, nothing is counted.
LEMMA InitOK == Init => IInv /\ \A c \in Client : Held(c) = 0
<1> SUFFICES ASSUME Init PROVE IInv /\ \A c \in Client : Held(c) = 0
  OBVIOUS
<1> USE Levels
<1>1. /\ call = [c \in Client |-> NoCall] /\ id = [c \in Client |-> ZeroFile]
      /\ eLock = [c \in Client |-> 0] /\ phase = [c \in Client |-> "closed"]
      /\ inode = NoInode /\ fds = {} /\ klock = NoKernelLock
  BY DEF Init, CallInit, ClientInit, PagerInit, ServerInit
<1>2. TypeOK
  <2>1. NoInode \in InodeInfo /\ "closed" \in Phase
    BY DEF NoInode, InodeInfo, Phase
  <2> QED
    BY <1>1, <2>1, ZeroFacts, KernelTypes DEF TypeOK
<1>3. \A c \in Client : File(c) = ZeroFile /\ Held(c) = 0
  BY <1>1, ZeroFacts DEF File, Held
<1>4. HandleInv
  BY <1>1, <1>3, ZeroFacts DEF HandleInv, HandleOK, HasFd
<1>5. BeliefInv
  BY <1>1, <1>3, ZeroFacts DEF BeliefInv, BeliefOK
<1>6. Readers = {} /\ Attached = {}
  BY <1>3, ZeroFacts DEF Readers, Attached
<1>7. Cardinality(Readers) = 0 /\ Cardinality(Attached) = 0
  BY <1>6, FS_EmptySet
<1>8. TableInv /\ ExactInv
  BY <1>1, <1>3, <1>7 DEF TableInv, ExactInv, NoInode
<1> QED
  BY <1>2, <1>3, <1>4, <1>5, <1>8 DEF IInv

\* Every step is a step of one client's pager or of the handler of its call.
LEMMA StepsOK == IInv /\ Next => \E c \in Client : StepOK(c)
<1> SUFFICES ASSUME IInv, NEW c \in Client, ServerStep(c) \/ ClientStep(c)
             PROVE  StepOK(c)
  BY DEF Next
<1>1. CASE ServerStep(c)
  <2>1. Serve(c) /\ UNCHANGED <<id, pagerVars>>
    BY <1>1 DEF ServerStep
  <2>2. CASE Unlock(c)
    <3>1. /\ call[c].pc = "request" /\ call[c].op = "Unlock"
          /\ PosixUnlock(c, call[c].lvl, "reply")
      BY <2>2 DEF Unlock, Requested
    <3>2. call[c].lvl \in {0, 1}
      BY <3>1, Known, Levels DEF BeliefOK
    <3> QED
      BY <2>1, <3>1, <3>2, UnlockStep
  <2>3. CASE CloseUnlocks(c)
    <3>1. /\ call[c].pc = "request" /\ call[c].op = "Close"
          /\ PosixUnlock(c, 0, "close")
      BY <2>3, Levels DEF CloseUnlocks, Requested
    <3> QED
      BY <2>1, <3>1, UnlockStep
  <2>4. CASE Lock(c)
    BY <2>1, <2>4, LockRefused, LockGranted DEF Lock
  <2> QED
    BY <2>1, <2>2, <2>3, <2>4, OpenStep, FillStep, CheckStep, CloseStep DEF Serve
<1>2. CASE ClientStep(c)
  BY <1>2, CallsStep, ReturnsStep DEF ClientStep
<1> QED
  BY <1>1, <1>2

\* A step that changes nothing keeps what is said of the state.
LEMMA Stutter ==
  ASSUME UNCHANGED vars
  PROVE  (IInv => IInv') /\ \A c \in Client : Held(c)' = Held(c)
<1>1. \A c \in Client : Still(c)
  BY DEF vars, Still
<1>2. \A c \in Client : File(c)' = File(c) /\ Held(c)' = Held(c)
  BY <1>1, StillFacts
<1>3. Readers' = Readers /\ Attached' = Attached
  BY <1>2 DEF Readers, Attached
<1>4. TypeOK => TypeOK'
  BY DEF vars, TypeOK
<1>5. (HandleInv => HandleInv') /\ (BeliefInv => BeliefInv')
  BY <1>1, StillFacts DEF HandleInv, BeliefInv
<1>6. (TableInv => TableInv') /\ (ExactInv => ExactInv')
  BY <1>2, <1>3 DEF vars, TableInv, ExactInv
<1> QED
  BY <1>2, <1>4, <1>5, <1>6 DEF IInv

\* The inductive invariant holds in every reachable state: whatever the
\* clients, their pagers and the handler threads do, and in whatever order.
THEOREM Invariance == Spec => []IInv
<1>1. Init => IInv
  BY InitOK
<1>2. IInv /\ [Next]_vars => IInv'
  BY StepsOK, Stutter DEF StepOK
<1> QED
  BY <1>1, <1>2, PTL DEF Spec

\* The counters of the unixInodeInfo never go below zero and every field of
\* every handle and message stays in its range.
THEOREM TypeCorrect == Spec => []TypeOK
<1>1. IInv => TypeOK
  BY DEF IInv
<1> QED
  BY <1>1, Invariance, PTL

\* Pager.eLock never says more than the handle has, on any mount.
THEOREM Belief == Spec => []BeliefIsHeld
<1>1. IInv => BeliefIsHeld
  BY DEF IInv, BeliefInv, BeliefOK, BeliefIsHeld
<1> QED
  BY <1>1, Invariance, PTL

\* While one pager believes that it has the EXCLUSIVE lock, no other believes
\* that it may read: a remote writer never meets a remote reader.
THEOREM Exclusion == Spec => []WriterExcludesReaders
<1>1. ASSUME IInv PROVE WriterExcludesReaders
  <2> SUFFICES ASSUME NEW c \in Client, NEW d \in Client, c # d,
                      eLock[c] = 4, ~Releasing(c), ~Releasing(d)
               PROVE  eLock[d] \in {0, 5}
    BY Levels DEF WriterExcludesReaders
  <2>1. /\ eLock[d] \in 0 .. 5 /\ Held(c) \in 0 .. 4 /\ Held(d) \in 0 .. 4
    BY <1>1, HeldType, Levels DEF IInv, TypeOK
  <2>2. Held(c) = 4
    BY <1>1, <2>1, Levels DEF IInv, BeliefInv, BeliefOK
  <2>3. inode.eFileLock = 4
    BY <1>1, <2>1, <2>2, Levels DEF IInv, TableInv
  <2>4. inode.nShared = 1 /\ Cardinality(Readers) <= inode.nShared
    BY <1>1, <2>3, Levels DEF IInv, TableInv
  <2>5. Readers \subseteq Client /\ c \in Readers
    BY <2>2, Levels DEF Readers
  <2>6. Readers = {c}
    BY <2>4, <2>5, SetCounts
  <2>7. Held(d) = 0
    BY <2>1, <2>6, Levels DEF Readers
  <2> QED
    BY <1>1, <2>1, <2>7, Levels DEF IInv, BeliefInv, BeliefOK
<1>2. IInv => WriterExcludesReaders
  BY <1>1
<1> QED
  BY <1>2, Invariance, PTL

\* Where fcntl() locks can always be given back, the server's counters say
\* exactly what the handles, wherever they are, add up to.
THEOREM TableExact ==
  ASSUME ~NetworkMount
  PROVE  Spec => []TableMatchesHandles
<1>1. ASSUME IInv PROVE TableMatchesHandles
  <2>1. /\ \A c \in Client : Held(c) \in 0 .. 4
        /\ inode.eFileLock \in 0 .. 4 /\ inode.nShared \in Nat
    BY <1>1, HeldType, Levels DEF IInv, TypeOK, InodeInfo
  <2>2. /\ inode.nShared = Cardinality(Readers)
        /\ inode.eFileLock > 1 => \E c \in Client : Held(c) = inode.eFileLock
    BY <1>1, Levels DEF IInv, ExactInv
  <2>3. inode.eFileLock = 1 => \E c \in Client : Held(c) = inode.eFileLock
    <3>1. SUFFICES ASSUME inode.eFileLock = 1 PROVE \E c \in Client : Held(c) = 1
      OBVIOUS
    <3>2. Cardinality(Readers) # 0
      BY <1>1, <2>1, <2>2, <3>1, Levels DEF IInv, TableInv
    <3>3. PICK c \in Client : Held(c) >= 1
      BY <3>2, FS_EmptySet, Levels DEF Readers
    <3> QED
      BY <1>1, <2>1, <3>1, <3>3, Levels DEF IInv, TableInv
  <2> QED
    BY <1>1, <2>1, <2>2, <2>3, Levels DEF IInv, TableInv, TableMatchesHandles
<1>2. IInv => TableMatchesHandles
  BY <1>1
<1> QED
  BY <1>2, Invariance, PTL

\* Seen through the handles, the system is the lock of VfsLock: every step of
\* a client or of the server grants, lowers or leaves a level as it allows.
THEOREM Refinement == Spec => ImplementsVfsLock
<1> DEFINE held == [c \in Client |-> Held(c)]
<1> USE DEF Abstract!NO_LOCK, Abstract!SHARED_LOCK, Abstract!RESERVED_LOCK,
            Abstract!PENDING_LOCK, Abstract!EXCLUSIVE_LOCK
<1>1. Init => Abstract!Init
  BY InitOK DEF Abstract!Init
<1>2. IInv /\ [Next]_vars => [Abstract!Next]_held
  <2>1. ASSUME IInv, NEW c \in Client, StepOK(c) PROVE [Abstract!Next]_held
    <3>1. /\ held[c] = Held(c) /\ \A d \in Client \ {c} : held[d] = Held(d)
          /\ \A d \in Client \ {c} : Held(d)' = Held(d)
      BY <2>1 DEF StepOK
    <3>2. held' = [held EXCEPT ![c] = Held(c)']
      BY <3>1
    <3>3. \/ Held(c)' = Held(c)
          \/ Abstract!Share(c) \/ Abstract!Reserve(c) \/ Abstract!Pend(c) \/ Abstract!Exclude(c)
          \/ \E lvl \in {0, 1} : Abstract!Release(c, lvl)
      BY <2>1, <3>1, <3>2 DEF StepOK, MayGoTo, Abstract!Share, Abstract!Reserve,
         Abstract!Pend, Abstract!Exclude, Abstract!Release, Abstract!Others
    <3>4. Held(c)' = Held(c) => held' = held
      BY <3>1, <3>2
    <3> QED
      BY <3>3, <3>4 DEF Abstract!Next
  <2>2. ASSUME UNCHANGED vars PROVE held' = held
    BY <2>2, Stutter
  <2> QED
    BY <2>1, <2>2, StepsOK
<1> QED
  BY <1>1, <1>2, Invariance, PTL DEF Spec, ImplementsVfsLock, Abstract!Spec
=============================================================================
