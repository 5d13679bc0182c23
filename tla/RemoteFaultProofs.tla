------------------------- MODULE RemoteFaultProofs -------------------------
(***************************************************************************)
(* Proofs about RemoteFault, for any number of dead clients and lost       *)
(* calls, any clients, descriptors and flags, and both values of           *)
(* NetworkMount and RpcMayFail.                                            *)
(*                                                                         *)
(* The equalities of RemoteVfs between the handles and the unixInodeInfo   *)
(* are gone: a dead client's reference and lock stay counted for ever.     *)
(* What is left are bounds, and they are enough to keep the living apart.  *)
(* A handle that a lost reply has emptied holds nothing, so that nothing   *)
(* has to be said about what its pager believes.                           *)
(***************************************************************************)
EXTENDS RemoteFault, RemoteVfsProofs

-----------------------------------------------------------------------------
(* The inductive invariant. *)

\* HandleOK where a handle may be emptied, at the end of a call or of its client.
KeptOK(c) ==
    LET k == call[c] IN
    /\ k.pc = "idle" /\ id[c].pInode => phase[c] # "closed"
    /\ k.pc # "idle" => (k.op = "Open" <=> phase[c] = "closed")
    /\ k.pc = "request" => (k.file.pInode <=> k.op # "Open")
    /\ k.pc = "fill" => k.op = "Open" /\ ~k.file.pInode /\ k.file.eFileLock = NO_LOCK
    /\ k.pc \in {"close", "release"} => k.op = "Close" /\ k.file.pInode
    /\ k.pc = "reply" /\ k.file.pInode =>
          \/ k.op \in {"Lock", "Unlock", "CheckReservedLock"}
          \/ k.op = "Open" /\ k.rc = "OK"
    /\ k.pc = "reply" /\ k.op = "Open" => k.file.eFileLock = NO_LOCK
    /\ phase[c] = "closed" => eLock[c] = NO_LOCK
    /\ HasFd(c)

\* No handle has been emptied: what the pager takes for open is open.
IntactOK(c) ==
    LET k == call[c] IN
    /\ k.pc = "idle" /\ phase[c] # "closed" => id[c].pInode
    /\ k.pc = "reply" /\ k.op \in {"Lock", "Unlock", "CheckReservedLock"} => k.file.pInode
    /\ k.pc = "reply" /\ k.op = "Open" /\ k.rc = "OK" => k.file.pInode

\* A pager whose handle is there believes what is backed by it.
TrustOK(c) == File(c).pInode => BeliefOK(c)

\* TableInv, with a reference count that may be too high.
BoundsInv ==
    /\ Cardinality(Attached) <= inode.nRef
    /\ inode.nLock = inode.nShared
    /\ Cardinality(Readers) <= inode.nShared
    /\ inode.eFileLock = NO_LOCK <=> inode.nShared = 0
    /\ inode.eFileLock = EXCLUSIVE_LOCK => inode.nShared = 1
    /\ \A c \in Client :
          /\ Held(c) <= inode.eFileLock
          /\ Held(c) > SHARED_LOCK => Held(c) = inode.eFileLock
    /\ \A c, d \in Client : c # d /\ Held(c) > SHARED_LOCK => Held(d) <= SHARED_LOCK

\* FInv: the inductive invariant of FaultSpec.
FInv ==
    /\ TypeOK /\ BoundsInv
    /\ \A c \in Client : KeptOK(c) /\ TrustOK(c) /\ (~lossy => IntactOK(c))

-----------------------------------------------------------------------------
(* The unixInodeInfo, over each kind of change. *)

\* Nothing that is counted changes.
LEMMA BoundsKept ==
  ASSUME TypeOK, TypeOK', BoundsInv, NEW c \in Client,
         \A d \in Client \ {c} : Still(d),
         Held(c)' = Held(c), (File(c)'.pInode <=> File(c).pInode),
         inode'.nRef = inode.nRef, inode'.nShared = inode.nShared,
         inode'.nLock = inode.nLock, inode'.eFileLock = inode.eFileLock
  PROVE  BoundsInv'
<1>1. /\ \A d \in Client : Held(d) \in 0 .. 4 /\ Held(d)' \in 0 .. 4
      /\ \A d \in Client \ {c} : Held(d)' = Held(d)
  BY HeldTypes, StillFacts
<1>2. /\ inode.nRef \in Nat /\ inode.nShared \in Nat /\ inode.nLock \in Nat
      /\ inode.eFileLock \in 0 .. 4 /\ inode'.eFileLock \in 0 .. 4
  BY Levels DEF TypeOK, InodeInfo
<1>3. Cardinality(Readers)' = Cardinality(Readers) /\ Cardinality(Attached)' = Cardinality(Attached)
  BY <1>1, Counts, Levels
<1> QED
  BY <1>1, <1>2, <1>3, Levels DEF BoundsInv

\* A reader joins: unixLock with the read lock of the process there already.
LEMMA BoundsJoined ==
  ASSUME TypeOK, TypeOK', BoundsInv, NEW c \in Client,
         \A d \in Client \ {c} : Still(d),
         Held(c) = 0, Held(c)' = 1, (File(c)'.pInode <=> File(c).pInode),
         inode.eFileLock \in {1, 2},
         inode'.nRef = inode.nRef, inode'.nShared = inode.nShared + 1,
         inode'.nLock = inode.nLock + 1, inode'.eFileLock = inode.eFileLock
  PROVE  BoundsInv'
<1>1. /\ \A d \in Client : Held(d) \in 0 .. 4 /\ Held(d)' \in 0 .. 4
      /\ \A d \in Client \ {c} : Held(d)' = Held(d)
  BY HeldTypes, StillFacts
<1>2. /\ inode.nRef \in Nat /\ inode.nShared \in Nat /\ inode.nLock \in Nat
      /\ inode.eFileLock \in 0 .. 4 /\ inode'.eFileLock \in 0 .. 4
  BY Levels DEF TypeOK, InodeInfo
<1>3. /\ Cardinality(Readers)' = Cardinality(Readers) + 1
      /\ Cardinality(Readers) \in Nat
      /\ Cardinality(Attached)' = Cardinality(Attached)
  BY <1>1, Counts, Levels
<1> QED
  BY <1>1, <1>2, <1>3, Levels DEF BoundsInv

\* The first reader: unixLock on an unlocked file.
LEMMA BoundsFirst ==
  ASSUME TypeOK, TypeOK', BoundsInv, NEW c \in Client,
         \A d \in Client \ {c} : Still(d),
         Held(c) = 0, Held(c)' = 1, (File(c)'.pInode <=> File(c).pInode),
         inode.eFileLock = 0,
         inode'.nRef = inode.nRef, inode'.nShared = 1,
         inode'.nLock = inode.nLock + 1, inode'.eFileLock = 1
  PROVE  BoundsInv'
<1>1. /\ \A d \in Client : Held(d) \in 0 .. 4 /\ Held(d)' \in 0 .. 4
      /\ \A d \in Client \ {c} : Held(d)' = Held(d)
  BY HeldTypes, StillFacts
<1>2. /\ inode.nRef \in Nat /\ inode.nShared \in Nat /\ inode.nLock \in Nat
      /\ inode.eFileLock \in 0 .. 4 /\ inode'.eFileLock \in 0 .. 4
  BY Levels DEF TypeOK, InodeInfo
<1>3. /\ Cardinality(Readers)' = Cardinality(Readers) + 1
      /\ Cardinality(Readers) \in Nat
      /\ Cardinality(Attached)' = Cardinality(Attached)
  BY <1>1, Counts, Levels
<1> QED
  BY <1>1, <1>2, <1>3, Levels DEF BoundsInv

\* A reader raises its lock: unixLock of a handle that has what the process has.
LEMMA BoundsRaised ==
  ASSUME TypeOK, TypeOK', BoundsInv, NEW c \in Client,
         \A d \in Client \ {c} : Still(d),
         Held(c) >= 1, Held(c) = inode.eFileLock, Held(c)' >= Held(c), Held(c)' >= 2,
         Held(c)' = 4 => inode.nShared <= 1,
         (File(c)'.pInode <=> File(c).pInode),
         inode'.nRef = inode.nRef, inode'.nShared = inode.nShared,
         inode'.nLock = inode.nLock, inode'.eFileLock = Held(c)'
  PROVE  BoundsInv'
<1>1. /\ \A d \in Client : Held(d) \in 0 .. 4 /\ Held(d)' \in 0 .. 4
      /\ \A d \in Client \ {c} : Held(d)' = Held(d)
  BY HeldTypes, StillFacts
<1>2. /\ inode.nRef \in Nat /\ inode.nShared \in Nat /\ inode.nLock \in Nat
      /\ inode.eFileLock \in 0 .. 4 /\ inode'.eFileLock \in 0 .. 4
  BY Levels DEF TypeOK, InodeInfo
<1>3. /\ Cardinality(Readers)' = Cardinality(Readers)
      /\ Cardinality(Readers) \in Nat
      /\ Held(c)' = 4 => Cardinality(Readers) >= 1
      /\ Held(c)' = 4 => \A d \in Client \ {c} : Held(d) = 0
      /\ Cardinality(Attached)' = Cardinality(Attached)
  <2>1. /\ Held(c)' = 4 => Cardinality(Readers) <= 1
        /\ Cardinality(Readers) <= inode.nShared
    BY <1>2, Counts, Levels, <1>1 DEF BoundsInv
  <2> QED
    BY <1>1, <2>1, Counts, Levels
<1>a. inode.eFileLock = 1 \/ \A d \in Client \ {c} : Held(d) <= 1
  BY <1>1, <1>2, Levels DEF BoundsInv
<1>b. \A d \in Client \ {c} : Held(d) <= 1
  BY <1>1, <1>2, <1>a, Levels DEF BoundsInv
<1> QED
  BY <1>1, <1>2, <1>3, <1>b, Levels DEF BoundsInv

\* A writer goes back to SHARED: posixUnlock to SHARED_LOCK.
LEMMA BoundsLowered ==
  ASSUME TypeOK, TypeOK', BoundsInv, NEW c \in Client,
         \A d \in Client \ {c} : Still(d),
         Held(c) > 1, Held(c)' = 1, (File(c)'.pInode <=> File(c).pInode),
         inode'.nRef = inode.nRef, inode'.nShared = inode.nShared,
         inode'.nLock = inode.nLock, inode'.eFileLock = 1
  PROVE  BoundsInv'
<1>1. /\ \A d \in Client : Held(d) \in 0 .. 4 /\ Held(d)' \in 0 .. 4
      /\ \A d \in Client \ {c} : Held(d)' = Held(d)
  BY HeldTypes, StillFacts
<1>2. /\ inode.nRef \in Nat /\ inode.nShared \in Nat /\ inode.nLock \in Nat
      /\ inode.eFileLock \in 0 .. 4 /\ inode'.eFileLock \in 0 .. 4
  BY Levels DEF TypeOK, InodeInfo
<1>3. /\ Cardinality(Readers)' = Cardinality(Readers)
      /\ Cardinality(Attached)' = Cardinality(Attached)
  BY <1>1, Counts, Levels
<1> QED
  BY <1>1, <1>2, <1>3, Levels DEF BoundsInv

\* One of several readers leaves: posixUnlock to NO_LOCK with nShared > 1.
LEMMA BoundsLeft ==
  ASSUME TypeOK, TypeOK', BoundsInv, NEW c \in Client,
         \A d \in Client \ {c} : Still(d),
         Held(c) >= 1, Held(c)' = 0, (File(c)'.pInode <=> File(c).pInode),
         inode.nShared > 1,
         inode'.nRef = inode.nRef, inode'.nShared = inode.nShared - 1,
         inode'.nLock = inode.nLock - 1,
         inode'.eFileLock = IF Held(c) > 1 THEN 1 ELSE inode.eFileLock
  PROVE  BoundsInv'
<1>1. /\ \A d \in Client : Held(d) \in 0 .. 4 /\ Held(d)' \in 0 .. 4
      /\ \A d \in Client \ {c} : Held(d)' = Held(d)
  BY HeldTypes, StillFacts
<1>2. /\ inode.nRef \in Nat /\ inode.nShared \in Nat /\ inode.nLock \in Nat
      /\ inode.eFileLock \in 0 .. 4 /\ inode'.eFileLock \in 0 .. 4
  BY Levels DEF TypeOK, InodeInfo
<1>3. /\ Cardinality(Readers)' = Cardinality(Readers) - 1
      /\ Cardinality(Readers) \in Nat
      /\ Cardinality(Attached)' = Cardinality(Attached)
  BY <1>1, Counts, Levels
<1> QED
  BY <1>1, <1>2, <1>3, Levels DEF BoundsInv

\* The last reader leaves: posixUnlock to NO_LOCK with nShared = 1.
LEMMA BoundsEmptied ==
  ASSUME TypeOK, TypeOK', BoundsInv, NEW c \in Client,
         \A d \in Client \ {c} : Still(d),
         Held(c) >= 1, Held(c)' = 0, (File(c)'.pInode <=> File(c).pInode),
         inode.nShared <= 1,
         inode'.nRef = inode.nRef, inode'.nShared = inode.nShared - 1,
         inode'.nLock = inode.nLock - 1, inode'.eFileLock = 0
  PROVE  BoundsInv'
<1>1. /\ \A d \in Client : Held(d) \in 0 .. 4 /\ Held(d)' \in 0 .. 4
      /\ \A d \in Client \ {c} : Held(d)' = Held(d)
  BY HeldTypes, StillFacts
<1>2. /\ inode.nRef \in Nat /\ inode.nShared \in Nat /\ inode.nLock \in Nat
      /\ inode.eFileLock \in 0 .. 4 /\ inode'.eFileLock \in 0 .. 4
  BY Levels DEF TypeOK, InodeInfo
<1>3. /\ Cardinality(Readers)' = Cardinality(Readers) - 1
      /\ Cardinality(Readers) \in Nat
      /\ Cardinality(Readers) >= 1
      /\ Cardinality(Readers) <= inode.nShared
      /\ Cardinality(Attached)' = Cardinality(Attached)
  BY <1>1, Counts, Levels DEF BoundsInv
<1>a. \A d \in Client \ {c} : Held(d) = 0
  BY <1>1, <1>2, <1>3, Counts, Levels
<1> QED
  BY <1>1, <1>2, <1>3, <1>a, Levels DEF BoundsInv

\* fillInUnixFile attaches a handle.
LEMMA BoundsAttached ==
  ASSUME TypeOK, TypeOK', BoundsInv, NEW c \in Client,
         \A d \in Client \ {c} : Still(d),
         Held(c) = 0, Held(c)' = 0, ~File(c).pInode, File(c)'.pInode,
         inode'.nRef = inode.nRef + 1, inode'.nShared = inode.nShared,
         inode'.nLock = inode.nLock, inode'.eFileLock = inode.eFileLock
  PROVE  BoundsInv'
<1>1. /\ \A d \in Client : Held(d) \in 0 .. 4 /\ Held(d)' \in 0 .. 4
      /\ \A d \in Client \ {c} : Held(d)' = Held(d)
  BY HeldTypes, StillFacts
<1>2. /\ inode.nRef \in Nat /\ inode.nShared \in Nat /\ inode.nLock \in Nat
      /\ inode.eFileLock \in 0 .. 4 /\ inode'.eFileLock \in 0 .. 4
  BY Levels DEF TypeOK, InodeInfo
<1>3. /\ Cardinality(Readers)' = Cardinality(Readers)
      /\ Cardinality(Attached)' = Cardinality(Attached) + 1
      /\ Cardinality(Attached) \in Nat
  BY <1>1, Counts, Levels
<1> QED
  BY <1>1, <1>2, <1>3, Levels DEF BoundsInv

\* releaseInodeInfo detaches a handle and frees the table with the last one.
LEMMA BoundsDetached ==
  ASSUME TypeOK, TypeOK', BoundsInv, NEW c \in Client,
         \A d \in Client \ {c} : Still(d),
         File(c).pInode, ~File(c)'.pInode,
         inode' = IF inode.nRef = 1 THEN NoInode ELSE [inode EXCEPT !.nRef = @ - 1]
  PROVE  BoundsInv'
<1>1. /\ \A d \in Client : Held(d) \in 0 .. 4 /\ Held(d)' \in 0 .. 4
      /\ \A d \in Client \ {c} : Held(d)' = Held(d)
  BY HeldTypes, StillFacts
<1>2. /\ inode.nRef \in Nat /\ inode.nShared \in Nat /\ inode.nLock \in Nat
      /\ inode.eFileLock \in 0 .. 4 /\ inode'.eFileLock \in 0 .. 4
  BY Levels DEF TypeOK, InodeInfo
<1>a. Held(c)' = 0
  BY Levels DEF Held
<1>b. Cardinality(Attached) \in Nat /\ Cardinality(Attached) >= 1
  BY SetCounts DEF Attached
<1>3. /\ Cardinality(Readers)' \in Nat /\ Cardinality(Readers) \in Nat
      /\ Cardinality(Readers)' <= Cardinality(Readers)
      /\ Cardinality(Attached)' = Cardinality(Attached) - 1
      /\ Cardinality(Attached) <= inode.nRef
  BY <1>1, <1>a, Counts, Levels DEF BoundsInv
<1>4. CASE inode.nRef = 1
  <2>1. \A d \in Client : Held(d)' = 0
    BY <1>1, <1>3, <1>4, <1>a, <1>b, Counts, Levels DEF Held
  <2>2. Readers' = {}
    BY <2>1, Levels DEF Readers
  <2>3. Cardinality(Readers)' = 0
    BY <2>2, FS_EmptySet
  <2>4. /\ inode'.nRef = 0 /\ inode'.nShared = 0 /\ inode'.nLock = 0
        /\ inode'.eFileLock = 0
    BY <1>4, Levels DEF NoInode
  <2> QED
    BY <1>3, <1>4, <1>b, <2>1, <2>3, <2>4, Levels DEF BoundsInv
<1>5. CASE inode.nRef # 1
  <2>1. /\ inode'.nRef = inode.nRef - 1 /\ inode'.nShared = inode.nShared
        /\ inode'.nLock = inode.nLock /\ inode'.eFileLock = inode.eFileLock
    BY <1>5 DEF TypeOK, InodeInfo
  <2> QED
    BY <1>1, <1>2, <1>3, <1>a, <1>b, <2>1, Levels DEF BoundsInv
<1> QED
  BY <1>4, <1>5

\* A handle is lost with its client or with a reply; the table does not learn it.
LEMMA BoundsLost ==
  ASSUME TypeOK, TypeOK', BoundsInv, NEW c \in Client,
         \A d \in Client \ {c} : Still(d), ~File(c)'.pInode, inode' = inode
  PROVE  BoundsInv'
<1>1. /\ \A d \in Client : Held(d) \in 0 .. 4 /\ Held(d)' \in 0 .. 4
      /\ \A d \in Client \ {c} : Held(d)' = Held(d)
  BY HeldTypes, StillFacts
<1>2. /\ inode.nRef \in Nat /\ inode.nShared \in Nat /\ inode.nLock \in Nat
      /\ inode.eFileLock \in 0 .. 4
  BY Levels DEF TypeOK, InodeInfo
<1>3. Held(c)' = 0
  BY Levels DEF Held
<1>4. /\ Cardinality(Readers)' \in Nat /\ Cardinality(Readers) \in Nat
      /\ Cardinality(Readers)' <= Cardinality(Readers)
      /\ Cardinality(Attached) \in Nat
      /\ \/ Cardinality(Attached)' = Cardinality(Attached)
         \/ Cardinality(Attached)' = Cardinality(Attached) - 1
  BY <1>1, <1>3, Counts, Levels
<1> QED
  BY <1>1, <1>2, <1>3, <1>4, Levels DEF BoundsInv

-----------------------------------------------------------------------------
(* The steps of the server, of living clients and with dead ones' leftovers. *)

\* What a handler step does to the types, to its own handle and to the others.
LEMMA FaultServed ==
  ASSUME FInv, NEW c \in Client, call[c].pc # "idle",
         NEW stage \in Stage \ {"idle"}, NEW file \in UnixFile, NEW rc \in ResultCode,
         Proceed(c, stage, file, rc), UNCHANGED <<id, pagerVars>>,
         inode' \in InodeInfo, fds' \in SUBSET Fd, klock' \in KernelLock
  PROVE  Handled(c, stage, file, rc)
<1>1. TypeOK
  BY DEF FInv
<1>2. /\ call' \in [Client -> Call]
      /\ \A d \in Client \ {c} : call'[d] = call[d]
      /\ call'[c].pc = stage /\ call'[c].file = file /\ call'[c].rc = rc
      /\ call'[c].op = call[c].op /\ call'[c].lvl = call[c].lvl
  BY <1>1, ProceedFacts DEF TypeOK
<1>3. TypeOK'
  BY <1>1, <1>2 DEF TypeOK, pagerVars
<1>4. \A d \in Client \ {c} : Still(d)
  BY <1>2 DEF Still, pagerVars
<1>5. File(c) = call[c].file /\ File(c)' = file
  BY <1>2 DEF File
<1> QED
  BY <1>2, <1>3, <1>4, <1>5, Levels DEF Held, pagerVars, Handled

\* A step of c is one that keeps the invariant and that VfsLock allows.
FaultStepOK(c) ==
    /\ FInv'
    /\ MayGoTo(c, Held(c)')
    /\ \A d \in Client \ {c} : Held(d)' = Held(d)

\* What is said of a client is untouched by the steps of the others.
LEMMA FaultStill ==
  ASSUME NEW d \in Client, Still(d), lossy' = lossy
  PROVE  /\ KeptOK(d) => KeptOK(d)'
         /\ IntactOK(d) => IntactOK(d)'
         /\ TrustOK(d) => TrustOK(d)'
<1>1. File(d)' = File(d) /\ (BeliefOK(d) => BeliefOK(d)')
  BY StillFacts
<1> QED
  BY <1>1 DEF Still, KeptOK, HasFd, IntactOK, TrustOK

\* The parts of the invariant give the invariant.
LEMMA FaultAssembled ==
  ASSUME FInv, NEW c \in Client, \A d \in Client \ {c} : Still(d), lossy' = lossy,
         TypeOK', KeptOK(c)', File(c)'.pInode => BeliefOK(c)', ~lossy => IntactOK(c)',
         BoundsInv', MayGoTo(c, Held(c)')
  PROVE  FaultStepOK(c)
<1>1. ASSUME NEW d \in Client
      PROVE  KeptOK(d)' /\ TrustOK(d)' /\ (~lossy => IntactOK(d)')
  <2>1. CASE d = c
    BY <2>1 DEF TrustOK
  <2>2. CASE d # c
    BY <2>2, FaultStill DEF FInv
  <2> QED
    BY <2>1, <2>2
<1> QED
  BY <1>1, StillFacts DEF FInv, FaultStepOK

\* A handler step that changes neither the counts nor its handle's level.
LEMMA BoundsUnmoved ==
  ASSUME FInv, NEW c \in Client, NEW stage, NEW file, NEW rc,
         Handled(c, stage, file, rc),
         Held(c)' = Held(c), File(c)'.pInode <=> File(c).pInode,
         inode'.nRef = inode.nRef, inode'.nShared = inode.nShared,
         inode'.nLock = inode.nLock, inode'.eFileLock = inode.eFileLock
  PROVE  BoundsInv'
BY BoundsKept DEF FInv, Handled

\* unixOpen up to the descriptor.
LEMMA FaultOpenStep ==
  ASSUME FInv, NEW c \in Client, Open(c), UNCHANGED <<id, pagerVars>>, lossy' = lossy
  PROVE  FaultStepOK(c)
<1>1. /\ TypeOK /\ KeptOK(c) /\ BoundsInv
      /\ call[c] \in Call /\ call[c].flags \in Flag
      /\ inode \in InodeInfo /\ klock \in KernelLock /\ fds \in SUBSET Fd
  BY DEF FInv, TypeOK, Call
<1>2. call[c].pc = "request" /\ call[c].op = "Open"
  BY DEF Open, OpenReusesFd, OpenNewFd, OpenFails, Requested
<1>3. PICK stage \in {"fill", "reply"}, file \in UnixFile, rc \in {"OK", "CANTOPEN"} :
         /\ Proceed(c, stage, file, rc)
         /\ stage = "reply" => rc = "CANTOPEN"
         /\ ~file.pInode /\ file.eFileLock = NO_LOCK
         /\ stage = "fill" => file.h # NoFd
         /\ inode' \in InodeInfo /\ fds' \in SUBSET Fd /\ klock' = klock
         /\ inode'.nRef = inode.nRef /\ inode'.nShared = inode.nShared
         /\ inode'.nLock = inode.nLock /\ inode'.eFileLock = inode.eFileLock
  <2>1. CASE OpenReusesFd(c)
    <3>1. PICK u \in Reusable(call[c].flags) :
             /\ inode' = [inode EXCEPT !.pUnused = @ \ {u}]
             /\ Proceed(c, "fill", NewFile(u.fd, u.flags), "OK")
             /\ UNCHANGED <<fds, klock>>
      BY <2>1 DEF OpenReusesFd
    <3>2. u.fd \in Fd /\ u.flags \in Flag
      BY <1>1 DEF Reusable, InodeInfo
    <3>3. inode' \in InodeInfo
      BY <1>1, <3>1 DEF InodeInfo
    <3>4. /\ inode'.nRef = inode.nRef /\ inode'.nShared = inode.nShared
          /\ inode'.nLock = inode.nLock /\ inode'.eFileLock = inode.eFileLock
      BY <1>1, <3>1 DEF InodeInfo
    <3> QED
      BY <1>1, <3>1, <3>2, <3>3, <3>4, NewFileFacts, FdAssumption
  <2>2. CASE OpenNewFd(c)
    <3>1. PICK fd \in Fd \ fds, flags \in {call[c].flags, ReadOnly} :
             /\ fds' = fds \cup {fd}
             /\ Proceed(c, "fill", NewFile(fd, flags), "OK")
             /\ UNCHANGED <<inode, klock>>
      BY <2>2 DEF OpenNewFd
    <3> QED
      BY <1>1, <3>1, NewFileFacts, FlagAssumption, FdAssumption
  <2>3. CASE OpenFails(c)
    BY <1>1, <2>3, ZeroFacts DEF OpenFails, Reply, serverVars
  <2> QED
    BY <2>1, <2>2, <2>3 DEF Open
<1>4. Handled(c, stage, file, rc)
  BY <1>1, <1>2, <1>3, FaultServed DEF Stage, ResultCode
<1>5. ~call[c].file.pInode /\ call[c].file \in UnixFile
  BY <1>1, <1>2, HeldType DEF KeptOK, Op
<1>6. BoundsInv'
  BY <1>1, <1>3, <1>4, <1>5, BoundsKept DEF Handled
<1>7. KeptOK(c)' /\ IntactOK(c)'
  BY <1>1, <1>2, <1>3, <1>4 DEF KeptOK, IntactOK, HasFd, Handled
<1>8. ~File(c)'.pInode
  BY <1>3, <1>4 DEF Handled
<1>9. MayGoTo(c, Held(c)')
  BY <1>3, <1>4, <1>5, Levels, Stays DEF Handled
<1> QED
  BY <1>4, <1>6, <1>7, <1>8, <1>9, FaultAssembled DEF Handled

\* What the invariant says of the client whose call is served.
LEMMA FaultKnown ==
  ASSUME FInv, NEW c \in Client
  PROVE  /\ TypeOK /\ KeptOK(c) /\ BoundsInv
         /\ File(c).pInode => BeliefOK(c)
         /\ ~lossy => IntactOK(c)
         /\ call[c] \in Call /\ call[c].flags \in Flag /\ call[c].lvl \in Level
         /\ call[c].op \in Op /\ call[c].pc \in Stage
         /\ call[c].file \in UnixFile /\ call[c].file.eFileLock \in 0 .. 4
         /\ call[c].file.pInode \in BOOLEAN
         /\ inode \in InodeInfo /\ klock \in KernelLock /\ fds \in SUBSET Fd
         /\ inode.nRef \in Nat /\ inode.nShared \in Nat /\ inode.nLock \in Nat
         /\ inode.eFileLock \in 0 .. 4
<1>1. /\ TypeOK /\ KeptOK(c) /\ BoundsInv
      /\ File(c).pInode => BeliefOK(c)
      /\ ~lossy => IntactOK(c)
      /\ call[c] \in Call
      /\ inode \in InodeInfo /\ klock \in KernelLock /\ fds \in SUBSET Fd
  BY DEF FInv, TypeOK, TrustOK
<1>2. call[c].file \in UnixFile
  BY <1>1, HeldType
<1>3. call[c].file.eFileLock \in 0 .. 4 /\ call[c].file.pInode \in BOOLEAN
  BY <1>2, Levels DEF UnixFile
<1>4. /\ call[c].flags \in Flag /\ call[c].lvl \in Level
      /\ call[c].op \in Op /\ call[c].pc \in Stage
  BY <1>1 DEF Call
<1>5. /\ inode.nRef \in Nat /\ inode.nShared \in Nat /\ inode.nLock \in Nat
      /\ inode.eFileLock \in 0 .. 4
  BY <1>1, Levels DEF InodeInfo
<1> QED
  BY <1>1, <1>2, <1>3, <1>4, <1>5

\* fillInUnixFile.
LEMMA FaultFillStep ==
  ASSUME FInv, NEW c \in Client, Fill(c), UNCHANGED <<id, pagerVars>>, lossy' = lossy
  PROVE  FaultStepOK(c)
<1>1. call[c].pc = "fill"
  BY DEF Fill, FillInUnixFile, FillInFails
<1>2. call[c].op = "Open" /\ ~call[c].file.pInode /\ call[c].file.eFileLock = 0
  BY <1>1, FaultKnown, Levels DEF KeptOK
<1>3. CASE FillInUnixFile(c)
  <2>1. /\ inode' \in InodeInfo /\ inode'.nRef = inode.nRef + 1
        /\ inode'.nShared = inode.nShared /\ inode'.nLock = inode.nLock
        /\ inode'.eFileLock = inode.eFileLock
    BY <1>3, FaultKnown DEF FillInUnixFile, InodeInfo
  <2>2. /\ WithInode(call[c].file) \in UnixFile
        /\ WithInode(call[c].file).pInode
        /\ WithInode(call[c].file).eFileLock = 0
        /\ WithInode(call[c].file).h = call[c].file.h
    BY <1>2, FaultKnown, FileFacts
  <2>3. Handled(c, "reply", WithInode(call[c].file), "OK")
    BY <1>1, <1>3, <2>1, <2>2, FaultKnown, FaultServed DEF FillInUnixFile, Reply, Stage, ResultCode
  <2>4. BoundsInv'
    BY <1>2, <2>1, <2>2, <2>3, FaultKnown, BoundsAttached DEF Handled
  <2>a. call[c].file.h # NoFd
    BY <1>1, FaultKnown DEF KeptOK, HasFd, File
  <2>5. KeptOK(c)' /\ IntactOK(c)'
    BY <1>1, <1>2, <2>2, <2>3, <2>a, FaultKnown, Levels DEF KeptOK, IntactOK, HasFd, Handled
  <2>6. BeliefOK(c)'
    BY <1>1, <1>2, <2>2, <2>3, <2>5, FaultKnown, Levels DEF KeptOK, BeliefOK, Releasing, Handled
  <2>7. MayGoTo(c, Held(c)')
    BY <1>2, <2>2, <2>3, Stays DEF Handled
  <2> QED
    BY <2>3, <2>4, <2>5, <2>6, <2>7, FaultAssembled DEF Handled
<1>4. CASE FillInFails(c)
  <2>1. klock' \in KernelLock /\ fds' \in SUBSET Fd /\ inode' = inode
    BY <1>4, FaultKnown DEF FillInFails, AfterClosing, NoKernelLock, KernelLock, UNLCK, WRLCK
  <2>2. Handled(c, "reply", call[c].file, "NOMEM")
    BY <1>1, <1>4, <2>1, FaultKnown, FaultServed DEF FillInFails, Reply, Stage, ResultCode
  <2>3. BoundsInv'
    BY <1>2, <2>1, <2>2, FaultKnown, BoundsKept DEF Handled
  <2>4. KeptOK(c)' /\ IntactOK(c)'
    BY <1>1, <1>2, <2>2, FaultKnown, Levels DEF KeptOK, IntactOK, HasFd, Handled
  <2>5. ~File(c)'.pInode
    BY <1>2, <2>2 DEF Handled
  <2>6. MayGoTo(c, Held(c)')
    BY <1>2, <2>2, Stays DEF Handled
  <2> QED
    BY <2>2, <2>3, <2>4, <2>5, <2>6, FaultAssembled DEF Handled
<1> QED
  BY <1>3, <1>4 DEF Fill

\* A lock request comes from a handle that backs what its pager believes.
LEMMA FaultLockRequest ==
  ASSUME FInv, NEW c \in Client, Requested(c, "Lock")
  PROVE  /\ call[c].pc = "request" /\ call[c].op = "Lock" /\ call[c].file.pInode
         /\ call[c].lvl \in {1, 2, 4}
         /\ call[c].lvl > 1 => call[c].file.eFileLock >= 1
         /\ Held(c) = call[c].file.eFileLock
         /\ File(c) = call[c].file
<1>1. call[c].pc = "request" /\ call[c].op = "Lock"
  BY DEF Requested
<1>2. call[c].file.pInode
  BY <1>1, FaultKnown DEF KeptOK
<1>3. File(c) = call[c].file
  BY <1>1 DEF File
<1>4. Held(c) = call[c].file.eFileLock
  BY <1>2, <1>3 DEF Held
<1> QED
  BY <1>1, <1>2, <1>3, <1>4, FaultKnown, Levels DEF BeliefOK, Releasing

\* A reply that lowers nothing, and says OK only to what it gave, keeps the belief.
LEMMA FaultLockReplied ==
  ASSUME FInv, NEW c \in Client, Requested(c, "Lock"), lossy' = lossy,
         NEW file \in UnixFile, NEW rc, Handled(c, "reply", file, rc),
         file.pInode, file.h = call[c].file.h, file.eFileLock >= call[c].file.eFileLock,
         rc = "OK" => file.eFileLock >= call[c].lvl
  PROVE  KeptOK(c)' /\ IntactOK(c)' /\ BeliefOK(c)'
<1>1. KeptOK(c)' /\ IntactOK(c)'
  BY FaultLockRequest, FaultKnown DEF KeptOK, IntactOK, HasFd, Handled
<1>2. file.eFileLock \in 0 .. 4 /\ Held(c) = call[c].file.eFileLock
      /\ Held(c)' = file.eFileLock
  BY FaultLockRequest, Levels DEF Handled, UnixFile
<1>3. ~Releasing(c) /\ ~Releasing(c)'
  BY FaultLockRequest DEF Handled, Releasing
<1>4. eLock[c] \in 0 .. 5 /\ call[c].lvl \in 0 .. 4
  BY FaultKnown, Levels DEF TypeOK
<1>5. BeliefOK(c)'
  BY <1>2, <1>3, <1>4, FaultLockRequest, FaultKnown, Levels DEF BeliefOK, Handled
<1> QED
  BY <1>1, <1>5

\* unixLock where it grants nothing.
LEMMA FaultLockRefused ==
  ASSUME FInv, NEW c \in Client, UNCHANGED <<id, pagerVars>>, lossy' = lossy,
         \/ LockAlreadyHeld(c) \/ LockPrecluded(c) \/ LockFirstReaderFails(c)
         \/ LockReserveFails(c) \/ LockPendingFails(c)
  PROVE  FaultStepOK(c)
<1>1. Requested(c, "Lock")
  BY DEF LockAlreadyHeld, LockPrecluded, LockFirstReaderFails, LockReserveFails,
         LockPendingFails, FirstReader, Locking
<1>2. PICK rc \in ResultCode :
         /\ Reply(c, call[c].file, rc)
         /\ inode' = inode /\ fds' = fds /\ klock' \in KernelLock
         /\ rc = "OK" => call[c].file.eFileLock >= call[c].lvl
  <2>1. CASE LockAlreadyHeld(c)
    BY <2>1, FaultKnown DEF LockAlreadyHeld, ResultCode, serverVars
  <2>2. CASE LockPrecluded(c)
    BY <2>2, FaultKnown DEF LockPrecluded, ResultCode, serverVars
  <2>3. CASE LockFirstReaderFails(c)
    <3>1. klock' \in KernelLock
      <4>1. \/ klock' = klock
            \/ klock' = [klock EXCEPT !.pending = UNLCK]
            \/ klock' = [klock EXCEPT !.pending = RDLCK]
            \/ klock' = [klock EXCEPT !.pending = RDLCK, !.shared = RDLCK]
        BY <2>3, Zenon DEF LockFirstReaderFails
      <4>2. klock \in KernelLock
        BY FaultKnown
      <4>3. [klock EXCEPT !.pending = UNLCK] \in KernelLock
        BY <4>2, KernelTyped, KernelTypes, Zenon
      <4>4. [klock EXCEPT !.pending = RDLCK] \in KernelLock
        BY <4>2, KernelTyped, KernelTypes, Zenon
      <4>5. [klock EXCEPT !.pending = RDLCK, !.shared = RDLCK] \in KernelLock
        BY <4>2, KernelTyped, KernelTypes, Zenon
      <4> QED
        BY <4>1, <4>2, <4>3, <4>4, <4>5
    <3> QED
      BY <2>3, <3>1, FaultKnown DEF LockFirstReaderFails, ResultCode
  <2>4. CASE LockReserveFails(c)
    BY <2>4, FaultKnown DEF LockReserveFails, ResultCode, serverVars
  <2>5. CASE LockPendingFails(c)
    BY <2>5, FaultKnown DEF LockPendingFails, ResultCode, serverVars
  <2> QED
    BY <2>1, <2>2, <2>3, <2>4, <2>5
<1>3. Handled(c, "reply", call[c].file, rc)
  BY <1>1, <1>2, FaultKnown, FaultServed, FaultLockRequest DEF Reply, Stage
<1>a. Held(c)' = Held(c) /\ (File(c)'.pInode <=> File(c).pInode)
  BY <1>1, <1>3, FaultLockRequest DEF Handled
<1>4. BoundsInv'
  BY <1>2, <1>3, <1>a, BoundsUnmoved
<1>5. KeptOK(c)' /\ IntactOK(c)' /\ BeliefOK(c)'
  <2>1. /\ call[c].file \in UnixFile /\ call[c].file.pInode
        /\ call[c].file.eFileLock >= call[c].file.eFileLock
    BY <1>1, FaultKnown, FaultLockRequest
  <2> QED
    BY <1>1, <1>2, <1>3, <2>1, FaultLockReplied
<1> QED
  BY <1>3, <1>4, <1>5, <1>a, Stays, FaultAssembled DEF Handled

\* unixLock where it gives the handle a higher level.
LEMMA FaultLockGranted ==
  ASSUME FInv, NEW c \in Client, UNCHANGED <<id, pagerVars>>, lossy' = lossy,
         \/ LockJoinsReaders(c) \/ LockFirstReader(c) \/ LockReserves(c)
         \/ LockStopsAtPending(c) \/ LockExcludes(c)
  PROVE  FaultStepOK(c)
<1>1. Requested(c, "Lock") /\ Locking(c)
  BY DEF LockJoinsReaders, LockFirstReader, LockReserves,
         LockStopsAtPending, LockExcludes, FirstReader, Locking
<1>2. /\ call[c].file.eFileLock < call[c].lvl
      /\ call[c].file.eFileLock = inode.eFileLock \/ (inode.eFileLock < 3 /\ call[c].lvl = 1)
  BY <1>1, FaultLockRequest, FaultKnown, Levels DEF Locking, Precluded
<1>3. ASSUME NEW lvl \in 1 .. 4, NEW rc \in ResultCode,
             Reply(c, WithLock(call[c].file, lvl), rc),
             lvl >= call[c].file.eFileLock, rc = "OK" => lvl >= call[c].lvl,
             MayGoTo(c, lvl),
             inode' \in InodeInfo, fds' = fds, klock' \in KernelLock,
             Handled(c, "reply", WithLock(call[c].file, lvl), rc)
                /\ Held(c)' = lvl /\ (File(c)'.pInode <=> File(c).pInode)
                => BoundsInv'
      PROVE  FaultStepOK(c)
  <2>1. /\ WithLock(call[c].file, lvl) \in UnixFile
        /\ WithLock(call[c].file, lvl).eFileLock = lvl
        /\ WithLock(call[c].file, lvl).pInode
        /\ WithLock(call[c].file, lvl).h = call[c].file.h
    <3>1. lvl \in Level /\ call[c].file \in UnixFile /\ call[c].file.pInode
      BY <1>1, FaultKnown, FaultLockRequest, Levels
    <3> QED
      <4>1. WithLock(call[c].file, lvl).pInode = call[c].file.pInode
        BY <3>1, FileFacts, Zenon
      <4>2. /\ WithLock(call[c].file, lvl) \in UnixFile
            /\ WithLock(call[c].file, lvl).eFileLock = lvl
            /\ WithLock(call[c].file, lvl).h = call[c].file.h
        BY <3>1, FileFacts, Zenon
      <4> QED
        BY <3>1, <4>1, <4>2
  <2>2. Handled(c, "reply", WithLock(call[c].file, lvl), rc)
    BY <1>1, <1>3, <2>1, FaultKnown, FaultServed, FaultLockRequest DEF Reply, Stage
  <2>3. Held(c)' = lvl /\ (File(c)'.pInode <=> File(c).pInode)
    BY <1>1, <2>1, <2>2, FaultLockRequest DEF Handled
  <2>4. KeptOK(c)' /\ IntactOK(c)' /\ BeliefOK(c)'
    BY <1>1, <1>3, <2>1, <2>2, FaultLockReplied
  <2> QED
    BY <1>3, <2>2, <2>3, <2>4, FaultAssembled DEF Handled, MayGoTo
<1>a. \A d \in Client : Held(d) \in 0 .. 4 /\ Held(d) <= inode.eFileLock
  BY FaultKnown, HeldType, Levels DEF BoundsInv
<1>4. CASE LockJoinsReaders(c)
  <2>1. /\ inode' \in InodeInfo /\ inode'.nRef = inode.nRef
        /\ inode'.nShared = inode.nShared + 1 /\ inode'.nLock = inode.nLock + 1
        /\ inode'.eFileLock = inode.eFileLock /\ inode.eFileLock \in {1, 2}
    <3>1. inode' = [inode EXCEPT !.nShared = inode.nShared + 1, !.nLock = inode.nLock + 1]
      BY <1>4, FaultKnown DEF LockJoinsReaders, InodeInfo
    <3>2. inode' \in InodeInfo
      <4>1. inode \in InodeInfo /\ inode.nShared + 1 \in Nat /\ inode.nLock + 1 \in Nat /\ 1 \in Nat
        BY FaultKnown
      <4>2. 1 \in Level
        BY Levels
      <4> QED
        BY <3>1, <4>1, <4>2, InodeTyped, Zenon
    <3>3. inode.eFileLock \in {1, 2}
      BY <1>4, Levels DEF LockJoinsReaders
    <3> QED
      BY <3>1, <3>2, <3>3, FaultKnown DEF InodeInfo
  <2>2. Held(c) = 0 /\ call[c].lvl = 1
    BY <1>1, <1>2, <1>4, FaultLockRequest, FaultKnown, Levels DEF LockJoinsReaders
  <2>3. MayGoTo(c, 1)
    BY <1>a, <2>1, <2>2, FaultKnown DEF MayGoTo
  <2> QED
    BY <1>3, <1>4, <2>1, <2>2, <2>3, FaultKnown, FaultLockRequest, <1>1, Levels, BoundsJoined
       DEF LockJoinsReaders, Handled, ResultCode
<1>5. CASE LockFirstReader(c)
  <2>1. /\ inode' \in InodeInfo /\ inode'.nRef = inode.nRef
        /\ inode'.nShared = 1 /\ inode'.nLock = inode.nLock + 1
        /\ inode'.eFileLock = 1
    <3>1. inode' = [inode EXCEPT !.nShared = 1, !.nLock = inode.nLock + 1, !.eFileLock = 1]
      BY <1>5, FaultKnown, Levels DEF LockFirstReader, InodeInfo
    <3>2. inode' \in InodeInfo
      <4>1. inode \in InodeInfo /\ inode.nShared + 1 \in Nat /\ inode.nLock + 1 \in Nat /\ 1 \in Nat
        BY FaultKnown
      <4>2. 1 \in Level
        BY Levels
      <4> QED
        BY <3>1, <4>1, <4>2, InodeTyped, Zenon
    <3> QED
      BY <3>1, <3>2, FaultKnown DEF InodeInfo
  <2>2. Held(c) = 0 /\ call[c].lvl = 1 /\ inode.eFileLock = 0
    BY <1>1, <1>2, <1>5, FaultLockRequest, FaultKnown, Levels DEF LockFirstReader, FirstReader
  <2>3. klock' \in KernelLock
    BY <1>5, FaultKnown, KernelTyped, KernelTypes DEF LockFirstReader
  <2>4. MayGoTo(c, 1)
    BY <1>a, <2>2, FaultKnown DEF MayGoTo
  <2> QED
    BY <1>3, <1>5, <2>1, <2>2, <2>3, <2>4, FaultKnown, FaultLockRequest, <1>1, Levels, BoundsFirst
       DEF LockFirstReader, Handled, ResultCode
<1>6. ASSUME NEW lvl \in 2 .. 4, NEW rc \in ResultCode, NEW k \in KernelLock,
             Reply(c, WithLock(call[c].file, lvl), rc), call[c].lvl # 1,
             lvl >= call[c].file.eFileLock, rc = "OK" => lvl >= call[c].lvl,
             lvl = 4 => inode.nShared <= 1, lvl = 2 => call[c].lvl = 2,
             inode' = [inode EXCEPT !.eFileLock = lvl], fds' = fds, klock' = k
      PROVE  FaultStepOK(c)
  <2>1. /\ inode' \in InodeInfo /\ inode'.nRef = inode.nRef
        /\ inode'.nShared = inode.nShared /\ inode'.nLock = inode.nLock
        /\ inode'.eFileLock = lvl
    BY <1>6, FaultKnown, Levels DEF InodeInfo
  <2>2. Held(c) = inode.eFileLock /\ Held(c) >= 1 /\ lvl >= Held(c) /\ lvl >= 2
    BY <1>1, <1>2, <1>6, FaultLockRequest, FaultKnown
  <2>3. /\ \A d \in Client \ {c} : Held(d) <= 1
        /\ lvl = 2 => Held(c) = 1
    BY <1>1, <1>2, <1>6, <1>a, <2>2, FaultLockRequest, FaultKnown, Levels DEF BoundsInv
  <2>4. lvl = 4 => \A d \in Client \ {c} : Held(d) = 0
    <3>1. Readers \subseteq Client /\ c \in Readers
      BY <1>a, <2>2, Levels DEF Readers
    <3>2. /\ Cardinality(Readers) \in Nat
          /\ Cardinality(Readers) <= 1 => Readers = {c}
      BY <3>1, SetCounts
    <3>3. lvl = 4 => Cardinality(Readers) <= 1
      BY <1>6, <3>2, FaultKnown DEF BoundsInv
    <3>4. Readers = {c} => \A d \in Client \ {c} : Held(d) = 0
      BY <1>a, Levels DEF Readers
    <3> QED
      BY <3>2, <3>3, <3>4
  <2>5. MayGoTo(c, lvl)
    BY <1>6, <1>a, <2>2, <2>3, <2>4 DEF MayGoTo
  <2> QED
    BY <1>3, <1>6, <2>1, <2>2, <2>5, FaultKnown, BoundsRaised DEF Handled
<1>7. CASE LockReserves(c)
  <2>1. [klock EXCEPT !.reserved = WRLCK] \in KernelLock
    BY FaultKnown, KernelTyped, KernelTypes
  <2> QED
    BY <1>1, <1>2, <1>6, <1>7, <2>1, FaultKnown, Levels DEF LockReserves, ResultCode
<1>8. CASE LockStopsAtPending(c)
  <2>1. [klock EXCEPT !.pending = WRLCK] \in KernelLock
    BY FaultKnown, KernelTyped, KernelTypes
  <2>2. PICK rc \in {"BUSY", "IOERR"} : Reply(c, WithLock(call[c].file, 3), rc)
    BY <1>8, Levels DEF LockStopsAtPending
  <2>3. /\ call[c].lvl = 4 /\ fds' = fds
        /\ inode' = [inode EXCEPT !.eFileLock = 3]
        /\ klock' = [klock EXCEPT !.pending = WRLCK]
    BY <1>8, Levels DEF LockStopsAtPending
  <2> QED
    BY <1>1, <1>2, <1>6, <2>1, <2>2, <2>3, FaultKnown DEF ResultCode
<1>9. CASE LockExcludes(c)
  <2>1. [klock EXCEPT !.pending = WRLCK, !.shared = WRLCK] \in KernelLock
    BY FaultKnown, KernelTyped, KernelTypes
  <2> QED
    BY <1>1, <1>2, <1>6, <1>9, <2>1, FaultKnown, Levels DEF LockExcludes, ResultCode
<1> QED
  BY <1>4, <1>5, <1>7, <1>8, <1>9

\* posixUnlock, called by unixUnlock and by unixClose.
LEMMA FaultUnlockStep ==
  ASSUME FInv, NEW c \in Client, UNCHANGED <<id, pagerVars>>, lossy' = lossy,
         NEW lvl \in {0, 1}, NEW stage \in {"reply", "close"}, call[c].pc = "request",
         \/ call[c].op = "Unlock" /\ call[c].lvl = lvl /\ stage = "reply"
         \/ call[c].op = "Close" /\ lvl = 0 /\ stage = "close",
         PosixUnlock(c, lvl, stage)
  PROVE  FaultStepOK(c)
<1>1. call[c].file.pInode
  BY FaultKnown DEF KeptOK
<1>2. File(c) = call[c].file /\ Held(c) = call[c].file.eFileLock
  BY <1>1 DEF File, Held
<1>3. call[c].op = "Unlock" /\ lvl = 1 => phase[c] = "ready" /\ Held(c) >= 1
  BY <1>1, <1>2, FaultKnown, Levels DEF BeliefOK
<1>4. ASSUME NEW file \in UnixFile, NEW rc \in ResultCode, Proceed(c, stage, file, rc),
             file.pInode <=> call[c].file.pInode, file.h = call[c].file.h,
             file.eFileLock <= lvl \/ (NetworkMount /\ file.eFileLock > 1),
             file.eFileLock = Held(c) \/ (file.eFileLock = lvl /\ lvl < Held(c)),
             lvl = 1 => file.eFileLock >= 1 \/ file.eFileLock = Held(c),
             inode' \in InodeInfo, fds' \in SUBSET Fd, klock' \in KernelLock,
             \/ /\ file.eFileLock = Held(c)
                /\ inode'.nRef = inode.nRef /\ inode'.nShared = inode.nShared
                /\ inode'.nLock = inode.nLock /\ inode'.eFileLock = inode.eFileLock
             \/ /\ Handled(c, stage, file, rc) /\ Held(c)' = file.eFileLock
                /\ File(c)'.pInode <=> File(c).pInode
                => BoundsInv'
      PROVE  FaultStepOK(c)
  <2>1. Handled(c, stage, file, rc)
    BY <1>4, FaultServed DEF Stage
  <2>2. Held(c)' = file.eFileLock /\ (File(c)'.pInode <=> File(c).pInode)
    BY <1>1, <1>2, <1>4, <2>1 DEF Handled
  <2>3. BoundsInv'
    BY <1>2, <1>4, <2>1, <2>2, BoundsUnmoved
  <2>4. file.eFileLock \in 0 .. 4
    BY Levels DEF UnixFile
  <2>5. KeptOK(c)' /\ IntactOK(c)'
    BY <1>1, <1>4, <2>1, <2>4, FaultKnown, Levels DEF KeptOK, IntactOK, HasFd, Handled
  <2>6. Releasing(c)'
    BY <2>1 DEF Releasing, Handled
  <2>7. BeliefOK(c)'
    BY <1>3, <1>4, <2>1, <2>2, <2>4, <2>6, Levels DEF BeliefOK, Handled
  <2>8. MayGoTo(c, Held(c)')
    BY <1>2, <1>4, <2>2, <2>4, FaultKnown DEF MayGoTo
  <2> QED
    BY <2>1, <2>3, <2>5, <2>7, <2>8, FaultAssembled DEF Handled
<1>5. \A l \in {0, 1} : /\ WithLock(call[c].file, l) \in UnixFile
                        /\ WithLock(call[c].file, l).eFileLock = l
                        /\ WithLock(call[c].file, l).pInode <=> call[c].file.pInode
                        /\ WithLock(call[c].file, l).h = call[c].file.h
  <2>1. call[c].file \in UnixFile /\ \A l \in {0, 1} : l \in Level
    BY FaultKnown, Levels
  <2>2. \A l \in Level : /\ WithLock(call[c].file, l) \in UnixFile
                         /\ WithLock(call[c].file, l).eFileLock = l
                         /\ WithLock(call[c].file, l).pInode = call[c].file.pInode
                         /\ WithLock(call[c].file, l).h = call[c].file.h
    BY <2>1 DEF WithLock, UnixFile
  <2> QED
    BY <2>1, <2>2
<1>6. CASE UnlockIsNoop(c, lvl, stage)
  <2>1. call[c].file.eFileLock <= lvl /\ Proceed(c, stage, call[c].file, "OK")
        /\ inode' = inode /\ fds' = fds /\ klock' = klock
    BY <1>6 DEF UnlockIsNoop, serverVars
  <2> QED
    BY <1>2, <1>4, <2>1, FaultKnown DEF ResultCode
<1>7. CASE UnlockFails(c, lvl, stage)
  <2>1. /\ NetworkMount /\ call[c].file.eFileLock > 1
        /\ Proceed(c, stage, call[c].file, "IOERR")
        /\ inode' = inode /\ fds' = fds
        /\ klock' = klock \/ klock' = [klock EXCEPT !.shared = RDLCK]
    BY <1>7, Levels DEF UnlockFails
  <2>2. [klock EXCEPT !.shared = RDLCK] \in KernelLock /\ klock \in KernelLock
    BY FaultKnown, KernelTyped, KernelTypes
  <2> QED
    BY <1>2, <1>4, <2>1, <2>2, FaultKnown DEF ResultCode
<1>8. CASE UnlockToShared(c, lvl, stage)
  <2>1. /\ lvl = 1 /\ call[c].file.eFileLock > 1
        /\ inode' = [inode EXCEPT !.eFileLock = 1]
        /\ klock' = [pending |-> UNLCK, reserved |-> UNLCK, shared |-> RDLCK]
        /\ Proceed(c, stage, WithLock(call[c].file, 1), "OK") /\ fds' = fds
    BY <1>8, Levels DEF UnlockToShared
  <2>2. /\ inode' \in InodeInfo /\ inode'.nRef = inode.nRef
        /\ inode'.nShared = inode.nShared /\ inode'.nLock = inode.nLock
        /\ inode'.eFileLock = 1
    BY <2>1, FaultKnown, Levels DEF InodeInfo
  <2>3. klock' \in KernelLock
    BY <2>1 DEF KernelLock, UNLCK, RDLCK, WRLCK
  <2> QED
    BY <1>2, <1>4, <1>5, <2>1, <2>2, <2>3, FaultKnown, BoundsLowered DEF ResultCode, Handled
<1>9. CASE UnlockLeavesReaders(c, lvl, stage)
  <2>1. /\ lvl = 0 /\ call[c].file.eFileLock > 0 /\ inode.nShared > 1
        /\ Proceed(c, stage, WithLock(call[c].file, 0), "OK") /\ fds' = fds
        /\ \/ klock' = klock
           \/ klock' = [klock EXCEPT !.pending = UNLCK, !.reserved = UNLCK]
    BY <1>9, Levels DEF UnlockLeavesReaders
  <2>2. inode.nLock = inode.nShared
    BY FaultKnown DEF BoundsInv
  <2>3. inode' = [inode EXCEPT !.nShared = inode.nShared - 1, !.nLock = inode.nLock - 1,
                    !.eFileLock = IF Held(c) > 1 THEN 1 ELSE inode.eFileLock]
    BY <1>2, <1>9, FaultKnown, Levels DEF UnlockLeavesReaders, InodeInfo
  <2>4. inode' \in InodeInfo
    <3>1. /\ inode \in InodeInfo /\ inode.nShared - 1 \in Nat /\ inode.nLock - 1 \in Nat
          /\ (IF Held(c) > 1 THEN 1 ELSE inode.eFileLock) \in Level
      BY <2>1, <2>2, FaultKnown, Levels
    <3> QED
      BY <2>3, <3>1, InodeTyped, Zenon
  <2>5. /\ inode'.nRef = inode.nRef /\ inode'.nShared = inode.nShared - 1
        /\ inode'.nLock = inode.nLock - 1
        /\ inode'.eFileLock = IF Held(c) > 1 THEN 1 ELSE inode.eFileLock
    BY <2>3, FaultKnown DEF InodeInfo
  <2>6. klock' \in KernelLock
    <3>1. klock \in KernelLock
      BY FaultKnown
    <3>2. [klock EXCEPT !.pending = UNLCK, !.reserved = UNLCK] \in KernelLock
      BY <3>1, KernelTyped, KernelTypes, Zenon
    <3> QED
      BY <2>1, <3>1, <3>2
  <2> QED
    BY <1>2, <1>4, <1>5, <2>1, <2>4, <2>5, <2>6, FaultKnown, BoundsLeft DEF ResultCode, Handled
<1>10. CASE UnlockLastReader(c, lvl, stage)
  <2>1. /\ lvl = 0 /\ call[c].file.eFileLock > 0 /\ inode.nShared <= 1
        /\ fds' \in SUBSET Fd
    BY <1>10, FaultKnown, Levels DEF UnlockLastReader
  <2>2. PICK rc \in {"OK", "IOERR"} : Proceed(c, stage, WithLock(call[c].file, 0), rc)
    BY <1>10, Levels DEF UnlockLastReader
  <2>3. inode.nLock = inode.nShared /\ inode.nShared \in Nat \ {0}
    <3>1. Cardinality(Readers) \in Nat
      BY ClientAssumption, FS_Subset, FS_CardinalityType DEF Readers
    <3>2. c \in Readers
      BY <1>2, <2>1, FaultKnown, Levels DEF Readers
    <3>3. Cardinality(Readers) # 0
      BY <3>2, ClientAssumption, FS_Subset, FS_EmptySet DEF Readers
    <3> QED
      BY <3>1, <3>3, FaultKnown DEF BoundsInv
  <2>4. inode' = [inode EXCEPT !.nShared = inode.nShared - 1, !.nLock = inode.nLock - 1,
                    !.eFileLock = 0, !.pUnused = {}]
    BY <1>10, FaultKnown, Levels DEF UnlockLastReader, InodeInfo
  <2>5. inode' \in InodeInfo
    <3>1. /\ inode \in InodeInfo /\ inode.nShared - 1 \in Nat /\ inode.nLock - 1 \in Nat
          /\ 0 \in Level
      BY <2>3, FaultKnown, Levels
    <3> QED
      BY <2>4, <3>1, InodeTyped, Zenon
  <2>6. /\ inode'.nRef = inode.nRef /\ inode'.nShared = inode.nShared - 1
        /\ inode'.nLock = inode.nLock - 1 /\ inode'.eFileLock = 0
    BY <2>4, FaultKnown DEF InodeInfo
  <2>7. klock' \in KernelLock
    <3>1. klock \in KernelLock /\ NoKernelLock \in KernelLock
      BY FaultKnown, KernelTypes
    <3>2. [klock EXCEPT !.pending = UNLCK, !.reserved = UNLCK] \in KernelLock
      BY <3>1, KernelTyped, KernelTypes, Zenon
    <3>3. \/ klock' = NoKernelLock \/ klock' = klock
          \/ klock' = [klock EXCEPT !.pending = UNLCK, !.reserved = UNLCK]
      BY <1>10, Zenon DEF UnlockLastReader, AfterClosing
    <3> QED
      BY <3>1, <3>2, <3>3
  <2> QED
    BY <1>2, <1>4, <1>5, <2>1, <2>2, <2>5, <2>6, <2>7, FaultKnown, BoundsEmptied DEF ResultCode, Handled
<1> QED
  BY <1>6, <1>7, <1>8, <1>9, <1>10 DEF PosixUnlock

\* unixCheckReservedLock.
LEMMA FaultCheckStep ==
  ASSUME FInv, NEW c \in Client, CheckReservedLock(c), UNCHANGED <<id, pagerVars>>,
         lossy' = lossy
  PROVE  FaultStepOK(c)
<1>1. call[c].pc = "request" /\ call[c].op = "CheckReservedLock" /\ UNCHANGED serverVars
  BY DEF CheckReservedLock, Requested
<1>2. PICK rc \in ResultCode, out \in BOOLEAN : Answer(c, rc, out)
  BY DEF CheckReservedLock, ResultCode
<1>3. /\ call' \in [Client -> Call]
      /\ \A d \in Client \ {c} : call'[d] = call[d]
      /\ call'[c].pc = "reply" /\ call'[c].file = call[c].file /\ call'[c].rc = rc
      /\ call'[c].op = call[c].op /\ call'[c].lvl = call[c].lvl
  BY <1>2, FaultKnown, AnswerFacts DEF TypeOK
<1>4. TypeOK'
  BY <1>1, <1>3, FaultKnown DEF TypeOK, pagerVars, serverVars
<1>5. \A d \in Client \ {c} : Still(d)
  BY <1>3 DEF Still, pagerVars
<1>6. File(c)' = File(c) /\ Held(c)' = Held(c)
  BY <1>1, <1>3 DEF File, Held
<1>7. BoundsInv'
  BY <1>1, <1>4, <1>5, <1>6, FaultKnown, BoundsKept DEF serverVars
<1>8. KeptOK(c)' /\ IntactOK(c)'
  BY <1>1, <1>3, <1>6, FaultKnown DEF KeptOK, IntactOK, HasFd, File, pagerVars
<1>9. Releasing(c)' <=> Releasing(c)
  BY <1>1, <1>3 DEF Releasing
<1>10. BeliefOK(c)'
  <2>1. File(c).pInode
    BY <1>1, FaultKnown DEF KeptOK, File
  <2> QED
    BY <1>1, <1>3, <1>6, <1>9, <2>1, FaultKnown DEF BeliefOK, pagerVars
<1> QED
  BY <1>4, <1>5, <1>6, <1>7, <1>8, <1>10, Stays, FaultAssembled

\* unixClose after its unixUnlock().
LEMMA FaultCloseStep ==
  ASSUME FInv, NEW c \in Client, Close(c), UNCHANGED <<id, pagerVars>>, lossy' = lossy
  PROVE  FaultStepOK(c)
<1>1. /\ call[c].pc \in {"close", "release"} /\ call[c].op = "Close"
      /\ call[c].file.pInode /\ File(c).pInode
  BY FaultKnown, Levels DEF Close, CloseSetsPendingFd, CloseReleases, KeptOK, File
<1>2. CASE CloseSetsPendingFd(c)
  <2>1. /\ call[c].pc = "close" /\ call[c].file.h # NoFd /\ call[c].file.h \in Fd
        /\ call[c].file.flags \in Flag
    BY <1>2, FaultKnown DEF CloseSetsPendingFd, KeptOK, HasFd, File, UnixFile
  <2>2. PICK file \in {call[c].file, WithoutFd(call[c].file)} :
           /\ Proceed(c, "release", file, "OK")
           /\ UNCHANGED <<fds, klock>>
           /\ \/ inode' = inode
              \/ inode' = [inode EXCEPT !.pUnused = @ \cup
                             {[fd |-> call[c].file.h, flags |-> call[c].file.flags]}]
    BY <1>2, Zenon DEF CloseSetsPendingFd
  <2>3. /\ inode' \in InodeInfo /\ inode'.nRef = inode.nRef
        /\ inode'.nShared = inode.nShared /\ inode'.nLock = inode.nLock
        /\ inode'.eFileLock = inode.eFileLock
    <3>1. CASE inode' = inode
      BY <3>1, FaultKnown
    <3>2. CASE inode' = [inode EXCEPT !.pUnused = @ \cup
                           {[fd |-> call[c].file.h, flags |-> call[c].file.flags]}]
      <4>1. [fd |-> call[c].file.h, flags |-> call[c].file.flags] \in [fd : Fd, flags : Flag]
        BY <2>1
      <4>2. inode.pUnused \cup {[fd |-> call[c].file.h, flags |-> call[c].file.flags]}
              \in SUBSET [fd : Fd, flags : Flag]
        BY <4>1, FaultKnown DEF InodeInfo
      <4> QED
        BY <3>2, <4>2, FaultKnown DEF InodeInfo
    <3> QED
      BY <2>2, <3>1, <3>2
  <2>4. /\ file \in UnixFile /\ file.eFileLock = call[c].file.eFileLock
        /\ file.pInode
    <3>1. call[c].file \in UnixFile
      BY FaultKnown
    <3>2. /\ WithoutFd(call[c].file) \in UnixFile
          /\ WithoutFd(call[c].file).eFileLock = call[c].file.eFileLock
          /\ WithoutFd(call[c].file).pInode = call[c].file.pInode
      BY <3>1 DEF WithoutFd, UnixFile
    <3> QED
      BY <1>1, <3>1, <3>2
  <2>5. Handled(c, "release", file, "OK")
    BY <1>1, <2>2, <2>3, <2>4, FaultKnown, FaultServed DEF Stage, ResultCode
  <2>6. Held(c)' = Held(c) /\ (File(c)'.pInode <=> File(c).pInode)
    BY <1>1, <2>4, <2>5 DEF Handled
  <2>7. BoundsInv'
    BY <2>3, <2>5, <2>6, BoundsUnmoved
  <2>8. KeptOK(c)' /\ IntactOK(c)'
    BY <1>1, <2>4, <2>5, FaultKnown, Levels DEF KeptOK, IntactOK, HasFd, Handled
  <2>9. BeliefOK(c)'
    BY <1>1, <2>5, FaultKnown DEF BeliefOK, Handled, Releasing
  <2> QED
    BY <2>5, <2>6, <2>7, <2>8, <2>9, Stays, FaultAssembled DEF Handled
<1>3. CASE CloseReleases(c)
  <2>1. /\ Proceed(c, "reply", ZeroFile, "OK")
        /\ inode' = IF inode.nRef = 1 THEN NoInode ELSE [inode EXCEPT !.nRef = @ - 1]
        /\ fds' \in SUBSET Fd
        /\ klock' = klock \/ klock' = NoKernelLock
    BY <1>3, FaultKnown, Zenon DEF CloseReleases, Reply, AfterClosing
  <2>2. inode.nRef \in Nat \ {0}
    <3>1. Attached \subseteq Client /\ c \in Attached
      BY <1>1 DEF Attached, File
    <3>2. Cardinality(Attached) >= 1 /\ Cardinality(Attached) \in Nat
      BY <3>1, SetCounts
    <3> QED
      BY <3>2, FaultKnown DEF BoundsInv
  <2>3. inode' \in InodeInfo
    BY <2>1, <2>2, FaultKnown, Levels DEF InodeInfo, NoInode
  <2>4. Handled(c, "reply", ZeroFile, "OK")
    BY <1>1, <2>1, <2>3, FaultKnown, KernelTypes, ZeroFacts, FaultServed DEF Stage, ResultCode
  <2>5. BoundsInv'
    BY <1>1, <2>1, <2>4, FaultKnown, ZeroFacts, BoundsDetached DEF Handled
  <2>6. KeptOK(c)' /\ IntactOK(c)'
    BY <1>1, <2>4, FaultKnown, ZeroFacts DEF KeptOK, IntactOK, HasFd, Handled
  <2>7. BeliefOK(c)'
    BY <1>1, <2>4, FaultKnown DEF BeliefOK, Handled, Releasing
  <2>8. MayGoTo(c, Held(c)')
    BY <1>1, <2>4, ZeroFacts, FaultKnown DEF MayGoTo, Handled
  <2> QED
    BY <2>4, <2>5, <2>6, <2>7, <2>8, FaultAssembled DEF Handled
<1> QED
  BY <1>2, <1>3 DEF Close

-----------------------------------------------------------------------------
(* The steps of the pagers. *)

\* What a client step does to the others and to its own handle.
LEMMA FaultCallSent ==
  ASSUME FInv, NEW c \in Client, NEW op \in Op, NEW lvl \in Level, NEW flags \in Flag,
         Send(c, op, lvl, flags, id[c]), UNCHANGED <<id, pagerVars>>, UNCHANGED serverVars,
         lossy' = lossy, HasMethods(c),
         op = "Open" <=> phase[c] = "closed",
         File(c)'.pInode => BeliefOK(c)'
  PROVE  FaultStepOK(c)
<1>1. id[c] \in UnixFile
  BY FaultKnown, HeldType
<1>2. /\ call' \in [Client -> Call]
      /\ \A d \in Client \ {c} : call'[d] = call[d]
      /\ call[c].pc = "idle" /\ call'[c].pc = "request"
      /\ call'[c].op = op /\ call'[c].lvl = lvl /\ call'[c].file = id[c]
  BY <1>1, FaultKnown, SendFacts DEF TypeOK
<1>3. TypeOK'
  BY <1>2, FaultKnown DEF TypeOK, pagerVars, serverVars
<1>4. \A d \in Client \ {c} : Still(d)
  BY <1>2 DEF Still, pagerVars
<1>5. File(c)' = File(c) /\ Held(c)' = Held(c)
  BY <1>2 DEF File, Held
<1>6. BoundsInv'
  BY <1>3, <1>4, <1>5, FaultKnown, BoundsKept DEF serverVars
<1>7. KeptOK(c)' /\ IntactOK(c)'
  BY <1>2, <1>5, FaultKnown DEF KeptOK, IntactOK, HasFd, File, pagerVars, HasMethods
<1> QED
  BY <1>3, <1>4, <1>5, <1>6, <1>7, Stays, FaultAssembled

\* The pager's calls.
LEMMA FaultCallsStep ==
  ASSUME FInv, NEW c \in Client, Calls(c), HasMethods(c), UNCHANGED serverVars,
         lossy' = lossy
  PROVE  FaultStepOK(c)
<1>1. ASSUME NEW op \in Op, NEW lvl \in Level, NEW flags \in Flag,
             Send(c, op, lvl, flags, id[c]), UNCHANGED <<id, pagerVars>>,
             op = "Open" <=> phase[c] = "closed",
             op = "Lock" => /\ lvl \in {1, 2, 4}
                            /\ lvl > 1 => phase[c] \in {"check", "hot", "ready"},
             op = "Unlock" => /\ lvl \in {0, 1}
                              /\ lvl = 1 => phase[c] = "ready",
             op = "CheckReservedLock" => phase[c] = "check"
      PROVE  FaultStepOK(c)
  <2>1. id[c] \in UnixFile
    BY FaultKnown, HeldType
  <2>2. /\ call[c].pc = "idle" /\ call'[c].pc = "request"
        /\ call'[c].op = op /\ call'[c].lvl = lvl /\ call'[c].file = id[c]
    BY <1>1, <2>1, FaultKnown, SendFacts DEF TypeOK
  <2>3. Held(c)' = Held(c) /\ ~Releasing(c)
    BY <1>1, <2>2 DEF Held, File, Releasing
  <2>4. File(c)'.pInode => BeliefOK(c)'
    BY <1>1, <2>2, <2>3, FaultKnown, Levels DEF BeliefOK, pagerVars, File
  <2> QED
    BY <1>1, <2>4, FaultCallSent
<1>2. CASE OpenDatabase(c)
  BY <1>1, <1>2, Levels DEF OpenDatabase, remoteOpen, Op
<1>3. CASE BeginRead(c)
  BY <1>1, <1>3, Levels, FlagAssumption DEF BeginRead, remoteLock, Op
<1>4. CASE CheckHotJournal(c)
  BY <1>1, <1>4, Levels, FlagAssumption DEF CheckHotJournal, remoteCheckReservedLock, Op
<1>5. CASE BeginHotRollback(c)
  BY <1>1, <1>5, Levels, FlagAssumption DEF BeginHotRollback, remoteLock, Op
<1>6. CASE BeginWrite(c)
  BY <1>1, <1>6, Levels, FlagAssumption DEF BeginWrite, remoteLock, Op
<1>7. CASE BeginCommit(c)
  BY <1>1, <1>7, Levels, FlagAssumption DEF BeginCommit, remoteLock, Op
<1>8. CASE EndWrite(c)
  BY <1>1, <1>8, Levels, FlagAssumption DEF EndWrite, remoteUnlock, Op
<1>9. CASE PagerUnlock(c)
  BY <1>1, <1>9, Levels, FlagAssumption DEF PagerUnlock, remoteUnlock, Op
<1>10. CASE CloseDatabase(c)
  BY <1>1, <1>10, Levels, FlagAssumption DEF CloseDatabase, remoteClose, Op
<1>11. CASE WriterFails(c)
  <2>1. /\ call[c].pc = "idle" /\ phase[c] = "ready"
        /\ phase' = [phase EXCEPT ![c] = "error"]
        /\ call' = call /\ id' = id /\ eLock' = eLock
    BY <1>11 DEF WriterFails, To
  <2>2. TypeOK'
    BY <2>1, FaultKnown DEF TypeOK, Phase, serverVars
  <2>3. phase'[c] = "error" /\ \A d \in Client \ {c} : Still(d)
    BY <2>1, FaultKnown DEF TypeOK, Still
  <2>4. File(c)' = File(c) /\ Held(c)' = Held(c)
    BY <2>1 DEF File, Held
  <2>5. BoundsInv'
    BY <2>2, <2>3, <2>4, FaultKnown, BoundsKept DEF serverVars
  <2>6. KeptOK(c)' /\ IntactOK(c)'
    BY <2>1, <2>3, <2>4, FaultKnown DEF KeptOK, IntactOK, HasFd, HasMethods
  <2>7. File(c)'.pInode => BeliefOK(c)'
    BY <2>1, <2>3, <2>4, FaultKnown DEF BeliefOK, Releasing
  <2> QED
    BY <2>2, <2>3, <2>4, <2>5, <2>6, <2>7, Stays, FaultAssembled
<1> QED
  BY <1>2, <1>3, <1>4, <1>5, <1>6, <1>7, <1>8, <1>9, <1>10, <1>11 DEF Calls

\* The returns: the handle is what the reply brought, except after xClose.
LEMMA FaultReturnsStep ==
  ASSUME FInv, NEW c \in Client, Returns(c), UNCHANGED serverVars, lossy' = lossy
  PROVE  FaultStepOK(c)
<1>1. ASSUME NEW op \in Op, Returned(c, op),
             eLock' \in [Client -> 0 .. 5], \A d \in Client \ {c} : eLock'[d] = eLock[d],
             phase' \in [Client -> Phase], \A d \in Client \ {c} : phase'[d] = phase[d],
             op # "Close" => StoreHandle(c), op = "Close" => ForgetHandle(c),
             call[c].file.pInode => phase'[c] # "closed",
             ~lossy /\ phase'[c] # "closed" => call[c].file.pInode,
             phase'[c] = "closed" => eLock'[c] = 0,
             call[c].file.pInode /\ eLock'[c] # 5 => eLock'[c] <= Held(c),
             call[c].file.pInode /\ phase'[c] \in {"check", "hot", "ready"} => Held(c) >= 1
      PROVE  FaultStepOK(c)
  <2>1. /\ call' \in [Client -> Call]
        /\ \A d \in Client \ {c} : call'[d] = call[d]
        /\ call[c].pc = "reply" /\ call[c].op = op /\ call'[c] = NoCall
    BY <1>1, FaultKnown, ReturnedFacts DEF TypeOK
  <2>2. /\ id' \in [Client -> UnixFile]
        /\ id'[c].pInode <=> call[c].file.pInode
        /\ op # "Close" => id'[c] = call[c].file
        /\ \A d \in Client \ {c} : id'[d] = id[d]
    <3>1. CASE op # "Close"
      BY <1>1, <3>1, FaultKnown DEF StoreHandle, TypeOK
    <3>2. CASE op = "Close"
      <4>1. id \in [Client -> UnixFile] /\ id' = [id EXCEPT ![c].pInode = FALSE]
        BY <1>1, <3>2, FaultKnown DEF ForgetHandle, TypeOK
      <4>2. ~call[c].file.pInode
        BY <2>1, <3>2, FaultKnown DEF KeptOK
      <4>3. [id[c] EXCEPT !.pInode = FALSE] \in UnixFile
        BY <4>1 DEF UnixFile
      <4>4. id' = [id EXCEPT ![c] = [id[c] EXCEPT !.pInode = FALSE]]
        BY <4>1
      <4>5. [id[c] EXCEPT !.pInode = FALSE].pInode = FALSE
        BY <4>1 DEF UnixFile
      <4> QED
        BY <1>1, <3>2, <4>1, <4>2, <4>3, <4>4, <4>5
    <3> QED
      BY <3>1, <3>2
  <2>3. TypeOK'
    BY <1>1, <2>1, <2>2, FaultKnown, Levels DEF TypeOK, serverVars
  <2>4. \A d \in Client \ {c} : Still(d)
    BY <1>1, <2>1, <2>2, FaultKnown DEF TypeOK, Still
  <2>5. File(c)' = id'[c] /\ File(c) = call[c].file
    BY <2>1, ZeroFacts DEF File
  <2>6. File(c)'.pInode <=> File(c).pInode
    BY <2>2, <2>5
  <2>7. Held(c)' = Held(c)
    <3>1. CASE op # "Close"
      BY <2>2, <2>5, <3>1 DEF Held
    <3>2. CASE op = "Close"
      <4>1. ~call[c].file.pInode
        BY <2>1, <3>2, FaultKnown DEF KeptOK
      <4> QED
        BY <2>5, <2>6, <4>1 DEF Held
    <3> QED
      BY <3>1, <3>2
  <2>8. BoundsInv'
    BY <2>3, <2>4, <2>6, <2>7, FaultKnown, BoundsKept DEF serverVars
  <2>9. KeptOK(c)' /\ (~lossy => IntactOK(c)')
    <3>1. HasFd(c)'
      BY <1>1, <2>1, <2>2, <2>5, <2>6, FaultKnown, ZeroFacts DEF KeptOK, HasFd
    <3> QED
      BY <1>1, <2>1, <2>2, <2>4, <3>1, ZeroFacts, Levels DEF KeptOK, IntactOK
  <2>10. File(c)'.pInode => BeliefOK(c)'
    BY <1>1, <2>1, <2>2, <2>4, <2>5, <2>7, ZeroFacts, Levels DEF BeliefOK
  <2> QED
    BY <2>3, <2>4, <2>7, <2>8, <2>9, <2>10, Stays, FaultAssembled
<1>2. /\ eLock \in [Client -> 0 .. 5] /\ phase \in [Client -> Phase]
      /\ eLock = [eLock EXCEPT ![c] = eLock[c]]
      /\ phase = [phase EXCEPT ![c] = phase[c]]
      /\ eLock[c] \in 0 .. 5 /\ phase[c] \in Phase /\ Held(c) \in 0 .. 4
  BY FaultKnown, HeldType, Levels DEF TypeOK
<1>3. CASE OpenReturns(c)
  <2>1. /\ Returned(c, "Open") /\ StoreHandle(c) /\ eLock' = eLock
        /\ phase' = [phase EXCEPT ![c] = IF call[c].rc = "OK" THEN "open" ELSE "closed"]
    BY <1>3 DEF OpenReturns, To
  <2>2. call[c].pc = "reply" /\ call[c].op = "Open"
    BY <2>1 DEF Returned
  <2>3. /\ call[c].file.pInode => call[c].rc = "OK"
        /\ ~lossy /\ call[c].rc = "OK" => call[c].file.pInode
    BY <2>2, FaultKnown DEF KeptOK, IntactOK
  <2>4. eLock[c] = 0
    BY <2>2, FaultKnown, Levels DEF KeptOK
  <2>5. /\ phase' \in [Client -> Phase] /\ \A d \in Client \ {c} : phase'[d] = phase[d]
        /\ phase'[c] = IF call[c].rc = "OK" THEN "open" ELSE "closed"
    BY <1>2, <2>1 DEF Phase
  <2> QED
    BY <1>1, <1>2, <2>1, <2>3, <2>4, <2>5 DEF Op
<1>a. call[c].pc = "reply" => File(c) = call[c].file
  BY DEF File
<1>4. ASSUME Returned(c, "Lock"), StoreHandle(c), LockDb(c),
             phase' \in [Client -> Phase], \A d \in Client \ {c} : phase'[d] = phase[d],
             phase'[c] # "closed",
             phase'[c] \in {"check", "hot", "ready"} =>
                phase[c] \in {"check", "hot", "ready"} \/ call[c].rc = "OK"
      PROVE  FaultStepOK(c)
  <2>1. /\ call[c].pc = "reply" /\ call[c].op = "Lock" /\ ~Releasing(c)
    BY <1>4 DEF Returned, Releasing
  <2>2. /\ ~lossy => call[c].file.pInode
        /\ call[c].file.pInode =>
              /\ call[c].rc = "OK" => call[c].lvl <= Held(c)
              /\ eLock[c] # 5 => eLock[c] <= Held(c)
              /\ phase[c] \in {"check", "hot", "ready"} => Held(c) >= 1
              /\ call[c].lvl >= 1
        /\ call[c].lvl \in 0 .. 4
    BY <1>a, <2>1, FaultKnown, Levels DEF BeliefOK, IntactOK
  <2>3. /\ eLock' \in [Client -> 0 .. 5] /\ \A d \in Client \ {c} : eLock'[d] = eLock[d]
        /\ \/ eLock'[c] = eLock[c]
           \/ eLock'[c] = call[c].lvl /\ call[c].rc = "OK"
    BY <1>2, <1>4, <2>2, Levels DEF LockDb
  <2> QED
    BY <1>1, <1>2, <1>4, <2>2, <2>3 DEF Op
<1>5. CASE SharedLockReturns(c)
  <2>1. Returned(c, "Lock") /\ StoreHandle(c) /\ LockDb(c)
    BY <1>5 DEF SharedLockReturns
  <2>2. phase[c] # "closed"
    BY <2>1, FaultKnown DEF Returned, KeptOK
  <2>3. /\ phase' \in [Client -> Phase] /\ \A d \in Client \ {c} : phase'[d] = phase[d]
        /\ \/ call[c].rc = "OK" /\ phase'[c] = "check"
           \/ phase'[c] = "failed"
           \/ phase'[c] = phase[c]
    BY <1>2, <1>5 DEF SharedLockReturns, To, Phase
  <2> QED
    BY <1>2, <1>4, <2>1, <2>2, <2>3
<1>6. CASE WriteLockReturns(c)
  <2>1. Returned(c, "Lock") /\ StoreHandle(c) /\ LockDb(c)
    BY <1>6 DEF WriteLockReturns
  <2>2. phase[c] # "closed"
    BY <2>1, FaultKnown DEF Returned, KeptOK
  <2>3. /\ phase' \in [Client -> Phase] /\ \A d \in Client \ {c} : phase'[d] = phase[d]
        /\ \/ call[c].rc = "OK" /\ phase'[c] = "ready"
           \/ phase'[c] = "failed"
           \/ phase'[c] = phase[c]
    BY <1>2, <1>6 DEF WriteLockReturns, To, Phase
  <2> QED
    BY <1>2, <1>4, <2>1, <2>2, <2>3
<1>7. CASE EndWriteReturns(c)
  <2>1. /\ Returned(c, "Unlock") /\ StoreHandle(c) /\ call[c].lvl = 1
        /\ eLock' = [eLock EXCEPT ![c] = IF eLock[c] = 5 THEN eLock[c] ELSE 1]
        /\ \/ phase' = phase
           \/ phase' = [phase EXCEPT ![c] = "error"]
    BY <1>2, <1>7, Levels DEF EndWriteReturns, UnlockDb, To
  <2>2. call[c].pc = "reply" /\ call[c].op = "Unlock"
    BY <2>1 DEF Returned
  <2>3. /\ ~lossy => call[c].file.pInode
        /\ call[c].file.pInode => Held(c) >= 1
        /\ phase[c] # "closed"
    BY <1>a, <2>1, <2>2, FaultKnown, Levels DEF BeliefOK, KeptOK, IntactOK
  <2>4. /\ eLock' \in [Client -> 0 .. 5] /\ \A d \in Client \ {c} : eLock'[d] = eLock[d]
        /\ eLock'[c] \in {1, 5}
    BY <1>2, <2>1
  <2>5. /\ phase' \in [Client -> Phase] /\ \A d \in Client \ {c} : phase'[d] = phase[d]
        /\ phase'[c] # "closed"
    BY <1>2, <2>1, <2>3 DEF Phase
  <2> QED
    BY <1>1, <1>2, <2>1, <2>3, <2>4, <2>5 DEF Op
<1>8. CASE PagerUnlockReturns(c)
  <2>1. /\ Returned(c, "Unlock") /\ StoreHandle(c)
        /\ \/ eLock' = [eLock EXCEPT ![c] = 5]
           \/ eLock' = [eLock EXCEPT ![c] = IF eLock[c] = 5 THEN eLock[c] ELSE 0]
        /\ phase' = [phase EXCEPT ![c] = "open"]
    BY <1>2, <1>8, Levels DEF PagerUnlockReturns, UnlockDb, To
  <2>2. ~lossy => call[c].file.pInode
    BY <2>1, FaultKnown DEF IntactOK, Returned
  <2>3. /\ eLock' \in [Client -> 0 .. 5] /\ \A d \in Client \ {c} : eLock'[d] = eLock[d]
        /\ eLock'[c] \in {0, 5}
    BY <1>2, <2>1
  <2>4. /\ phase' \in [Client -> Phase] /\ \A d \in Client \ {c} : phase'[d] = phase[d]
        /\ phase'[c] = "open"
    BY <1>2, <2>1 DEF Phase
  <2> QED
    BY <1>1, <1>2, <2>1, <2>2, <2>3, <2>4 DEF Op
<1>9. CASE CheckReservedReturns(c)
  <2>1. /\ Returned(c, "CheckReservedLock") /\ StoreHandle(c) /\ eLock' = eLock
    BY <1>9 DEF CheckReservedReturns
  <2>2. /\ phase' \in [Client -> Phase] /\ \A d \in Client \ {c} : phase'[d] = phase[d]
        /\ phase'[c] \in {"failed", "ready", "hot"}
    BY <1>2, <1>9 DEF CheckReservedReturns, To, Phase
  <2>3. /\ call[c].pc = "reply" /\ call[c].op = "CheckReservedLock" /\ ~Releasing(c)
    BY <2>1 DEF Returned, Releasing
  <2>4. /\ ~lossy => call[c].file.pInode
        /\ call[c].file.pInode =>
              Held(c) >= 1 /\ (eLock[c] # 5 => eLock[c] <= Held(c))
    BY <1>a, <2>3, FaultKnown, Levels DEF BeliefOK, IntactOK
  <2> QED
    BY <1>1, <1>2, <2>1, <2>2, <2>4 DEF Op
<1>10. CASE CloseReturns(c)
  <2>1. /\ Returned(c, "Close") /\ ForgetHandle(c)
        /\ eLock' = [eLock EXCEPT ![c] = 0]
        /\ phase' = [phase EXCEPT ![c] = "closed"]
    BY <1>10, Levels DEF CloseReturns, To
  <2>2. ~call[c].file.pInode
    BY <2>1, FaultKnown DEF KeptOK, Returned
  <2>3. /\ eLock' \in [Client -> 0 .. 5] /\ \A d \in Client \ {c} : eLock'[d] = eLock[d]
        /\ eLock'[c] = 0
    BY <1>2, <2>1
  <2>4. /\ phase' \in [Client -> Phase] /\ \A d \in Client \ {c} : phase'[d] = phase[d]
        /\ phase'[c] = "closed"
    BY <1>2, <2>1 DEF Phase
  <2> QED
    BY <1>1, <1>2, <2>1, <2>2, <2>3, <2>4 DEF Op
<1> QED
  BY <1>3, <1>5, <1>6, <1>7, <1>8, <1>9, <1>10 DEF Returns

-----------------------------------------------------------------------------
(* The faults. *)

\* gRPC gives up: the client will store an empty handle.
LEMMA RpcFailsStep ==
  ASSUME FInv, NEW c \in Client, RpcFails(c), lossy' = lossy
  PROVE  FaultStepOK(c)
<1>1. /\ lossy /\ call[c].pc \in {"request", "reply"}
      /\ Proceed(c, "reply", ZeroFile, "OK")
      /\ UNCHANGED <<id, pagerVars>> /\ inode' = inode /\ fds' = fds /\ klock' = klock
  BY DEF RpcFails, serverVars
<1>2. Handled(c, "reply", ZeroFile, "OK")
  BY <1>1, FaultKnown, ZeroFacts, FaultServed DEF Stage, ResultCode
<1>3. ~File(c)'.pInode
  BY <1>2, ZeroFacts DEF Handled
<1>4. BoundsInv'
  BY <1>1, <1>2, <1>3, FaultKnown, BoundsLost DEF Handled
<1>5. KeptOK(c)'
  BY <1>1, <1>2, FaultKnown, ZeroFacts DEF KeptOK, HasFd, Handled
<1>6. MayGoTo(c, Held(c)')
  BY <1>2, ZeroFacts, FaultKnown DEF MayGoTo, Handled
<1> QED
  BY <1>1, <1>2, <1>3, <1>4, <1>5, <1>6, FaultAssembled DEF Handled

\* A pager goes on without a handle.
LEMMA NothingStep ==
  ASSUME FInv, NEW c \in Client, lossy' = lossy, NEW p \in Phase, NEW e \in 0 .. 5,
         call[c].pc = "idle", ~HasMethods(c), p = "closed" => e = 0,
         phase' = [phase EXCEPT ![c] = p], eLock' = [eLock EXCEPT ![c] = e],
         UNCHANGED <<call, id, serverVars>>
  PROVE  FaultStepOK(c)
<1>1. lossy /\ ~File(c).pInode /\ ~id[c].pInode
  BY FaultKnown DEF IntactOK, HasMethods, File
<1>2. TypeOK'
  BY FaultKnown, Levels DEF TypeOK, serverVars
<1>3. phase'[c] = p /\ eLock'[c] = e /\ \A d \in Client \ {c} : Still(d)
  BY FaultKnown DEF TypeOK, Still
<1>4. File(c)' = File(c) /\ Held(c)' = Held(c)
  BY DEF File, Held
<1>5. BoundsInv'
  BY <1>1, <1>2, <1>3, <1>4, FaultKnown, BoundsLost DEF serverVars
<1>6. KeptOK(c)'
  BY <1>1, <1>3, <1>4, FaultKnown, Levels DEF KeptOK, HasFd
<1> QED
  BY <1>1, <1>2, <1>3, <1>4, <1>5, <1>6, Stays, FaultAssembled

\* A client dies: its handle is gone, and what it held is free to nobody.
LEMMA ClientDiesStep ==
  ASSUME FInv, NEW c \in Client, ClientDies(c), lossy' = lossy
  PROVE  FaultStepOK(c)
<1>1. /\ call' = [call EXCEPT ![c] = NoCall] /\ id' = [id EXCEPT ![c] = ZeroFile]
      /\ eLock' = [eLock EXCEPT ![c] = 0] /\ phase' = [phase EXCEPT ![c] = "closed"]
      /\ inode' = inode /\ fds' = fds /\ klock' = klock
  BY Levels DEF ClientDies, To, serverVars
<1>2. TypeOK'
  BY <1>1, FaultKnown, ZeroFacts, Levels DEF TypeOK, Phase
<1>3. /\ call'[c] = NoCall /\ id'[c] = ZeroFile /\ eLock'[c] = 0 /\ phase'[c] = "closed"
      /\ \A d \in Client \ {c} : Still(d)
  BY <1>1, FaultKnown DEF TypeOK, Still
<1>4. File(c)' = ZeroFile /\ ~File(c)'.pInode
  BY <1>3, ZeroFacts DEF File
<1>5. BoundsInv'
  BY <1>1, <1>2, <1>3, <1>4, FaultKnown, BoundsLost
<1>6. KeptOK(c)' /\ IntactOK(c)'
  BY <1>3, <1>4, ZeroFacts, Levels DEF KeptOK, IntactOK, HasFd
<1>7. MayGoTo(c, Held(c)')
  <2>1. Held(c)' = 0 /\ Held(c) \in 0 .. 4
    BY <1>4, FaultKnown, HeldType, Levels DEF Held
  <2> QED
    BY <2>1 DEF MayGoTo
<1> QED
  BY <1>2, <1>3, <1>4, <1>5, <1>6, <1>7, FaultAssembled

-----------------------------------------------------------------------------
(* The theorems. *)

\* Every step keeps the invariant and is one that VfsLock allows.
LEMMA FaultStepsOK == FInv /\ FaultNext => \E c \in Client : FaultStepOK(c)
<1> SUFFICES ASSUME FInv, NEW c \in Client, FaultStep(c), lossy' = lossy
             PROVE  FaultStepOK(c)
  BY DEF FaultNext
<1>1. CASE ServerStep(c)
  <2>1. Serve(c) /\ UNCHANGED <<id, pagerVars>>
    BY <1>1 DEF ServerStep
  <2>2. CASE Unlock(c)
    <3>1. /\ call[c].pc = "request" /\ call[c].op = "Unlock"
          /\ PosixUnlock(c, call[c].lvl, "reply")
      BY <2>2 DEF Unlock, Requested
    <3>2. File(c).pInode
      BY <3>1, FaultKnown DEF KeptOK, File
    <3>3. call[c].lvl \in {0, 1}
      BY <3>1, <3>2, FaultKnown, Levels DEF BeliefOK
    <3> QED
      BY <2>1, <3>1, <3>3, FaultUnlockStep
  <2>3. CASE CloseUnlocks(c)
    <3>1. /\ call[c].pc = "request" /\ call[c].op = "Close"
          /\ PosixUnlock(c, 0, "close")
      BY <2>3, Levels DEF CloseUnlocks, Requested
    <3> QED
      BY <2>1, <3>1, FaultUnlockStep
  <2>4. CASE Lock(c)
    BY <2>1, <2>4, FaultLockRefused, FaultLockGranted DEF Lock
  <2> QED
    BY <2>1, <2>2, <2>3, <2>4, FaultOpenStep, FaultFillStep, FaultCheckStep, FaultCloseStep DEF Serve
<1>2. CASE PagerCalls(c)
  BY <1>2, FaultCallsStep DEF PagerCalls
<1>3. CASE Returns(c) /\ UNCHANGED <<serverVars, crashes>>
  BY <1>3, FaultReturnsStep
<1>4. /\ eLock \in [Client -> 0 .. 5] /\ eLock = [eLock EXCEPT ![c] = eLock[c]]
      /\ eLock[c] \in 0 .. 5
  BY FaultKnown, Levels DEF TypeOK
<1>5. CASE LocksNothing(c)
  BY <1>4, <1>5, NothingStep DEF LocksNothing, To, Phase
<1>6. CASE UnlocksNothing(c)
  BY <1>4, <1>6, NothingStep DEF UnlocksNothing, To, Phase
<1>7. CASE ClosesNothing(c)
  <2>1. /\ call[c].pc = "idle" /\ ~HasMethods(c)
        /\ phase' = [phase EXCEPT ![c] = "closed"] /\ eLock' = [eLock EXCEPT ![c] = 0]
        /\ UNCHANGED <<call, id, serverVars>>
    BY <1>7, Levels DEF ClosesNothing, To
  <2>2. "closed" \in Phase /\ 0 \in 0 .. 5
    BY DEF Phase
  <2> QED
    BY <2>1, <2>2, NothingStep
<1> QED
  BY <1>1, <1>2, <1>3, <1>5, <1>6, <1>7, RpcFailsStep, ClientDiesStep DEF FaultStep

\* No file is open, no call is under way, nothing is counted.
LEMMA FaultInitOK == Init => FInv
<1> SUFFICES ASSUME Init PROVE FInv
  OBVIOUS
<1>1. IInv
  BY InitOK
<1>2. eLock = [c \in Client |-> NO_LOCK]
  BY DEF Init, PagerInit
<1>3. BoundsInv
  <2>1. inode.nRef \in Nat
    BY <1>1 DEF IInv, TypeOK, InodeInfo
  <2> QED
    BY <1>1, <2>1 DEF IInv, TableInv, BoundsInv
<1>4. \A c \in Client : KeptOK(c) /\ TrustOK(c) /\ IntactOK(c)
  BY <1>1, <1>2 DEF IInv, HandleInv, BeliefInv, HandleOK, KeptOK, TrustOK, IntactOK
<1> QED
  BY <1>1, <1>3, <1>4 DEF IInv, FInv

\* A step that changes nothing keeps what is said of the state.
LEMMA FaultStutter ==
  ASSUME UNCHANGED faultVars
  PROVE  (FInv => FInv') /\ \A c \in Client : Held(c)' = Held(c)
<1>1. lossy' = lossy /\ inode' = inode /\ \A c \in Client : Still(c)
  BY DEF faultVars, vars, Still
<1>2. \A c \in Client : File(c)' = File(c) /\ Held(c)' = Held(c)
  BY <1>1, StillFacts
<1>3. Readers' = Readers /\ Attached' = Attached
  BY <1>2 DEF Readers, Attached
<1>4. TypeOK => TypeOK'
  BY DEF faultVars, vars, TypeOK
<1>5. BoundsInv => BoundsInv'
  BY <1>1, <1>2, <1>3 DEF BoundsInv
<1> QED
  BY <1>1, <1>2, <1>4, <1>5, FaultStill DEF FInv

\* The inductive invariant holds whatever dies and whatever is lost.
THEOREM FaultInvariance == FaultSpec => []FInv
<1>1. FaultInit => FInv
  BY FaultInitOK DEF FaultInit
<1>2. FInv /\ [FaultNext]_faultVars => FInv'
  BY FaultStepsOK, FaultStutter DEF FaultStepOK
<1> QED
  BY <1>1, <1>2, PTL DEF FaultSpec

\* Whatever dies and whatever is lost, the unixInodeInfo counts at least the
\* handles that are left, and has at least the level of each.
THEOREM FaultTableBounds == FaultSpec => []TableBoundsHandles
<1>1. FInv => TableBoundsHandles
  BY DEF FInv, BoundsInv, TableBoundsHandles
<1> QED
  BY <1>1, FaultInvariance, PTL

\* While no call is lost, any number of clients may die with their locks: a
\* living pager has what it believes in, and a writer is alone.
THEOREM CrashExclusion == FaultSpec => []CrashesKeepExclusion
<1>1. ASSUME FInv, ~lossy, NEW c \in Client, ~Releasing(c), eLock[c] # 5
      PROVE  eLock[c] <= Held(c) /\ eLock[c] \in 0 .. 4 /\ Held(c) \in 0 .. 4
  <2>1. eLock[c] \in 0 .. 5 /\ Held(c) \in 0 .. 4
    BY <1>1, FaultKnown, HeldType, Levels DEF TypeOK
  <2>2. CASE File(c).pInode
    BY <1>1, <2>1, <2>2, FaultKnown, Levels DEF BeliefOK
  <2>3. CASE ~File(c).pInode
    <3>1. phase[c] = "closed"
      BY <1>1, <2>3, FaultKnown DEF KeptOK, IntactOK, File, Releasing, Call, Op, Stage
    <3> QED
      BY <1>1, <2>1, <3>1, FaultKnown, Levels DEF KeptOK
  <2> QED
    BY <2>2, <2>3
<1>2. ASSUME FInv, ~lossy PROVE BeliefIsHeld
  BY <1>1, <1>2, Levels DEF BeliefIsHeld
<1>3. ASSUME FInv, ~lossy PROVE WriterExcludesReaders
  <2> SUFFICES ASSUME NEW c \in Client, NEW d \in Client, c # d,
                      eLock[c] = 4, ~Releasing(c), ~Releasing(d)
               PROVE  eLock[d] \in {0, 5}
    BY Levels DEF WriterExcludesReaders
  <2>1. Held(c) = 4
    BY <1>1, <1>3
  <2>2. inode.nShared = 1 /\ Cardinality(Readers) <= inode.nShared
    BY <1>3, <2>1, Levels DEF FInv, BoundsInv
  <2>3. Readers \subseteq Client /\ c \in Readers
    BY <2>1, Levels DEF Readers
  <2>4. Readers = {c}
    BY <2>2, <2>3, SetCounts
  <2>5. eLock[d] # 5 => Held(d) = 0
    BY <1>1, <1>3, <2>4, Levels DEF Readers
  <2> QED
    BY <1>1, <1>3, <2>5
<1>4. FInv => CrashesKeepExclusion
  BY <1>2, <1>3 DEF CrashesKeepExclusion
<1> QED
  BY <1>4, FaultInvariance, PTL

\* Seen through the handles, the system is still the lock of VfsLock: a client
\* that dies and a reply that is lost look like a lock given back.
THEOREM FaultRefinement == FaultSpec => ImplementsVfsLock
<1> DEFINE held == [c \in Client |-> Held(c)]
<1> USE DEF Abstract!NO_LOCK, Abstract!SHARED_LOCK, Abstract!RESERVED_LOCK,
            Abstract!PENDING_LOCK, Abstract!EXCLUSIVE_LOCK
<1>1. FaultInit => Abstract!Init
  BY InitOK DEF FaultInit, Abstract!Init
<1>2. FInv /\ [FaultNext]_faultVars => [Abstract!Next]_held
  <2>1. ASSUME FInv, NEW c \in Client, FaultStepOK(c) PROVE [Abstract!Next]_held
    <3>1. /\ held[c] = Held(c) /\ \A d \in Client \ {c} : held[d] = Held(d)
          /\ \A d \in Client \ {c} : Held(d)' = Held(d)
      BY <2>1 DEF FaultStepOK
    <3>2. held' = [held EXCEPT ![c] = Held(c)']
      BY <3>1
    <3>3. \/ Held(c)' = Held(c)
          \/ Abstract!Share(c) \/ Abstract!Reserve(c) \/ Abstract!Pend(c) \/ Abstract!Exclude(c)
          \/ \E lvl \in {0, 1} : Abstract!Release(c, lvl)
      BY <2>1, <3>1, <3>2 DEF FaultStepOK, MayGoTo, Abstract!Share, Abstract!Reserve,
         Abstract!Pend, Abstract!Exclude, Abstract!Release, Abstract!Others
    <3>4. Held(c)' = Held(c) => held' = held
      BY <3>1, <3>2
    <3> QED
      BY <3>3, <3>4 DEF Abstract!Next
  <2>2. ASSUME UNCHANGED faultVars PROVE held' = held
    BY <2>2, FaultStutter
  <2> QED
    BY <2>1, <2>2, FaultStepsOK
<1> QED
  BY <1>1, <1>2, FaultInvariance, PTL DEF FaultSpec, ImplementsVfsLock, Abstract!Spec
=============================================================================
