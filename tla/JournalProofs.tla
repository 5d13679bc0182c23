---------------------------- MODULE JournalProofs ----------------------------
(***************************************************************************)
(* Proofs about the rollback journal of PagerCommit while a transaction    *)
(* writes: its records are those of the pages the pager has changed, and   *)
(* Pager.nRec, journalHdr and journalOff describe it.                      *)
(***************************************************************************)
EXTENDS PagerCommitProofs

USE DEF NO_LOCK, SHARED_LOCK, RESERVED_LOCK, PENDING_LOCK, EXCLUSIVE_LOCK, Level

-----------------------------------------------------------------------------
(* The checksum seeds. *)

\* Every journal, present, deleted or on the disk, is of a transaction that was
\* started: the seed of the next one passes no checksum of theirs.
OldSlot(n) == {s \in PagedSlot : s.key <= n}

OldKeys == /\ jrnl \in [Slot -> OldSlot(nTxn)] /\ jDisk \in [Slot -> SUBSET OldSlot(nTxn)]
           /\ ghosts \subseteq [Slot -> OldSlot(nTxn)]

\* The pager x is in a transaction that has a journal.
Writes(x) == x.state \in Writing /\ x.pc # "unlock"

Mine(x, j) == {i \in Slot : j[i].kind = "rec" /\ j[i].key = x.txn}

\* The pages in the journal, page 1 apart.
Body(x) == Cardinality(x.inJournal \ {1})
PageOne(x) == IF 1 \in x.inJournal THEN 1 ELSE 0

\* Between the second sync of a journal and its next header or its end.
Between(x) ==
    \/ x.op = "spill" /\ x.pc = "newhdr"
    \/ x.op = "commit" /\ x.pc \in {"write", "dbsync"}
    \/ x.op = "rollback"
    \/ x.state = "WRITER_FINISHED"

\* How journalHdr, journalOff and nRec go together, and why the slots suffice:
\* a header is only written behind a record, and page 1 is journalled last.
Counters(x) ==
    /\ x.txn > 0
    /\ x.hdr \in 1 .. x.off
    /\ x.hdr < x.off => x.off = x.hdr + x.nRec + 1
    /\ x.hdr = x.off => Between(x)
    /\ x.pc = "newhdr" => x.hdr = x.off
    /\ x.pc = "journal" =>
          x.inJournal = {} /\ x.hdr = 1 /\ x.off = 2 /\ x.nRec = 0 /\ x.page \in Page \ {1}
    /\ x.pc # "journal" => x.inJournal \ {1} # {}
    /\ x.state = "WRITER_CACHEMOD" /\ x.hdr < x.off =>
          x.hdr = 1 /\ x.off = Body(x) + PageOne(x) + 2
    /\ x.needSync # {} => x.nRec > 0
    /\ x.op = "spill" /\ x.pc # "write" => x.nRec > 0
    /\ x.off <= 2 * Body(x) + 2 + PageOne(x)
    /\ x.op \in {"none", "spill"} /\ x.nRec > 0 /\ x.state # "WRITER_FINISHED" =>
          x.off <= 2 * Body(x) + 1 + PageOne(x)

\* The journal j is the one the pager x keeps account of.
Contents(x, j) ==
    /\ \A i \in Mine(x, j) : i < x.off /\ j[i].pg \in x.inJournal
    /\ \A p \in x.inJournal : \E i \in Mine(x, j) : j[i].pg = p
    /\ \A i, k \in Mine(x, j) : j[i].pg = j[k].pg => i = k
    /\ \A i \in (x.hdr + 1) .. (x.off - 1) : i \in Mine(x, j)
    /\ x.hdr < x.off => j[x.hdr] \in {Header(x.txn, 0), Header(x.txn, x.nRec)}

\* The number of records is written into a header after the last of them.
Sealed(x) == x.pc = "sync2" \/ x.op = "rollback"
Unsealed(x, j) == x.hdr < x.off /\ ~Sealed(x) => j[x.hdr] = Header(x.txn, 0)

JournalOK(x) ==
    Writes(x) => x.txn = nTxn /\ Counters(x) /\ Contents(x, jrnl) /\ Unsealed(x, jrnl)

\* A pager that has changed no page has nothing in pInJournal.
Clean(x) == x.state \in {"OPEN", "READER", "WRITER_LOCKED"} =>
               x.inJournal = {} /\ x.needSync = {}

JournalInv == LockInv /\ OldKeys /\ \A c \in Client : JournalOK(pager[c]) /\ Clean(pager[c])

-----------------------------------------------------------------------------
(* What the counters say of the size of the journal. *)

\* There are fewer pages behind page 1 than pages, and fewer still while one of
\* them is not journalled.
LEMMA BodySize ==
  ASSUME NEW x \in Pager
  PROVE  /\ Body(x) \in Nat /\ Body(x) <= NPage - 1 /\ PageOne(x) \in {0, 1}
         /\ x.inJournal \ {1} # {} => Body(x) > 0
         /\ \A p \in Page \ {1} : p \notin x.inJournal => Body(x) <= NPage - 2
<1>1. NPage \in Nat /\ NPage > 1
  BY Sizes
<1> DEFINE rest == 2 .. NPage
<1>2. IsFiniteSet(rest) /\ Cardinality(rest) = NPage - 1
  <2>1. 2 \in Int /\ NPage \in Int
    BY <1>1
  <2>2. IsFiniteSet(rest) /\ Cardinality(rest) = IF 2 > NPage THEN 0 ELSE NPage - 2 + 1
    BY <2>1, FS_Interval
  <2> HIDE DEF rest
  <2> QED
    BY <1>1, <2>2
<1> DEFINE S == x.inJournal \ {1}
<1>3. S \in SUBSET rest
  BY <1>1 DEF Pager, Page
<1> HIDE DEF S
<1>4. IsFiniteSet(S) /\ Cardinality(S) \in Nat /\ Cardinality(S) <= NPage - 1
  BY <1>2, <1>3, FS_Subset, FS_CardinalityType
<1>5. S # {} => Cardinality(S) > 0
  BY <1>4, FS_EmptySet
<1>6. ASSUME NEW p \in Page \ {1}, p \notin S
      PROVE  Cardinality(S) <= NPage - 2
  <2>1. p \in rest
    BY <1>1, <1>6 DEF Page
  <2>2. S # rest
    BY <1>6, <2>1
  <2>3. Cardinality(S) # NPage - 1
    BY <1>2, <1>3, <2>2, FS_Subset
  <2> QED
    BY <1>1, <1>4, <2>3
<1>7. Body(x) = Cardinality(S) /\ PageOne(x) \in {0, 1}
  BY DEF Body, PageOne, S
<1>8. \A p \in Page \ {1} : p \notin x.inJournal => p \notin S
  BY DEF S
<1>9. ASSUME NEW p \in Page \ {1}, p \notin x.inJournal
      PROVE  Body(x) <= NPage - 2
  BY <1>6, <1>7, <1>8, <1>9
<1> QED
  BY <1>4, <1>5, <1>7, <1>9 DEF S

\* A page that is added to the journal.
LEMMA BodyGrows ==
  ASSUME NEW x \in Pager, NEW y \in Pager, NEW p \in Page, p \notin x.inJournal,
         y.inJournal = x.inJournal \cup {p}
  PROVE  IF p = 1 THEN Body(y) = Body(x) /\ PageOne(x) = 0 /\ PageOne(y) = 1
         ELSE Body(y) = Body(x) + 1 /\ PageOne(y) = PageOne(x)
<1>1. CASE p = 1
  <2>1. y.inJournal \ {1} = x.inJournal \ {1}
    BY <1>1
  <2> QED
    BY <1>1, <2>1 DEF Body, PageOne
<1>2. CASE p # 1
  <2> DEFINE S == x.inJournal \ {1}
  <2>1. y.inJournal \ {1} = S \cup {p} /\ p \notin S
    BY <1>2
  <2>2. IsFiniteSet(S)
    <3>1. NPage \in Int /\ 1 \in Int /\ S \in SUBSET (1 .. NPage)
      BY Sizes DEF Pager, Page
    <3> QED
      BY <3>1, FS_Interval, FS_Subset
  <2> HIDE DEF S
  <2>3. Cardinality(S \cup {p}) = Cardinality(S) + 1
    BY <2>1, <2>2, FS_AddElement
  <2>4. Body(y) = Cardinality(S) + 1 /\ Body(x) = Cardinality(S)
    BY <2>1, <2>3 DEF Body, S
  <2>5. PageOne(y) = PageOne(x)
    BY <1>2 DEF PageOne
  <2> QED
    BY <1>2, <2>4, <2>5
<1> QED
  BY <1>1, <1>2

-----------------------------------------------------------------------------
(* The other clients. *)

\* The steps that write the journal, and those that do not.
JournalSteps(c) ==
    \/ \E p \in Page \ {1} : OpenJournal(c, p) \/ WritePage(c, p)
    \/ CommitPhaseOne(c) \/ WriteNRec(c) \/ NewHeader(c) \/ EndTransaction(c)

\* The other calls neither write the journal nor start a transaction.
LEMMA JournalStays ==
  ASSUME NEW c \in Client, ClientStep(c), ~JournalSteps(c)
  PROVE  UNCHANGED <<jrnl, nTxn>>
<1>1. CASE \/ SharedLock(c) \/ JournalAccess(c) \/ CheckReserved(c) \/ FirstByte(c)
           \/ HotLock(c) \/ HotRefused(c) \/ Recheck(c) \/ HotSync(c) \/ CheckVersion(c)
           \/ EndRead(c) \/ Begin(c)
  BY <1>1 DEF server, SharedLock, JournalAccess, CheckReserved, FirstByte, HotLock, HotRefused,
              Recheck,
              HotSync, SyncJournalFile, CheckVersion, EndRead, Begin
<1>2. ASSUME NEW p \in Page, ReadPage(c, p) \/ Spill(c, p)
      PROVE  UNCHANGED <<jrnl, nTxn>>
  BY <1>2 DEF server, ReadPage, Spill
<1>3. CASE \/ ExclusiveLock(c) \/ LockBusy(c) \/ FirstSync(c) \/ SecondSync(c)
           \/ SpillWrite(c) \/ CommitWrite(c) \/ DbSync(c)
  BY <1>3 DEF server, ExclusiveLock, LockBusy, FirstSync, SecondSync, SyncJournalFile,
              SpillWrite, CommitWrite, WriteDb, DbSync, SyncDb
<1>4. CASE Rollback(c) \/ EndEmpty(c) \/ PlaybackOnePage(c) \/ EndUnlock(c)
  BY <1>4 DEF server, Rollback, EndEmpty, PlaybackOnePage, WriteDb, EndUnlock
<1>5. CASE CommitFails(c) \/ PagerError(c) \/ DeleteFails(c) \/ ErrorUnlock(c) \/ HotFails(c)
  BY <1>5 DEF server, CommitFails, PagerError, DeleteFails, ErrorUnlock, HotFails
<1> QED
  BY <1>1, <1>2, <1>3, <1>4, <1>5 DEF ClientStep, JournalSteps

\* Who writes the journal, or has one, holds RESERVED at least.
LEMMA WritesHolds ==
  ASSUME NEW x, NEW l \in Level, Legal(x, l), Writes(x)
  PROVE  l >= RESERVED_LOCK
BY DEF Writes, Writing, Legal, Stands

\* A step that changes the journal is one of a transaction, or the last one of
\* the rollback of a hot journal.
LEMMA JournalStepHolds ==
  ASSUME NEW c \in Client, NEW l \in Level, Legal(pager[c], l), JournalSteps(c)
  PROVE  l >= RESERVED_LOCK
<1>1. ASSUME NEW p \in Page \ {1}, OpenJournal(c, p)
      PROVE  l >= RESERVED_LOCK
  <2>1. pager[c].state = "WRITER_LOCKED"
    BY <1>1 DEF OpenJournal
  <2> QED
    BY <2>1 DEF Legal, Stands
<1>2. ASSUME NEW p \in Page \ {1}, WritePage(c, p)
      PROVE  l >= RESERVED_LOCK
  <2>1. pager[c].pc = "journal" \/ pager[c].state \in {"WRITER_CACHEMOD", "WRITER_DBMOD"}
    BY <1>2 DEF WritePage, At
  <2> QED
    BY <2>1 DEF Legal, Stands
<1>3. CASE CommitPhaseOne(c)
  <2>1. pager[c].state \in {"WRITER_CACHEMOD", "WRITER_DBMOD"}
    BY <1>3 DEF CommitPhaseOne
  <2> QED
    BY <2>1 DEF Legal, Stands
<1>4. CASE WriteNRec(c) \/ NewHeader(c) \/ EndTransaction(c)
  <2>1. pager[c].pc \in {"nrec", "newhdr", "delete"} \/ pager[c].state = "WRITER_FINISHED"
    BY <1>4 DEF WriteNRec, NewHeader, EndTransaction
  <2> QED
    BY <2>1 DEF Legal, Stands
<1> QED
  BY <1>1, <1>2, <1>3, <1>4 DEF JournalSteps

\* A transaction's journal is written by nobody else.
LEMMA OthersJournal ==
  ASSUME LockInv, NEW c \in Client, ClientStep(c), NEW d \in Client \ {c}, Writes(pager[d])
  PROVE  UNCHANGED <<jrnl, nTxn>>
<1>1. Legal(pager[c], held[c]) /\ Legal(pager[d], held[d]) /\ Excluded
      /\ held[c] \in Level /\ held[d] \in Level
  BY DEF LockInv, Shapes, Pagers
<1>2. held[d] >= RESERVED_LOCK
  BY <1>1, WritesHolds
<1>3. ~(held[c] >= RESERVED_LOCK)
  BY <1>1, <1>2 DEF Excluded
<1>4. ~JournalSteps(c)
  BY <1>1, <1>3, JournalStepHolds
<1> QED
  BY <1>4, JournalStays

-----------------------------------------------------------------------------
(* The seeds. *)

\* The slots the pagers write have the seed of a transaction that was started.
LEMMA NewSlots ==
  ASSUME NEW n \in Nat
  PROVE  /\ Nil \in OldSlot(n)
         /\ \A k \in 0 .. n : Header(k, 0) \in OldSlot(n)
         /\ \A k \in 0 .. n : \A p \in Page, v \in Nat : Record(k, p, v) \in OldSlot(n)
<1>1. Nil \in OldSlot(n)
  BY Values DEF OldSlot, Nil
<1>2. \A k \in 0 .. n : Header(k, 0) \in OldSlot(n)
  BY Values DEF OldSlot, Header
<1>3. \A k \in 0 .. n : \A p \in Page, v \in Nat : Record(k, p, v) \in OldSlot(n)
  BY Values DEF OldSlot, Record
<1> QED
  BY <1>1, <1>2, <1>3

\* Writing such a slot keeps the seeds old.
LEMMA WriteJournalKeys ==
  ASSUME OldKeys, nTxn' = nTxn, nTxn \in Nat, NEW i, NEW s \in OldSlot(nTxn),
         WriteJournal(i, s)
  PROVE  OldKeys'
BY NewSlots DEF OldKeys, WriteJournal

\* So does a step that leaves the journal file alone.
LEMMA ServerKeys ==
  ASSUME OldKeys, nTxn' = nTxn, UNCHANGED <<jrnl, jDisk>>, ghosts' \in SUBSET ghosts
  PROVE  OldKeys'
BY DEF OldKeys

\* So does a sync of the journal.
LEMMA SyncKeys ==
  ASSUME OldKeys, nTxn' = nTxn, SyncJournalFile, ghosts' \in SUBSET ghosts
  PROVE  OldKeys'
BY DEF OldKeys, SyncJournalFile

\* No call of a client brings the seed of a later transaction into a journal,
\* the ones a deleted file or the disk still holds included.
LEMMA ClientKeys ==
  ASSUME JournalInv, NEW c \in Client, ClientStep(c)
  PROVE  OldKeys'
<1>1. /\ OldKeys /\ Shapes /\ nTxn \in Nat /\ pager[c] \in Pager
      /\ Legal(pager[c], held[c]) /\ JournalOK(pager[c])
  BY DEF JournalInv, LockInv, Shapes, Pagers
<1>2. CASE \/ SharedLock(c) \/ JournalAccess(c) \/ CheckReserved(c) \/ FirstByte(c)
           \/ HotLock(c) \/ HotRefused(c) \/ Recheck(c) \/ CheckVersion(c) \/ EndRead(c) \/ Begin(c)
           \/ ExclusiveLock(c) \/ LockBusy(c) \/ Rollback(c) \/ EndEmpty(c) \/ EndUnlock(c)
           \/ CommitFails(c) \/ PagerError(c) \/ DeleteFails(c) \/ ErrorUnlock(c) \/ HotFails(c)
  <2>1. UNCHANGED server /\ nTxn' = nTxn
    BY <1>2 DEF SharedLock, JournalAccess, CheckReserved, FirstByte, HotLock, HotRefused,
              Recheck,
                CheckVersion, EndRead, Begin, ExclusiveLock, LockBusy, Rollback, EndEmpty,
                EndUnlock, CommitFails, PagerError, DeleteFails, ErrorUnlock, HotFails
  <2> QED
    BY <1>1, <2>1, ServerKeys DEF server
<1>3. ASSUME NEW p \in Page, ReadPage(c, p) \/ Spill(c, p)
      PROVE  OldKeys'
  BY <1>1, <1>3, ServerKeys DEF server, ReadPage, Spill
<1>4. CASE \/ SpillWrite(c) \/ CommitWrite(c) \/ DbSync(c) \/ PlaybackOnePage(c)
  <2>1. UNCHANGED <<jrnl, jDisk, ghosts>> /\ nTxn' = nTxn
    BY <1>4 DEF server, SpillWrite, CommitWrite, DbSync, SyncDb, WriteDb, PlaybackOnePage
  <2> QED
    BY <1>1, <2>1, ServerKeys
<1>5. CASE HotSync(c) \/ FirstSync(c) \/ SecondSync(c)
  BY <1>1, <1>5, SyncKeys DEF HotSync, FirstSync, SecondSync
<1>6. ASSUME NEW p \in Page, OpenJournal(c, p)
      PROVE  OldKeys'
  <2>1. nTxn' = nTxn + 1 /\ WriteJournal(1, Header(nTxn + 1, 0)) /\ nTxn + 1 \in 0 .. nTxn + 1
    BY <1>1, <1>6 DEF OpenJournal
  <2>2. Nil \in OldSlot(nTxn + 1) /\ Header(nTxn + 1, 0) \in OldSlot(nTxn + 1)
    <3>1. nTxn + 1 \in Nat
      BY <1>1
    <3> QED
      BY <2>1, <3>1, NewSlots
  <2>3. OldSlot(nTxn) \subseteq OldSlot(nTxn + 1)
    BY <1>1 DEF OldSlot, PagedSlot, SlotRec
  <2> DEFINE old == OldSlot(nTxn)
             new == OldSlot(nTxn + 1)
  <2>4. /\ jrnl \in [Slot -> new] /\ jDisk \in [Slot -> SUBSET new]
        /\ ghosts \subseteq [Slot -> new]
    BY <1>1, <2>3 DEF OldKeys
  <2>5. /\ jrnl' \in [Slot -> new] /\ jDisk' \in [Slot -> SUBSET new]
        /\ ghosts' \subseteq [Slot -> new]
    <3> HIDE DEF new
    <3>1. Nil \in new /\ Header(nTxn + 1, 0) \in new
      BY <2>2 DEF new
    <3> QED
      BY <2>1, <2>4, <3>1 DEF WriteJournal
  <2> QED
    BY <2>1, <2>5 DEF OldKeys
<1>7. ASSUME NEW p \in Page, AddToJournal(c, p), nTxn' = nTxn, Writes(pager[c])
      PROVE  OldKeys'
  <2>1. CASE UNCHANGED server
    BY <1>1, <1>7, <2>1, ServerKeys DEF server
  <2>2. CASE WriteJournal(pager[c].off, Record(pager[c].txn, p, pager[c].cache[p]))
    <3>1. pager[c].txn \in 0 .. nTxn /\ pager[c].cache[p] \in Nat
      BY <1>1, <1>7 DEF JournalOK, Pager
    <3>2. Record(pager[c].txn, p, pager[c].cache[p]) \in OldSlot(nTxn)
      BY <1>1, <3>1, NewSlots
    <3> QED
      BY <1>1, <1>7, <2>2, <3>2, WriteJournalKeys
  <2> QED
    BY <1>7, <2>1, <2>2 DEF AddToJournal
<1>8. ASSUME NEW p \in Page, WritePage(c, p)
      PROVE  OldKeys'
  <2>1. Writes(pager[c])
    BY <1>1, <1>8 DEF Writes, Writing, WritePage, At, Legal, Stands
  <2> QED
    BY <1>7, <1>8, <2>1 DEF WritePage
<1>9. CASE CommitPhaseOne(c)
  <2>1. Writes(pager[c])
    BY <1>9 DEF Writes, Writing, CommitPhaseOne, At
  <2> QED
    BY <1>7, <1>9, <2>1, Sizes DEF CommitPhaseOne
<1>10. CASE WriteNRec(c)
  <2> DEFINE i == pager[c].hdr
             n == pager[c].nRec
  <2>1. PatchHeader(i, n) /\ nTxn' = nTxn /\ n \in Nat
    BY <1>1, <1>10 DEF WriteNRec, Pager
  <2> HIDE DEF i, n
  <2>2. i \in Slot => [jrnl[i] EXCEPT !.n = n] \in OldSlot(nTxn)
    BY <1>1, <2>1 DEF OldKeys, OldSlot, PagedSlot, SlotRec
  <2>3. CASE i \in Slot
    BY <1>1, <2>1, <2>2, <2>3 DEF OldKeys, PatchHeader
  <2>4. CASE i \notin Slot
    BY <1>1, <2>1, <2>4 DEF OldKeys, PatchHeader
  <2> QED
    BY <2>3, <2>4
<1>11. CASE NewHeader(c)
  <2>1. Writes(pager[c])
    BY <1>1, <1>11 DEF Writes, Writing, NewHeader, Legal, Stands
  <2>2. pager[c].txn \in 0 .. nTxn
    BY <1>1, <2>1 DEF JournalOK, Pager
  <2>3. Header(pager[c].txn, 0) \in OldSlot(nTxn)
    BY <1>1, <2>2, NewSlots
  <2> QED
    BY <1>1, <1>11, <2>3, WriteJournalKeys DEF NewHeader
<1>12. CASE EndTransaction(c)
  <2>1. ASSUME NEW j \in Outcomes(jDisk)
        PROVE  j \in [Slot -> OldSlot(nTxn)]
    BY <1>1, OutcomesChoose DEF OldKeys
  <2>2. DeleteJournal /\ nTxn' = nTxn
    BY <1>12 DEF EndTransaction
  <2>3. Nil \in OldSlot(nTxn)
    BY <1>1, NewSlots
  <2> QED
    BY <1>1, <2>1, <2>2, <2>3 DEF OldKeys, DeleteJournal, NoJournal
<1> QED
  BY <1>2, <1>3, <1>4, <1>5, <1>6, <1>8, <1>9, <1>10, <1>11, <1>12 DEF ClientStep

-----------------------------------------------------------------------------
(* Steps that leave the journal and its account as they are. *)

Keeps(x, y) ==
    /\ y.txn = x.txn /\ y.hdr = x.hdr /\ y.off = x.off /\ y.nRec = x.nRec
    /\ y.inJournal = x.inJournal

\* What a journal must hold does not depend on the rest of the Pager.
LEMMA KeepsContents ==
  ASSUME NEW x, NEW y, NEW j, Keeps(x, y)
  PROVE  /\ Contents(x, j) <=> Contents(y, j)
         /\ Body(y) = Body(x) /\ PageOne(y) = PageOne(x)
<1>1. Mine(y, j) = Mine(x, j)
  BY DEF Mine, Keeps
<1> QED
  BY <1>1 DEF Contents, Body, PageOne, Keeps

\* The counters of a transaction that goes on to its next call.
LEMMA KeepsCounters ==
  ASSUME NEW x \in Pager, NEW y \in Pager, Counters(x), Keeps(x, y),
         y.needSync = x.needSync, x.pc # "journal", y.pc \notin {"journal", "newhdr"},
         y.hdr = y.off => Between(y),
         y.state = "WRITER_CACHEMOD" => x.state = "WRITER_CACHEMOD",
         y.op = "spill" /\ y.pc # "write" => y.nRec > 0,
         y.op \in {"none", "spill"} /\ y.state # "WRITER_FINISHED" =>
            x.op \in {"none", "spill"} /\ x.state # "WRITER_FINISHED"
  PROVE  Counters(y)
<1>1. Body(y) = Body(x) /\ PageOne(y) = PageOne(x)
  BY KeepsContents
<1> QED
  BY <1>1 DEF Counters, Keeps

\* The pager after a step that leaves the journal alone.
LEMMA Turn ==
  ASSUME JournalInv, NEW c \in Client, NEW y \in Pager, pager' = [pager EXCEPT ![c] = y],
         UNCHANGED <<jrnl, nTxn>>,
         Writes(y) => Writes(pager[c]) /\ Keeps(pager[c], y) /\ Counters(y)
                      /\ (Sealed(pager[c]) => Sealed(y))
  PROVE  JournalOK(pager[c])'
<1>1. pager'[c] = y /\ JournalOK(pager[c])
  BY DEF JournalInv, LockInv, Shapes, Pagers
<1>2. ASSUME Writes(y)
      PROVE  y.txn = nTxn /\ Counters(y) /\ Contents(y, jrnl) /\ Unsealed(y, jrnl)
  <2>1. /\ Keeps(pager[c], y) /\ Counters(y) /\ pager[c].txn = nTxn
        /\ Contents(pager[c], jrnl) /\ Unsealed(pager[c], jrnl) /\ (Sealed(pager[c]) => Sealed(y))
    BY <1>1, <1>2 DEF JournalOK
  <2>2. Contents(y, jrnl)
    BY <2>1, KeepsContents
  <2> QED
    BY <2>1, <2>2 DEF Keeps, Unsealed
<1> QED
  BY <1>1, <1>2 DEF JournalOK

\* The steps of a transaction between two writes of its journal.
LEMMA QuietSteps ==
  ASSUME JournalInv, NEW c \in Client,
         \/ \E p \in Page : ReadPage(c, p) \/ Spill(c, p)
         \/ ExclusiveLock(c) \/ LockBusy(c) \/ FirstSync(c)
         \/ SpillWrite(c) \/ CommitWrite(c) \/ DbSync(c)
  PROVE  JournalOK(pager[c])'
<1> DEFINE x == pager[c]
<1>1. /\ x \in Pager /\ Legal(x, held[c]) /\ held[c] \in Level /\ Excluded
      /\ pager \in [Client -> Pager] /\ Files
      /\ Writes(x) => Counters(x)
  BY DEF JournalInv, JournalOK, LockInv, Shapes, Pagers
<1>2. x.nRec \in Nat /\ x.hdr \in Nat /\ x.off \in Nat /\ Body(x) \in Nat /\ PageOne(x) \in {0, 1}
      /\ (x.inJournal \ {1} # {} => Body(x) > 0)
  BY <1>1, BodySize DEF Pager
<1>3. ASSUME NEW p \in Page, ReadPage(c, p)
      PROVE  JournalOK(pager[c])'
  <2> DEFINE y == [x EXCEPT !.cache[p] = db[p], !.vers = IF p = 1 THEN db[1] ELSE @]
  <2>1. pager' = [pager EXCEPT ![c] = y] /\ UNCHANGED <<jrnl, nTxn>>
    BY <1>1, <1>3 DEF ReadPage, server
  <2>2. /\ y \in Pager /\ y.state = x.state /\ y.op = x.op /\ y.pc = x.pc /\ Keeps(x, y)
        /\ y.needSync = x.needSync /\ x.pc = "idle" /\ x.op = "none"
    BY <1>1, <1>3, Sizes DEF Pager, Files, ReadPage, At, Keeps
  <2> HIDE DEF y
  <2>3. ASSUME Writes(y)
        PROVE  Writes(x) /\ Counters(y)
    <3>1. Writes(x) /\ Counters(x)
      BY <1>1, <2>2, <2>3 DEF Writes
    <3>2. y.hdr = y.off => Between(y)
      BY <2>2, <3>1 DEF Counters, Between, Keeps
    <3> QED
      BY <1>1, <2>2, <3>1, <3>2, KeepsCounters
  <2> QED
    BY <2>1, <2>2, <2>3, Turn DEF Sealed
<1>4. ASSUME NEW p \in Page, Spill(c, p)
      PROVE  JournalOK(pager[c])'
  <2> DEFINE pc == IF p \in x.needSync \/ x.state = "WRITER_CACHEMOD" THEN "lock" ELSE "write"
             y == [x EXCEPT !.op = "spill", !.page = p, !.pc = pc]
  <2>1. pager' = [pager EXCEPT ![c] = y] /\ UNCHANGED <<jrnl, nTxn>>
    BY <1>1, <1>4 DEF Spill, server
  <2>2. /\ pc \in {"lock", "write"}
        /\ pc = "lock" => x.needSync # {} \/ x.state = "WRITER_CACHEMOD"
    OBVIOUS
  <2> HIDE DEF pc
  <2>3. /\ y \in Pager /\ y.state = x.state /\ y.op = "spill" /\ y.pc = pc /\ Keeps(x, y)
        /\ y.needSync = x.needSync /\ x.pc = "idle" /\ x.op = "none"
        /\ x.state \in {"WRITER_CACHEMOD", "WRITER_DBMOD"}
    BY <1>1, <1>4, <2>2, Sizes DEF Pager, Op, Pc, Spill, At, Keeps
  <2> HIDE DEF y
  <2>4. Writes(x) /\ Counters(x)
    BY <1>1, <2>3 DEF Writes, Writing
  <2>5. x.hdr < x.off /\ x.inJournal \ {1} # {}
    BY <1>2, <2>3, <2>4 DEF Counters, Between
  <2>6. x.state = "WRITER_CACHEMOD" => x.nRec > 0
    BY <1>2, <2>4, <2>5 DEF Counters
  <2>7. x.needSync # {} => x.nRec > 0
    BY <2>4 DEF Counters
  <2>8. y.nRec = x.nRec /\ ~(y.hdr = y.off)
    BY <1>2, <2>3, <2>5 DEF Keeps
  <2>9. Counters(y)
    BY <1>1, <2>2, <2>3, <2>4, <2>6, <2>7, <2>8, KeepsCounters
  <2> QED
    BY <2>1, <2>3, <2>4, <2>9, Turn DEF Sealed
<1>5. CASE ExclusiveLock(c)
  <2>1. /\ x.op \in {"spill", "commit"} /\ x.pc = "lock"
        /\ x.state \in {"WRITER_CACHEMOD", "WRITER_DBMOD"}
    BY <1>1, <1>5 DEF ExclusiveLock, Legal, Stands
  <2>2. Writes(x) /\ Counters(x)
    BY <1>1, <2>1 DEF Writes, Writing
  <2>3. UNCHANGED <<jrnl, nTxn>>
    BY <1>5 DEF ExclusiveLock, server
  <2>4. CASE Goto(c, "sync1")
    <3> DEFINE y == [x EXCEPT !.pc = "sync1"]
    <3>1. pager' = [pager EXCEPT ![c] = y]
      BY <1>1, <2>4 DEF Goto
    <3>2. /\ y \in Pager /\ y.state = x.state /\ y.op = x.op /\ y.pc = "sync1" /\ Keeps(x, y)
          /\ y.needSync = x.needSync
      BY <1>1 DEF Pager, Pc, Keeps
    <3> HIDE DEF y
    <3>3. y.hdr # y.off /\ (y.op = "spill" => y.nRec > 0)
      BY <1>2, <2>1, <2>2, <3>2 DEF Counters, Between, Keeps
    <3>4. Counters(y)
      BY <1>1, <2>1, <2>2, <3>2, <3>3, KeepsCounters
    <3> QED
      BY <2>1, <2>2, <2>3, <3>1, <3>2, <3>4, Turn DEF Sealed
  <2>5. CASE UNCHANGED pager
    <3>1. pager' = [pager EXCEPT ![c] = x] /\ Keeps(x, x)
      BY <1>1, <2>5 DEF Keeps
    <3> HIDE DEF x
    <3> QED
      BY <1>1, <2>2, <2>3, <3>1, Turn DEF x
  <2> QED
    BY <1>5, <2>4, <2>5 DEF ExclusiveLock
<1>6. CASE LockBusy(c)
  <2> DEFINE y == [x EXCEPT !.op = "none", !.pc = "idle", !.page = 0]
  <2>1. pager' = [pager EXCEPT ![c] = y] /\ UNCHANGED <<jrnl, nTxn>>
    BY <1>1, <1>6 DEF LockBusy, server
  <2>2. /\ y \in Pager /\ y.state = x.state /\ y.op = "none" /\ y.pc = "idle" /\ Keeps(x, y)
        /\ y.needSync = x.needSync
    BY <1>1 DEF Pager, Op, Pc, Keeps
  <2> HIDE DEF y
  <2>3. held[c] # EXCLUSIVE_LOCK /\ x.pc = "lock"
    BY <1>1, <1>6 DEF LockBusy, Excluded
  <2>4. x.state = "WRITER_CACHEMOD" /\ x.op \in {"spill", "commit"}
    BY <1>1, <2>3 DEF Legal, Stands
  <2>5. Writes(x) /\ Counters(x)
    BY <1>1, <2>3, <2>4 DEF Writes, Writing
  <2>6. x.hdr < x.off /\ x.inJournal \ {1} # {} /\ x.off = Body(x) + PageOne(x) + 2
    BY <1>2, <2>3, <2>4, <2>5 DEF Counters, Between
  <2>7. x.off <= 2 * Body(x) + 1 + PageOne(x)
    BY <1>2, <2>6
  <2>8. Body(y) = Body(x) /\ PageOne(y) = PageOne(x)
    BY <2>2, KeepsContents
  <2>9. Counters(y)
    BY <1>2, <2>2, <2>3, <2>4, <2>5, <2>6, <2>7, <2>8 DEF Counters, Keeps, Between
  <2> QED
    BY <2>1, <2>2, <2>3, <2>4, <2>5, <2>9, Turn DEF Sealed
<1>7. CASE FirstSync(c)
  <2> DEFINE y == [x EXCEPT !.pc = "nrec"]
  <2>1. pager' = [pager EXCEPT ![c] = y] /\ UNCHANGED <<jrnl, nTxn>>
    BY <1>1, <1>7 DEF FirstSync, Goto, SyncJournalFile
  <2>2. /\ y \in Pager /\ y.state = x.state /\ y.op = x.op /\ y.pc = "nrec" /\ Keeps(x, y)
        /\ y.needSync = x.needSync
    BY <1>1 DEF Pager, Pc, Keeps
  <2> HIDE DEF y
  <2>3. /\ x.op \in {"spill", "commit"} /\ x.pc = "sync1"
        /\ x.state \in {"WRITER_CACHEMOD", "WRITER_DBMOD"}
    BY <1>1, <1>7 DEF FirstSync, Legal, Stands
  <2>4. Writes(x) /\ Counters(x)
    BY <1>1, <2>3 DEF Writes, Writing
  <2>5. y.hdr # y.off /\ (y.op = "spill" => y.nRec > 0)
    BY <1>2, <2>2, <2>3, <2>4 DEF Counters, Between, Keeps
  <2>6. Counters(y)
    BY <1>1, <2>2, <2>3, <2>4, <2>5, KeepsCounters
  <2> QED
    BY <2>1, <2>2, <2>3, <2>4, <2>6, Turn DEF Sealed
<1>8. CASE SpillWrite(c)
  <2> DEFINE y == [x EXCEPT !.dirty = @ \ {x.page}, !.cache[x.page] = NoPage,
                            !.page = 0, !.op = "none", !.pc = "idle"]
  <2>1. pager' = [pager EXCEPT ![c] = y] /\ UNCHANGED <<jrnl, nTxn>>
    BY <1>1, <1>8 DEF SpillWrite, WriteDb
  <2>2. /\ y \in Pager /\ y.state = x.state /\ y.op = "none" /\ y.pc = "idle" /\ Keeps(x, y)
        /\ y.needSync = x.needSync
    BY <1>1, Values DEF Pager, Op, Pc, Keeps
  <2> HIDE DEF y
  <2>3. x.op = "spill" /\ x.pc = "write" /\ x.state = "WRITER_DBMOD"
    BY <1>1, <1>8 DEF SpillWrite, At, Legal, Stands
  <2>4. Writes(x) /\ Counters(x)
    BY <1>1, <2>3 DEF Writes, Writing
  <2>5. y.hdr # y.off
    BY <1>2, <2>2, <2>3, <2>4 DEF Counters, Between, Keeps
  <2>6. Counters(y)
    BY <1>1, <2>2, <2>3, <2>4, <2>5, KeepsCounters
  <2> QED
    BY <2>1, <2>2, <2>3, <2>4, <2>6, Turn DEF Sealed
<1>9. CASE CommitWrite(c)
  <2> DEFINE q == Min(x.dirty)
             vers == IF q = 1 THEN x.cache[1] ELSE x.vers
             pc == IF x.dirty = {q} THEN "dbsync" ELSE x.pc
             y == [x EXCEPT !.dirty = @ \ {q}, !.vers = vers, !.pc = pc]
  <2>1. pager' = [pager EXCEPT ![c] = y] /\ UNCHANGED <<jrnl, nTxn>>
    BY <1>1, <1>9 DEF CommitWrite, WriteDb
  <2>2. x.op = "commit" /\ x.pc = "write" /\ x.state = "WRITER_DBMOD"
    BY <1>1, <1>9 DEF CommitWrite, At, Legal, Stands
  <2>3. vers \in Nat /\ pc \in {"dbsync", "write"}
    BY <1>1, <2>2, Sizes DEF Pager
  <2> HIDE DEF q, vers, pc
  <2>4. /\ y \in Pager /\ y.state = x.state /\ y.op = "commit" /\ y.pc = pc /\ Keeps(x, y)
        /\ y.needSync = x.needSync
    BY <1>1, <2>2, <2>3 DEF Pager, Pc, Keeps
  <2> HIDE DEF y
  <2>5. Writes(x) /\ Counters(x)
    BY <1>1, <2>2 DEF Writes, Writing
  <2>6. Between(y)
    BY <2>3, <2>4 DEF Between
  <2>7. Counters(y)
    BY <1>1, <2>2, <2>3, <2>4, <2>5, <2>6, KeepsCounters
  <2> QED
    BY <2>1, <2>2, <2>4, <2>5, <2>7, Turn DEF Sealed
<1>10. CASE DbSync(c)
  <2>0. UNCHANGED <<jrnl, nTxn>>
    BY <1>10 DEF DbSync, SyncDb
  <2>1. CASE x.op = "commit"
    <3> DEFINE y == [x EXCEPT !.op = "none", !.pc = "idle", !.state = "WRITER_FINISHED"]
    <3>1. pager' = [pager EXCEPT ![c] = y]
      BY <1>1, <1>10, <2>1 DEF DbSync
    <3>2. /\ y \in Pager /\ y.state = "WRITER_FINISHED" /\ y.op = "none" /\ y.pc = "idle"
          /\ Keeps(x, y) /\ y.needSync = x.needSync
      BY <1>1 DEF Pager, Op, Pc, PagerState, Keeps
    <3> HIDE DEF y
    <3>3. x.pc = "dbsync" /\ x.state = "WRITER_DBMOD"
      BY <1>1, <1>10, <2>1 DEF DbSync, Legal, Stands
    <3>4. Writes(x) /\ Counters(x)
      BY <1>1, <3>3 DEF Writes, Writing
    <3>5. Counters(y)
      <4>1. Between(y)
        BY <3>2 DEF Between
      <4> QED
        BY <1>1, <3>2, <3>3, <3>4, <4>1, KeepsCounters
    <3> QED
      BY <2>0, <2>1, <3>1, <3>2, <3>3, <3>4, <3>5, Turn DEF Sealed
  <2>2. CASE x.op # "commit"
    <3> DEFINE y == [x EXCEPT !.pc = "delete"]
    <3>1. pager' = [pager EXCEPT ![c] = y]
      BY <1>1, <1>10, <2>2 DEF DbSync, Goto
    <3>2. /\ y \in Pager /\ y.state = x.state /\ y.op = x.op /\ y.pc = "delete"
          /\ Keeps(x, y) /\ y.needSync = x.needSync
      BY <1>1 DEF Pager, Pc, Keeps
    <3> HIDE DEF y
    <3> HIDE DEF x
    <3>0. x.pc = "dbsync"
      BY <1>10 DEF DbSync, x
    <3>3. x.pc = "dbsync" /\ (x.op = "rollback" \/ (x.op = "hot" /\ x.state = "OPEN"))
      BY <1>1, <2>2, <3>0 DEF Legal, Stands
    <3>4. ASSUME Writes(y)
          PROVE  Writes(x) /\ Counters(y)
      <4>1. Writes(x) /\ Counters(x) /\ x.op = "rollback"
        BY <1>1, <3>2, <3>3, <3>4 DEF Writes, Writing
      <4>2. Between(y)
        BY <3>2, <4>1 DEF Between
      <4> QED
        BY <1>1, <3>2, <3>3, <4>1, <4>2, KeepsCounters
    <3> QED
      BY <2>0, <3>1, <3>2, <3>3, <3>4, Turn DEF x, Sealed
  <2> QED
    BY <2>1, <2>2
<1> QED
  BY <1>3, <1>4, <1>5, <1>6, <1>7, <1>8, <1>9, <1>10

\* A rollback reads the journal and the account of it, and changes neither.
LEMMA PlaybackSteps ==
  ASSUME JournalInv, NEW c \in Client, Rollback(c) \/ CommitFails(c) \/ PlaybackOnePage(c)
  PROVE  JournalOK(pager[c])'
<1> DEFINE x == pager[c]
<1>1. /\ x \in Pager /\ Legal(x, held[c]) /\ held[c] \in Level
      /\ pager \in [Client -> Pager] /\ Files
      /\ Writes(x) => Counters(x)
      /\ x.pc = "play" => x.todo # {}
  BY DEF JournalInv, JournalOK, LockInv, Shapes, Pagers
<1>2. CASE Rollback(c) \/ CommitFails(c)
  <2> DEFINE todo == Playable(jrnl, x.hdr)
             pc == Playing(x, todo)
             y == [x EXCEPT !.op = "rollback", !.page = 0, !.todo = todo, !.pc = pc]
  <2>1. todo \in SUBSET Slot /\ pc \in {"play", "delete", "dbsync"}
    BY <1>1, PlayableRecords DEF Files, Readable, Playing
  <2>2. pager' = [pager EXCEPT ![c] = y] /\ UNCHANGED <<jrnl, nTxn>>
    BY <1>1, <1>2 DEF Rollback, CommitFails, StartPlayback, server
  <2> HIDE DEF todo, pc
  <2>3. /\ y \in Pager /\ y.state = x.state /\ y.op = "rollback" /\ y.pc = pc /\ Keeps(x, y)
        /\ y.needSync = x.needSync
    BY <1>1, <2>1 DEF Pager, Op, Pc, Keeps
  <2> HIDE DEF y
  <2>4. (x.op = "none" /\ x.pc = "idle") \/ x.op = "commit"
    BY <1>2 DEF Rollback, CommitFails, At
  <2>5. x.pc \notin {"journal", "unlock"}
    BY <1>1, <2>4 DEF Legal, Stands
  <2>6. ASSUME Writes(y)
        PROVE  Writes(x) /\ Counters(y)
    <3>1. Writes(x) /\ Counters(x)
      BY <1>1, <2>3, <2>5, <2>6 DEF Writes
    <3>2. Between(y)
      BY <2>3 DEF Between
    <3> QED
      BY <1>1, <2>1, <2>3, <2>5, <3>1, <3>2, KeepsCounters
  <2> QED
    BY <2>2, <2>3, <2>6, Turn DEF Sealed
<1>3. CASE PlaybackOnePage(c)
  <2> DEFINE i == Min(x.todo)
             q == jrnl[i].pg
             cached == x.cache[q] # NoPage
             todo == x.todo \ {i}
             vers == IF cached /\ q = 1 THEN jrnl[i].n ELSE x.vers
             page == IF cached THEN jrnl[i].n ELSE x.cache[q]
             pc == Playing(x, todo)
             y == [x EXCEPT !.todo = todo, !.cache[q] = page, !.vers = vers, !.pc = pc]
  <2>1. x.pc = "play" /\ (x.op = "rollback" \/ (x.op = "hot" /\ x.state = "OPEN"))
    <3>1. x.pc = "play"
      BY <1>3 DEF PlaybackOnePage
    <3> HIDE DEF x
    <3> QED
      BY <1>1, <3>1 DEF Legal, Stands
  <2>2. pager' = [pager EXCEPT ![c] = y] /\ UNCHANGED <<jrnl, nTxn>>
    BY <1>1, <1>3 DEF PlaybackOnePage, WriteDb, server
  <2>3. i \in Slot
    <3>1. x.todo # {} /\ x.todo \subseteq Slot
      BY <1>1, <2>1 DEF Pager
    <3> QED
      BY <3>1, Sizes, MinIsLeast
  <2>4. jrnl[i].n \in Nat
    BY <1>1, <2>3 DEF Files, PagedSlot, SlotRec
  <2>5. todo \in SUBSET Slot /\ vers \in Nat /\ (q \in Page => page \in Nat)
    BY <1>1, <2>3, <2>4 DEF Pager
  <2>6. pc \in {"play", "delete", "dbsync"}
    BY DEF Playing
  <2> HIDE DEF i, q, cached, todo, vers, page, pc
  <2>7. [x.cache EXCEPT ![q] = page] \in [Page -> Nat]
    BY <1>1, <2>5 DEF Pager
  <2>8. /\ y \in Pager /\ y.state = x.state /\ y.op = x.op /\ y.pc = pc /\ Keeps(x, y)
        /\ y.needSync = x.needSync
    BY <1>1, <2>5, <2>6, <2>7 DEF Pager, Pc, Keeps
  <2> HIDE DEF y
  <2>9. ASSUME Writes(y)
        PROVE  Writes(x) /\ Counters(y)
    <3>1. Writes(x) /\ Counters(x) /\ x.op = "rollback"
      BY <1>1, <2>1, <2>8, <2>9 DEF Writes, Writing
    <3>2. Between(y)
      BY <2>8, <3>1 DEF Between
    <3> QED
      BY <1>1, <2>1, <2>6, <2>8, <3>1, <3>2, KeepsCounters
  <2> QED
    BY <2>1, <2>2, <2>8, <2>9, Turn DEF Sealed
<1> QED
  BY <1>2, <1>3

\* The steps of a client that has no journal, and those that leave it.
LEMMA JournalFreeSteps ==
  ASSUME JournalInv, NEW c \in Client,
         \/ SharedLock(c) \/ JournalAccess(c) \/ CheckReserved(c) \/ FirstByte(c)
         \/ HotLock(c) \/ HotRefused(c) \/ Recheck(c) \/ HotSync(c) \/ CheckVersion(c) \/ EndRead(c) \/ Begin(c)
         \/ EndEmpty(c) \/ EndTransaction(c) \/ EndUnlock(c) \/ PagerError(c) \/ DeleteFails(c)
         \/ ErrorUnlock(c) \/ HotFails(c) \/ ClientDies(c)
  PROVE  JournalOK(pager[c])'
<1>1. /\ pager[c] \in Pager /\ Legal(pager[c], held[c]) /\ held[c] \in Level
      /\ pager \in [Client -> Pager]
  BY DEF JournalInv, LockInv, Shapes, Pagers
<1>2. /\ Closed(pager[c]).state = "OPEN" /\ Unlocked(pager[c]).state = "OPEN"
      /\ Unlocked(pager[c]) \in Pager
  BY <1>1, ClosedPager
<1>3. ASSUME pager'[c].state \notin Writing \/ pager'[c].pc = "unlock"
      PROVE  JournalOK(pager[c])'
  BY <1>3 DEF JournalOK, Writes
<1>4. CASE \/ SharedLock(c) \/ JournalAccess(c) \/ CheckReserved(c) \/ FirstByte(c)
  <2>1. pager[c].state = "OPEN"
    <3>1. pager[c].state = "OPEN" \/ pager[c].pc \in {"access", "reserved", "first"}
      BY <1>4 DEF SharedLock, JournalAccess, CheckReserved, FirstByte, At
    <3> QED
      BY <1>1, <3>1 DEF Legal, Stands
  <2>2. pager'[c].state = pager[c].state
    <3>1. ASSUME NEW pc, Goto(c, pc)
          PROVE  pager'[c].state = pager[c].state
      BY <1>1, <3>1 DEF Goto, Pager
    <3> QED
      BY <1>4, <3>1 DEF SharedLock, JournalAccess, CheckReserved, FirstByte
  <2> QED
    BY <1>3, <2>1, <2>2 DEF Writing
<1>5. CASE HotLock(c) \/ Recheck(c) \/ HotSync(c)
  <2>1. pager[c].pc \in {"hotlock", "exists", "hotsync"}
    BY <1>5 DEF HotLock, Recheck, HotSync, At
  <2>2. pager[c].state = "OPEN"
    BY <1>1, <2>1 DEF Legal, Stands
  <2>3. pager'[c].state = "OPEN"
    <3>1. CASE HotLock(c)
      BY <1>1, <1>2, <2>2, <3>1 DEF HotLock, Goto, Pager
    <3>2. CASE Recheck(c)
      BY <1>1, <2>2, <3>2 DEF Recheck, Goto, Pager
    <3>3. CASE HotSync(c)
      <4> DEFINE todo == Playable(jrnl, 0)
                 pc == Playing(pager[c], todo)
                 cache == IF todo = {} THEN pager[c].cache ELSE EmptyCache
      <4>1. pager' = [pager EXCEPT ![c] = [pager[c] EXCEPT !.todo = todo, !.cache = cache,
                                                           !.pc = pc]]
        BY <1>1, <3>3 DEF HotSync
      <4> HIDE DEF todo, pc, cache
      <4> QED
        BY <1>1, <2>2, <4>1 DEF Pager
    <3> QED
      BY <1>5, <3>1, <3>2, <3>3
  <2> QED
    BY <1>3, <2>3 DEF Writing
<1>6. CASE CheckVersion(c) \/ EndRead(c) \/ Begin(c) \/ EndEmpty(c)
  <2>1. pager'[c].state \in {"READER", "OPEN", "WRITER_LOCKED"}
    BY <1>1, <1>2, <1>6 DEF CheckVersion, EndRead, Begin, EndEmpty, Pager
  <2> QED
    BY <1>3, <2>1 DEF Writing
<1>7. CASE EndTransaction(c)
  <2>1. pager'[c].pc = "unlock"
    BY <1>1, <1>7 DEF EndTransaction, Goto, Pager
  <2> QED
    BY <1>3, <2>1
<1>8. CASE EndUnlock(c)
  <2> DEFINE u == Unlocked(pager[c])
             rest == [u EXCEPT !.state = "READER"]
             hot == [rest EXCEPT !.state = "OPEN", !.pc = "version"]
  <2>1. u \in Pager
    BY <1>2
  <2>2. Ended(pager[c]) = IF pager[c].op = "hot" THEN hot ELSE rest
    BY DEF Ended
  <2> HIDE DEF u
  <2>3. rest \in Pager /\ rest.state = "READER"
    BY <2>1 DEF Pager, PagerState
  <2> HIDE DEF rest
  <2>4. hot.state = "OPEN"
    BY <2>3 DEF Pager
  <2> HIDE DEF hot
  <2>5. pager'[c].state \in {"READER", "OPEN"}
    BY <1>1, <1>8, <2>2, <2>3, <2>4 DEF EndUnlock
  <2> QED
    BY <1>3, <2>5 DEF Writing
<1>9. CASE PagerError(c) \/ DeleteFails(c)
  <2>1. pager'[c].state = "ERROR"
    BY <1>1, <1>9 DEF PagerError, DeleteFails, Pager
  <2> QED
    BY <1>3, <2>1 DEF Writing
<1>10. CASE ErrorUnlock(c) \/ HotFails(c) \/ HotRefused(c)
  <2>1. pager'[c].state = "OPEN"
    BY <1>1, <1>2, <1>10 DEF ErrorUnlock, HotFails, HotRefused
  <2> QED
    BY <1>3, <2>1 DEF Writing
<1>11. CASE ClientDies(c)
  <2>1. pager'[c].state = "DEAD"
    BY <1>1, <1>11, Values DEF ClientDies, Pager
  <2> QED
    BY <1>3, <2>1 DEF Writing
<1> QED
  BY <1>4, <1>5, <1>6, <1>7, <1>8, <1>9, <1>10, <1>11

-----------------------------------------------------------------------------
(* Steps that write the journal. *)

\* The account y after the page p was added to the journal of x.
Adds(x, y, p) ==
    /\ y.txn = x.txn /\ y.hdr = x.hdr /\ y.off = x.off + 1 /\ y.nRec = x.nRec + 1
    /\ y.inJournal = x.inJournal \cup {p}

\* pager_write counts the record it adds.
LEMMA ModifiedAdds ==
  ASSUME NEW x \in Pager, NEW p \in Page, NEW v \in Nat
  PROVE  IF p \in x.inJournal
         THEN Keeps(x, Modified(x, p, v)) /\ Modified(x, p, v).needSync = x.needSync
         ELSE Adds(x, Modified(x, p, v), p)
<1> DEFINE w == [x EXCEPT !.cache[p] = v, !.dirty = @ \cup {p}, !.page = 0, !.pc = "idle"]
<1>1. w \in Pager /\ Keeps(x, w) /\ w.needSync = x.needSync
  BY DEF Pager, Pc, Keeps
<1> HIDE DEF w
<1> DEFINE y == [w EXCEPT !.inJournal = @ \cup {p}, !.needSync = @ \cup {p},
                          !.off = @ + 1, !.nRec = @ + 1]
<1>2. /\ y.txn = w.txn /\ y.hdr = w.hdr /\ y.off = w.off + 1 /\ y.nRec = w.nRec + 1
      /\ y.inJournal = w.inJournal \cup {p}
  BY <1>1 DEF Pager
<1> HIDE DEF y
<1>3. Modified(x, p, v) = IF p \in x.inJournal THEN w ELSE y
  BY DEF Modified, w, y
<1> QED
  BY <1>1, <1>2, <1>3 DEF Keeps, Adds

\* The journal after a record was written at journalOff.
LEMMA RecordAdded ==
  ASSUME NEW x \in Pager, NEW y \in Pager, NEW j \in [Slot -> PagedSlot], NEW p \in Page,
         Contents(x, j), x.hdr < x.off, x.off \in Slot, p \notin x.inJournal, Adds(x, y, p),
         j[x.hdr] = Header(x.txn, 0),
         NEW k, k[x.off].kind = "rec", k[x.off].key = x.txn, k[x.off].pg = p,
         \A i \in Slot \ {x.off} : k[i] = j[i], k[x.hdr] = j[x.hdr]
  PROVE  Contents(y, k) /\ k[x.hdr] = Header(x.txn, 0)
<1> DEFINE o == x.off
           h == x.hdr
           t == x.txn
<1>1. /\ o \in Nat /\ h \in Nat /\ h < o /\ o \in Slot /\ y.off = o + 1 /\ y.hdr = h
      /\ y.txn = t /\ y.inJournal = x.inJournal \cup {p} /\ y.nRec = x.nRec + 1
      /\ x.nRec \in Nat
  BY DEF Adds, Pager
<1>2. \A i \in Slot : i \in Nat
  BY Sizes
<1>3. /\ k[o].kind = "rec" /\ k[o].key = t /\ k[o].pg = p
      /\ \A i \in Slot \ {o} : k[i] = j[i]
  OBVIOUS
<1>4. \A i \in Mine(x, j) : i < o /\ i # o /\ i \in Slot /\ j[i].pg \in x.inJournal
  BY <1>1, <1>2 DEF Contents, Mine
<1>5. Mine(y, k) = Mine(x, j) \cup {o}
  BY <1>1, <1>3, <1>4 DEF Mine
<1>6. k[h] = j[h]
  OBVIOUS
<1>7. \A i \in Mine(x, j) : k[i] = j[i]
  BY <1>3, <1>4
<1>8. \A i \in Mine(y, k) : i < y.off /\ k[i].pg \in y.inJournal
  BY <1>1, <1>2, <1>3, <1>4, <1>5, <1>7
<1>9. ASSUME NEW q \in y.inJournal
      PROVE  \E i \in Mine(y, k) : k[i].pg = q
  <2>1. CASE q = p
    BY <1>3, <1>5, <2>1
  <2>2. CASE q \in x.inJournal
    <3>1. PICK i \in Mine(x, j) : j[i].pg = q
      BY <2>2 DEF Contents
    <3> QED
      BY <1>5, <1>7, <3>1
  <2> QED
    BY <1>1, <2>1, <2>2
<1>10. ASSUME NEW i \in Mine(y, k), NEW l \in Mine(y, k), k[i].pg = k[l].pg
       PROVE  i = l
  <2>1. \A m \in Mine(x, j) : k[m].pg # p
    BY <1>4, <1>7
  <2>2. CASE i = o \/ l = o
    BY <1>3, <1>5, <1>10, <2>1, <2>2
  <2>3. CASE i \in Mine(x, j) /\ l \in Mine(x, j)
    BY <1>7, <1>10, <2>3 DEF Contents
  <2> QED
    BY <1>5, <2>2, <2>3
<1>11. ASSUME NEW i \in (y.hdr + 1) .. (y.off - 1)
       PROVE  i \in Mine(y, k)
  <2>1. i = o \/ i \in (h + 1) .. (o - 1)
    BY <1>1, <1>11
  <2>2. \A m \in (h + 1) .. (o - 1) : m \in Mine(x, j)
    BY DEF Contents
  <2> QED
    BY <1>5, <2>1, <2>2
<1>12. k[h] = Header(t, 0)
  BY <1>6
<1>13. Contents(y, k)
  BY <1>1, <1>8, <1>9, <1>10, <1>11, <1>12 DEF Contents
<1> QED
  BY <1>12, <1>13

\* The new header passes no checksum of an older journal's records.
LEMMA OpenJournalStep ==
  ASSUME JournalInv, NEW c \in Client, NEW p \in Page \ {1}, OpenJournal(c, p)
  PROVE  JournalOK(pager[c])'
<1> DEFINE x == pager[c]
           y == [x EXCEPT !.state = "WRITER_CACHEMOD", !.pc = "journal", !.page = p,
                          !.txn = nTxn + 1, !.nRec = 0, !.hdr = 1, !.off = 2]
<1>1. /\ x \in Pager /\ pager \in [Client -> Pager] /\ nTxn \in Nat /\ OldKeys /\ Clean(x)
      /\ jrnl \in [Slot -> PagedSlot]
  BY DEF JournalInv, LockInv, Shapes, Pagers, Files
<1>2. /\ pager' = [pager EXCEPT ![c] = y] /\ nTxn' = nTxn + 1
      /\ jrnl' = [jrnl EXCEPT ![1] = Header(nTxn + 1, 0)]
  BY <1>1 DEF OpenJournal, WriteJournal
<1>3. x.inJournal = {} /\ x.needSync = {} /\ x.op = "none"
  BY <1>1 DEF Clean, OpenJournal, At
<1>4. p \in Nat /\ nTxn + 1 \in Nat
  BY <1>1, Sizes
<1>5. /\ y \in Pager /\ y.state = "WRITER_CACHEMOD" /\ y.op = "none" /\ y.pc = "journal"
      /\ y.page = p /\ y.txn = nTxn + 1 /\ y.nRec = 0 /\ y.hdr = 1 /\ y.off = 2
      /\ y.inJournal = {} /\ y.needSync = {}
  BY <1>1, <1>3, <1>4 DEF Pager, PagerState, Pc
<1>6. pager'[c] = y
  BY <1>1, <1>2
<1> HIDE DEF y
<1>7. Body(y) \in Nat /\ PageOne(y) = 0
  BY <1>5, BodySize DEF PageOne
<1>8. Body(y) = 0
  <2>1. y.inJournal \ {1} = {}
    BY <1>5
  <2> QED
    BY <2>1, FS_EmptySet DEF Body
<1>9. Counters(y)
  BY <1>1, <1>5, <1>7, <1>8 DEF Counters
<1>10. jrnl'[1] = Header(nTxn + 1, 0) /\ \A i \in Slot \ {1} : jrnl'[i] = jrnl[i]
  BY <1>1, <1>2, Sizes
<1>11. \A i \in Slot : jrnl[i].key \in Nat /\ jrnl[i].key <= nTxn
  BY <1>1 DEF OldKeys, OldSlot, PagedSlot, SlotRec
<1>12. Mine(y, jrnl') = {}
  <2>1. ASSUME NEW i \in Slot, jrnl'[i].kind = "rec", jrnl'[i].key = nTxn + 1
        PROVE  FALSE
    <3>1. CASE i = 1
      BY <1>10, <2>1, <3>1 DEF Header
    <3>2. CASE i # 1
      BY <1>1, <1>10, <1>11, <2>1, <3>2
    <3> QED
      BY <3>1, <3>2
  <2> QED
    BY <1>5, <2>1 DEF Mine
<1>13. Contents(y, jrnl') /\ Unsealed(y, jrnl')
  BY <1>5, <1>10, <1>12 DEF Contents, Unsealed
<1> QED
  BY <1>2, <1>5, <1>6, <1>9, <1>13 DEF JournalOK

\* A page that is journalled, or was: the account y of it, op none or commit.
LEMMA PageJournalled ==
  ASSUME JournalInv, NEW c \in Client, NEW p \in Page, NEW y \in Pager,
         pager[c].op = "none", pager[c].pc \in {"idle", "journal"},
         pager[c].state \in {"WRITER_CACHEMOD", "WRITER_DBMOD"},
         p = 1 => pager[c].pc # "journal",
         p = 1 => y.op = "commit" /\ y.pc = "lock",
         p # 1 => y.op = "none" /\ y.pc = "idle",
         y.state = pager[c].state,
         IF p \in pager[c].inJournal
         THEN Keeps(pager[c], y) /\ y.needSync = pager[c].needSync
         ELSE Adds(pager[c], y, p),
         pager' = [pager EXCEPT ![c] = y], UNCHANGED nTxn, AddToJournal(c, p)
  PROVE  JournalOK(pager[c])'
<1> DEFINE x == pager[c]
<1>1. /\ x \in Pager /\ pager \in [Client -> Pager] /\ nTxn \in Nat /\ Legal(x, held[c])
      /\ jrnl \in [Slot -> PagedSlot]
  BY DEF JournalInv, LockInv, Shapes, Pagers, Files
<1>2. Writes(x) /\ x.txn = nTxn /\ Counters(x) /\ Contents(x, jrnl) /\ Unsealed(x, jrnl)
  <2>1. Writes(x)
    BY DEF Writes, Writing
  <2> QED
    BY <2>1 DEF JournalInv, JournalOK
<1>3. /\ x.nRec \in Nat /\ x.hdr \in Nat /\ x.off \in Nat /\ Body(x) \in Nat /\ PageOne(x) \in {0, 1}
      /\ Body(x) <= NPage - 1 /\ NPage \in Nat /\ NPage > 1 /\ JLen = 2 * NPage
      /\ \A q \in Page \ {1} : q \notin x.inJournal => Body(x) <= NPage - 2
  BY <1>1, BodySize, Sizes DEF Pager
<1>4. x.hdr < x.off /\ x.hdr >= 1 /\ x.off = x.hdr + x.nRec + 1
  BY <1>2, <1>3 DEF Counters, Between
<1>5. CASE p \in x.inJournal
  <2>1. x.pc = "idle"
    BY <1>2, <1>5 DEF Counters
  <2>2. Keeps(x, y) /\ y.needSync = x.needSync
    BY <1>5
  <2>3. UNCHANGED <<jrnl, nTxn>>
    BY <1>5 DEF AddToJournal, server
  <2>4. y.hdr # y.off
    BY <1>3, <1>4, <2>2 DEF Keeps
  <2>5. /\ y.op \in {"none", "commit"} /\ y.pc \in {"idle", "lock"}
        /\ y.state \in {"WRITER_CACHEMOD", "WRITER_DBMOD"}
    OBVIOUS
  <2>6. Counters(y)
    BY <1>1, <1>2, <2>1, <2>2, <2>4, <2>5, KeepsCounters
  <2> QED
    BY <1>2, <2>1, <2>2, <2>3, <2>5, <2>6, Turn DEF Sealed
<1>6. CASE p \notin x.inJournal
  <2>1. Adds(x, y, p)
    BY <1>6
  <2>2. IF p = 1 THEN Body(y) = Body(x) /\ PageOne(x) = 0 /\ PageOne(y) = 1
        ELSE Body(y) = Body(x) + 1 /\ PageOne(y) = PageOne(x)
    BY <1>1, <1>6, <2>1, BodyGrows DEF Adds
  <2>3. x.off \in Slot
    <3>1. x.off <= 2 * Body(x) + 2 + PageOne(x)
      BY <1>2 DEF Counters
    <3>2. x.off <= JLen
      <4>1. CASE p = 1
        BY <1>3, <2>2, <3>1, <4>1
      <4>2. CASE p # 1
        <5>1. Body(x) <= NPage - 2
          BY <1>3, <1>6, <4>2
        <5> QED
          BY <1>3, <3>1, <5>1
      <4> QED
        BY <4>1, <4>2
    <3> QED
      BY <1>3, <1>4, <3>2 DEF Slot
  <2>4. x.pc # "sync2" /\ x.op # "rollback"
    OBVIOUS
  <2>5. jrnl[x.hdr] = Header(x.txn, 0)
    BY <1>2, <1>4, <2>4 DEF Unsealed, Sealed
  <2>6. jrnl' = [jrnl EXCEPT ![x.off] = Record(x.txn, p, x.cache[p])]
    BY <1>6 DEF AddToJournal, WriteJournal
  <2>7. Contents(y, jrnl') /\ jrnl'[x.hdr] = Header(x.txn, 0)
    <3> HIDE DEF x
    <3>1. /\ Contents(x, jrnl) /\ x.hdr < x.off /\ x.off \in Slot /\ p \notin x.inJournal
          /\ Adds(x, y, p) /\ jrnl[x.hdr] = Header(x.txn, 0)
      BY <1>2, <1>4, <1>6, <2>1, <2>3, <2>5
    <3>2. x \in Pager /\ jrnl \in [Slot -> PagedSlot] /\ x.hdr \in Slot /\ x.hdr # x.off
      BY <1>1, <1>3, <1>4, <2>3 DEF Slot
    <3>3. /\ jrnl'[x.off].kind = "rec" /\ jrnl'[x.off].key = x.txn /\ jrnl'[x.off].pg = p
          /\ \A i \in Slot \ {x.off} : jrnl'[i] = jrnl[i]
      BY <2>3, <2>6, <3>2 DEF Record
    <3>4. jrnl'[x.hdr] = jrnl[x.hdr]
      BY <3>2, <3>3
    <3> QED
      BY <3>1, <3>2, <3>3, <3>4, RecordAdded
  <2>8. y.hdr = x.hdr /\ y.txn = x.txn /\ y.off = x.off + 1 /\ y.nRec = x.nRec + 1
        /\ y.inJournal = x.inJournal \cup {p}
    BY <2>1 DEF Adds
  <2>9. /\ x.off <= 2 * Body(x) + 2 + PageOne(x)
        /\ x.state = "WRITER_CACHEMOD" => x.hdr = 1 /\ x.off = Body(x) + PageOne(x) + 2
        /\ x.txn > 0
        /\ x.pc # "journal" => x.inJournal \ {1} # {}
    BY <1>2, <1>4 DEF Counters
  <2>10. y.inJournal \ {1} # {}
    <3>1. CASE p = 1
      BY <2>8, <2>9, <3>1
    <3>2. CASE p # 1
      BY <2>8, <3>2
    <3> QED
      BY <3>1, <3>2
  <2>11. y.off <= 2 * Body(y) + 2 + PageOne(y) /\ (p # 1 => y.off <= 2 * Body(y) + 1 + PageOne(y))
    BY <1>3, <2>2, <2>8, <2>9
  <2>12. y.state = "WRITER_CACHEMOD" => y.hdr = 1 /\ y.off = Body(y) + PageOne(y) + 2
    BY <1>3, <2>2, <2>8, <2>9
  <2>13. y.hdr \in 1 .. y.off /\ y.hdr < y.off /\ y.off = y.hdr + y.nRec + 1 /\ y.nRec > 0
    BY <1>3, <1>4, <2>8
  <2>14. /\ p = 1 => y.op = "commit" /\ y.pc = "lock"
         /\ p # 1 => y.op = "none" /\ y.pc = "idle"
    OBVIOUS
  <2> HIDE DEF x
  <2>15. Counters(y)
    BY <2>8, <2>9, <2>10, <2>11, <2>12, <2>13, <2>14 DEF Counters
  <2>16. Unsealed(y, jrnl')
    BY <2>7, <2>8 DEF Unsealed
  <2>17. pager'[c] = y
    BY <1>1
  <2> QED
    BY <1>2, <2>7, <2>8, <2>15, <2>16, <2>17 DEF JournalOK
<1> QED
  BY <1>5, <1>6

\* pager_write, and pager_incr_changecounter of a commit.
LEMMA AddingSteps ==
  ASSUME JournalInv, NEW c \in Client,
         CommitPhaseOne(c) \/ \E p \in Page \ {1} : WritePage(c, p)
  PROVE  JournalOK(pager[c])'
<1> DEFINE x == pager[c]
<1>1. /\ x \in Pager /\ pager \in [Client -> Pager] /\ Legal(x, held[c])
  BY DEF JournalInv, LockInv, Shapes, Pagers
<1>2. CASE CommitPhaseOne(c)
  <2> DEFINE counter == IF 1 \in x.inJournal THEN x.cache[1] ELSE Incremented(x.vers)
             w == Modified(x, 1, counter)
             y == [w EXCEPT !.op = "commit", !.pc = "lock"]
  <2>1. pager' = [pager EXCEPT ![c] = y] /\ UNCHANGED nTxn /\ AddToJournal(c, 1)
    BY <1>1, <1>2 DEF CommitPhaseOne
  <2>2. counter \in Nat /\ 1 \in Page
    BY <1>1, Sizes, Values DEF Pager, Incremented, Torn
  <2> HIDE DEF counter
  <2>3. /\ w \in Pager /\ w.state = x.state
        /\ IF 1 \in x.inJournal THEN Keeps(x, w) /\ w.needSync = x.needSync ELSE Adds(x, w, 1)
    BY <1>1, <2>2, ModifiedPager, ModifiedAdds
  <2> HIDE DEF w
  <2>4. /\ y \in Pager /\ y.state = x.state /\ y.op = "commit" /\ y.pc = "lock"
        /\ Keeps(w, y) /\ y.needSync = w.needSync
    BY <2>3 DEF Pager, Op, Pc, Keeps
  <2> HIDE DEF y
  <2>5. IF 1 \in x.inJournal THEN Keeps(x, y) /\ y.needSync = x.needSync ELSE Adds(x, y, 1)
    BY <2>3, <2>4 DEF Keeps, Adds
  <2>6. x.op = "none" /\ x.pc = "idle" /\ x.state \in {"WRITER_CACHEMOD", "WRITER_DBMOD"}
    BY <1>2 DEF CommitPhaseOne, At
  <2> DEFINE p == 1
  <2>7. p \in Page /\ p = 1
    BY <2>2
  <2> HIDE DEF p
  <2> QED
    BY <2>1, <2>4, <2>5, <2>6, <2>7, PageJournalled
<1>3. ASSUME NEW p \in Page \ {1}, WritePage(c, p)
      PROVE  JournalOK(pager[c])'
  <2> DEFINE y == Modified(x, p, x.txn)
  <2>1. pager' = [pager EXCEPT ![c] = y] /\ UNCHANGED nTxn /\ AddToJournal(c, p)
    BY <1>1, <1>3 DEF WritePage
  <2>2. /\ y \in Pager /\ y.state = x.state /\ y.op = x.op /\ y.pc = "idle"
        /\ IF p \in x.inJournal THEN Keeps(x, y) /\ y.needSync = x.needSync ELSE Adds(x, y, p)
    <3>1. x.txn \in Nat /\ p \in Page
      BY <1>1 DEF Pager
    <3> QED
      BY <1>1, <3>1, ModifiedPager, ModifiedAdds
  <2> HIDE DEF y
  <2>3. /\ x.op = "none" /\ x.pc \in {"idle", "journal"}
        /\ x.pc = "journal" \/ x.state \in {"WRITER_CACHEMOD", "WRITER_DBMOD"}
    BY <1>3 DEF WritePage, At
  <2>4. x.state \in {"WRITER_CACHEMOD", "WRITER_DBMOD"}
    BY <1>1, <2>3 DEF Legal, Stands
  <2> QED
    BY <2>1, <2>2, <2>3, <2>4, PageJournalled
<1> QED
  BY <1>2, <1>3

\* syncJournal: the number of records, the second sync and the next header.
LEMMA HeaderSteps ==
  ASSUME JournalInv, NEW c \in Client, WriteNRec(c) \/ SecondSync(c) \/ NewHeader(c)
  PROVE  JournalOK(pager[c])'
<1> DEFINE x == pager[c]
           h == x.hdr
           o == x.off
           t == x.txn
           n == x.nRec
<1>1. /\ x \in Pager /\ pager \in [Client -> Pager] /\ Legal(x, held[c])
      /\ jrnl \in [Slot -> PagedSlot]
  BY DEF JournalInv, LockInv, Shapes, Pagers, Files
<1>2. x.pc \in {"nrec", "sync2", "newhdr"}
  BY DEF WriteNRec, SecondSync, NewHeader
<1>3. /\ x.op \in {"spill", "commit"} /\ x.state \in {"WRITER_CACHEMOD", "WRITER_DBMOD"}
      /\ x.pc = "newhdr" => x.op = "spill"
  BY <1>1, <1>2 DEF Legal, Stands
<1>4. t = nTxn /\ Counters(x) /\ Contents(x, jrnl) /\ Unsealed(x, jrnl)
  <2>1. Writes(x)
    BY <1>2, <1>3 DEF Writes, Writing
  <2> QED
    BY <2>1 DEF JournalInv, JournalOK
<1>5. /\ n \in Nat /\ h \in Nat /\ o \in Nat /\ Body(x) \in Nat /\ PageOne(x) \in {0, 1}
      /\ Body(x) <= NPage - 1 /\ NPage \in Nat /\ NPage > 1 /\ JLen = 2 * NPage
  BY <1>1, BodySize, Sizes DEF Pager
<1>6. /\ t > 0 /\ h \in 1 .. o /\ (h < o => o = h + n + 1) /\ (x.pc = "newhdr" => h = o)
      /\ (x.pc # "newhdr" => h # o)
      /\ x.inJournal \ {1} # {} /\ (x.needSync # {} => n > 0) /\ (x.op = "spill" => n > 0)
      /\ o <= 2 * Body(x) + 2 + PageOne(x)
      /\ (x.op = "spill" => o <= 2 * Body(x) + 1 + PageOne(x))
      /\ (x.state = "WRITER_CACHEMOD" /\ h < o => h = 1 /\ o = Body(x) + PageOne(x) + 2)
  BY <1>2, <1>3, <1>4 DEF Counters, Between
<1>7. CASE WriteNRec(c)
  <2> DEFINE y == [x EXCEPT !.pc = "sync2"]
  <2>1. x.pc = "nrec" /\ PatchHeader(h, n) /\ UNCHANGED nTxn
    BY <1>7 DEF WriteNRec
  <2>2. pager' = [pager EXCEPT ![c] = y]
    BY <1>1, <1>7 DEF WriteNRec, Goto
  <2>3. /\ y \in Pager /\ y.state = x.state /\ y.op = x.op /\ y.pc = "sync2" /\ Keeps(x, y)
        /\ y.needSync = x.needSync
    BY <1>1 DEF Pager, Pc, Keeps
  <2>4. pager'[c] = y
    BY <1>1, <2>2
  <2> HIDE DEF y, x
  <2>5. h < o /\ h \in Slot
    BY <1>5, <1>6, <2>1 DEF Slot
  <2>6. jrnl[h] = Header(t, 0)
    BY <1>3, <1>4, <2>1, <2>5 DEF Unsealed, Sealed
  <2>7. jrnl' = [jrnl EXCEPT ![h].n = n]
    BY <2>1 DEF PatchHeader
  <2> HIDE DEF h, o, t, n
  <2>8. jrnl'[h] = Header(t, n) /\ \A i \in Slot \ {h} : jrnl'[i] = jrnl[i]
    BY <1>1, <2>5, <2>6, <2>7 DEF Header
  <2>9. Mine(x, jrnl') = Mine(x, jrnl) /\ h \notin Mine(x, jrnl)
    BY <2>6, <2>8 DEF Mine, Header
  <2>10. \A i \in Mine(x, jrnl) : jrnl'[i] = jrnl[i]
    BY <2>8, <2>9 DEF Mine
  <2>11. Contents(x, jrnl')
    BY <1>4, <2>8, <2>9, <2>10 DEF Contents, h, o, t, n
  <2>12. Contents(y, jrnl')
    BY <2>3, <2>11, KeepsContents
  <2>13. Counters(y)
    <3>1. y.hdr # y.off /\ (y.op = "spill" => y.nRec > 0)
      BY <1>6, <2>1, <2>3 DEF Keeps, h, o, n
    <3> QED
      BY <1>1, <1>3, <1>4, <2>1, <2>3, <3>1, KeepsCounters
  <2>14. y.txn = nTxn' /\ Unsealed(y, jrnl')
    BY <1>4, <2>1, <2>3 DEF Keeps, Unsealed, Sealed, t
  <2> QED
    BY <2>4, <2>12, <2>13, <2>14 DEF JournalOK
<1>8. CASE SecondSync(c)
  <2> DEFINE spill == x.op = "spill"
             state == IF spill THEN x.state ELSE "WRITER_DBMOD"
             needSync == IF spill THEN x.needSync ELSE {}
             pc == IF spill THEN "newhdr" ELSE "write"
             y == [x EXCEPT !.hdr = x.off, !.needSync = needSync, !.state = state, !.pc = pc]
  <2>1. pager' = [pager EXCEPT ![c] = y] /\ UNCHANGED <<jrnl, nTxn>>
    BY <1>1, <1>8 DEF SecondSync, SyncJournalFile
  <2>2. /\ state \in {"WRITER_CACHEMOD", "WRITER_DBMOD"} /\ needSync \in SUBSET Page
        /\ needSync # {} => x.needSync # {}
        /\ IF x.op = "spill" THEN pc = "newhdr" ELSE pc = "write"
    BY <1>1, <1>3 DEF Pager
  <2> HIDE DEF spill, state, needSync, pc
  <2>3. /\ y \in Pager /\ y.state = state /\ y.op = x.op /\ y.pc = pc
        /\ y.txn = t /\ y.hdr = o /\ y.off = o /\ y.nRec = n /\ y.inJournal = x.inJournal
        /\ y.needSync = needSync
    BY <1>1, <2>2 DEF Pager, PagerState, Pc
  <2>4. pager'[c] = y
    BY <1>1, <2>1
  <2> HIDE DEF y, x
  <2>5. Body(y) = Body(x) /\ PageOne(y) = PageOne(x)
    BY <2>3 DEF Body, PageOne
  <2>6. Between(y) /\ o \in 1 .. o /\ ~(o < o)
    BY <1>3, <1>5, <1>6, <2>2, <2>3 DEF Between
  <2> HIDE DEF h, o, t, n
  <2>7. Counters(y)
    BY <1>3, <1>6, <2>2, <2>3, <2>5, <2>6 DEF Counters
  <2>8. Mine(y, jrnl) = Mine(x, jrnl)
    BY <2>3 DEF Mine, t
  <2>9. \A i \in (o + 1) .. (o - 1) : FALSE
    BY <1>5
  <2>10. Contents(y, jrnl)
    BY <1>4, <2>3, <2>6, <2>8, <2>9 DEF Contents, o
  <2>11. y.txn = nTxn /\ Unsealed(y, jrnl)
    BY <1>4, <2>3, <2>6 DEF Unsealed
  <2> QED
    BY <2>1, <2>4, <2>7, <2>10, <2>11 DEF JournalOK
<1>9. CASE NewHeader(c)
  <2> DEFINE y == [x EXCEPT !.nRec = 0, !.off = @ + 1, !.needSync = {},
                            !.state = "WRITER_DBMOD", !.pc = "write"]
  <2>1. /\ pager' = [pager EXCEPT ![c] = y] /\ UNCHANGED nTxn /\ x.pc = "newhdr"
        /\ WriteJournal(o, Header(t, 0))
    BY <1>1, <1>9 DEF NewHeader
  <2>2. o + 1 \in Nat /\ {} \in SUBSET Page
    BY <1>5
  <2>3. /\ y \in Pager /\ y.state = "WRITER_DBMOD" /\ y.op = x.op /\ y.pc = "write"
        /\ y.txn = t /\ y.hdr = h /\ y.off = o + 1 /\ y.nRec = 0 /\ y.inJournal = x.inJournal
        /\ y.needSync = {}
    BY <1>1, <2>2 DEF Pager, PagerState, Pc
  <2>4. pager'[c] = y
    BY <1>1, <2>1
  <2> HIDE DEF y, x
  <2>5. Body(y) = Body(x) /\ PageOne(y) = PageOne(x)
    BY <2>3 DEF Body, PageOne
  <2>6. x.op = "spill" /\ h = o /\ o \in Slot
    BY <1>3, <1>5, <1>6, <2>1 DEF Slot
  <2>7. jrnl' = [jrnl EXCEPT ![o] = Header(t, 0)]
    BY <2>1 DEF WriteJournal
  <2> HIDE DEF h, o, t, n
  <2>8. jrnl'[o] = Header(t, 0) /\ \A i \in Slot \ {o} : jrnl'[i] = jrnl[i]
    BY <1>1, <2>6, <2>7
  <2>9. \A i \in Mine(x, jrnl) : i \in Slot /\ i < o /\ i # o
    BY <1>4, <1>5, Sizes DEF Contents, Mine, o
  <2>10. Mine(y, jrnl') = Mine(x, jrnl)
    BY <2>3, <2>8, <2>9 DEF Mine, Header, t
  <2>11. \A i \in Mine(x, jrnl) : jrnl'[i] = jrnl[i] /\ i < o + 1
    BY <1>5, <2>8, <2>9, Sizes
  <2>13. Contents(y, jrnl')
    <3>1. \A i \in Mine(y, jrnl') : i < y.off /\ jrnl'[i].pg \in y.inJournal
      BY <1>4, <2>3, <2>10, <2>11 DEF Contents
    <3>2. \A q \in y.inJournal : \E i \in Mine(y, jrnl') : jrnl'[i].pg = q
      BY <1>4, <2>3, <2>10, <2>11 DEF Contents
    <3>3. \A i, k \in Mine(y, jrnl') : jrnl'[i].pg = jrnl'[k].pg => i = k
      BY <1>4, <2>10, <2>11 DEF Contents
    <3>4. ASSUME NEW i \in (y.hdr + 1) .. (y.off - 1)
          PROVE  FALSE
      <4>1. y.hdr = h /\ y.off = h + 1 /\ h \in Nat
        BY <1>5, <2>3, <2>6
      <4> QED
        BY <4>1, <3>4
    <3>5. jrnl'[y.hdr] = Header(y.txn, 0)
      BY <2>3, <2>6, <2>8
    <3> QED
      BY <3>1, <3>2, <3>3, <3>4, <3>5 DEF Contents
  <2>14. Counters(y)
    <3>1. /\ h \in 1 .. (o + 1) /\ h < o + 1 /\ o + 1 = h + 0 + 1 /\ h # o + 1 /\ ~(0 > 0)
          /\ o + 1 <= 2 * Body(x) + 2 + PageOne(x)
      BY <1>5, <1>6, <2>6
    <3> QED
      BY <1>6, <2>3, <2>5, <3>1 DEF Counters
  <2>15. y.txn = nTxn' /\ Unsealed(y, jrnl')
    BY <1>4, <2>1, <2>3, <2>6, <2>8 DEF Unsealed
  <2> QED
    BY <2>4, <2>13, <2>14, <2>15 DEF JournalOK
<1> QED
  BY <1>7, <1>8, <1>9

-----------------------------------------------------------------------------
(* The journal at every step. *)

\* A step to y that changes neither pInJournal nor which pages need a sync.
LEMMA StaysClean ==
  ASSUME NEW c \in Client, pager \in [Client -> Pager], NEW y,
         pager' = [pager EXCEPT ![c] = y], Clean(pager[c]),
         \/ y.state \notin {"OPEN", "READER", "WRITER_LOCKED"}
         \/ y.inJournal = {} /\ y.needSync = {}
         \/ /\ pager[c].state \in {"OPEN", "READER", "WRITER_LOCKED"}
            /\ y.inJournal = pager[c].inJournal /\ y.needSync = pager[c].needSync
  PROVE  Clean(pager[c])'
<1>1. pager'[c] = y
  OBVIOUS
<1> QED
  BY <1>1 DEF Clean

\* pager_unlock clears pInJournal.
LEMMA ClosedClean ==
  ASSUME NEW x \in Pager
  PROVE  /\ Closed(x).inJournal = {} /\ Closed(x).needSync = {}
         /\ Unlocked(x).inJournal = {} /\ Unlocked(x).needSync = {}
         /\ Ended(x).inJournal = {} /\ Ended(x).needSync = {}
<1>1. /\ NewPager \in Pager /\ NewPager.inJournal = {} /\ NewPager.needSync = {}
      /\ Closed(x) \in Pager /\ Unlocked(x) \in Pager
  BY Values, ClosedPager DEF NewPager
<1>2. Closed(x).inJournal = {} /\ Closed(x).needSync = {}
  BY <1>1 DEF Closed, Pager
<1>3. Unlocked(x).inJournal = {} /\ Unlocked(x).needSync = {}
  BY <1>1, <1>2 DEF Unlocked, Pager
<1> DEFINE rest == [Unlocked(x) EXCEPT !.state = "READER"]
<1>4. rest \in Pager /\ rest.inJournal = {} /\ rest.needSync = {}
  BY <1>1, <1>3 DEF Pager, PagerState
<1> HIDE DEF rest
<1>5. Ended(x) = IF x.op = "hot" THEN [rest EXCEPT !.state = "OPEN", !.pc = "version"] ELSE rest
  BY DEF Ended, rest
<1>6. Ended(x).inJournal = {} /\ Ended(x).needSync = {}
  BY <1>4, <1>5 DEF Pager
<1> QED
  BY <1>2, <1>3, <1>6

\* A pager has nothing in pInJournal before its transaction changes a page.
LEMMA CleanSteps ==
  ASSUME JournalInv, NEW c \in Client, ClientStep(c) \/ ClientDies(c)
  PROVE  Clean(pager[c])'
<1> DEFINE x == pager[c]
           Start == {"OPEN", "READER", "WRITER_LOCKED"}
<1>1. /\ x \in Pager /\ pager \in [Client -> Pager] /\ Legal(x, held[c]) /\ Clean(x) /\ Files
      /\ x.pc = "play" => x.todo # {}
  BY DEF JournalInv, LockInv, Shapes, Pagers
<1>2. /\ Closed(x).inJournal = {} /\ Closed(x).needSync = {}
      /\ Unlocked(x).inJournal = {} /\ Unlocked(x).needSync = {}
      /\ Ended(x).inJournal = {} /\ Ended(x).needSync = {}
  BY <1>1, ClosedClean
<1>3. ASSUME NEW pc, Goto(c, pc)
      PROVE  Clean(pager[c])'
  <2> DEFINE y == [x EXCEPT !.pc = pc]
  <2>1. pager' = [pager EXCEPT ![c] = y]
    BY <1>1, <1>3 DEF Goto
  <2>2. y.state = x.state /\ y.inJournal = x.inJournal /\ y.needSync = x.needSync
    BY <1>1 DEF Pager
  <2> HIDE DEF y
  <2>3. \/ y.state \notin Start
        \/ x.state \in Start /\ y.inJournal = x.inJournal /\ y.needSync = x.needSync
    BY <2>2
  <2> QED
    BY <1>1, <2>1, <2>3, StaysClean
<1>4. CASE \/ SharedLock(c) \/ JournalAccess(c) \/ CheckReserved(c) \/ FirstByte(c)
           \/ EndTransaction(c) \/ FirstSync(c) \/ WriteNRec(c)
  BY <1>3, <1>4 DEF SharedLock, JournalAccess, CheckReserved, FirstByte, EndTransaction,
                    FirstSync, WriteNRec
<1>5. CASE EndRead(c) \/ EndUnlock(c) \/ ErrorUnlock(c) \/ HotFails(c) \/ HotRefused(c)
  <2>1. PICK y \in {Unlocked(x), Closed(x), Ended(x)} : pager' = [pager EXCEPT ![c] = y]
    BY <1>1, <1>5 DEF EndRead, EndUnlock, ErrorUnlock, HotFails, HotRefused
  <2> QED
    BY <1>1, <1>2, <2>1, StaysClean
<1>6. CASE HotLock(c)
  BY <1>3, <1>6 DEF HotLock
<1>7. CASE Recheck(c)
  <2>1. CASE pager' = [pager EXCEPT ![c].op = "hot", ![c].pc = "hotsync"]
    <3> DEFINE y == [x EXCEPT !.op = "hot", !.pc = "hotsync"]
    <3>1. pager' = [pager EXCEPT ![c] = y]
      BY <1>1, <2>1
    <3>2. y.state = x.state /\ y.inJournal = x.inJournal /\ y.needSync = x.needSync
      BY <1>1 DEF Pager
    <3> HIDE DEF y
    <3>3. \/ y.state \notin Start
          \/ x.state \in Start /\ y.inJournal = x.inJournal /\ y.needSync = x.needSync
      BY <3>2
    <3> QED
      BY <1>1, <3>1, <3>3, StaysClean
  <2> QED
    BY <1>3, <1>7, <2>1 DEF Recheck
<1>8. CASE HotSync(c)
  <2> DEFINE todo == Playable(jrnl, 0)
             pc == Playing(x, todo)
             cache == IF todo = {} THEN x.cache ELSE EmptyCache
             y == [x EXCEPT !.todo = todo, !.cache = cache, !.pc = pc]
  <2>1. pager' = [pager EXCEPT ![c] = y]
    BY <1>1, <1>8 DEF HotSync
  <2> HIDE DEF todo, cache, pc
  <2>2. y.state = x.state /\ y.inJournal = x.inJournal /\ y.needSync = x.needSync
    BY <1>1 DEF Pager
  <2> HIDE DEF y
  <2>3. \/ y.state \notin Start
        \/ x.state \in Start /\ y.inJournal = x.inJournal /\ y.needSync = x.needSync
    BY <2>2
  <2> QED
    BY <1>1, <2>1, <2>3, StaysClean
<1>9. CASE CheckVersion(c)
  <2> DEFINE cache == IF x.heldShared /\ x.vers # db[1] THEN EmptyCache ELSE x.cache
             y == [x EXCEPT !.state = "READER", !.pc = "idle", !.heldShared = TRUE,
                            !.cache = cache]
  <2>1. pager' = [pager EXCEPT ![c] = y]
    BY <1>1, <1>9 DEF CheckVersion
  <2>2. x.pc = "version"
    BY <1>9 DEF CheckVersion, At
  <2> HIDE DEF cache
  <2>3. y.inJournal = x.inJournal /\ y.needSync = x.needSync
    BY <1>1 DEF Pager
  <2> HIDE DEF y, x
  <2>4. x.state \in Start
    BY <1>1, <2>2 DEF Legal, Stands
  <2> QED
    BY <1>1, <2>1, <2>3, <2>4, StaysClean DEF x
<1>10. CASE Begin(c) \/ EndEmpty(c)
  <2>1. PICK s \in {"WRITER_LOCKED", "READER"} : pager' = [pager EXCEPT ![c].state = s]
    BY <1>10 DEF Begin, EndEmpty
  <2> DEFINE y == [x EXCEPT !.state = s]
  <2>2. pager' = [pager EXCEPT ![c] = y]
    BY <1>1, <2>1
  <2>3. y.inJournal = x.inJournal /\ y.needSync = x.needSync /\ x.state \in Start
    BY <1>1, <1>10 DEF Pager, Begin, EndEmpty
  <2> HIDE DEF y
  <2> QED
    BY <1>1, <2>2, <2>3, StaysClean
<1>11. ASSUME NEW p \in Page, ReadPage(c, p)
       PROVE  Clean(pager[c])'
  <2> DEFINE y == [x EXCEPT !.cache[p] = db[p], !.vers = IF p = 1 THEN db[1] ELSE @]
  <2>1. pager' = [pager EXCEPT ![c] = y]
    BY <1>1, <1>11 DEF ReadPage
  <2>2. y.state = x.state /\ y.inJournal = x.inJournal /\ y.needSync = x.needSync
    BY <1>1 DEF Pager
  <2> HIDE DEF y
  <2>3. \/ y.state \notin Start
        \/ x.state \in Start /\ y.inJournal = x.inJournal /\ y.needSync = x.needSync
    BY <2>2
  <2> QED
    BY <1>1, <2>1, <2>3, StaysClean
<1>12. CASE PlaybackOnePage(c)
  <2> DEFINE i == Min(x.todo)
             q == jrnl[i].pg
             cached == x.cache[q] # NoPage
             todo == x.todo \ {i}
             vers == IF cached /\ q = 1 THEN jrnl[i].n ELSE x.vers
             page == IF cached THEN jrnl[i].n ELSE x.cache[q]
             pc == Playing(x, todo)
             y == [x EXCEPT !.todo = todo, !.cache[q] = page, !.vers = vers, !.pc = pc]
  <2>1. pager' = [pager EXCEPT ![c] = y]
    BY <1>1, <1>12 DEF PlaybackOnePage
  <2> HIDE DEF i, q, cached, todo, vers, page, pc
  <2>2. y.state = x.state /\ y.inJournal = x.inJournal /\ y.needSync = x.needSync
    BY <1>1 DEF Pager
  <2> HIDE DEF y
  <2>3. \/ y.state \notin Start
        \/ x.state \in Start /\ y.inJournal = x.inJournal /\ y.needSync = x.needSync
    BY <2>2
  <2> QED
    BY <1>1, <2>1, <2>3, StaysClean
<1>13. ASSUME pager'[c].state \notin Start
       PROVE  Clean(pager[c])'
  BY <1>13 DEF Clean
<1>14. CASE DbSync(c)
  <2>1. CASE x.op = "commit"
    BY <1>1, <1>13, <1>14, <2>1 DEF DbSync, Pager
  <2> QED
    BY <1>3, <1>14, <2>1 DEF DbSync
<1>15. ASSUME NEW p \in Page, OpenJournal(c, p) \/ WritePage(c, p) \/ Spill(c, p)
       PROVE  Clean(pager[c])'
  <2>1. x.txn \in Nat
    BY <1>1 DEF Pager
  <2>2. Modified(x, p, x.txn).state = x.state
    BY <1>1, <2>1, ModifiedPager
  <2>3. CASE OpenJournal(c, p)
    BY <1>1, <1>13, <2>3 DEF OpenJournal, Pager
  <2>4. CASE WritePage(c, p)
    <3>1. x.pc = "journal" \/ x.state \in Writing
      BY <2>4 DEF WritePage, At, Writing
    <3>2. x.state \notin Start
      BY <1>1, <3>1 DEF Legal, Stands, Writing
    <3> QED
      BY <1>1, <1>13, <2>2, <2>4, <3>2 DEF WritePage
  <2>5. CASE Spill(c, p)
    BY <1>1, <1>13, <2>5 DEF Spill, Pager
  <2> QED
    BY <1>15, <2>3, <2>4, <2>5
<1>16. CASE ExclusiveLock(c) \/ LockBusy(c) \/ SecondSync(c) \/ NewHeader(c)
  <2>1. x.pc \in {"lock", "sync2", "newhdr"}
    BY <1>16 DEF ExclusiveLock, LockBusy, SecondSync, NewHeader
  <2>2. x.state \notin Start
    BY <1>1, <2>1 DEF Legal, Stands
  <2>3. CASE ExclusiveLock(c)
    BY <1>1, <1>3, <2>3 DEF ExclusiveLock, Clean
  <2>4. CASE LockBusy(c)
    BY <1>1, <1>13, <2>2, <2>4 DEF LockBusy, Pager
  <2>5. CASE SecondSync(c)
    BY <1>1, <1>13, <2>2, <2>5 DEF SecondSync, Pager
  <2>6. CASE NewHeader(c)
    BY <1>1, <1>13, <2>6 DEF NewHeader, Pager
  <2> QED
    BY <1>16, <2>3, <2>4, <2>5, <2>6
<1>17. CASE SpillWrite(c) \/ CommitWrite(c)
  <2>1. x.pc = "write"
    BY <1>17 DEF SpillWrite, CommitWrite, At
  <2>2. x.state \notin Start
    BY <1>1, <2>1 DEF Legal, Stands
  <2>3. CASE SpillWrite(c)
    BY <1>1, <1>13, <2>2, <2>3 DEF SpillWrite, Pager
  <2>4. CASE CommitWrite(c)
    BY <1>1, <1>13, <2>2, <2>4 DEF CommitWrite, Pager
  <2> QED
    BY <1>17, <2>3, <2>4
<1>18. CASE CommitPhaseOne(c)
  <2> DEFINE counter == IF 1 \in x.inJournal THEN x.cache[1] ELSE Incremented(x.vers)
             w == Modified(x, 1, counter)
  <2>1. counter \in Nat /\ 1 \in Page
    BY <1>1, Sizes, Values DEF Pager, Incremented, Torn
  <2>2. pager' = [pager EXCEPT ![c] = [w EXCEPT !.op = "commit", !.pc = "lock"]]
    BY <1>1, <1>18 DEF CommitPhaseOne
  <2> HIDE DEF counter
  <2>3. w \in Pager /\ w.state = x.state
    BY <1>1, <2>1, ModifiedPager
  <2>4. x.state \notin Start
    BY <1>18 DEF CommitPhaseOne
  <2> HIDE DEF w
  <2>5. pager'[c].state = w.state
    BY <1>1, <2>2, <2>3 DEF Pager
  <2> QED
    BY <1>13, <2>3, <2>4, <2>5
<1>19. CASE Rollback(c) \/ CommitFails(c)
  <2>1. x.state \in Writing \/ x.op = "commit"
    BY <1>19 DEF Rollback, CommitFails
  <2>2. x.state \notin Start
    BY <1>1, <2>1 DEF Legal, Stands, Writing
  <2>3. StartPlayback(x).state = x.state
    BY <1>1, PlaybackPager
  <2> QED
    BY <1>1, <1>13, <1>19, <2>2, <2>3 DEF Rollback, CommitFails
<1>20. CASE PagerError(c) \/ DeleteFails(c)
  BY <1>1, <1>13, <1>20 DEF PagerError, DeleteFails, Pager
<1>21. CASE ClientDies(c)
  BY <1>1, <1>13, <1>21, Values DEF ClientDies, Pager
<1> QED
  BY <1>4, <1>5, <1>6, <1>7, <1>8, <1>9, <1>10, <1>11, <1>12, <1>14, <1>15, <1>16, <1>17,
     <1>18, <1>19, <1>20, <1>21 DEF ClientStep

\* Every step of a client keeps its own account of the journal true.
LEMMA OwnJournal ==
  ASSUME JournalInv, NEW c \in Client, ClientStep(c) \/ ClientDies(c)
  PROVE  JournalOK(pager[c])'
BY QuietSteps, PlaybackSteps, JournalFreeSteps, OpenJournalStep, AddingSteps, HeaderSteps
   DEF ClientStep

\* What the journal holds and what the pagers know of it agree, at every step.
LEMMA JournalInvariance ==
  Spec => []JournalInv
<1>1. Init /\ LockInv => JournalInv
  <2> SUFFICES ASSUME Init, LockInv PROVE JournalInv
    OBVIOUS
  <2>1. /\ NewPager.state = "OPEN" /\ NewPager.inJournal = {} /\ NewPager.needSync = {}
    BY DEF NewPager
  <2>2. \A c \in Client : JournalOK(pager[c]) /\ Clean(pager[c])
    BY <2>1 DEF Init, JournalOK, Writes, Writing, Clean
  <2>3. OldKeys
    <3>1. Nil \in OldSlot(0)
      BY NewSlots
    <3> QED
      BY <3>1 DEF Init, OldKeys, NoJournal
  <2> QED
    BY <2>2, <2>3 DEF JournalInv
<1>2. JournalInv /\ [Next]_vars /\ LockInv' => JournalInv'
  <2> SUFFICES ASSUME JournalInv, [Next]_vars, LockInv'
               PROVE  OldKeys' /\ \A d \in Client : JournalOK(pager[d])' /\ Clean(pager[d])'
    BY DEF JournalInv
  <2>1. LockInv /\ OldKeys /\ nTxn \in Nat
    BY DEF JournalInv, LockInv, Shapes, Pagers
  <2>2. ASSUME NEW c \in Client, ClientStep(c) \/ ClientDies(c)
        PROVE  OldKeys' /\ \A d \in Client : JournalOK(pager[d])' /\ Clean(pager[d])'
    <3>1. Own(c)
      BY <2>1, <2>2, ClientWell DEF Well
    <3>2. JournalOK(pager[c])' /\ Clean(pager[c])'
      BY <2>2, OwnJournal, CleanSteps
    <3>3. ASSUME NEW d \in Client \ {c}
          PROVE  JournalOK(pager[d])' /\ Clean(pager[d])'
      <4>1. pager'[d] = pager[d] /\ JournalOK(pager[d]) /\ Clean(pager[d])
        BY <3>1 DEF Own, JournalInv
      <4>2. Writes(pager[d]) => UNCHANGED <<jrnl, nTxn>>
        BY <2>1, <2>2, OthersJournal DEF ClientDies, server
      <4> QED
        BY <4>1, <4>2 DEF JournalOK, Clean
    <3>4. OldKeys'
      <4>1. CASE ClientStep(c)
        BY <4>1, ClientKeys
      <4>2. CASE ClientDies(c)
        BY <2>1, <4>2, ServerKeys DEF ClientDies, server
      <4> QED
        BY <2>2, <4>1, <4>2
    <3> QED
      BY <3>2, <3>3, <3>4
  <2>3. ASSUME Reconnect
        PROVE  \A d \in Client : JournalOK(pager[d])' /\ Clean(pager[d])'
    <3>1. \A d \in Client : pager'[d] = NewPager
      BY <2>3 DEF Reconnect
    <3>2. NewPager.state = "OPEN" /\ NewPager.inJournal = {} /\ NewPager.needSync = {}
      BY DEF NewPager
    <3> QED
      BY <3>1, <3>2 DEF JournalOK, Writes, Writing, Clean
  <2>4. CASE ServerRestarts
    BY <2>1, <2>3, <2>4, ServerKeys DEF ServerRestarts, server
  <2>5. CASE PowerLoss
    <3>1. PICK d \in Outcomes(dbDisk), j \in Outcomes(jDisk) \cup ghosts :
                 jrnl' = j /\ jDisk' = [i \in Slot |-> {j[i]}]
      BY <2>5 DEF PowerLoss
    <3>2. j \in [Slot -> OldSlot(nTxn)]
      <4>1. CASE j \in Outcomes(jDisk)
        BY <2>1, <4>1, OutcomesChoose DEF OldKeys
      <4>2. CASE j \in ghosts
        BY <2>1, <4>2 DEF OldKeys
      <4> QED
        BY <4>1, <4>2
    <3>3. OldKeys'
      BY <2>5, <3>1, <3>2 DEF OldKeys, PowerLoss
    <3> QED
      BY <2>3, <2>5, <3>3 DEF PowerLoss
  <2>6. CASE UNCHANGED vars
    <3>1. UNCHANGED <<pager, jrnl, jDisk, ghosts, nTxn>>
      BY <2>6 DEF vars, server
    <3> QED
      BY <3>1 DEF JournalInv, OldKeys, JournalOK, Clean
  <2> QED
    BY <2>2, <2>4, <2>5, <2>6 DEF Next
<1> QED
  BY <1>1, <1>2, LockInvariance, PTL DEF Spec

\* The account implies what syncJournal and pager_playback rely on.
LEMMA JournalInvMatches ==
  JournalInv => JournalMatchesPager
<1> SUFFICES ASSUME JournalInv, NEW c \in Client, Writes(pager[c])
             PROVE  LET pg == pager[c]
                        mine == Mine(pg, jrnl)
                    IN  /\ {jrnl[i].pg : i \in mine} = pg.inJournal
                        /\ \A i, k \in mine : jrnl[i].pg = jrnl[k].pg => i = k
                        /\ pg.hdr < pg.off =>
                             /\ jrnl[pg.hdr] \in {Header(pg.txn, 0), Header(pg.txn, pg.nRec)}
                             /\ {i \in mine : i > pg.hdr} = (pg.hdr + 1) .. (pg.hdr + pg.nRec)
  BY DEF JournalMatchesPager, Writes, Mine
<1> DEFINE pg == pager[c]
           mine == Mine(pg, jrnl)
<1>1. pg \in Pager /\ Counters(pg) /\ Contents(pg, jrnl)
  BY DEF JournalInv, JournalOK, LockInv, Shapes, Pagers
<1>2. pg.hdr \in Nat /\ pg.off \in Nat /\ pg.nRec \in Nat /\ \A i \in mine : i \in Nat
  BY <1>1, Sizes DEF Pager, Mine
<1>3. {jrnl[i].pg : i \in mine} = pg.inJournal
  BY <1>1 DEF Contents
<1>4. \A i, k \in mine : jrnl[i].pg = jrnl[k].pg => i = k
  BY <1>1 DEF Contents
<1>5. ASSUME pg.hdr < pg.off
      PROVE  {i \in mine : i > pg.hdr} = (pg.hdr + 1) .. (pg.hdr + pg.nRec)
  <2>1. pg.off = pg.hdr + pg.nRec + 1
    BY <1>1, <1>5 DEF Counters
  <2>2. /\ \A i \in mine : i < pg.off
        /\ \A i \in (pg.hdr + 1) .. (pg.off - 1) : i \in mine
    BY <1>1 DEF Contents
  <2> HIDE DEF mine, pg
  <2> QED
    BY <1>2, <2>1, <2>2
<1> QED
  BY <1>1, <1>3, <1>4, <1>5 DEF Contents

\* For any number of clients, pages, transactions and faults, the journal of a
\* transaction that writes has exactly the records its pager has counted: neither
\* another client's calls nor an older journal's records mix with them.
THEOREM JournalMatches ==
  Spec => []JournalMatchesPager
BY JournalInvariance, JournalInvMatches, PTL
=============================================================================
