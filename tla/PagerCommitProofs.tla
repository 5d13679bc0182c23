-------------------------- MODULE PagerCommitProofs --------------------------
(***************************************************************************)
(* Proofs about PagerCommit, for any number of clients, pages,             *)
(* transactions and faults: who may write the database file, and what the  *)
(* journal holds while it is written.                                      *)
(***************************************************************************)
EXTENDS PagerCommit, FiniteSetTheorems, WellFoundedInduction, TLAPS

-----------------------------------------------------------------------------
(* Least elements, and with them induction. *)

Below == {ss \in Nat \X Nat : ss[1] < ss[2]}

\* A set of numbers that is not empty has a least one.
LEMMA Least ==
  ASSUME NEW T \in SUBSET Nat, T # {}
  PROVE  \E x \in T : \A y \in T : x <= y
<1>1. IsWellFoundedOn(Below, Nat)
  BY NatLessThanWellFounded DEF OpToRel, Below
<1>2. PICK x \in T : \A y \in T : <<y, x>> \notin Below
  BY <1>1, WFMin
<1>3. \A y \in T : y < x => <<y, x>> \in Below
  BY DEF Below
<1>4. x \in Nat /\ \A y \in T : y \in Nat
  OBVIOUS
<1>5. ASSUME NEW y \in T
      PROVE  x <= y
  <2>1. ~(y < x)
    BY <1>2, <1>3
  <2> QED
    BY <1>4, <2>1
<1> QED
  BY <1>5

\* Min takes that one.
LEMMA MinIsLeast ==
  ASSUME NEW T \in SUBSET Nat, T # {}
  PROVE  Min(T) \in T /\ \A y \in T : Min(T) <= y
BY Least DEF Min

-----------------------------------------------------------------------------
(* The journal as a rollback reads it. *)

\* The pages and slots are numbers, and there are at least two of each.
LEMMA Sizes ==
  /\ NPage \in Nat /\ NPage > 1 /\ JLen \in Nat /\ JLen = 2 * NPage
  /\ 1 \in Page /\ 1 \in Slot /\ 2 \in Slot
  /\ \A p \in Page : p \in Nat
  /\ \A i \in Slot : i \in Nat
BY PagerCommitAssumption DEF JLen, Page, Slot

SlotRec == [kind : {"nil", "hdr", "rec"}, key : Nat, n : Nat, pg : Nat]

\* Records are made of pages.
PagedSlot == {s \in SlotRec : s.kind = "rec" => s.pg \in Page}

Readable(j) == j \in [Slot -> PagedSlot]

\* The slots from the header at h on, f being those of the headers behind it.
PlayedAt(j, own, f, h) ==
    IF h > JLen \/ j[h].kind # "hdr" THEN {}
    ELSE LET n == IF j[h].n = 0 /\ h = own THEN JLen - h ELSE j[h].n
             s == Segment(j, h, n)
         IN  IF n = 0 \/ Cardinality(s) < n THEN s
             ELSE s \cup f[h + n + 1]

\* The header at h leads to no slot the journal does not have.
LEMMA NextHeader ==
  ASSUME NEW j, Readable(j), NEW h \in Slot, NEW n \in Nat,
         ~(Cardinality(Segment(j, h, n)) < n)
  PROVE  h + n + 1 \in (h + 1) .. (JLen + 1)
<1> DEFINE s == Segment(j, h, n)
           rest == (h + 1) .. JLen
<1>1. h \in Nat /\ JLen \in Nat /\ h <= JLen
  BY Sizes DEF Slot
<1>2. s \subseteq rest
  BY <1>1 DEF Segment, Slot
<1>3. IsFiniteSet(rest) /\ Cardinality(rest) = JLen - h
  <2>1. h + 1 \in Int /\ JLen \in Int
    BY <1>1
  <2>2. IsFiniteSet(rest) /\ Cardinality(rest) = IF h + 1 > JLen THEN 0 ELSE JLen - (h + 1) + 1
    BY <2>1, FS_Interval
  <2> HIDE DEF rest
  <2> QED
    BY <1>1, <2>2
<1>4. Cardinality(s) <= JLen - h /\ Cardinality(s) \in Nat
  BY <1>2, <1>3, FS_Subset, FS_CardinalityType
<1> HIDE DEF s
<1>5. ~(Cardinality(s) < n)
  BY DEF s
<1> QED
  BY <1>1, <1>4, <1>5

Places == 1 .. (JLen + 1)

\* What is played from h on depends only on what is played behind h.
LEMMA PlayedSame ==
  ASSUME NEW j, Readable(j), NEW own, NEW h \in Places, NEW f, NEW g,
         \A k \in Places : k > h => f[k] = g[k]
  PROVE  PlayedAt(j, own, f, h) = PlayedAt(j, own, g, h)
<1>1. CASE h > JLen \/ j[h].kind # "hdr"
  BY <1>1 DEF PlayedAt
<1>2. CASE ~(h > JLen \/ j[h].kind # "hdr")
  <2> DEFINE n == IF j[h].n = 0 /\ h = own THEN JLen - h ELSE j[h].n
             s == Segment(j, h, n)
  <2>1. h \in Slot /\ h \in Nat /\ JLen \in Nat /\ h <= JLen
    BY <1>2, Sizes DEF Places, Slot
  <2>2. n \in Nat
    BY <2>1 DEF Readable, PagedSlot, SlotRec
  <2> HIDE DEF n
  <2>3. ~(Cardinality(s) < n) => f[h + n + 1] = g[h + n + 1]
    <3> SUFFICES ASSUME ~(Cardinality(Segment(j, h, n)) < n)
                 PROVE  f[h + n + 1] = g[h + n + 1]
      OBVIOUS
    <3>1. h + n + 1 \in (h + 1) .. (JLen + 1)
      BY <2>1, <2>2, NextHeader
    <3>2. h + n + 1 \in Places /\ h + n + 1 > h
      BY <2>1, <2>2, <3>1 DEF Places
    <3> QED
      BY <3>2
  <2> HIDE DEF s
  <2>4. PlayedAt(j, own, f, h) = IF n = 0 \/ Cardinality(s) < n THEN s ELSE s \cup f[h + n + 1]
    BY <1>2 DEF PlayedAt, n, s
  <2>5. PlayedAt(j, own, g, h) = IF n = 0 \/ Cardinality(s) < n THEN s ELSE s \cup g[h + n + 1]
    BY <1>2 DEF PlayedAt, n, s
  <2> QED
    BY <2>3, <2>4, <2>5
<1> QED
  BY <1>1, <1>2

\* The loop of pager_playback is well defined.
LEMMA PlayedExists ==
  ASSUME NEW j, Readable(j), NEW own
  PROVE  \E f : f = [h \in Places |-> PlayedAt(j, own, f, h)]
<1> DEFINE From(f, m) == /\ DOMAIN f = Places /\ f = [h \in Places |-> f[h]]
                         /\ \A h \in Places : h >= JLen + 1 - m => f[h] = PlayedAt(j, own, f, h)
           Bad == {m \in 0 .. JLen : ~\E f : From(f, m)}
<1>1. JLen \in Nat
  BY Sizes
<1>2. Bad = {}
  <2> SUFFICES ASSUME Bad # {} PROVE FALSE
    OBVIOUS
  <2>1. PICK m \in Bad : \A y \in Bad : m <= y
    <3>1. Bad \in SUBSET Nat
      OBVIOUS
    <3> QED
      BY <3>1, Least
  <2> DEFINE at == JLen + 1 - m
  <2>2. m \in 0 .. JLen /\ at \in Places /\ ~\E f : From(f, m)
    BY <1>1 DEF Places
  <2>3. \E f : From(f, m - 1)
    <3>1. CASE m = 0
      <4> DEFINE f == [h \in Places |-> {}]
      <4>1. From(f, m - 1)
        BY <1>1, <3>1 DEF Places
      <4> QED
        BY <4>1
    <3>2. CASE m # 0
      <4>1. m - 1 \in 0 .. JLen /\ ~(m <= m - 1)
        BY <1>1, <2>2, <3>2
      <4> QED
        BY <2>1, <4>1
    <3> QED
      BY <3>1, <3>2
  <2>4. PICK f : From(f, m - 1)
    BY <2>3
  <2> DEFINE g == [h \in Places |-> IF h = at THEN PlayedAt(j, own, f, at) ELSE f[h]]
  <2>5. ASSUME NEW h \in Places, h >= at
        PROVE  g[h] = PlayedAt(j, own, g, h)
    <3>1. \A k \in Places : k > h => f[k] = g[k]
      BY <1>1, <2>2, <2>5 DEF Places
    <3>2. PlayedAt(j, own, f, h) = PlayedAt(j, own, g, h)
      <4> HIDE DEF g
      <4> QED
        BY <3>1, PlayedSame
    <3>3. g[h] = PlayedAt(j, own, f, h)
      <4>1. CASE h = at
        BY <4>1
      <4>2. CASE h # at
        <5>1. h >= JLen + 1 - (m - 1)
          BY <1>1, <2>2, <2>5, <4>2 DEF Places
        <5>2. f[h] = PlayedAt(j, own, f, h)
          BY <2>4, <5>1
        <5> QED
          BY <4>2, <5>2
      <4> QED
        BY <4>1, <4>2
    <3> QED
      BY <3>2, <3>3
  <2>6. From(g, m)
    <3>1. DOMAIN g = Places /\ g = [h \in Places |-> g[h]]
      OBVIOUS
    <3> HIDE DEF g
    <3> QED
      BY <2>5, <3>1
  <2> QED
    BY <2>2, <2>6
<1>3. JLen \in 0 .. JLen
  BY <1>1
<1>4. PICK f : From(f, JLen)
  BY <1>2, <1>3
<1>5. \A h \in Places : f[h] = PlayedAt(j, own, f, h)
  BY <1>1, <1>4 DEF Places
<1>6. f = [h \in Places |-> PlayedAt(j, own, f, h)]
  BY <1>4, <1>5
<1> QED
  BY <1>6

\* A slot that a header leads to is one of its records or one of a later header.
LEMMA PlayableUnfolds ==
  ASSUME NEW j, Readable(j), NEW own
  PROVE  \E f : /\ Playable(j, own) = f[1]
                /\ f = [h \in Places |-> PlayedAt(j, own, f, h)]
<1> DEFINE from == CHOOSE f : f = [h \in Places |-> PlayedAt(j, own, f, h)]
<1>1. from = [h \in Places |-> PlayedAt(j, own, from, h)]
  BY PlayedExists
<1>2. Playable(j, own) = from[1]
  BY DEF Playable, PlayedAt, Places
<1> HIDE DEF from
<1> QED
  BY <1>1, <1>2

\* pager_playback restores records, and nothing else.
LEMMA PlayableRecords ==
  ASSUME NEW j, Readable(j), NEW own
  PROVE  \A i \in Playable(j, own) : i \in Slot /\ j[i].kind = "rec"
<1>1. PICK f : /\ Playable(j, own) = f[1]
               /\ f = [h \in Places |-> PlayedAt(j, own, f, h)]
  BY PlayableUnfolds
<1> DEFINE Records == {i \in Slot : j[i].kind = "rec"}
           Bad == {m \in 0 .. JLen : ~(f[JLen + 1 - m] \subseteq Records)}
<1>2. JLen \in Nat
  BY Sizes
<1>3. Bad = {}
  <2> SUFFICES ASSUME Bad # {} PROVE FALSE
    OBVIOUS
  <2>1. PICK m \in Bad : \A y \in Bad : m <= y
    <3>1. Bad \in SUBSET Nat
      OBVIOUS
    <3> QED
      BY <3>1, Least
  <2> DEFINE h == JLen + 1 - m
  <2>2. m \in 0 .. JLen /\ h \in Places /\ ~(f[h] \subseteq Records)
    BY <1>2 DEF Places
  <2>3. \A k \in Places : k > h => f[k] \subseteq Records
    <3> SUFFICES ASSUME NEW k \in Places, k > h PROVE f[k] \subseteq Records
      OBVIOUS
    <3>1. JLen + 1 - k \in 0 .. JLen /\ ~(m <= JLen + 1 - k)
      BY <1>2, <2>2 DEF Places
    <3>2. JLen + 1 - (JLen + 1 - k) = k
      BY <1>2 DEF Places
    <3> QED
      BY <2>1, <3>1, <3>2
  <2>4. f[h] = PlayedAt(j, own, f, h)
    BY <1>1, <2>2
  <2> HIDE DEF h
  <2>5. CASE h > JLen \/ j[h].kind # "hdr"
    BY <2>2, <2>4, <2>5 DEF PlayedAt
  <2>6. CASE ~(h > JLen \/ j[h].kind # "hdr")
    <3> DEFINE n == IF j[h].n = 0 /\ h = own THEN JLen - h ELSE j[h].n
               s == Segment(j, h, n)
    <3>1. h \in Slot /\ h \in Nat /\ h <= JLen
      BY <1>2, <2>2, <2>6 DEF Places, Slot
    <3>2. n \in Nat
      BY <1>2, <3>1 DEF Readable, PagedSlot, SlotRec
    <3> HIDE DEF n
    <3>3. s \subseteq Records
      BY <3>1, <3>2, Sizes DEF Segment
    <3>4. ~(Cardinality(s) < n) => h + n + 1 \in Places /\ h + n + 1 > h
      BY <1>2, <3>1, <3>2, NextHeader DEF Places
    <3> HIDE DEF s
    <3>5. f[h] = IF n = 0 \/ Cardinality(s) < n THEN s ELSE s \cup f[h + n + 1]
      BY <2>4, <2>6 DEF PlayedAt, n, s
    <3> QED
      BY <2>2, <2>3, <3>3, <3>4, <3>5
  <2> QED
    BY <2>5, <2>6
<1>4. JLen \in 0 .. JLen /\ JLen + 1 - JLen = 1
  BY <1>2
<1>5. f[1] \subseteq Records
  BY <1>3, <1>4
<1> QED
  BY <1>1, <1>5

-----------------------------------------------------------------------------
(* The shapes of the variables. *)

Pager == [state : PagerState, op : Op, pc : Pc, cache : [Page -> Nat], vers : Nat,
          heldShared : BOOLEAN, dirty : SUBSET Page, needSync : SUBSET Page,
          inJournal : SUBSET Page, nRec : Nat, hdr : Nat, off : Nat, txn : Nat,
          page : Nat, todo : SUBSET Slot]

Pagers == /\ held \in [Client -> Level]
          /\ pager \in [Client -> Pager]
          /\ \A c \in Client : pager[c].pc = "play" => pager[c].todo # {}
          /\ nTxn \in Nat

Files == /\ db \in [Page -> Nat] /\ dbDisk \in [Page -> SUBSET Nat]
         /\ jrnl \in [Slot -> PagedSlot] /\ jDisk \in [Slot -> SUBSET PagedSlot]
         /\ ghosts \subseteq [Slot -> PagedSlot]

Shapes == Pagers /\ Files

\* The constants of the model have the shapes of what they stand for.
LEMMA Values ==
  /\ MaxTxn \in Nat /\ Torn \in Nat /\ NoPage \in Nat
  /\ EmptyCache \in [Page -> Nat]
  /\ NewPager \in Pager
  /\ Nil \in PagedSlot
  /\ \A k, n \in Nat : Header(k, n) \in PagedSlot
  /\ \A k, v \in Nat : \A p \in Page : Record(k, p, v) \in PagedSlot
<1>1. MaxTxn \in Nat /\ Torn \in Nat /\ NoPage \in Nat
  BY PagerCommitAssumption DEF Torn, NoPage
<1>2. EmptyCache \in [Page -> Nat]
  BY <1>1 DEF EmptyCache
<1>3. NewPager \in Pager
  BY <1>2 DEF NewPager, Pager, PagerState, Op, Pc
<1>4. Nil \in PagedSlot /\ \A k, n \in Nat : Header(k, n) \in PagedSlot
  BY DEF Nil, Header, PagedSlot, SlotRec
<1>5. \A k, v \in Nat : \A p \in Page : Record(k, p, v) \in PagedSlot
  BY Sizes DEF Record, PagedSlot, SlotRec
<1> QED
  BY <1>1, <1>2, <1>3, <1>4, <1>5

\* What a loss of power leaves is one of the choices, place by place.
LEMMA OutcomesChoose ==
  ASSUME NEW S, NEW T, NEW choices \in [S -> SUBSET T], NEW f \in Outcomes(choices)
  PROVE  f \in [S -> T] /\ \A i \in S : f[i] \in choices[i]
<1>1. DOMAIN choices = S
  OBVIOUS
<1>2. /\ f \in [S -> UNION {choices[k] : k \in S}]
      /\ \A k \in S : f[k] \in choices[k]
  BY <1>1 DEF Outcomes
<1>3. \A k \in S : f[k] \in T
  BY <1>2
<1> QED
  BY <1>2, <1>3

\* The calls of the VFS keep the shapes of the files: a write of the database ...
LEMMA WriteDbFiles ==
  ASSUME Files, NEW p, NEW v \in Nat, WriteDb(p, v)
  PROVE  Files'
BY Values DEF Files, WriteDb

\* ... its sync ...
LEMMA SyncDbFiles ==
  ASSUME Files, SyncDb
  PROVE  Files'
BY DEF Files, SyncDb

\* ... a header or a record of the journal ...
LEMMA WriteJournalFiles ==
  ASSUME Files, NEW i, NEW s \in PagedSlot, WriteJournal(i, s)
  PROVE  Files'
BY Values DEF Files, WriteJournal

\* ... the number of records in a header ...
LEMMA PatchHeaderFiles ==
  ASSUME Files, NEW i, NEW n \in Nat, PatchHeader(i, n)
  PROVE  Files'
<1>1. CASE i \in Slot
  <2>1. [jrnl[i] EXCEPT !.n = n] \in PagedSlot
    BY <1>1 DEF Files, PagedSlot, SlotRec
  <2> QED
    BY <1>1, <2>1 DEF Files, PatchHeader
<1>2. CASE i \notin Slot
  BY <1>2 DEF Files, PatchHeader
<1> QED
  BY <1>1, <1>2

\* ... the sync of the journal ...
LEMMA SyncJournalFiles ==
  ASSUME Files, SyncJournalFile, ghosts' \in SUBSET ghosts
  PROVE  Files'
BY DEF Files, SyncJournalFile

\* ... its deletion, and what a loss of power may bring back of it ...
LEMMA DeleteJournalFiles ==
  ASSUME Files, DeleteJournal
  PROVE  Files'
<1>1. ASSUME NEW j \in Outcomes(jDisk)
      PROVE  j \in [Slot -> PagedSlot]
  BY OutcomesChoose DEF Files
<1> QED
  BY <1>1, Values DEF Files, DeleteJournal, NoJournal

\* ... and the loss of power itself.
LEMMA PowerLossFiles ==
  ASSUME Files, PowerLoss
  PROVE  Files'
<1>1. PICK d \in Outcomes(dbDisk), j \in Outcomes(jDisk) \cup ghosts :
          /\ db' = d
          /\ dbDisk' = [p \in Page |-> {d[p]}]
          /\ jrnl' = j
          /\ jDisk' = [i \in Slot |-> {j[i]}]
  BY DEF PowerLoss
<1>2. d \in [Page -> Nat]
  BY OutcomesChoose DEF Files
<1>3. j \in [Slot -> PagedSlot]
  BY OutcomesChoose DEF Files
<1> QED
  BY <1>1, <1>2, <1>3 DEF Files, PowerLoss

\* A step that changes no file.
LEMMA ServerFiles ==
  ASSUME Files, UNCHANGED server
  PROVE  Files'
BY DEF Files, server

\* Every step of a client keeps the shapes of the files ...
LEMMA ClientFiles ==
  ASSUME Shapes, NEW c \in Client, ClientStep(c)
  PROVE  Files'
<1>1. /\ Files /\ pager[c] \in Pager /\ nTxn \in Nat
      /\ \A p \in Page : pager[c].cache[p] \in Nat
      /\ pager[c].txn \in Nat /\ pager[c].nRec \in Nat
  BY DEF Shapes, Pagers, Pager
<1>2. ASSUME NEW p \in Page, AddToJournal(c, p)
      PROVE  Files'
  BY <1>1, <1>2, Values, WriteJournalFiles, ServerFiles DEF AddToJournal
<1>3. CASE SharedLock(c) \/ JournalAccess(c) \/ CheckReserved(c) \/ FirstByte(c) \/
          HotLock(c) \/ HotRefused(c) \/ Recheck(c) \/ CheckVersion(c) \/ EndRead(c) \/
          Begin(c) \/ ExclusiveLock(c) \/ LockBusy(c) \/ Rollback(c) \/
          EndEmpty(c) \/ EndUnlock(c) \/ CommitFails(c) \/ PagerError(c) \/
          DeleteFails(c) \/ ErrorUnlock(c) \/ HotFails(c)
  BY <1>1, <1>3, ServerFiles
     DEF SharedLock, JournalAccess, CheckReserved, FirstByte, HotLock, HotRefused, Recheck,
         CheckVersion, EndRead, Begin, ExclusiveLock, LockBusy, Rollback,
         EndEmpty, EndUnlock, CommitFails, PagerError, DeleteFails, ErrorUnlock,
         HotFails
<1>4. ASSUME NEW p \in Page, ReadPage(c, p) \/ Spill(c, p)
      PROVE  Files'
  BY <1>1, <1>4, ServerFiles DEF ReadPage, Spill
<1>5. CASE HotSync(c) \/ FirstSync(c) \/ SecondSync(c)
  BY <1>1, <1>5, SyncJournalFiles DEF HotSync, FirstSync, SecondSync
<1>6. ASSUME NEW p \in Page, OpenJournal(c, p)
      PROVE  Files'
  <2>1. Header(nTxn + 1, 0) \in PagedSlot
    BY <1>1, Values
  <2> QED
    BY <1>1, <1>6, <2>1, WriteJournalFiles DEF OpenJournal
<1>7. ASSUME NEW p \in Page, WritePage(c, p)
      PROVE  Files'
  BY <1>2, <1>7 DEF WritePage
<1>8. CASE WriteNRec(c)
  BY <1>1, <1>8, PatchHeaderFiles DEF WriteNRec
<1>9. CASE NewHeader(c)
  <2>1. Header(pager[c].txn, 0) \in PagedSlot
    BY <1>1, Values
  <2> QED
    BY <1>1, <1>9, <2>1, WriteJournalFiles DEF NewHeader
<1>10. CASE SpillWrite(c)
  <2>1. PICK p, v : WriteDb(p, v) /\ v = pager[c].cache[p]
    BY <1>10 DEF SpillWrite
  <2>2. CASE p \in Page
    BY <1>1, <2>1, <2>2, WriteDbFiles
  <2>3. CASE p \notin Page
    BY <1>1, <2>1, <2>3 DEF WriteDb, Files
  <2> QED
    BY <2>2, <2>3
<1>11. CASE CommitPhaseOne(c)
  BY <1>2, <1>11, Sizes DEF CommitPhaseOne
<1>12. CASE CommitWrite(c)
  <2>1. PICK p, v : WriteDb(p, v) /\ v = pager[c].cache[p]
    BY <1>12 DEF CommitWrite
  <2>2. CASE p \in Page
    BY <1>1, <2>1, <2>2, WriteDbFiles
  <2>3. CASE p \notin Page
    BY <1>1, <2>1, <2>3 DEF WriteDb, Files
  <2> QED
    BY <2>2, <2>3
<1>13. CASE DbSync(c)
  BY <1>1, <1>13, SyncDbFiles DEF DbSync
<1>14. CASE PlaybackOnePage(c)
  <2> DEFINE i == Min(pager[c].todo)
  <2>1. i \in Slot
    <3>1. pager[c].todo # {} /\ pager[c].todo \subseteq Slot
      BY <1>14 DEF PlaybackOnePage, Shapes, Pagers, Pager
    <3> QED
      BY <3>1, Sizes, MinIsLeast
  <2>2. jrnl[i].n \in Nat
    BY <1>1, <2>1 DEF Files, PagedSlot, SlotRec
  <2>3. WriteDb(jrnl[i].pg, jrnl[i].n) \/ UNCHANGED server
    BY <1>14 DEF PlaybackOnePage
  <2> QED
    BY <1>1, <2>2, <2>3, WriteDbFiles, ServerFiles
<1>15. CASE EndTransaction(c)
  BY <1>1, <1>15, DeleteJournalFiles DEF EndTransaction
<1> QED
  BY <1>3, <1>4, <1>5, <1>6, <1>7, <1>8, <1>9, <1>10, <1>11, <1>12, <1>13, <1>14, <1>15 DEF ClientStep

\* Only the client that takes a step changes its pager and its lock.
Own(c) ==
    /\ pager' \in [Client -> Pager] /\ held' \in [Client -> Level]
    /\ \A d \in Client \ {c} : pager'[d] = pager[d] /\ held'[d] = held[d]

USE DEF NO_LOCK, SHARED_LOCK, RESERVED_LOCK, PENDING_LOCK, EXCLUSIVE_LOCK, Level

\* x is the pager after a step that leaves the lock as it is.
LEMMA OwnPager ==
  ASSUME Shapes, NEW c \in Client, NEW x \in Pager,
         pager' = [pager EXCEPT ![c] = x], UNCHANGED held
  PROVE  Own(c) /\ pager'[c] = x /\ held'[c] = held[c]
BY DEF Shapes, Pagers, Own

\* pager_unlock, with and without pager_reset, leaves an idle pager.
LEMMA ClosedPager ==
  ASSUME NEW x \in Pager
  PROVE  /\ Closed(x) \in Pager /\ Unlocked(x) \in Pager
         /\ Closed(x).state = "OPEN" /\ Closed(x).op = "none" /\ Closed(x).pc = "idle"
         /\ Unlocked(x).state = "OPEN" /\ Unlocked(x).op = "none" /\ Unlocked(x).pc = "idle"
<1>1. x.vers \in Nat /\ x.heldShared \in BOOLEAN /\ x.cache \in [Page -> Nat]
  BY DEF Pager
<1>2. NewPager \in Pager /\ NewPager.state = "OPEN" /\ NewPager.op = "none" /\ NewPager.pc = "idle"
  BY Values DEF NewPager
<1>3. Closed(x) \in Pager
  BY <1>1, <1>2 DEF Closed, Pager
<1>4. Unlocked(x) \in Pager
  BY <1>1, <1>3 DEF Unlocked, Pager
<1> QED
  BY <1>2, <1>3, <1>4 DEF Closed, Unlocked, Pager

\* pager_write leaves the state of the pager, and ends the call.
LEMMA ModifiedPager ==
  ASSUME NEW x \in Pager, NEW p \in Page, NEW v \in Nat
  PROVE  /\ Modified(x, p, v) \in Pager
         /\ Modified(x, p, v).state = x.state /\ Modified(x, p, v).op = x.op
         /\ Modified(x, p, v).pc = "idle"
<1> DEFINE w == [x EXCEPT !.cache[p] = v, !.dirty = @ \cup {p}, !.page = 0, !.pc = "idle"]
<1>1. /\ w \in Pager /\ w.state = x.state /\ w.op = x.op /\ w.pc = "idle"
      /\ w.inJournal = x.inJournal
  BY DEF Pager, Pc
<1> HIDE DEF w
<1>2. /\ w.inJournal \cup {p} \in SUBSET Page /\ w.needSync \cup {p} \in SUBSET Page
      /\ w.off + 1 \in Nat /\ w.nRec + 1 \in Nat
  BY <1>1 DEF Pager
<1> DEFINE y == [w EXCEPT !.inJournal = @ \cup {p}, !.needSync = @ \cup {p},
                          !.off = @ + 1, !.nRec = @ + 1]
<1>3. y \in Pager /\ y.state = w.state /\ y.op = w.op /\ y.pc = w.pc
  BY <1>1, <1>2 DEF Pager
<1> HIDE DEF y
<1>4. Modified(x, p, v) = IF p \in x.inJournal THEN w ELSE y
  BY DEF Modified, w, y
<1> QED
  BY <1>1, <1>3, <1>4

\* pager_playback starts with a record, if there is one.
LEMMA PlaybackPager ==
  ASSUME Files, NEW x \in Pager
  PROVE  /\ StartPlayback(x) \in Pager
         /\ StartPlayback(x).state = x.state /\ StartPlayback(x).op = "rollback"
         /\ StartPlayback(x).pc \in {"play", "delete", "dbsync"}
         /\ StartPlayback(x).pc = "delete" => x.state = "WRITER_CACHEMOD"
         /\ StartPlayback(x).pc = "dbsync" => x.state # "WRITER_CACHEMOD"
         /\ StartPlayback(x).pc = "play" => StartPlayback(x).todo # {}
<1> DEFINE todo == Playable(jrnl, x.hdr)
           pc == Playing(x, todo)
<1>1. todo \in SUBSET Slot
  BY PlayableRecords DEF Files, Readable
<1> HIDE DEF todo
<1>2. /\ pc \in {"play", "delete", "dbsync"}
      /\ pc = "play" <=> todo # {}
      /\ pc = "delete" => x.state = "WRITER_CACHEMOD"
      /\ pc = "dbsync" => x.state # "WRITER_CACHEMOD"
  BY DEF Playing
<1> HIDE DEF pc
<1> DEFINE y == [x EXCEPT !.op = "rollback", !.page = 0, !.todo = todo, !.pc = pc]
<1>3. /\ y \in Pager /\ y.state = x.state /\ y.op = "rollback" /\ y.pc = pc
      /\ y.todo = todo
  BY <1>1, <1>2 DEF Pager, Op, Pc
<1>4. StartPlayback(x) = y
  BY DEF StartPlayback, todo, pc
<1> QED
  BY <1>2, <1>3, <1>4

-----------------------------------------------------------------------------
(* The steps of a pager, and the lock it holds at each. *)

Stands(x, state, op, pcs) == x.state = state /\ x.op = op /\ x.pc \in pcs

\* A pager x that reads has SHARED at least, one that changes pages in its cache
\* RESERVED, and one that may have written the file EXCLUSIVE.
Legal(x, lvl) ==
    \/ Stands(x, "OPEN", "none", {"idle"}) /\ lvl = NO_LOCK
    \/ /\ Stands(x, "OPEN", "none", {"access", "reserved", "first", "hotlock", "version"})
       /\ lvl = SHARED_LOCK
    \/ Stands(x, "OPEN", "none", {"refused"}) /\ lvl \in {SHARED_LOCK, PENDING_LOCK}
    \/ Stands(x, "OPEN", "none", {"exists"}) /\ lvl = EXCLUSIVE_LOCK
    \/ /\ Stands(x, "OPEN", "hot", {"hotsync", "play", "dbsync", "delete", "unlock"})
       /\ lvl = EXCLUSIVE_LOCK
    \/ Stands(x, "READER", "none", {"idle"}) /\ lvl = SHARED_LOCK
    \/ Stands(x, "WRITER_LOCKED", "none", {"idle"}) /\ lvl = RESERVED_LOCK
    \/ /\ \/ Stands(x, "WRITER_CACHEMOD", "none", {"idle", "journal"})
          \/ Stands(x, "WRITER_CACHEMOD", "spill", {"lock"})
          \/ Stands(x, "WRITER_CACHEMOD", "commit", {"lock"})
          \/ Stands(x, "WRITER_CACHEMOD", "rollback", {"play", "delete", "unlock"})
       /\ lvl >= RESERVED_LOCK
    \/ /\ \/ Stands(x, "WRITER_CACHEMOD", "spill", {"sync1", "nrec", "sync2", "newhdr"})
          \/ Stands(x, "WRITER_CACHEMOD", "commit", {"sync1", "nrec", "sync2"})
          \/ Stands(x, "WRITER_DBMOD", "none", {"idle"})
          \/ Stands(x, "WRITER_DBMOD", "spill",
                    {"lock", "sync1", "nrec", "sync2", "newhdr", "write"})
          \/ Stands(x, "WRITER_DBMOD", "commit",
                    {"lock", "sync1", "nrec", "sync2", "write", "dbsync"})
          \/ Stands(x, "WRITER_DBMOD", "rollback", {"play", "dbsync", "delete", "unlock"})
          \/ Stands(x, "WRITER_FINISHED", "none", {"idle", "unlock"})
          \/ Stands(x, "WRITER_FINISHED", "rollback", {"play", "dbsync", "delete", "unlock"})
       /\ lvl = EXCLUSIVE_LOCK
    \/ Stands(x, "ERROR", "none", {"idle"}) /\ lvl >= SHARED_LOCK
    \/ Stands(x, "DEAD", "none", {"idle"})

\* The promise of VfsLock.
Excluded == \A c \in Client : \A d \in Client \ {c} :
    /\ held[c] = EXCLUSIVE_LOCK => held[d] = NO_LOCK
    /\ held[c] >= RESERVED_LOCK => held[d] <= SHARED_LOCK

LockInv == /\ Shapes /\ Excluded
           /\ \A c \in Client : Legal(pager[c], held[c])

\* The step left the pager of c in a legal place.
Well(c) == /\ Own(c) /\ Legal(pager'[c], held'[c])
           /\ pager'[c].pc = "play" => pager'[c].todo # {}

\* sqlite3PagerSharedLock, and the ends of a read.
LEMMA OpenSteps ==
  ASSUME LockInv, NEW c \in Client,
         \/ SharedLock(c) \/ JournalAccess(c) \/ CheckReserved(c) \/ FirstByte(c)
         \/ HotLock(c) \/ HotRefused(c) \/ Recheck(c) \/ CheckVersion(c) \/ EndRead(c)
         \/ Begin(c)
  PROVE  Well(c)
<1>1. /\ Shapes /\ pager[c] \in Pager /\ Legal(pager[c], held[c]) /\ held[c] \in Level
      /\ pager \in [Client -> Pager]
  BY DEF LockInv, Shapes, Pagers
<1>2. CASE SharedLock(c)
  <2> DEFINE x == [pager[c] EXCEPT !.pc = "access"]
  <2>1. x \in Pager /\ x.state = "OPEN" /\ x.op = "none" /\ x.pc = "access"
    BY <1>1, <1>2 DEF Pager, Pc, SharedLock, At
  <2>2. /\ pager' = [pager EXCEPT ![c] = x]
        /\ held' = [held EXCEPT ![c] = held'[c]] /\ held'[c] = SHARED_LOCK
    BY <1>1, <1>2 DEF Shapes, Pagers, SharedLock, Goto, Vfs!Share, Vfs!SHARED_LOCK
  <2> HIDE DEF x
  <2>3. Own(c) /\ pager'[c] = x
    BY <1>1, <2>1, <2>2 DEF Own, Shapes, Pagers
  <2> QED
    BY <2>1, <2>2, <2>3 DEF Well, Legal, Stands
<1>3. ASSUME NEW pc \in Pc \ {"play"}, UNCHANGED held, Goto(c, pc),
             Stands(pager[c], "OPEN", "none", {"access", "reserved", "first"}),
             pc \in {"reserved", "first", "hotlock", "version"}
      PROVE  Well(c)
  <2> DEFINE x == [pager[c] EXCEPT !.pc = pc]
  <2>1. x \in Pager /\ x.state = "OPEN" /\ x.op = "none" /\ x.pc = pc
    BY <1>1, <1>3 DEF Pager, Stands
  <2>2. pager' = [pager EXCEPT ![c] = x]
    BY <1>1, <1>3 DEF Goto
  <2> HIDE DEF x
  <2>3. Own(c) /\ pager'[c] = x /\ held'[c] = held[c]
    BY <1>1, <1>3, <2>1, <2>2, OwnPager
  <2>4. held[c] = SHARED_LOCK
    BY <1>1, <1>3 DEF Legal, Stands
  <2> QED
    BY <1>3, <2>1, <2>3, <2>4 DEF Well, Legal, Stands
<1>4. CASE JournalAccess(c)
  <2>1. Stands(pager[c], "OPEN", "none", {"access", "reserved", "first"})
    BY <1>1, <1>4 DEF JournalAccess, At, Legal, Stands
  <2> QED
    BY <1>3, <1>4, <2>1 DEF JournalAccess, Pc
<1>5. CASE CheckReserved(c)
  <2>1. Stands(pager[c], "OPEN", "none", {"access", "reserved", "first"})
    BY <1>1, <1>5 DEF CheckReserved, At, Legal, Stands
  <2> QED
    BY <1>3, <1>5, <2>1 DEF CheckReserved, Pc
<1>6. CASE FirstByte(c)
  <2>1. Stands(pager[c], "OPEN", "none", {"access", "reserved", "first"})
    BY <1>1, <1>6 DEF FirstByte, At, Legal, Stands
  <2> QED
    BY <1>3, <1>6, <2>1 DEF FirstByte, Pc
<1>7. CASE HotLock(c)
  <2>1. pager[c].state = "OPEN" /\ pager[c].op = "none" /\ held[c] = SHARED_LOCK
    BY <1>1, <1>7 DEF HotLock, At, Legal, Stands
  <2>2. CASE Vfs!Exclude(c) /\ Goto(c, "exists")
    <3> DEFINE x == [pager[c] EXCEPT !.pc = "exists"]
    <3>1. x \in Pager /\ x.state = "OPEN" /\ x.op = "none" /\ x.pc = "exists"
      BY <1>1, <2>1 DEF Pager, Pc
    <3>2. /\ pager' = [pager EXCEPT ![c] = x]
          /\ held' = [held EXCEPT ![c] = held'[c]] /\ held'[c] = EXCLUSIVE_LOCK
      BY <1>1, <2>2 DEF Shapes, Pagers, Goto, Vfs!Exclude, Vfs!EXCLUSIVE_LOCK
    <3> HIDE DEF x
    <3>3. Own(c) /\ pager'[c] = x
      BY <1>1, <3>1, <3>2 DEF Own, Shapes, Pagers
    <3> QED
      BY <3>1, <3>2, <3>3 DEF Well, Legal, Stands
  <2>3. CASE Vfs!Pend(c) \/ UNCHANGED held
    <3> DEFINE x == [pager[c] EXCEPT !.pc = "refused"]
    <3>1. x \in Pager /\ x.state = "OPEN" /\ x.op = "none" /\ x.pc = "refused"
      BY <1>1, <2>1 DEF Pager, Pc
    <3>2. /\ held' = [held EXCEPT ![c] = held'[c]]
          /\ held'[c] \in {SHARED_LOCK, PENDING_LOCK}
      BY <1>1, <2>1, <2>3 DEF Shapes, Pagers, Vfs!Pend, Vfs!PENDING_LOCK
    <3>3. pager' = [pager EXCEPT ![c] = x]
      BY <1>1, <1>7, <2>1, <2>3 DEF HotLock, Goto, Vfs!Exclude, Vfs!Pend, Vfs!PENDING_LOCK,
                                    Vfs!EXCLUSIVE_LOCK, Shapes, Pagers
    <3> HIDE DEF x
    <3>4. Own(c) /\ pager'[c] = x
      BY <1>1, <3>1, <3>2, <3>3 DEF Own, Shapes, Pagers
    <3> QED
      BY <3>1, <3>2, <3>4 DEF Well, Legal, Stands
  <2> QED
    BY <1>7, <2>2, <2>3 DEF HotLock
<1>12. CASE HotRefused(c)
  <2> DEFINE x == Unlocked(pager[c])
  <2>1. x \in Pager /\ x.state = "OPEN" /\ x.op = "none" /\ x.pc = "idle"
    BY <1>1, ClosedPager
  <2>2. /\ pager' = [pager EXCEPT ![c] = x]
        /\ held' = [held EXCEPT ![c] = held'[c]] /\ held'[c] = NO_LOCK
    BY <1>1, <1>12 DEF Shapes, Pagers, HotRefused, Vfs!Release
  <2> HIDE DEF x
  <2>3. Own(c) /\ pager'[c] = x
    BY <1>1, <2>1, <2>2 DEF Own, Shapes, Pagers
  <2> QED
    BY <2>1, <2>2, <2>3 DEF Well, Legal, Stands
<1>8. CASE Recheck(c)
  <2>1. pager[c].state = "OPEN" /\ pager[c].op = "none" /\ held[c] = EXCLUSIVE_LOCK
    BY <1>1, <1>8 DEF Recheck, At, Legal, Stands
  <2>2. CASE pager' = [pager EXCEPT ![c].op = "hot", ![c].pc = "hotsync"] /\ UNCHANGED held
    <3> DEFINE x == [pager[c] EXCEPT !.op = "hot", !.pc = "hotsync"]
    <3>1. x \in Pager /\ x.state = "OPEN" /\ x.op = "hot" /\ x.pc = "hotsync"
      BY <1>1, <2>1 DEF Pager, Pc, Op
    <3>2. pager' = [pager EXCEPT ![c] = x]
      BY <1>1, <2>2
    <3> HIDE DEF x
    <3>3. Own(c) /\ pager'[c] = x /\ held'[c] = held[c]
      BY <1>1, <2>2, <3>1, <3>2, OwnPager
    <3> QED
      BY <2>1, <3>1, <3>3 DEF Well, Legal, Stands
  <2>3. CASE Vfs!Release(c, SHARED_LOCK) /\ Goto(c, "version")
    <3> DEFINE x == [pager[c] EXCEPT !.pc = "version"]
    <3>1. x \in Pager /\ x.state = "OPEN" /\ x.op = "none" /\ x.pc = "version"
      BY <1>1, <2>1 DEF Pager, Pc
    <3>2. /\ pager' = [pager EXCEPT ![c] = x]
          /\ held' = [held EXCEPT ![c] = held'[c]] /\ held'[c] = SHARED_LOCK
      BY <1>1, <2>3 DEF Shapes, Pagers, Goto, Vfs!Release
    <3> HIDE DEF x
    <3>3. Own(c) /\ pager'[c] = x
      BY <1>1, <3>1, <3>2 DEF Own, Shapes, Pagers
    <3> QED
      BY <3>1, <3>2, <3>3 DEF Well, Legal, Stands
  <2> QED
    BY <1>8, <2>2, <2>3 DEF Recheck
<1>9. CASE CheckVersion(c)
  <2> DEFINE cache == IF pager[c].heldShared /\ pager[c].vers # db[1]
                      THEN EmptyCache ELSE pager[c].cache
             x == [pager[c] EXCEPT !.state = "READER", !.pc = "idle",
                                   !.heldShared = TRUE, !.cache = cache]
  <2>1. pager[c].state = "OPEN" /\ pager[c].op = "none" /\ held[c] = SHARED_LOCK
    BY <1>1, <1>9 DEF CheckVersion, At, Legal, Stands
  <2>2. cache \in [Page -> Nat]
    BY <1>1, Values DEF Pager
  <2>3. pager' = [pager EXCEPT ![c] = x] /\ UNCHANGED held
    BY <1>1, <1>9 DEF CheckVersion
  <2> HIDE DEF cache
  <2>4. x \in Pager /\ x.state = "READER" /\ x.op = "none" /\ x.pc = "idle"
    BY <1>1, <2>1, <2>2 DEF Pager, Pc, PagerState
  <2> HIDE DEF x
  <2>5. Own(c) /\ pager'[c] = x /\ held'[c] = held[c]
    BY <1>1, <2>3, <2>4, OwnPager
  <2> QED
    BY <2>1, <2>4, <2>5 DEF Well, Legal, Stands
<1>10. CASE EndRead(c)
  <2> DEFINE x == Unlocked(pager[c])
  <2>1. x \in Pager /\ x.state = "OPEN" /\ x.op = "none" /\ x.pc = "idle"
    BY <1>1, ClosedPager
  <2>2. /\ pager' = [pager EXCEPT ![c] = x]
        /\ held' = [held EXCEPT ![c] = held'[c]] /\ held'[c] = NO_LOCK
    BY <1>1, <1>10 DEF Shapes, Pagers, EndRead, Vfs!Release
  <2> HIDE DEF x
  <2>3. Own(c) /\ pager'[c] = x
    BY <1>1, <2>1, <2>2 DEF Own, Shapes, Pagers
  <2> QED
    BY <2>1, <2>2, <2>3 DEF Well, Legal, Stands
<1>11. CASE Begin(c)
  <2> DEFINE x == [pager[c] EXCEPT !.state = "WRITER_LOCKED"]
  <2>1. x \in Pager /\ x.state = "WRITER_LOCKED" /\ x.op = "none" /\ x.pc = "idle"
    BY <1>1, <1>11 DEF Begin, At, Pager, PagerState
  <2>2. /\ pager' = [pager EXCEPT ![c] = x]
        /\ held' = [held EXCEPT ![c] = held'[c]] /\ held'[c] = RESERVED_LOCK
    BY <1>1, <1>11 DEF Shapes, Pagers, Begin, Vfs!Reserve, Vfs!RESERVED_LOCK
  <2> HIDE DEF x
  <2>3. Own(c) /\ pager'[c] = x
    BY <1>1, <2>1, <2>2 DEF Own, Shapes, Pagers
  <2> QED
    BY <2>1, <2>2, <2>3 DEF Well, Legal, Stands
<1> QED
  BY <1>2, <1>4, <1>5, <1>6, <1>7, <1>8, <1>9, <1>10, <1>11, <1>12

\* A step to x that leaves the lock as it is.
LEMMA Moves ==
  ASSUME LockInv, NEW c \in Client, NEW x \in Pager,
         pager' = [pager EXCEPT ![c] = x], UNCHANGED held, Legal(x, held[c]),
         x.pc = "play" => x.todo # {}
  PROVE  Well(c)
<1>1. Own(c) /\ pager'[c] = x /\ held'[c] = held[c]
  BY OwnPager DEF LockInv
<1> QED
  BY <1>1 DEF Well

\* Reading and writing pages.
LEMMA WriteSteps ==
  ASSUME LockInv, NEW c \in Client, NEW p \in Page,
         ReadPage(c, p) \/ OpenJournal(c, p) \/ WritePage(c, p) \/ Spill(c, p)
  PROVE  Well(c)
<1>1. /\ Shapes /\ pager[c] \in Pager /\ Legal(pager[c], held[c]) /\ held[c] \in Level
      /\ pager \in [Client -> Pager] /\ Files /\ nTxn \in Nat
  BY DEF LockInv, Shapes, Pagers
<1>2. ASSUME ReadPage(c, p)
      PROVE  Well(c)
  <2> DEFINE x == [pager[c] EXCEPT !.cache[p] = db[p], !.vers = IF p = 1 THEN db[1] ELSE @]
  <2>1. pager' = [pager EXCEPT ![c] = x] /\ UNCHANGED held
    BY <1>1, <1>2 DEF ReadPage
  <2>2. x \in Pager /\ x.state = pager[c].state /\ x.op = pager[c].op /\ x.pc = pager[c].pc
        /\ x.pc # "play"
    BY <1>1, <1>2, Sizes, Values DEF Pager, Files, ReadPage, At
  <2> HIDE DEF x
  <2>3. Legal(x, held[c])
    BY <1>1, <1>2, <2>2 DEF Legal, Stands
  <2> QED
    BY <2>1, <2>2, <2>3, Moves
<1>3. ASSUME OpenJournal(c, p)
      PROVE  Well(c)
  <2> DEFINE x == [pager[c] EXCEPT !.state = "WRITER_CACHEMOD", !.pc = "journal",
                                   !.page = p, !.txn = nTxn + 1,
                                   !.nRec = 0, !.hdr = 1, !.off = 2]
  <2>1. pager' = [pager EXCEPT ![c] = x] /\ UNCHANGED held
    BY <1>1, <1>3 DEF OpenJournal
  <2>2. pager[c].op = "none" /\ held[c] = RESERVED_LOCK
    BY <1>1, <1>3 DEF OpenJournal, At, Legal, Stands
  <2>3. p \in Nat /\ nTxn + 1 \in Nat /\ 0 \in Nat /\ 1 \in Nat /\ 2 \in Nat
    BY <1>1, Sizes
  <2>4. x \in Pager /\ x.state = "WRITER_CACHEMOD" /\ x.op = "none" /\ x.pc = "journal"
    BY <1>1, <2>2, <2>3 DEF Pager, PagerState, Pc
  <2> HIDE DEF x
  <2>5. Legal(x, held[c])
    BY <2>2, <2>4 DEF Legal, Stands
  <2> QED
    BY <2>1, <2>4, <2>5, Moves
<1>4. ASSUME WritePage(c, p)
      PROVE  Well(c)
  <2> DEFINE x == Modified(pager[c], p, pager[c].txn)
  <2>1. pager' = [pager EXCEPT ![c] = x] /\ UNCHANGED held
    BY <1>1, <1>4 DEF WritePage
  <2>2. x \in Pager /\ x.state = pager[c].state /\ x.op = pager[c].op /\ x.pc = "idle"
    <3>1. pager[c].txn \in Nat
      BY <1>1 DEF Pager
    <3> QED
      BY <1>1, <3>1, ModifiedPager
  <2> HIDE DEF x
  <2>3. Legal(x, held[c])
    BY <1>1, <1>4, <2>2 DEF Legal, Stands, WritePage, At
  <2> QED
    BY <2>1, <2>2, <2>3, Moves
<1>5. ASSUME Spill(c, p)
      PROVE  Well(c)
  <2> DEFINE pc == IF p \in pager[c].needSync \/ pager[c].state = "WRITER_CACHEMOD"
                   THEN "lock" ELSE "write"
             x == [pager[c] EXCEPT !.op = "spill", !.page = p, !.pc = pc]
  <2>1. pager' = [pager EXCEPT ![c] = x] /\ UNCHANGED held
    BY <1>1, <1>5 DEF Spill
  <2>2. pc \in {"lock", "write"} /\ (pager[c].state = "WRITER_CACHEMOD" => pc = "lock")
    OBVIOUS
  <2> HIDE DEF pc
  <2>3. x \in Pager /\ x.state = pager[c].state /\ x.op = "spill" /\ x.pc = pc
    BY <1>1, <2>2, Sizes DEF Pager, Op, Pc
  <2> HIDE DEF x
  <2>4. Legal(x, held[c])
    BY <1>1, <1>5, <2>2, <2>3 DEF Legal, Stands, Spill, At
  <2> QED
    BY <2>1, <2>2, <2>3, <2>4, Moves
<1> QED
  BY <1>2, <1>3, <1>4, <1>5

\* syncJournal, pager_write_pagelist and the sync of the database.
LEMMA SyncSteps ==
  ASSUME LockInv, NEW c \in Client,
         \/ ExclusiveLock(c) \/ LockBusy(c) \/ FirstSync(c) \/ WriteNRec(c)
         \/ SecondSync(c) \/ NewHeader(c) \/ SpillWrite(c) \/ CommitWrite(c) \/ DbSync(c)
  PROVE  Well(c)
<1>1. /\ Shapes /\ pager[c] \in Pager /\ Legal(pager[c], held[c]) /\ held[c] \in Level
      /\ pager \in [Client -> Pager] /\ Files /\ nTxn \in Nat
  BY DEF LockInv, Shapes, Pagers
<1>2. CASE ExclusiveLock(c)
  <2>1. /\ pager[c].op \in {"spill", "commit"} /\ pager[c].pc = "lock"
        /\ pager[c].state \in {"WRITER_CACHEMOD", "WRITER_DBMOD"}
    BY <1>1, <1>2 DEF ExclusiveLock, Legal, Stands
  <2> DEFINE x == [pager[c] EXCEPT !.pc = "sync1"]
  <2>2. x \in Pager /\ x.state = pager[c].state /\ x.op = pager[c].op /\ x.pc = "sync1"
    BY <1>1 DEF Pager, Pc
  <2>3. Goto(c, "sync1") => pager' = [pager EXCEPT ![c] = x]
    BY <1>1 DEF Goto
  <2> HIDE DEF x
  <2>4. CASE held[c] = EXCLUSIVE_LOCK /\ UNCHANGED held /\ Goto(c, "sync1")
    <3>1. Legal(x, held[c])
      BY <2>1, <2>2, <2>4 DEF Legal, Stands
    <3> QED
      BY <2>2, <2>3, <2>4, <3>1, Moves
  <2>5. CASE Vfs!Exclude(c) /\ Goto(c, "sync1")
    <3>1. held' = [held EXCEPT ![c] = EXCLUSIVE_LOCK]
      BY <2>5 DEF Vfs!Exclude, Vfs!EXCLUSIVE_LOCK
    <3>2. Own(c) /\ pager'[c] = x /\ held'[c] = EXCLUSIVE_LOCK
      BY <1>1, <2>2, <2>3, <2>5, <3>1 DEF Own, Shapes, Pagers
    <3> QED
      BY <2>1, <2>2, <3>2 DEF Well, Legal, Stands
  <2>6. CASE Vfs!Pend(c) /\ UNCHANGED pager
    <3>1. held' = [held EXCEPT ![c] = PENDING_LOCK] /\ held[c] < PENDING_LOCK
      BY <1>1, <2>6 DEF Vfs!Pend, Vfs!PENDING_LOCK, Vfs!SHARED_LOCK, Vfs!RESERVED_LOCK
    <3>2. Own(c) /\ pager'[c] = pager[c] /\ held'[c] = PENDING_LOCK
      BY <1>1, <2>6, <3>1 DEF Own, Shapes, Pagers
    <3>3. pager[c].state = "WRITER_CACHEMOD"
      BY <1>1, <2>1, <3>1 DEF Legal, Stands
    <3> QED
      BY <2>1, <3>2, <3>3 DEF Well, Legal, Stands
  <2> QED
    BY <1>2, <2>4, <2>5, <2>6 DEF ExclusiveLock
<1>3. CASE LockBusy(c)
  <2> DEFINE x == [pager[c] EXCEPT !.op = "none", !.pc = "idle", !.page = 0]
  <2>1. pager[c].state \in {"WRITER_CACHEMOD", "WRITER_DBMOD"}
    BY <1>1, <1>3 DEF LockBusy, At, Legal, Stands
  <2>2. pager' = [pager EXCEPT ![c] = x] /\ UNCHANGED held
    BY <1>1, <1>3 DEF LockBusy
  <2>3. x \in Pager /\ x.state = pager[c].state /\ x.op = "none" /\ x.pc = "idle"
    BY <1>1, <1>3, <2>1, Sizes, Values DEF Pager, Op, Pc
  <2> HIDE DEF x
  <2>4. Legal(x, held[c])
    BY <1>1, <1>3, <2>1, <2>3 DEF Legal, Stands
  <2> QED
    BY <2>2, <2>3, <2>4, Moves
<1>4. CASE FirstSync(c)
  <2> DEFINE x == [pager[c] EXCEPT !.pc = "nrec"]
  <2>1. /\ pager[c].op \in {"spill", "commit"} /\ held[c] = EXCLUSIVE_LOCK
        /\ pager[c].state \in {"WRITER_CACHEMOD", "WRITER_DBMOD"}
    BY <1>1, <1>4 DEF FirstSync, At, Legal, Stands
  <2>2. pager' = [pager EXCEPT ![c] = x] /\ UNCHANGED held
    BY <1>1, <1>4 DEF FirstSync, Goto
  <2>3. x \in Pager /\ x.state = pager[c].state /\ x.op = pager[c].op /\ x.pc = "nrec"
    BY <1>1, <1>4, <2>1, Sizes, Values DEF Pager, Pc
  <2> HIDE DEF x
  <2>4. Legal(x, held[c])
    BY <1>1, <1>4, <2>1, <2>3 DEF Legal, Stands
  <2> QED
    BY <2>2, <2>3, <2>4, Moves
<1>5. CASE WriteNRec(c)
  <2> DEFINE x == [pager[c] EXCEPT !.pc = "sync2"]
  <2>1. /\ pager[c].op \in {"spill", "commit"} /\ held[c] = EXCLUSIVE_LOCK
        /\ pager[c].state \in {"WRITER_CACHEMOD", "WRITER_DBMOD"}
    BY <1>1, <1>5 DEF WriteNRec, At, Legal, Stands
  <2>2. pager' = [pager EXCEPT ![c] = x] /\ UNCHANGED held
    BY <1>1, <1>5 DEF WriteNRec, Goto
  <2>3. x \in Pager /\ x.state = pager[c].state /\ x.op = pager[c].op /\ x.pc = "sync2"
    BY <1>1, <1>5, <2>1, Sizes, Values DEF Pager, Pc
  <2> HIDE DEF x
  <2>4. Legal(x, held[c])
    BY <1>1, <1>5, <2>1, <2>3 DEF Legal, Stands
  <2> QED
    BY <2>2, <2>3, <2>4, Moves
<1>6. CASE SecondSync(c)
  <2> DEFINE spill == pager[c].op = "spill"
             state == IF spill THEN pager[c].state ELSE "WRITER_DBMOD"
             needSync == IF spill THEN pager[c].needSync ELSE {}
             pc == IF spill THEN "newhdr" ELSE "write"
             x == [pager[c] EXCEPT !.hdr = pager[c].off, !.needSync = needSync,
                                   !.state = state, !.pc = pc]
  <2>1. /\ pager[c].op \in {"spill", "commit"} /\ held[c] = EXCLUSIVE_LOCK
        /\ pager[c].state \in {"WRITER_CACHEMOD", "WRITER_DBMOD"}
    BY <1>1, <1>6 DEF SecondSync, Legal, Stands
  <2>2. pager' = [pager EXCEPT ![c] = x] /\ UNCHANGED held
    BY <1>1, <1>6 DEF SecondSync
  <2>3. /\ state \in PagerState /\ needSync \in SUBSET Page /\ pc \in Pc
        /\ IF spill THEN state = pager[c].state /\ pc = "newhdr"
           ELSE state = "WRITER_DBMOD" /\ pc = "write"
    BY <1>1 DEF Pager, PagerState, Pc
  <2> HIDE DEF state, needSync, pc
  <2>4. x \in Pager /\ x.state = state /\ x.op = pager[c].op /\ x.pc = pc
    BY <1>1, <2>3 DEF Pager
  <2> HIDE DEF x
  <2>5. Legal(x, held[c]) /\ x.pc # "play"
    BY <2>1, <2>3, <2>4 DEF Legal, Stands
  <2> QED
    BY <2>2, <2>4, <2>5, Moves
<1>7. CASE NewHeader(c)
  <2> DEFINE x == [pager[c] EXCEPT !.nRec = 0, !.off = @ + 1, !.needSync = {},
                                   !.state = "WRITER_DBMOD", !.pc = "write"]
  <2>1. pager[c].op = "spill" /\ held[c] = EXCLUSIVE_LOCK
    BY <1>1, <1>7 DEF NewHeader, At, Legal, Stands
  <2>2. pager' = [pager EXCEPT ![c] = x] /\ UNCHANGED held
    BY <1>1, <1>7 DEF NewHeader
  <2>3. x \in Pager /\ x.state = "WRITER_DBMOD" /\ x.op = pager[c].op /\ x.pc = "write"
    <3>1. pager[c].off + 1 \in Nat /\ {} \in SUBSET Page /\ 0 \in Nat
      BY <1>1 DEF Pager
    <3> QED
      BY <1>1, <3>1 DEF Pager, Pc, PagerState
  <2> HIDE DEF x
  <2>4. Legal(x, held[c])
    BY <1>1, <1>7, <2>1, <2>3 DEF Legal, Stands
  <2> QED
    BY <2>2, <2>3, <2>4, Moves
<1>8. CASE SpillWrite(c)
  <2> DEFINE x == [pager[c] EXCEPT !.dirty = @ \ {pager[c].page}, !.cache[pager[c].page] = NoPage,
                                   !.page = 0, !.op = "none", !.pc = "idle"]
  <2>1. pager[c].state = "WRITER_DBMOD" /\ held[c] = EXCLUSIVE_LOCK
    BY <1>1, <1>8 DEF SpillWrite, At, Legal, Stands
  <2>2. pager' = [pager EXCEPT ![c] = x] /\ UNCHANGED held
    BY <1>1, <1>8 DEF SpillWrite
  <2>3. x \in Pager /\ x.state = "WRITER_DBMOD" /\ x.op = "none" /\ x.pc = "idle"
    BY <1>1, <1>8, <2>1, Sizes, Values DEF Pager, Pc, Op
  <2> HIDE DEF x
  <2>4. Legal(x, held[c])
    BY <1>1, <1>8, <2>1, <2>3 DEF Legal, Stands
  <2> QED
    BY <2>2, <2>3, <2>4, Moves
<1>9. CASE CommitWrite(c)
  <2> DEFINE q == Min(pager[c].dirty)
             vers == IF q = 1 THEN pager[c].cache[1] ELSE pager[c].vers
             pc == IF pager[c].dirty = {q} THEN "dbsync" ELSE pager[c].pc
             x == [pager[c] EXCEPT !.dirty = @ \ {q}, !.vers = vers, !.pc = pc]
  <2>1. /\ pager[c].op = "commit" /\ pager[c].pc = "write"
        /\ pager[c].state = "WRITER_DBMOD" /\ held[c] = EXCLUSIVE_LOCK
    BY <1>1, <1>9 DEF CommitWrite, At, Legal, Stands
  <2>2. pager' = [pager EXCEPT ![c] = x] /\ UNCHANGED held
    BY <1>1, <1>9 DEF CommitWrite
  <2>3. vers \in Nat /\ pc \in {"dbsync", "write"}
    BY <1>1, <2>1, Sizes DEF Pager
  <2> HIDE DEF q, vers, pc
  <2>4. x \in Pager /\ x.state = "WRITER_DBMOD" /\ x.op = "commit" /\ x.pc = pc
    BY <1>1, <2>1, <2>3 DEF Pager, Pc
  <2> HIDE DEF x
  <2>5. Legal(x, held[c]) /\ x.pc # "play"
    BY <2>1, <2>3, <2>4 DEF Legal, Stands
  <2> QED
    BY <2>2, <2>4, <2>5, Moves
<1>10. CASE DbSync(c)
  <2>1. CASE pager[c].op = "commit"
    <3> DEFINE x == [pager[c] EXCEPT !.op = "none", !.pc = "idle", !.state = "WRITER_FINISHED"]
    <3>1. pager' = [pager EXCEPT ![c] = x] /\ UNCHANGED held
      BY <1>1, <1>10, <2>1 DEF DbSync
    <3>2. x \in Pager /\ x.state = "WRITER_FINISHED" /\ x.op = "none" /\ x.pc = "idle"
      BY <1>1 DEF Pager, Op, Pc, PagerState
    <3> HIDE DEF x
    <3>3. Legal(x, held[c])
      BY <1>1, <1>10, <2>1, <3>2 DEF DbSync, Legal, Stands
    <3> QED
      BY <3>1, <3>2, <3>3, Moves
  <2>2. CASE pager[c].op # "commit"
    <3> DEFINE x == [pager[c] EXCEPT !.pc = "delete"]
    <3>1. pager' = [pager EXCEPT ![c] = x] /\ UNCHANGED held
      BY <1>1, <1>10, <2>2 DEF DbSync, Goto
    <3>2. x \in Pager /\ x.state = pager[c].state /\ x.op = pager[c].op /\ x.pc = "delete"
      BY <1>1 DEF Pager, Pc
    <3> HIDE DEF x
    <3>3. Legal(x, held[c])
      BY <1>1, <1>10, <2>2, <3>2 DEF DbSync, Legal, Stands
    <3> QED
      BY <3>1, <3>2, <3>3, Moves
  <2> QED
    BY <2>1, <2>2
<1> QED
  BY <1>2, <1>3, <1>4, <1>5, <1>6, <1>7, <1>8, <1>9, <1>10

\* Commit, rollback and the end of a transaction.
LEMMA EndSteps ==
  ASSUME LockInv, NEW c \in Client,
         \/ HotSync(c) \/ CommitPhaseOne(c) \/ Rollback(c) \/ EndEmpty(c)
         \/ PlaybackOnePage(c) \/ EndTransaction(c) \/ EndUnlock(c)
  PROVE  Well(c)
<1>1. /\ Shapes /\ pager[c] \in Pager /\ Legal(pager[c], held[c]) /\ held[c] \in Level
      /\ pager \in [Client -> Pager] /\ held \in [Client -> Level] /\ Files
      /\ pager[c].pc = "play" => pager[c].todo # {}
  BY DEF LockInv, Shapes, Pagers
<1>2. CASE HotSync(c)
  <2> DEFINE todo == Playable(jrnl, 0)
             pc == Playing(pager[c], todo)
             cache == IF todo = {} THEN pager[c].cache ELSE EmptyCache
             x == [pager[c] EXCEPT !.todo = todo, !.cache = cache, !.pc = pc]
  <2>1. pager[c].state = "OPEN" /\ pager[c].op = "hot" /\ held[c] = EXCLUSIVE_LOCK
    BY <1>1, <1>2 DEF HotSync, At, Legal, Stands
  <2>2. pager' = [pager EXCEPT ![c] = x] /\ UNCHANGED held
    BY <1>1, <1>2 DEF HotSync
  <2>3. todo \in SUBSET Slot
    BY <1>1, PlayableRecords DEF Files, Readable
  <2> HIDE DEF todo
  <2>4. /\ pc \in {"play", "dbsync"} /\ (pc = "play" => todo # {})
        /\ cache \in [Page -> Nat]
    BY <1>1, <2>1, Values DEF Playing, Pager
  <2> HIDE DEF pc, cache
  <2>5. x \in Pager /\ x.state = "OPEN" /\ x.op = "hot" /\ x.pc = pc /\ x.todo = todo
    BY <1>1, <2>1, <2>3, <2>4 DEF Pager, Pc
  <2> HIDE DEF x
  <2>6. Legal(x, held[c])
    BY <2>1, <2>4, <2>5 DEF Legal, Stands
  <2> QED
    BY <2>2, <2>4, <2>5, <2>6, Moves
<1>3. CASE CommitPhaseOne(c)
  <2> DEFINE counter == IF 1 \in pager[c].inJournal THEN pager[c].cache[1]
                        ELSE Incremented(pager[c].vers)
             w == Modified(pager[c], 1, counter)
             x == [w EXCEPT !.op = "commit", !.pc = "lock"]
  <2>1. pager' = [pager EXCEPT ![c] = x] /\ UNCHANGED held
    BY <1>1, <1>3 DEF CommitPhaseOne
  <2>2. counter \in Nat /\ 1 \in Page
    BY <1>1, Sizes, Values DEF Pager, Incremented, Torn
  <2> HIDE DEF counter
  <2>3. w \in Pager /\ w.state = pager[c].state
    BY <1>1, <2>2, ModifiedPager
  <2> HIDE DEF w
  <2>4. x \in Pager /\ x.state = pager[c].state /\ x.op = "commit" /\ x.pc = "lock"
    BY <2>3 DEF Pager, Op, Pc
  <2> HIDE DEF x
  <2>5. Legal(x, held[c])
    BY <1>1, <1>3, <2>4 DEF Legal, Stands, CommitPhaseOne, At
  <2> QED
    BY <2>1, <2>4, <2>5, Moves
<1>4. CASE Rollback(c)
  <2> DEFINE x == StartPlayback(pager[c])
  <2>1. pager' = [pager EXCEPT ![c] = x] /\ UNCHANGED held
    BY <1>1, <1>4 DEF Rollback
  <2>2. /\ x \in Pager /\ x.state = pager[c].state /\ x.op = "rollback"
        /\ x.pc \in {"play", "delete", "dbsync"}
        /\ x.pc = "delete" => pager[c].state = "WRITER_CACHEMOD"
        /\ x.pc = "dbsync" => pager[c].state # "WRITER_CACHEMOD"
        /\ x.pc = "play" => x.todo # {}
    BY <1>1, PlaybackPager
  <2> HIDE DEF x
  <2>3. Legal(x, held[c])
    BY <1>1, <1>4, <2>2 DEF Legal, Stands, Rollback, At, Writing
  <2> QED
    BY <2>1, <2>2, <2>3, Moves
<1>5. CASE EndEmpty(c)
  <2> DEFINE x == [pager[c] EXCEPT !.state = "READER"]
  <2>1. x \in Pager /\ x.state = "READER" /\ x.op = "none" /\ x.pc = "idle"
    BY <1>1, <1>5 DEF EndEmpty, At, Pager, PagerState
  <2>2. pager' = [pager EXCEPT ![c] = x] /\ held' = [held EXCEPT ![c] = SHARED_LOCK]
    BY <1>1, <1>5 DEF EndEmpty, Vfs!Release
  <2> HIDE DEF x
  <2>3. Own(c) /\ pager'[c] = x /\ held'[c] = SHARED_LOCK
    BY <1>1, <2>1, <2>2 DEF Own
  <2> QED
    BY <2>1, <2>3 DEF Well, Legal, Stands
<1>6. CASE PlaybackOnePage(c)
  <2> DEFINE i == Min(pager[c].todo)
             q == jrnl[i].pg
             cached == pager[c].cache[q] # NoPage
             todo == pager[c].todo \ {i}
             vers == IF cached /\ q = 1 THEN jrnl[i].n ELSE pager[c].vers
             page == IF cached THEN jrnl[i].n ELSE pager[c].cache[q]
             pc == Playing(pager[c], todo)
             x == [pager[c] EXCEPT !.todo = todo, !.cache[q] = page, !.vers = vers, !.pc = pc]
  <2>1. /\ pager[c].pc = "play"
        /\ pager[c].op \in {"hot", "rollback"}
        /\ pager[c].op = "hot" => pager[c].state # "WRITER_CACHEMOD"
    BY <1>1, <1>6 DEF PlaybackOnePage, Legal, Stands
  <2>2. pager' = [pager EXCEPT ![c] = x] /\ UNCHANGED held
    BY <1>1, <1>6 DEF PlaybackOnePage
  <2>3. i \in pager[c].todo /\ i \in Slot
    <3>1. pager[c].todo # {} /\ pager[c].todo \subseteq Slot
      BY <1>1, <2>1 DEF Pager
    <3> QED
      BY <3>1, Sizes, MinIsLeast
  <2>4. jrnl[i].n \in Nat
    BY <1>1, <2>3 DEF Files, PagedSlot, SlotRec
  <2>5. todo \in SUBSET Slot /\ vers \in Nat /\ (q \in Page => page \in Nat)
    BY <1>1, <2>3, <2>4 DEF Pager
  <2>6. /\ pc \in {"play", "delete", "dbsync"} /\ (pc = "play" => todo # {})
        /\ pc = "delete" => pager[c].state = "WRITER_CACHEMOD"
        /\ pc = "dbsync" => pager[c].state # "WRITER_CACHEMOD"
    BY DEF Playing
  <2> HIDE DEF i, q, cached, todo, vers, page, pc
  <2>7. [pager[c].cache EXCEPT ![q] = page] \in [Page -> Nat]
    BY <1>1, <2>5 DEF Pager
  <2>8. /\ x \in Pager /\ x.state = pager[c].state /\ x.op = pager[c].op /\ x.pc = pc
        /\ x.todo = todo
    BY <1>1, <2>5, <2>6, <2>7 DEF Pager, Pc
  <2> HIDE DEF x
  <2>9. Legal(x, held[c])
    BY <1>1, <2>1, <2>6, <2>8 DEF Legal, Stands
  <2> QED
    BY <2>2, <2>6, <2>8, <2>9, Moves
<1>7. CASE EndTransaction(c)
  <2> DEFINE x == [pager[c] EXCEPT !.pc = "unlock"]
  <2>1. pager' = [pager EXCEPT ![c] = x] /\ UNCHANGED held
    BY <1>1, <1>7 DEF EndTransaction, Goto
  <2>2. x \in Pager /\ x.state = pager[c].state /\ x.op = pager[c].op /\ x.pc = "unlock"
    BY <1>1 DEF Pager, Pc
  <2> HIDE DEF x
  <2>3. Legal(x, held[c])
    BY <1>1, <1>7, <2>2 DEF Legal, Stands, EndTransaction, At
  <2> QED
    BY <2>1, <2>2, <2>3, Moves
<1>8. CASE EndUnlock(c)
  <2> DEFINE u == Unlocked(pager[c])
             rest == [u EXCEPT !.state = "READER"]
             hot == [rest EXCEPT !.state = "OPEN", !.pc = "version"]
             x == Ended(pager[c])
  <2>1. u \in Pager /\ u.op = "none" /\ u.pc = "idle"
    BY <1>1, ClosedPager
  <2>2. x = IF pager[c].op = "hot" THEN hot ELSE rest
    BY DEF Ended
  <2> HIDE DEF u
  <2>3. rest \in Pager /\ rest.state = "READER" /\ rest.op = "none" /\ rest.pc = "idle"
    BY <2>1 DEF Pager, PagerState
  <2> HIDE DEF rest
  <2>4. hot \in Pager /\ hot.state = "OPEN" /\ hot.op = "none" /\ hot.pc = "version"
    BY <2>3 DEF Pager, PagerState, Pc
  <2>5. pager' = [pager EXCEPT ![c] = x] /\ held' = [held EXCEPT ![c] = SHARED_LOCK]
    BY <1>1, <1>8 DEF EndUnlock, Vfs!Release
  <2> HIDE DEF x, hot
  <2>6. Own(c) /\ pager'[c] = x /\ held'[c] = SHARED_LOCK
    BY <1>1, <2>2, <2>3, <2>4, <2>5 DEF Own
  <2> QED
    BY <2>2, <2>3, <2>4, <2>6 DEF Well, Legal, Stands
<1> QED
  BY <1>2, <1>3, <1>4, <1>5, <1>6, <1>7, <1>8

\* Failed calls, and a client that ends.
LEMMA FaultSteps ==
  ASSUME LockInv, NEW c \in Client,
         \/ CommitFails(c) \/ PagerError(c) \/ DeleteFails(c) \/ ErrorUnlock(c)
         \/ HotFails(c) \/ ClientDies(c)
  PROVE  Well(c)
<1>1. /\ Shapes /\ pager[c] \in Pager /\ Legal(pager[c], held[c]) /\ held[c] \in Level
      /\ pager \in [Client -> Pager] /\ held \in [Client -> Level] /\ Files
  BY DEF LockInv, Shapes, Pagers
<1>2. CASE CommitFails(c)
  <2> DEFINE x == StartPlayback(pager[c])
  <2>1. pager' = [pager EXCEPT ![c] = x] /\ UNCHANGED held
    BY <1>1, <1>2 DEF CommitFails
  <2>2. /\ x \in Pager /\ x.state = pager[c].state /\ x.op = "rollback"
        /\ x.pc \in {"play", "delete", "dbsync"}
        /\ x.pc = "delete" => pager[c].state = "WRITER_CACHEMOD"
        /\ x.pc = "dbsync" => pager[c].state # "WRITER_CACHEMOD"
        /\ x.pc = "play" => x.todo # {}
    BY <1>1, PlaybackPager
  <2> HIDE DEF x
  <2>3. Legal(x, held[c])
    BY <1>1, <1>2, <2>2 DEF Legal, Stands, CommitFails
  <2> QED
    BY <2>1, <2>2, <2>3, Moves
<1> DEFINE err == [pager[c] EXCEPT !.state = "ERROR", !.op = "none", !.pc = "idle"]
           closed == Closed(pager[c])
           dead == [NewPager EXCEPT !.state = "DEAD"]
<1>3. err \in Pager /\ err.state = "ERROR" /\ err.op = "none" /\ err.pc = "idle"
  BY <1>1 DEF Pager, PagerState, Op, Pc
<1>4. closed \in Pager /\ closed.state = "OPEN" /\ closed.op = "none" /\ closed.pc = "idle"
  BY <1>1, ClosedPager
<1>5. dead \in Pager /\ dead.state = "DEAD" /\ dead.op = "none" /\ dead.pc = "idle"
  <2>1. NewPager \in Pager /\ NewPager.op = "none" /\ NewPager.pc = "idle"
    BY Values DEF NewPager
  <2> QED
    BY <2>1 DEF Pager, PagerState
<1>6. CASE PagerError(c)
  <2>1. pager' = [pager EXCEPT ![c] = err] /\ UNCHANGED held
    BY <1>1, <1>6 DEF PagerError
  <2> HIDE DEF err
  <2>2. Legal(err, held[c])
    BY <1>1, <1>3, <1>6 DEF Legal, Stands, PagerError
  <2> QED
    BY <1>3, <2>1, <2>2, Moves
<1>7. CASE DeleteFails(c)
  <2>1. pager' = [pager EXCEPT ![c] = err] /\ held' = [held EXCEPT ![c] = SHARED_LOCK]
    BY <1>1, <1>7 DEF DeleteFails, Vfs!Release
  <2> HIDE DEF err
  <2>2. Own(c) /\ pager'[c] = err /\ held'[c] = SHARED_LOCK
    BY <1>1, <1>3, <2>1 DEF Own
  <2> QED
    BY <1>3, <2>2 DEF Well, Legal, Stands
<1>8. CASE ErrorUnlock(c) \/ HotFails(c)
  <2>1. pager' = [pager EXCEPT ![c] = closed] /\ held' = [held EXCEPT ![c] = NO_LOCK]
    BY <1>1, <1>8 DEF ErrorUnlock, HotFails, Vfs!Release
  <2> HIDE DEF closed
  <2>2. Own(c) /\ pager'[c] = closed /\ held'[c] = NO_LOCK
    BY <1>1, <1>4, <2>1 DEF Own
  <2> QED
    BY <1>4, <2>2 DEF Well, Legal, Stands
<1>9. CASE ClientDies(c)
  <2>1. pager' = [pager EXCEPT ![c] = dead] /\ UNCHANGED held
    BY <1>1, <1>9 DEF ClientDies
  <2> HIDE DEF dead
  <2>2. Legal(dead, held[c])
    BY <1>5 DEF Legal, Stands
  <2> QED
    BY <1>5, <2>1, <2>2, Moves
<1> QED
  BY <1>2, <1>6, <1>7, <1>8, <1>9

\* Every step of a client leaves it in a legal place.
LEMMA ClientWell ==
  ASSUME LockInv, NEW c \in Client, ClientStep(c) \/ ClientDies(c)
  PROVE  Well(c)
BY OpenSteps, WriteSteps, SyncSteps, EndSteps, FaultSteps DEF ClientStep

\* The calls of the VFS keep the promise of VfsLock.
LEMMA ClientExcluded ==
  ASSUME LockInv, NEW c \in Client, ClientStep(c) \/ ClientDies(c)
  PROVE  Excluded'
<1>1. Excluded /\ held \in [Client -> Level]
  BY DEF LockInv, Shapes, Pagers
<1>2. \/ UNCHANGED held
      \/ Vfs!Share(c) \/ Vfs!Reserve(c) \/ Vfs!Pend(c) \/ Vfs!Exclude(c)
      \/ Vfs!Release(c, NO_LOCK) \/ Vfs!Release(c, SHARED_LOCK)
  <2>1. CASE \/ SharedLock(c) \/ HotLock(c) \/ HotRefused(c) \/ Recheck(c) \/ EndRead(c) \/ Begin(c)
             \/ ExclusiveLock(c) \/ EndEmpty(c) \/ EndUnlock(c) \/ DeleteFails(c)
             \/ ErrorUnlock(c) \/ HotFails(c)
    BY <2>1 DEF SharedLock, HotLock, HotRefused, Recheck, EndRead, Begin, ExclusiveLock, EndEmpty,
                EndUnlock, DeleteFails, ErrorUnlock, HotFails
  <2>2. CASE \/ JournalAccess(c) \/ CheckReserved(c) \/ FirstByte(c) \/ HotSync(c)
             \/ CheckVersion(c) \/ LockBusy(c) \/ FirstSync(c) \/ WriteNRec(c)
             \/ SecondSync(c) \/ NewHeader(c) \/ SpillWrite(c) \/ CommitPhaseOne(c)
             \/ CommitWrite(c) \/ DbSync(c) \/ Rollback(c) \/ PlaybackOnePage(c)
             \/ EndTransaction(c) \/ CommitFails(c) \/ PagerError(c) \/ ClientDies(c)
    BY <2>2 DEF JournalAccess, CheckReserved, FirstByte, HotSync, CheckVersion, LockBusy,
                FirstSync, WriteNRec, SecondSync, NewHeader, SpillWrite, CommitPhaseOne,
                CommitWrite, DbSync, Rollback, PlaybackOnePage, EndTransaction,
                CommitFails, PagerError, ClientDies
  <2>3. ASSUME NEW p \in Page,
               ReadPage(c, p) \/ OpenJournal(c, p) \/ WritePage(c, p) \/ Spill(c, p)
        PROVE  UNCHANGED held
    BY <2>3 DEF ReadPage, OpenJournal, WritePage, Spill
  <2> QED
    BY <2>1, <2>2, <2>3 DEF ClientStep
<1> USE DEF Vfs!NO_LOCK, Vfs!SHARED_LOCK, Vfs!RESERVED_LOCK, Vfs!PENDING_LOCK,
            Vfs!EXCLUSIVE_LOCK, Vfs!Others
<1>3. CASE UNCHANGED held
  BY <1>1, <1>3 DEF Excluded
<1>4. CASE Vfs!Share(c)
  BY <1>1, <1>4 DEF Excluded, Vfs!Share
<1>5. CASE Vfs!Reserve(c)
  BY <1>1, <1>5 DEF Excluded, Vfs!Reserve
<1>6. CASE Vfs!Pend(c)
  BY <1>1, <1>6 DEF Excluded, Vfs!Pend
<1>7. CASE Vfs!Exclude(c)
  BY <1>1, <1>7 DEF Excluded, Vfs!Exclude
<1>8. CASE Vfs!Release(c, NO_LOCK)
  BY <1>1, <1>8 DEF Excluded, Vfs!Release
<1>9. CASE Vfs!Release(c, SHARED_LOCK)
  BY <1>1, <1>9 DEF Excluded, Vfs!Release
<1> QED
  BY <1>2, <1>3, <1>4, <1>5, <1>6, <1>7, <1>8, <1>9

\* Nobody holds a lock after a restart of the server.
LEMMA RestartLocks ==
  ASSUME LockInv, Reconnect, Files', nTxn' \in Nat
  PROVE  LockInv'
<1>1. NewPager \in Pager /\ Stands(NewPager, "OPEN", "none", {"idle"}) /\ NewPager.pc # "play"
  BY Values DEF NewPager, Stands
<1>2. \A c \in Client : pager'[c] = NewPager /\ held'[c] = NO_LOCK
  BY DEF Reconnect
<1>3. pager' \in [Client -> Pager] /\ held' \in [Client -> Level]
  BY <1>1 DEF Reconnect
<1>4. Shapes' /\ Excluded'
  BY <1>1, <1>2, <1>3 DEF Shapes, Pagers, Excluded
<1>5. \A c \in Client : Legal(pager'[c], held'[c])
  BY <1>1, <1>2 DEF Legal
<1> QED
  BY <1>4, <1>5 DEF LockInv

\* The transactions are counted.
LEMMA NTxnStays ==
  ASSUME Shapes, Next
  PROVE  nTxn' \in Nat
<1>1. nTxn \in Nat
  BY DEF Shapes, Pagers
<1>2. ASSUME NEW c \in Client, ClientStep(c)
      PROVE  nTxn' \in Nat
  <2>1. CASE \E p \in Page \ {1} : OpenJournal(c, p)
    BY <1>1, <2>1 DEF OpenJournal
  <2>2. CASE ~\E p \in Page \ {1} : OpenJournal(c, p)
    BY <1>1, <1>2, <2>2
       DEF ClientStep, SharedLock, JournalAccess, CheckReserved, FirstByte, HotLock, HotRefused, Recheck,
           HotSync, CheckVersion, EndRead, Begin, ReadPage, WritePage, Spill, ExclusiveLock,
           LockBusy, FirstSync, WriteNRec, SecondSync, NewHeader, SpillWrite, CommitPhaseOne,
           CommitWrite, DbSync, Rollback, EndEmpty, PlaybackOnePage, EndTransaction, EndUnlock,
           CommitFails, PagerError, DeleteFails, ErrorUnlock, HotFails
  <2> QED
    BY <2>1, <2>2
<1> QED
  BY <1>1, <1>2 DEF Next, ClientDies, ServerRestarts, PowerLoss

\* The locks the pagers hold go with what they are doing, at every step.
LEMMA LockInvariance ==
  Spec => []LockInv
<1>1. Init => LockInv
  <2> SUFFICES ASSUME Init PROVE LockInv
    OBVIOUS
  <2>1. NewPager \in Pager /\ Stands(NewPager, "OPEN", "none", {"idle"}) /\ NewPager.pc # "play"
    BY Values DEF NewPager, Stands
  <2>2. Files
    BY Values DEF Init, Files, NoJournal
  <2>3. Pagers /\ Excluded
    BY <2>1 DEF Init, Pagers, Excluded
  <2>4. \A c \in Client : Legal(pager[c], held[c])
    BY <2>1 DEF Init, Legal
  <2> QED
    BY <2>2, <2>3, <2>4 DEF LockInv, Shapes
<1>2. LockInv /\ [Next]_vars => LockInv'
  <2> SUFFICES ASSUME LockInv, [Next]_vars
               PROVE  LockInv'
    OBVIOUS
  <2>1. Shapes /\ Files
    BY DEF LockInv, Shapes
  <2>2. ASSUME NEW c \in Client, ClientStep(c) \/ ClientDies(c)
        PROVE  LockInv'
    <3>1. Well(c) /\ Excluded'
      BY <2>2, ClientWell, ClientExcluded
    <3>2. Files'
      BY <2>1, <2>2, ClientFiles, ServerFiles DEF ClientDies
    <3>3. nTxn' \in Nat
      BY <2>1, <2>2, NTxnStays DEF Next
    <3>4. \A d \in Client : /\ Legal(pager'[d], held'[d])
                            /\ pager'[d].pc = "play" => pager'[d].todo # {}
      BY <3>1 DEF Well, Own, LockInv, Shapes, Pagers
    <3>5. Pagers'
      BY <3>1, <3>3, <3>4 DEF Well, Own, Pagers
    <3> QED
      BY <3>1, <3>2, <3>4, <3>5 DEF LockInv, Shapes
  <2>3. CASE ServerRestarts
    BY <2>1, <2>3, RestartLocks, ServerFiles, NTxnStays DEF ServerRestarts, Next
  <2>4. CASE PowerLoss
    BY <2>1, <2>4, RestartLocks, PowerLossFiles, NTxnStays DEF PowerLoss, Next
  <2>5. CASE UNCHANGED vars
    BY <2>5 DEF LockInv, Shapes, Pagers, Files, Excluded, vars, server
  <2> QED
    BY <2>2, <2>3, <2>4, <2>5 DEF Next
<1> QED
  BY <1>1, <1>2, PTL DEF Spec

\* EXCLUSIVE is held from the first write of the file to the end of the journal.
LEMMA LockInvAlone ==
  LockInv => WriterAlone
<1> SUFFICES ASSUME LockInv, NEW c \in Client, NEW d \in Client \ {c}, WritesFile(c)
             PROVE  held[d] = NO_LOCK /\ ~InTransaction(d)
  BY DEF WriterAlone
<1>1. Legal(pager[c], held[c]) /\ Legal(pager[d], held[d]) /\ Excluded
  BY DEF LockInv
<1>2. held[c] = EXCLUSIVE_LOCK
  BY <1>1 DEF WritesFile, Legal, Stands
<1>3. held[d] = NO_LOCK
  BY <1>1, <1>2 DEF Excluded
<1>4. ~InTransaction(d)
  BY <1>1, <1>3 DEF InTransaction, Legal, Stands
<1> QED
  BY <1>3, <1>4

\* For any number of clients and faults, the pager that may have written pages of
\* the database file, or is rolling a hot journal back, has it to itself.
THEOREM WriterIsAlone ==
  Spec => []WriterAlone
BY LockInvariance, LockInvAlone, PTL
=============================================================================
