---------------------------- MODULE ContentProofs ----------------------------
(***************************************************************************)
(* Proofs about what the database of PagerCommit holds: every recovery,    *)
(* also after a loss of power, finds the content of the committed          *)
(* transactions, every reader sees it, and a transaction changes it in one *)
(* step.                                                                   *)
(***************************************************************************)
EXTENDS JournalProofs

USE DEF NO_LOCK, SHARED_LOCK, RESERVED_LOCK, PENDING_LOCK, EXCLUSIVE_LOCK, Level

-----------------------------------------------------------------------------
(* A journal that can be played back. *)

\* Headers in front of h lead from one to the next, over as many records as
\* they announce, and reach h.
Chain(j, h) ==
    /\ h > 1 => j[1].kind = "hdr"
    /\ \A i \in Slot : i < h => j[i].kind \in {"hdr", "rec"}
    /\ \A i \in Slot : i < h /\ j[i].kind = "hdr" =>
          /\ j[i].n > 0 /\ i + j[i].n < h
          /\ \A k \in (i + 1) .. (i + j[i].n) : j[k].kind = "rec" /\ j[k].key = j[i].key
          /\ i + j[i].n + 1 < h => j[i + j[i].n + 1].kind = "hdr"

\* A header that syncJournal has given its number of records.
Valid(s) == s.kind = "hdr" /\ s.n > 0

\* The records of the chain, and whether one of them is of page p.
RecordsBefore(j, h) == {i \in Slot : i < h /\ j[i].kind = "rec"}

Covered(j, h, p) == \E i \in Slot : i < h /\ j[i].kind = "rec" /\ j[i].pg = p

\* A journal that restores X: a chain of synced headers up to h, at h perhaps one
\* more header, no header behind it, and in the records the pages of X.
Laid(j, h, X) ==
    /\ Chain(j, h)
    /\ \A i \in Slot : i > h => j[i].kind # "hdr"
    /\ \A i \in Slot : i < h /\ j[i].kind = "rec" => j[i].n = X[j[i].pg]
    /\ h \in Slot /\ Valid(j[h]) =>
          /\ h + j[h].n <= JLen
          /\ \A i \in (h + 1) .. (h + j[h].n) :
                j[i].kind = "rec" /\ j[i].key = j[h].key /\ j[i].n = X[j[i].pg]

\* A header with all its records.
LEMMA WholeSegment ==
  ASSUME NEW j, NEW h \in Slot, NEW n \in Nat, h + n <= JLen,
         \A k \in (h + 1) .. (h + n) : j[k].kind = "rec" /\ j[k].key = j[h].key
  PROVE  Segment(j, h, n) = (h + 1) .. (h + n) /\ Cardinality(Segment(j, h, n)) = n
<1>1. h \in Nat /\ JLen \in Nat /\ h >= 1
  BY Sizes DEF Slot
<1>2. Segment(j, h, n) = (h + 1) .. (h + n)
  <2>1. \A i \in (h + 1) .. (h + n) : i \in Slot
    BY <1>1 DEF Slot
  <2>2. \A i \in (h + 1) .. (h + n) : \A k \in (h + 1) .. i : k \in (h + 1) .. (h + n)
    BY <1>1
  <2>3. \A i \in (h + 1) .. (h + n) : \A k \in (h + 1) .. i : j[k].kind = "rec" /\ j[k].key = j[h].key
    BY <2>2
  <2>4. \A i : i \in Segment(j, h, n) <=>
            /\ i \in (h + 1) .. (h + n) /\ i \in Slot
            /\ \A k \in (h + 1) .. i : j[k].kind = "rec" /\ j[k].key = j[h].key
    BY DEF Segment
  <2>5. \A i : i \in Segment(j, h, n) <=> i \in (h + 1) .. (h + n)
    BY <2>1, <2>3, <2>4
  <2> QED
    BY <2>5, Zenon
<1>3. Cardinality((h + 1) .. (h + n)) = n
  <2> DEFINE a == h + 1
             b == h + n
  <2>1. a \in Int /\ b \in Int
    BY <1>1
  <2>2. (IF a > b THEN 0 ELSE b - a + 1) = n
    BY <1>1
  <2>3. Cardinality(a .. b) = IF a > b THEN 0 ELSE b - a + 1
    <3> HIDE DEF a, b
    <3> QED
      BY <2>1, FS_Interval
  <2> QED
    BY <2>2, <2>3
<1> QED
  BY <1>2, <1>3

\* Behind a header with all its records the playback goes on.
LEMMA WholePlayed ==
  ASSUME NEW j, Readable(j), NEW own, NEW h \in Slot, NEW f, j[h].kind = "hdr", j[h].n > 0,
         h + j[h].n <= JLen,
         \A k \in (h + 1) .. (h + j[h].n) : j[k].kind = "rec" /\ j[k].key = j[h].key
  PROVE  PlayedAt(j, own, f, h) = ((h + 1) .. (h + j[h].n)) \cup f[h + j[h].n + 1]
<1> DEFINE n == j[h].n
<1>1. n \in Nat /\ n > 0 /\ h \in Nat /\ JLen \in Nat /\ h <= JLen
  BY Sizes DEF Readable, PagedSlot, SlotRec, Slot
<1>2. Segment(j, h, n) = (h + 1) .. (h + n) /\ Cardinality(Segment(j, h, n)) = n
  BY <1>1, WholeSegment
<1>3. PlayedAt(j, own, f, h) = IF n = 0 \/ Cardinality(Segment(j, h, n)) < n
                               THEN Segment(j, h, n) ELSE Segment(j, h, n) \cup f[h + n + 1]
  <2>1. ~(h > JLen) /\ ~(j[h].n = 0)
    BY <1>1
  <2> QED
    BY <2>1 DEF PlayedAt
<1> QED
  BY <1>1, <1>2, <1>3

\* A chain is played back to its end.
LEMMA ChainPlayed ==
  ASSUME NEW j, Readable(j), NEW own, NEW h \in Places, Chain(j, h),
         NEW f, f = [k \in Places |-> PlayedAt(j, own, f, k)]
  PROVE  f[1] = RecordsBefore(j, h) \cup f[h]
<1> DEFINE Node(i) == i \in Places /\ i <= h /\ (i = h \/ j[i].kind = "hdr")
           Rest(i) == {k \in Slot : i <= k /\ k < h /\ j[k].kind = "rec"}
           Bad == {m \in 0 .. JLen : Node(h - m) /\ f[h - m] # Rest(h - m) \cup f[h]}
<1>1. JLen \in Nat /\ h \in Nat /\ h >= 1 /\ h <= JLen + 1
  BY Sizes DEF Places
<1>2. Bad = {}
  <2> SUFFICES ASSUME Bad # {} PROVE FALSE
    OBVIOUS
  <2>1. PICK m \in Bad : \A y \in Bad : m <= y
    <3>1. Bad \in SUBSET Nat
      OBVIOUS
    <3> QED
      BY <3>1, Least
  <2> DEFINE i == h - m
  <2>2. m \in 0 .. JLen /\ Node(i) /\ f[i] # Rest(i) \cup f[h]
    OBVIOUS
  <2>3. i # h
    <3> SUFFICES ASSUME i = h PROVE FALSE
      OBVIOUS
    <3>1. Rest(h) = {}
      BY <1>1 DEF Slot
    <3> QED
      BY <2>2, <3>1
  <2>4. i \in Slot /\ i \in Nat /\ i < h /\ j[i].kind = "hdr" /\ i \in Places
    BY <1>1, <2>2, <2>3 DEF Places, Slot
  <2> DEFINE n == j[i].n
             k == i + n + 1
  <2>5. /\ n \in Nat /\ n > 0 /\ i + n < h
        /\ \A l \in (i + 1) .. (i + n) : j[l].kind = "rec" /\ j[l].key = j[i].key
        /\ k < h => j[k].kind = "hdr"
    BY <2>4 DEF Chain, Readable, PagedSlot, SlotRec
  <2>6. Node(k) /\ h - k \in 0 .. JLen /\ h - (h - k) = k /\ ~(m <= h - k) /\ i + n <= JLen
    <3> HIDE DEF n
    <3> QED
      BY <1>1, <2>2, <2>4, <2>5 DEF Places
  <2>7. f[k] = Rest(k) \cup f[h]
    <3>1. h - k \notin Bad
      BY <2>1, <2>6
    <3> HIDE DEF k
    <3> QED
      BY <2>6, <3>1
  <2>8. f[i] = ((i + 1) .. (i + n)) \cup f[k]
    <3>1. f[i] = PlayedAt(j, own, f, i)
      BY <2>4
    <3> HIDE DEF i
    <3> QED
      BY <2>4, <2>5, <2>6, <3>1, WholePlayed
  <2>9. Rest(i) = ((i + 1) .. (i + n)) \cup Rest(k)
    <3> HIDE DEF i, n
    <3>1. \A l \in (i + 1) .. (i + n) : l \in Rest(i)
      BY <1>1, <2>4, <2>5 DEF n, Slot
    <3>2. \A l \in Rest(k) : l \in Rest(i)
      BY <2>4, <2>5 DEF Slot, n
    <3>3. \A l \in Rest(i) : l = i \/ l \in (i + 1) .. (i + n) \/ l \in Rest(k)
      <4> SUFFICES ASSUME NEW l \in Rest(i) PROVE l = i \/ l \in (i + 1) .. (i + n) \/ l >= k
        OBVIOUS
      <4>1. l \in Nat /\ l >= i /\ n \in Nat
        BY <2>5, Sizes DEF n
      <4> QED
        BY <2>4, <4>1
    <3>4. i \notin Rest(i)
      BY <2>4
    <3> QED
      BY <3>1, <3>2, <3>3, <3>4
  <2> QED
    BY <2>2, <2>7, <2>8, <2>9
<1>3. Node(1) /\ h - 1 \in 0 .. JLen /\ h - (h - 1) = 1
  BY <1>1 DEF Chain, Places
<1>4. f[1] = Rest(1) \cup f[h]
  <2>1. h - 1 \notin Bad
    BY <1>2
  <2> QED
    BY <1>3, <2>1
<1>5. Rest(1) = RecordsBefore(j, h)
  BY Sizes DEF RecordsBefore, Slot
<1> QED
  BY <1>4, <1>5

\* What a laid journal plays back are pages of X, and all those of its chain.
LEMMA LaidPlayed ==
  ASSUME NEW j, Readable(j), NEW h \in Places, NEW X, Laid(j, h, X)
  PROVE  /\ \A i \in Playable(j, 0) : i \in Slot /\ j[i].kind = "rec" /\ j[i].n = X[j[i].pg]
         /\ RecordsBefore(j, h) \subseteq Playable(j, 0)
         /\ (h \in Slot => ~Valid(j[h])) => Playable(j, 0) = RecordsBefore(j, h)
         /\ h \in Slot /\ Valid(j[h]) =>
               Playable(j, 0) = RecordsBefore(j, h) \cup ((h + 1) .. (h + j[h].n))
         /\ h > 1 => Hot(j)
         /\ h = 1 => (Hot(j) <=> Valid(j[1]))
<1>1. PICK f : /\ Playable(j, 0) = f[1]
               /\ f = [k \in Places |-> PlayedAt(j, 0, f, k)]
  BY PlayableUnfolds
<1>2. Playable(j, 0) = RecordsBefore(j, h) \cup f[h]
  BY <1>1, ChainPlayed DEF Laid
<1>3. f[h] = PlayedAt(j, 0, f, h)
  BY <1>1
<1>4. JLen \in Nat /\ h \in Nat /\ h >= 1 /\ h <= JLen + 1
  BY Sizes DEF Places
<1>5. CASE h \in Slot /\ Valid(j[h])
  <2> DEFINE n == j[h].n
             k == h + n + 1
  <2>1. n \in Nat /\ n > 0 /\ h + n <= JLen /\ j[h].kind = "hdr"
    BY <1>5 DEF Valid, Laid, Readable, PagedSlot, SlotRec
  <2>2. f[h] = ((h + 1) .. (h + n)) \cup f[k]
    BY <1>3, <1>5, <2>1, WholePlayed DEF Laid
  <2>3. k \in Places /\ (k > JLen \/ j[k].kind # "hdr")
    <3>1. k \in Places /\ (k > JLen \/ (k \in Slot /\ k > h))
      <4> HIDE DEF n
      <4> QED
        BY <1>4, <2>1 DEF Places, Slot
    <3> QED
      BY <3>1 DEF Laid
  <2>4. f[k] = {}
    <3> HIDE DEF k
    <3>1. f[k] = PlayedAt(j, 0, f, k)
      BY <1>1, <2>3
    <3> QED
      BY <2>3, <3>1 DEF PlayedAt
  <2>5. Playable(j, 0) = RecordsBefore(j, h) \cup ((h + 1) .. (h + n))
    BY <1>2, <2>2, <2>4
  <2>6. \A i \in (h + 1) .. (h + n) : i \in Slot /\ j[i].kind = "rec" /\ j[i].n = X[j[i].pg]
    <3>1. \A i \in (h + 1) .. (h + n) : i \in Slot
      <4> HIDE DEF n
      <4> QED
        BY <1>4, <2>1 DEF Slot
    <3> QED
      BY <1>5, <3>1 DEF Laid
  <2>7. \A i \in RecordsBefore(j, h) : i \in Slot /\ j[i].kind = "rec" /\ j[i].n = X[j[i].pg]
    BY DEF RecordsBefore, Laid
  <2>8. (h > 1 => Hot(j)) /\ (h = 1 => Hot(j) /\ Valid(j[1]))
    BY <1>5, Sizes DEF Laid, Chain, Hot, Valid
  <2> QED
    BY <1>5, <2>5, <2>6, <2>7, <2>8
<1>6. CASE ~(h \in Slot /\ Valid(j[h]))
  <2>1. f[h] = {}
    <3>1. CASE h > JLen \/ j[h].kind # "hdr"
      BY <1>3, <3>1 DEF PlayedAt
    <3>2. CASE ~(h > JLen \/ j[h].kind # "hdr")
      <4>1. h \in Slot /\ ~(j[h].n > 0)
        BY <1>4, <1>6, <3>2 DEF Slot, Valid
      <4>2. j[h].n = 0
        BY <4>1 DEF Readable, PagedSlot, SlotRec
      <4>3. Segment(j, h, 0) = {}
        BY <1>4 DEF Segment
      <4>4. (IF j[h].n = 0 /\ h = 0 THEN JLen - h ELSE j[h].n) = 0
        BY <1>4, <4>2
      <4> QED
        BY <1>3, <3>2, <4>3, <4>4 DEF PlayedAt
    <3> QED
      BY <3>1, <3>2
  <2>2. Playable(j, 0) = RecordsBefore(j, h)
    BY <1>2, <2>1
  <2>3. \A i \in RecordsBefore(j, h) : i \in Slot /\ j[i].kind = "rec" /\ j[i].n = X[j[i].pg]
    BY DEF RecordsBefore, Laid
  <2>4. h > 1 => Hot(j)
    BY Sizes DEF Laid, Chain, Hot
  <2>5. h = 1 => (Hot(j) <=> Valid(j[1]))
    BY DEF Hot, Valid
  <2> QED
    BY <1>6, <2>2, <2>3, <2>4, <2>5
<1> QED
  BY <1>5, <1>6

\* A recovery finds X if what is not covered by the journal is X.
LEMMA LaidRecovers ==
  ASSUME NEW X \in [Page -> Nat], NEW d \in [Page -> Nat], NEW j, Readable(j),
         NEW h \in Places, Laid(j, h, X),
         \A p \in Page : d[p] = X[p] \/ Covered(j, h, p)
  PROVE  Recovered(d, j) = X
<1> DEFINE slots == Playable(j, 0)
<1>1. /\ \A i \in slots : i \in Slot /\ j[i].kind = "rec" /\ j[i].n = X[j[i].pg]
      /\ RecordsBefore(j, h) \subseteq slots /\ (h > 1 => Hot(j))
  BY LaidPlayed
<1>2. CASE Hot(j)
  <2> HIDE DEF slots
  <2>1. ASSUME NEW p \in Page
        PROVE  (IF \E i \in slots : j[i].pg = p
                THEN j[CHOOSE i \in slots : j[i].pg = p].n ELSE d[p]) = X[p]
    <3>1. CASE \E i \in slots : j[i].pg = p
      <4> DEFINE i == CHOOSE k \in slots : j[k].pg = p
      <4>1. i \in slots /\ j[i].pg = p
        BY <3>1
      <4> QED
        BY <1>1, <3>1, <4>1
    <3>2. CASE ~\E i \in slots : j[i].pg = p
      <4>1. ~Covered(j, h, p)
        BY <1>1, <3>2 DEF Covered, RecordsBefore
      <4> QED
        BY <3>2, <4>1
    <3> QED
      BY <3>1, <3>2
  <2>2. Restored(d, j, slots) = [p \in Page |-> X[p]]
    BY <2>1 DEF Restored
  <2> QED
    BY <1>2, <2>2 DEF Recovered, slots
<1>3. CASE ~Hot(j)
  <2>1. h = 1
    BY <1>1, <1>3 DEF Places
  <2>2. \A p \in Page : ~Covered(j, h, p)
    BY <2>1, Sizes DEF Covered, Slot
  <2>3. \A p \in Page : d[p] = X[p]
    BY <2>2
  <2> QED
    BY <1>3, <2>3 DEF Recovered
<1> QED
  BY <1>2, <1>3

-----------------------------------------------------------------------------
(* The inductive invariant: X is the content of the database, Y what a loss  *)
(* of power may bring back, and the journal is synced in front of h.         *)

\* The files.  Each page on the disk is the one of X or restored by a part of the
\* journal that was synced; a header with its count stands before synced records.
DiskOK(X, h) ==
    /\ Laid(jrnl, h, X)
    /\ \A i \in Slot : /\ jrnl[i] \in jDisk[i]
                       /\ i < h => jDisk[i] = {jrnl[i]}
                       /\ i > h => \A s \in jDisk[i] : s.kind # "hdr"
    /\ h \in Slot => \A s \in jDisk[h] :
          Valid(s) => s = jrnl[h] /\ \A i \in (h + 1) .. (h + s.n) : jDisk[i] = {jrnl[i]}
    /\ \A p \in Page : /\ db[p] \in dbDisk[p]
                       /\ dbDisk[p] = {X[p]} \/ Covered(jrnl, h, p)

\* The deleted journals restore Y, and are forgotten before the database file or
\* the first header of another journal is written.
GhostsOK(X, Y) ==
    /\ ghosts = {} => Y = X
    /\ ghosts # {} => /\ \A p \in Page : dbDisk[p] = {db[p]}
                      /\ \A s \in jDisk[1] : ~Valid(s)
    /\ \A g \in ghosts :
          /\ Hot(g)
          /\ \E k \in Places : /\ Laid(g, k, Y)
                               /\ \A p \in Page : db[p] = Y[p] \/ Covered(g, k, p)

\* The cache of a pager that reads.
Fresh(x, X) == /\ \A p \in Page : x.cache[p] \in {NoPage, X[p]}
               /\ x.cache[1] # NoPage => x.vers = X[1]

\* The cache of a pager between two transactions is as old as its page 1.
Rests(x, X) == x.cache[1] # NoPage =>
    /\ x.cache[1] = x.vers /\ x.vers <= X[1]
    /\ x.vers = X[1] => \A p \in Page : x.cache[p] \in {NoPage, X[p]}

\* The rollback of a hot journal.
HotOK(x, X, h) ==
    /\ x.pc = "play" =>
          /\ x.cache[1] = NoPage
          /\ \A i \in x.todo : i < h /\ jrnl[i].kind = "rec"
          /\ \A p \in Page : db[p] = X[p] \/ \E i \in x.todo : jrnl[i].pg = p
    /\ x.pc = "dbsync" => \A p \in Page : db[p] = X[p]
    /\ x.pc = "delete" => \A p \in Page : dbDisk[p] = {X[p]}

\* A transaction that changes pages: a changed page is dirty in the cache or
\* spilled to the file, and only a page whose record is synced is spilled.
Changing(x, X, h) ==
    /\ x.dirty \subseteq x.inJournal
    /\ \A p \in Page \ x.inJournal : x.cache[p] \in {NoPage, X[p]}
    /\ \A p \in x.inJournal \ {1} :
          IF p \in x.dirty THEN x.cache[p] = x.txn
          ELSE x.cache[p] \in {NoPage, x.txn} /\ db[p] = x.txn
    /\ 1 \notin x.inJournal => x.vers = X[1]
    /\ 1 \in x.inJournal => x.cache[1] = X[1] + 1
    /\ 1 \in x.inJournal \ x.dirty => /\ db[1] = X[1] + 1 /\ x.vers = X[1] + 1
                                      /\ x.op = "commit" /\ x.pc \in {"write", "dbsync"}
    /\ \A p \in x.inJournal : p \in x.needSync \/ Covered(jrnl, h, p)
    /\ x.op = "spill" => x.page \in x.dirty \ {1}
    /\ x.op = "spill" /\ x.pc = "write" => x.page \notin x.needSync
    /\ x.op = "commit" => 1 \in x.inJournal
    /\ x.op = "commit" /\ x.pc = "write" => x.dirty # {} /\ x.needSync = {}
    /\ x.op = "commit" /\ x.pc = "dbsync" => x.dirty = {}
    /\ x.pc = "journal" => x.page \in Page \ {1} /\ x.cache[x.page] # NoPage

\* A transaction after sqlite3PagerCommitPhaseOne.
Finished(x, X) ==
    /\ \A p \in Page : dbDisk[p] = {db[p]} /\ x.cache[p] \in {NoPage, db[p]}
    /\ \A p \in Page : db[p] = IF p = 1 THEN X[1] + 1
                               ELSE IF p \in x.inJournal THEN x.txn ELSE X[p]
    /\ x.vers = db[1] /\ 1 \in x.inJournal

\* A transaction that is rolled back by its own pager.
Undoing(x, X) ==
    /\ x.todo \subseteq Mine(x, jrnl)
    /\ \A p \in Page : x.cache[p] \in {NoPage, X[p]} \/ \E i \in x.todo : jrnl[i].pg = p
    /\ x.vers = X[1] \/ \E i \in x.todo : jrnl[i].pg = 1
    /\ x.state # "WRITER_CACHEMOD" =>
          \A p \in Page : db[p] = X[p] \/ \E i \in x.todo : i < x.hdr /\ jrnl[i].pg = p
    /\ x.pc # "play" => x.todo = {}
    /\ x.pc = "delete" => \A p \in Page : dbDisk[p] = {X[p]}

\* The journal is synced up to journalHdr, or up to a header with no records that
\* is the last thing before it.
Bound(x, h) == \/ h = x.hdr
               \/ h + 1 = x.hdr /\ x.hdr = x.off /\ x.nRec = 0 /\ jrnl[h] = Header(x.txn, 0)

\* A transaction that has a journal.
WriterOK(x, X, h) ==
    /\ Bound(x, h)
    /\ \A i \in Slot : i < h => jrnl[i].key = x.txn
    /\ h = x.off /\ h \in Slot => \A s \in jDisk[h] : s.kind # "hdr"
    /\ \A i \in Mine(x, jrnl) : jrnl[i].n = X[jrnl[i].pg]
    /\ \A p \in Page : X[p] < x.txn
    /\ x.nRec <= Body(x) + PageOne(x)
    /\ x.cache[1] # NoPage
    /\ x.state = "WRITER_CACHEMOD" => \A p \in Page : dbDisk[p] = {X[p]}
    /\ x.pc = "nrec" => ghosts = {} /\ \A i \in Slot : jDisk[i] = {jrnl[i]}
    /\ x.pc = "sync2" => jrnl[x.hdr] = Header(x.txn, x.nRec)
    /\ x.op = "rollback" => Undoing(x, X)
    /\ x.op # "rollback" /\ x.state # "WRITER_FINISHED" => Changing(x, X, h)
    /\ x.op # "rollback" /\ x.state = "WRITER_FINISHED" => Finished(x, X)

\* While a client has, or is about to get, a lock below EXCLUSIVE that lets it
\* read, the journal is not hot; the PENDING lock of a refused rollback says
\* nothing about the journal.
Cool(x, l) ==
    \/ l = RESERVED_LOCK
    \/ l = PENDING_LOCK /\ x.pc # "refused" /\ x.state # "DEAD"
    \/ x.state = "READER" \/ x.pc \in {"version", "unlock"}

\* A client with pager x and lock l.
ClientOK(x, l, X, h) ==
    /\ x.cache[1] = NoPage => \A p \in Page : x.cache[p] = NoPage
    /\ x.heldShared \/ (x.state \in {"OPEN", "DEAD"} /\ x.cache[1] = NoPage)
    /\ Cool(x, l) => ~Hot(jrnl)
    /\ x.state = "OPEN" => Rests(x, X)
    /\ x.state \in {"READER", "WRITER_LOCKED"} => Fresh(x, X)
    /\ x.state \in {"OPEN", "READER", "WRITER_LOCKED"} => x.dirty = {}
    /\ x.state = "WRITER_LOCKED" => x.cache[1] # NoPage
    /\ x.op = "hot" => HotOK(x, X, h)
    /\ x.state \in Writing /\ x.pc = "unlock" => Fresh(x, X) /\ x.cache[1] # NoPage
    /\ Writes(x) => WriterOK(x, X, h)

\* The contents are made of transactions that were started.
Versions(X, Y) ==
    /\ X \in [Page -> Nat] /\ Y \in [Page -> Nat]
    /\ \A p \in Page : X[p] <= nTxn /\ Y[p] <= nTxn
    /\ nTxn <= MaxTxn

\* All of this together.
Core(X, Y, h) ==
    /\ Versions(X, Y) /\ DiskOK(X, h) /\ GhostsOK(X, Y)
    /\ \A c \in Client : ClientOK(pager[c], held[c], X, h)

\* There are such contents and such a place, until a client has taken a hot
\* journal for a living writer's.
Settled == \E X, Y : \E h \in Places : Core(X, Y, h)
ContentInv == JournalInv /\ misled \in BOOLEAN /\ (misled \/ Settled)

-----------------------------------------------------------------------------
(* What a recovery finds. *)

\* The chain depends only on the slots in front of h.
LEMMA ChainPrefix ==
  ASSUME NEW j, Readable(j), NEW h \in Places, Chain(j, h),
         NEW k, \A i \in Slot : i < h => k[i] = j[i]
  PROVE  Chain(k, h)
<1>1. h \in Nat /\ JLen \in Nat /\ h <= JLen + 1
  BY Sizes DEF Places
<1>2. \A i \in Slot : i < h => k[i].kind \in {"hdr", "rec"}
  BY DEF Chain
<1>3. h > 1 => k[1].kind = "hdr"
  BY Sizes DEF Chain
<1>4. ASSUME NEW i \in Slot, i < h, k[i].kind = "hdr"
      PROVE  /\ k[i].n > 0 /\ i + k[i].n < h
             /\ \A m \in (i + 1) .. (i + k[i].n) : k[m].kind = "rec" /\ k[m].key = k[i].key
             /\ i + k[i].n + 1 < h => k[i + k[i].n + 1].kind = "hdr"
  <2> DEFINE n == j[i].n
  <2>1. /\ k[i] = j[i] /\ n > 0 /\ i + n < h /\ n \in Nat /\ i \in Nat /\ i >= 1
        /\ \A m \in (i + 1) .. (i + n) : j[m].kind = "rec" /\ j[m].key = j[i].key
        /\ i + n + 1 < h => j[i + n + 1].kind = "hdr"
    BY <1>4, Sizes DEF Chain, Readable, PagedSlot, SlotRec, Slot
  <2>2. /\ \A m \in (i + 1) .. (i + n) : m \in Slot /\ m < h
        /\ i + n + 1 < h => i + n + 1 \in Slot
    <3> HIDE DEF n
    <3> QED
      BY <1>1, <2>1 DEF Slot
  <2> HIDE DEF n
  <2>3. \A m \in (i + 1) .. (i + n) : k[m] = j[m]
    BY <2>2
  <2>4. i + n + 1 < h => k[i + n + 1] = j[i + n + 1]
    BY <2>2
  <2>5. k[i].n = n /\ k[i].key = j[i].key
    BY <2>1 DEF n
  <2> QED
    BY <2>1, <2>3, <2>4, <2>5
<1> QED
  BY <1>2, <1>3, <1>4 DEF Chain

\* Whatever a loss of power leaves of the journal restores X.
LEMMA OutcomeLaid ==
  ASSUME NEW X, NEW h \in Places, DiskOK(X, h), Files, NEW j \in Outcomes(jDisk)
  PROVE  /\ Readable(j) /\ Laid(j, h, X)
         /\ \A p \in Page : Covered(jrnl, h, p) => Covered(j, h, p)
         /\ \A i \in Slot : j[i] \in jDisk[i]
<1>1. j \in [Slot -> PagedSlot] /\ \A i \in Slot : j[i] \in jDisk[i]
  BY OutcomesChoose DEF Files
<1>2. \A i \in Slot : i < h => j[i] = jrnl[i]
  BY <1>1 DEF DiskOK
<1>3. h \in Nat /\ JLen \in Nat
  BY Sizes DEF Places
<1>4. Chain(j, h)
  <2>1. Chain(jrnl, h) /\ Readable(jrnl)
    BY DEF DiskOK, Laid, Files, Readable
  <2> QED
    BY <1>2, <2>1, ChainPrefix
<1>5. \A i \in Slot : i > h => j[i].kind # "hdr"
  BY <1>1 DEF DiskOK
<1>6. \A i \in Slot : i < h /\ j[i].kind = "rec" => j[i].n = X[j[i].pg]
  BY <1>2 DEF DiskOK, Laid
<1>7. ASSUME h \in Slot, Valid(j[h])
      PROVE  /\ h + j[h].n <= JLen
             /\ \A i \in (h + 1) .. (h + j[h].n) :
                   j[i].kind = "rec" /\ j[i].key = j[h].key /\ j[i].n = X[j[i].pg]
  <2>1. j[h] = jrnl[h] /\ \A i \in (h + 1) .. (h + j[h].n) : jDisk[i] = {jrnl[i]}
    BY <1>1, <1>7 DEF DiskOK
  <2>2. /\ h + j[h].n <= JLen
        /\ \A i \in (h + 1) .. (h + j[h].n) :
              jrnl[i].kind = "rec" /\ jrnl[i].key = j[h].key /\ jrnl[i].n = X[jrnl[i].pg]
    BY <1>7, <2>1 DEF DiskOK, Laid
  <2>3. j[h].n \in Nat
    BY <1>1, <1>7 DEF PagedSlot, SlotRec
  <2>4. \A i \in (h + 1) .. (h + j[h].n) : i \in Slot
    BY <1>3, <2>2, <2>3 DEF Slot
  <2>5. \A i \in (h + 1) .. (h + j[h].n) : j[i] = jrnl[i]
    BY <1>1, <2>1, <2>4
  <2> QED
    BY <2>2, <2>5
<1>8. \A p \in Page : Covered(jrnl, h, p) => Covered(j, h, p)
  BY <1>2 DEF Covered
<1> QED
  BY <1>1, <1>4, <1>5, <1>6, <1>7, <1>8 DEF Laid, Readable

\* The content is X, and what may come back is Y.
LEMMA CoreContent ==
  ASSUME NEW X, NEW Y, NEW h \in Places, Versions(X, Y), DiskOK(X, h), GhostsOK(X, Y), Files
  PROVE  Content = X /\ Fallback = Y
<1>1. X \in [Page -> Nat] /\ Y \in [Page -> Nat] /\ db \in [Page -> Nat] /\ Readable(jrnl)
  BY DEF Versions, Files, Readable
<1>2. \A p \in Page : db[p] = X[p] \/ Covered(jrnl, h, p)
  BY DEF DiskOK
<1>3. Content = X
  BY <1>1, <1>2, LaidRecovers DEF Content, DiskOK
<1>4. CASE ghosts = {}
  BY <1>3, <1>4 DEF Fallback, GhostsOK
<1>5. CASE ghosts # {}
  <2> DEFINE g == CHOOSE j \in ghosts : TRUE
  <2>1. g \in ghosts
    BY <1>5
  <2> HIDE DEF g
  <2>2. PICK k \in Places : Laid(g, k, Y) /\ \A p \in Page : db[p] = Y[p] \/ Covered(g, k, p)
    BY <2>1 DEF GhostsOK
  <2>3. Readable(g)
    BY <2>1 DEF Files, Readable
  <2>4. Recovered(db, g) = Y
    BY <1>1, <2>2, <2>3, LaidRecovers
  <2> QED
    BY <1>3, <1>5, <2>4 DEF Fallback, g
<1> QED
  BY <1>3, <1>4, <1>5

-----------------------------------------------------------------------------
(* What the invariant says of the files. *)

\* While the journal is not hot the database file is the content.
LEMMA CoolFiles ==
  ASSUME NEW X, NEW h \in Places, Files, DiskOK(X, h), ~Hot(jrnl)
  PROVE  h = 1 /\ \A p \in Page : dbDisk[p] = {X[p]} /\ db[p] = X[p]
<1>1. h \in Nat /\ h >= 1
  BY Sizes DEF Places
<1>2. ~(h > 1)
  BY LaidPlayed DEF DiskOK, Files, Readable
<1>3. h = 1
  BY <1>1, <1>2
<1>4. \A p \in Page : ~Covered(jrnl, h, p)
  BY <1>3, Sizes DEF Covered, Slot
<1> QED
  BY <1>3, <1>4 DEF DiskOK

\* Once a record of the journal is synced no deleted journal comes back.
LEMMA CoveredHot ==
  ASSUME NEW X, NEW Y, NEW h \in Places, Files, DiskOK(X, h), GhostsOK(X, Y),
         NEW p \in Page, Covered(jrnl, h, p)
  PROVE  h > 1 /\ Hot(jrnl) /\ ghosts = {} /\ Y = X
<1>1. PICK i \in Slot : i < h
  BY DEF Covered
<1>2. h > 1
  BY <1>1, Sizes DEF Slot, Places
<1>3. Hot(jrnl)
  BY <1>2, LaidPlayed DEF DiskOK, Files, Readable
<1>4. Valid(jrnl[1]) /\ jrnl[1] \in jDisk[1]
  BY <1>3, Sizes DEF Hot, Valid, DiskOK
<1> QED
  BY <1>2, <1>3, <1>4 DEF GhostsOK

\* A page that is not journalled is on the disk as it was.
LEMMA Uncovered ==
  ASSUME NEW x, NEW X, NEW h \in Places, Files, DiskOK(X, h), Contents(x, jrnl),
         WriterOK(x, X, h), NEW p \in Page, p \notin x.inJournal
  PROVE  dbDisk[p] = {X[p]} /\ db[p] = X[p]
<1>1. \A i \in Slot : i < h /\ jrnl[i].kind = "rec" => i \in Mine(x, jrnl)
  BY DEF WriterOK, Mine
<1>2. ~Covered(jrnl, h, p)
  BY <1>1 DEF Covered, Contents
<1> QED
  BY <1>2 DEF DiskOK

\* The journal that is on the server is one that a loss of power may leave.
LEMMA PresentOutcome ==
  ASSUME NEW X, NEW h, Files, DiskOK(X, h)
  PROVE  jrnl \in Outcomes(jDisk)
<1>1. \A i \in Slot : jrnl[i] \in jDisk[i]
  BY DEF DiskOK
<1>2. DOMAIN jDisk = Slot /\ jrnl = [i \in Slot |-> jrnl[i]]
  BY DEF Files
<1>3. \A i \in Slot : jrnl[i] \in UNION {jDisk[k] : k \in Slot}
  BY <1>1
<1>4. jrnl \in [Slot -> UNION {jDisk[k] : k \in Slot}]
  BY <1>2, <1>3
<1> QED
  BY <1>1, <1>2, <1>4 DEF Outcomes

-----------------------------------------------------------------------------
(* The rollback of a transaction by its own pager. *)

\* A playback reads the chain, and what follows it.
LEMMA ChainPlayable ==
  ASSUME NEW j, Readable(j), NEW own, NEW h \in Places, Chain(j, h)
  PROVE  \E f : /\ Playable(j, own) = RecordsBefore(j, h) \cup f[h]
                /\ f = [k \in Places |-> PlayedAt(j, own, f, k)]
<1>1. PICK f : /\ Playable(j, own) = f[1]
               /\ f = [k \in Places |-> PlayedAt(j, own, f, k)]
  BY PlayableUnfolds
<1>2. f[1] = RecordsBefore(j, h) \cup f[h]
  BY <1>1, ChainPlayed
<1> QED
  BY <1>1, <1>2

\* It plays back all the records of the transaction, those behind the last header,
\* whose number is not written yet, included.
LEMMA OwnPlayed ==
  ASSUME NEW x \in Pager, NEW X, NEW h \in Places, Files, DiskOK(X, h), WriterOK(x, X, h),
         Counters(x), Contents(x, jrnl)
  PROVE  Playable(jrnl, x.hdr) = Mine(x, jrnl)
<1> DEFINE j == jrnl
           own == x.hdr
           o == x.off
           t == x.txn
<1>1. Readable(j) /\ own \in Nat /\ o \in Nat /\ JLen \in Nat /\ h \in Nat /\ h >= 1 /\ h <= JLen + 1
      /\ own >= 1 /\ own <= o /\ x.nRec \in Nat
  BY Sizes DEF Files, Readable, Pager, Places, Counters
<1>2. PICK f : /\ Playable(j, own) = RecordsBefore(j, h) \cup f[h]
               /\ f = [k \in Places |-> PlayedAt(j, own, f, k)]
  <2>1. Chain(j, h)
    BY DEF DiskOK, Laid
  <2> QED
    BY <1>1, <2>1, ChainPlayable
<1>3. Playable(j, own) = RecordsBefore(j, h) \cup f[h]
  BY <1>2
<1>4. f[h] = PlayedAt(j, own, f, h)
  BY <1>2
<1>5. \A i \in RecordsBefore(j, h) : i \in Mine(x, j)
  BY DEF RecordsBefore, Mine, WriterOK
<1>6. \A i \in Mine(x, j) : i \in Slot /\ i \in Nat /\ i < o /\ j[i].kind = "rec" /\ j[i].key = t
  BY Sizes DEF Contents, Mine
<1>7. CASE own < o
  <2>1. h = own
    BY <1>1, <1>7 DEF WriterOK, Bound
  <2>2. /\ \A i \in (h + 1) .. (o - 1) : i \in Mine(x, j)
        /\ j[h] \in {Header(t, 0), Header(t, x.nRec)} /\ o = h + x.nRec + 1
    BY <1>7, <2>1 DEF Contents, Counters
  <2>3. j[h].kind = "hdr" /\ j[h].key = t /\ (j[h].n = 0 \/ j[h].n = x.nRec)
    BY <2>2 DEF Header
  <2>4. h <= JLen /\ h \in Slot
    <3>1. CASE x.nRec = 0
      \* a header that has no record yet is in the journal all the same
      <4>1. o <= 2 * Body(x) + 2 + PageOne(x) /\ Body(x) \in Nat /\ Body(x) <= NPage - 1
            /\ PageOne(x) \in {0, 1} /\ JLen = 2 * NPage /\ NPage \in Nat
        BY BodySize, Sizes DEF Counters
      <4> QED
        BY <1>1, <2>1, <2>2, <3>1, <4>1 DEF Slot
    <3>2. CASE x.nRec > 0
      <4>1. h + 1 \in (h + 1) .. (o - 1)
        BY <1>1, <2>2, <3>2
      <4>2. h + 1 \in Slot
        BY <1>6, <2>2, <4>1
      <4> QED
        BY <1>1, <4>2 DEF Slot
    <3> QED
      BY <1>1, <3>1, <3>2
  <2>5. f[h] = {i \in Mine(x, j) : i > h}
    <3>1. CASE j[h].n = 0
      <4> DEFINE n == JLen - h
                 s == Segment(j, h, n)
      <4>1. n \in Nat /\ h + n = JLen
        BY <1>1, <2>4
      <4>2. \A i : i \in s <=> /\ i \in (h + 1) .. JLen /\ i \in Slot
                               /\ \A k \in (h + 1) .. i : j[k].kind = "rec" /\ j[k].key = t
        BY <2>3, <4>1 DEF Segment
      <4>3. \A i \in s : i \in Mine(x, j) /\ i > h
        BY <1>1, <4>2 DEF Mine
      <4>4. ASSUME NEW i \in Mine(x, j), i > h
            PROVE  i \in s
        <5>1. i \in Slot /\ i \in (h + 1) .. JLen /\ i < o
          BY <1>1, <1>6, <4>4 DEF Slot
        <5>2. \A k \in (h + 1) .. i : k \in (h + 1) .. (o - 1)
          BY <1>1, <5>1
        <5> QED
          BY <1>6, <2>2, <4>2, <5>1, <5>2
      <4>5. s = {i \in Mine(x, j) : i > h}
        BY <4>3, <4>4
      <4>6. f[h] = IF n = 0 \/ Cardinality(s) < n THEN s ELSE s \cup f[h + n + 1]
        <5>1. ~(h > JLen) /\ j[h].kind = "hdr"
          BY <1>1, <2>3, <2>4
        <5> QED
          BY <1>4, <2>1, <3>1, <5>1 DEF PlayedAt
      <4>7. f[JLen + 1] = {}
        <5>1. f[JLen + 1] = PlayedAt(j, own, f, JLen + 1)
          BY <1>1, <1>2 DEF Places
        <5> QED
          BY <1>1, <5>1 DEF PlayedAt
      <4>8. h + n + 1 = JLen + 1
        BY <1>1
      <4> HIDE DEF n, s
      <4> QED
        BY <4>5, <4>6, <4>7, <4>8
    <3>2. CASE j[h].n # 0
      <4> DEFINE n == x.nRec
                 k == h + n + 1
      <4>1. j[h].n = n /\ n > 0 /\ n \in Nat
        BY <1>1, <2>3, <3>2
      <4>2. \A i \in (h + 1) .. (h + n) : i \in Mine(x, j)
        BY <1>1, <2>2
      <4>3. h + n <= JLen
        <5>1. h + n \in Mine(x, j)
          BY <1>1, <4>1, <4>2
        <5> QED
          BY <1>6, <5>1 DEF Slot
      <4>4. f[h] = ((h + 1) .. (h + n)) \cup f[k]
        <5>1. \A i \in (h + 1) .. (h + j[h].n) : j[i].kind = "rec" /\ j[i].key = j[h].key
          BY <1>6, <2>3, <4>1, <4>2
        <5>2. h + j[h].n <= JLen /\ j[h].n > 0
          BY <4>1, <4>3
        <5>3. f[h] = ((h + 1) .. (h + j[h].n)) \cup f[h + j[h].n + 1]
          BY <1>1, <1>4, <2>3, <2>4, <5>1, <5>2, WholePlayed
        <5> QED
          BY <4>1, <5>3
      <4>5. k \in Places /\ (k > JLen \/ (k \in Slot /\ k > h))
        BY <1>1, <4>1, <4>3 DEF Places, Slot
      <4>6. f[k] = {}
        <5> HIDE DEF k
        <5>1. f[k] = PlayedAt(j, own, f, k)
          BY <1>2, <4>5
        <5>2. k > JLen \/ j[k].kind # "hdr"
          BY <4>5 DEF DiskOK, Laid
        <5> QED
          BY <5>1, <5>2 DEF PlayedAt
      <4>7. \A i : i \in (h + 1) .. (h + n) <=> i \in Mine(x, j) /\ i > h
        <5>1. \A i \in Mine(x, j) : i > h => i \in (h + 1) .. (h + n)
          BY <1>1, <1>6, <2>2
        <5>2. \A i \in (h + 1) .. (h + n) : i > h
          BY <1>1
        <5> QED
          BY <4>2, <5>1, <5>2
      <4> QED
        BY <4>4, <4>6, <4>7
    <3> QED
      BY <3>1, <3>2
  <2>6. \A i \in Mine(x, j) : i < h => i \in RecordsBefore(j, h)
    BY <1>6 DEF RecordsBefore
  <2>7. h \notin Mine(x, j)
    BY <2>3 DEF Mine
  <2>8. \A i : i \in RecordsBefore(j, h) \cup f[h] <=> i \in Mine(x, j)
    BY <1>1, <1>5, <1>6, <2>5, <2>6, <2>7
  <2> QED
    BY <1>3, <2>8, Zenon
<1>8. CASE own = o
  <2>1. f[h] = {} /\ \A i \in Mine(x, j) : i < h
    <3>1. CASE h = own
      <4>1. h > JLen \/ j[h].kind # "hdr"
        <5>1. h \in Slot => j[h] \in jDisk[h]
          BY DEF DiskOK
        <5>2. h \in Slot \/ h > JLen
          BY <1>1 DEF Slot
        <5> QED
          BY <1>8, <3>1, <5>1, <5>2 DEF WriterOK
      <4>2. f[h] = {}
        BY <1>4, <4>1 DEF PlayedAt
      <4> QED
        BY <1>6, <1>8, <3>1, <4>2
    <3>2. CASE h # own
      <4>1. h + 1 = own /\ j[h] = Header(t, 0)
        BY <3>2 DEF WriterOK, Bound
      <4>2. j[h].kind = "hdr" /\ j[h].n = 0
        BY <4>1 DEF Header
      <4>3. f[h] = {}
        <5>1. CASE h > JLen
          BY <1>4, <5>1 DEF PlayedAt
        <5>2. CASE ~(h > JLen)
          <6>1. Segment(j, h, 0) = {}
            BY <1>1 DEF Segment
          <6>2. (IF j[h].n = 0 /\ h = own THEN JLen - h ELSE j[h].n) = 0
            BY <3>2, <4>2
          <6> QED
            BY <1>4, <4>2, <5>2, <6>1, <6>2 DEF PlayedAt
        <5> QED
          BY <5>1, <5>2
      <4>4. h \notin Mine(x, j)
        BY <4>2 DEF Mine
      <4>5. \A i \in Mine(x, j) : i < h
        <5>1. \A i \in Mine(x, j) : i \in Nat /\ i < h + 1 /\ i # h
          BY <1>6, <1>8, <4>1, <4>4
        <5> QED
          BY <1>1, <5>1
      <4> QED
        BY <4>3, <4>5
    <3> QED
      BY <3>1, <3>2
  <2>2. \A i \in Mine(x, j) : i \in RecordsBefore(j, h)
    BY <1>6, <2>1 DEF RecordsBefore
  <2>3. \A i : i \in RecordsBefore(j, h) \cup f[h] <=> i \in Mine(x, j)
    BY <1>5, <2>1, <2>2
  <2> QED
    BY <1>3, <2>3, Zenon
<1> QED
  BY <1>1, <1>7, <1>8

-----------------------------------------------------------------------------
(* Steps, and the clients that do not take them. *)

\* What a step may do to the content and to what a loss of power brings back: the
\* steps of AtomicDb.
AtomicStep(X, Y, X2, Y2) ==
    \/ X2 = X /\ Y2 \in {X, Y}
    \/ X2 = Y /\ Y2 = Y
    \/ /\ Y2 = X
       /\ \E t \in Txn \ {0} : \E W \in SUBSET (Page \ {1}) :
             /\ W # {}
             /\ \A p \in Page \ {1} : X[p] < t
             /\ X2 = [p \in Page |-> CASE p = 1 -> X[1] + 1
                                       [] p \in W -> t
                                       [] OTHER -> X[p]]

\* The step led to a content, and AtomicDb allows it.
Arrives(X, Y) == \E X2, Y2 : /\ AtomicStep(X, Y, X2, Y2)
                             /\ \E h2 \in Places : Core(X2, Y2, h2)'

\* The state in front of a step of client c, and what is known behind it.
Before(c, X, Y, h) ==
    JournalInv /\ JournalInv' /\ Own(c) /\ h \in Places /\ Core(X, Y, h)

\* A client that changes no file.
LEMMA OnlyClient ==
  ASSUME NEW c \in Client, NEW X, NEW Y, NEW h, Before(c, X, Y, h),
         UNCHANGED <<server, nTxn>>, ClientOK(pager[c], held[c], X, h)'
  PROVE  Arrives(X, Y)
<1>1. /\ h \in Places /\ Versions(X, Y) /\ DiskOK(X, h) /\ GhostsOK(X, Y)
      /\ \A d \in Client : ClientOK(pager[d], held[d], X, h)
      /\ \A d \in Client \ {c} : pager'[d] = pager[d] /\ held'[d] = held[d]
  BY DEF Before, Core, Own
<1>2. UNCHANGED <<db, dbDisk, jrnl, jDisk, ghosts, nTxn>>
  BY DEF server
<1>3. Versions(X, Y)' /\ DiskOK(X, h)' /\ GhostsOK(X, Y)'
  <2>1. Versions(X, Y)'
    BY <1>1, <1>2 DEF Versions
  <2>2. DiskOK(X, h)'
    BY <1>1, <1>2 DEF DiskOK
  <2>3. GhostsOK(X, Y)'
    BY <1>1, <1>2 DEF GhostsOK
  <2> QED
    BY <2>1, <2>2, <2>3
<1>4. ASSUME NEW d \in Client \ {c}
      PROVE  ClientOK(pager[d], held[d], X, h)'
  <2>1. ClientOK(pager[d], held[d], X, h) /\ pager'[d] = pager[d] /\ held'[d] = held[d]
    BY <1>1
  <2>2. WriterOK(pager[d], X, h) => WriterOK(pager[d], X, h)'
    BY <1>2, <2>1 DEF WriterOK, Bound, Changing, Finished, Undoing
  <2>3. HotOK(pager[d], X, h) => HotOK(pager[d], X, h)'
    BY <1>2, <2>1 DEF HotOK
  <2> QED
    BY <1>2, <2>1, <2>2, <2>3 DEF ClientOK, Rests, Fresh
<1>5. Core(X, Y, h)'
  BY <1>3, <1>4 DEF Core
<1>6. AtomicStep(X, Y, X, Y)
  BY DEF AtomicStep
<1> QED
  BY <1>1, <1>5, <1>6 DEF Arrives

\* While a client has RESERVED the others read, at most, and while it has EXCLUSIVE
\* they rest: a new content does not disturb them.
LEMMA OthersKeep ==
  ASSUME NEW c \in Client, NEW X, NEW Y, NEW h, Before(c, X, Y, h), held[c] >= RESERVED_LOCK,
         NEW X2, NEW h2, X2 = X \/ (held[c] = EXCLUSIVE_LOCK /\ X2[1] \in Nat /\ X[1] < X2[1]),
         Hot(jrnl') => Hot(jrnl) \/ held[c] = EXCLUSIVE_LOCK,
         NEW d \in Client \ {c}
  PROVE  ClientOK(pager[d], held[d], X2, h2)'
<1> DEFINE x == pager[d]
           l == held[d]
<1>1. /\ x \in Pager /\ l \in Level /\ Legal(x, l) /\ Excluded /\ ClientOK(x, l, X, h)
      /\ pager'[d] = x /\ held'[d] = l /\ held[c] \in Level /\ X \in [Page -> Nat]
  BY DEF Before, JournalInv, LockInv, Shapes, Pagers, Core, Own, Versions
<1>2. l <= SHARED_LOCK /\ (held[c] = EXCLUSIVE_LOCK => l = NO_LOCK)
  BY <1>1 DEF Excluded
<1> HIDE DEF x, l
<1>3. x.state \in {"OPEN", "READER", "ERROR", "DEAD"} /\ x.op # "hot"
  BY <1>1, <1>2 DEF Legal, Stands
<1>4. l = NO_LOCK => x.state \in {"OPEN", "DEAD"} /\ x.pc = "idle"
  BY <1>1, <1>2 DEF Legal, Stands
<1>5. Cool(x, l) => ~Hot(jrnl')
  <2>1. CASE held[c] = EXCLUSIVE_LOCK
    BY <1>2, <1>4, <2>1 DEF Cool
  <2>2. CASE held[c] # EXCLUSIVE_LOCK
    BY <1>1, <2>2 DEF ClientOK
  <2> QED
    BY <2>1, <2>2
<1>6. x.state = "OPEN" => Rests(x, X2)
  <2>1. CASE X2 = X
    BY <1>1, <2>1 DEF ClientOK
  <2>2. CASE X2[1] \in Nat /\ X[1] < X2[1]
    <3>1. X[1] \in Nat /\ x.vers \in Nat
      BY <1>1, Sizes DEF Pager
    <3> QED
      BY <1>1, <2>2, <3>1 DEF ClientOK, Rests
  <2> QED
    BY <2>1, <2>2
<1>7. x.state = "READER" => Fresh(x, X2)
  <2>1. ASSUME x.state = "READER"
        PROVE  X2 = X
    <3>1. l # NO_LOCK
      BY <1>4, <2>1
    <3> QED
      BY <1>2, <3>1
  <2> QED
    BY <1>1, <2>1 DEF ClientOK
<1>8. /\ x.cache[1] = NoPage => \A p \in Page : x.cache[p] = NoPage
      /\ x.heldShared \/ (x.state \in {"OPEN", "DEAD"} /\ x.cache[1] = NoPage)
      /\ x.state \in {"OPEN", "READER", "WRITER_LOCKED"} => x.dirty = {}
  BY <1>1 DEF ClientOK
<1>9. x.state \notin Writing /\ x.state # "WRITER_LOCKED" /\ ~Writes(x)
  BY <1>3 DEF Writing, Writes
<1>10. pager'[d] = x /\ held'[d] = l
  BY <1>1
<1>11. Writes(pager[d])' <=> Writes(x)
  BY <1>10 DEF Writes
<1>12. ClientOK(pager[d], held[d], X2, h2)'
  BY <1>3, <1>5, <1>6, <1>7, <1>8, <1>9, <1>10, <1>11 DEF ClientOK, Cool, Rests, Fresh
<1> QED
  BY <1>12

\* A step of a client that changes files.
LEMMA WholeStep ==
  ASSUME NEW c \in Client, NEW X, NEW Y, NEW h, Before(c, X, Y, h), held[c] >= RESERVED_LOCK,
         NEW X2, NEW Y2, NEW h2 \in Places,
         X2 = X \/ (held[c] = EXCLUSIVE_LOCK /\ X2[1] \in Nat /\ X[1] < X2[1]),
         Hot(jrnl') => Hot(jrnl) \/ held[c] = EXCLUSIVE_LOCK,
         AtomicStep(X, Y, X2, Y2), Versions(X2, Y2)', DiskOK(X2, h2)', GhostsOK(X2, Y2)',
         ClientOK(pager[c], held[c], X2, h2)'
  PROVE  Arrives(X, Y)
<1>1. \A d \in Client \ {c} : ClientOK(pager[d], held[d], X2, h2)'
  BY OthersKeep
<1>2. Core(X2, Y2, h2)'
  BY <1>1 DEF Core
<1> QED
  BY <1>2 DEF Arrives

-----------------------------------------------------------------------------
(* Steps that change no file: opening, reading and unlocking. *)

\* A client that is at z, with lock k, and has changed no file.
LEMMA ClientMoves ==
  ASSUME NEW c \in Client, NEW X, NEW Y, NEW h, Before(c, X, Y, h),
         UNCHANGED <<server, nTxn>>, NEW z, NEW k, pager'[c] = z, held'[c] = k,
         ClientOK(z, k, X, h)
  PROVE  Arrives(X, Y)
<1>1. UNCHANGED <<db, dbDisk, jrnl, jDisk, ghosts, nTxn>>
  BY DEF server
<1>2. WriterOK(z, X, h) => WriterOK(pager[c], X, h)'
  BY <1>1 DEF WriterOK, Bound, Changing, Finished, Undoing, Mine, Body, PageOne
<1>3. HotOK(z, X, h) => HotOK(pager[c], X, h)'
  BY <1>1 DEF HotOK
<1>4. Writes(pager[c])' <=> Writes(z)
  BY DEF Writes
<1>5. ClientOK(pager[c], held[c], X, h)'
  BY <1>1, <1>2, <1>3, <1>4 DEF ClientOK, Rests, Fresh, Cool
<1> QED
  BY <1>5, OnlyClient

\* The same cache, in two states of a Pager.
SameData(x, z) ==
    /\ z.cache = x.cache /\ z.vers = x.vers /\ z.heldShared = x.heldShared
    /\ z.dirty = x.dirty

\* A client that writes nothing, before and after its step.
LEMMA PlainMove ==
  ASSUME NEW x, NEW l, NEW z, NEW k, NEW X, NEW h, ClientOK(x, l, X, h), SameData(x, z),
         z.state \in {"OPEN", "READER", "WRITER_LOCKED"}, x.dirty = {},
         z.op = "hot" => z.pc \notin {"play", "dbsync", "delete"},
         Cool(z, k) => ~Hot(jrnl),
         z.state = "OPEN" => Rests(x, X),
         z.state # "OPEN" => Fresh(x, X) /\ x.heldShared,
         z.state = "WRITER_LOCKED" => x.cache[1] # NoPage
  PROVE  ClientOK(z, k, X, h)
<1>1. ~Writes(z) /\ z.state \notin Writing
  BY DEF Writes, Writing
<1>2. Rests(x, X) => Rests(z, X)
  BY DEF Rests, SameData
<1>3. Fresh(x, X) => Fresh(z, X)
  BY DEF Fresh, SameData
<1>4. HotOK(z, X, h) \/ z.op # "hot"
  BY DEF HotOK
<1>5. /\ z.cache[1] = NoPage => \A p \in Page : z.cache[p] = NoPage
      /\ z.heldShared \/ (z.state \in {"OPEN", "DEAD"} /\ z.cache[1] = NoPage)
  BY DEF ClientOK, SameData
<1> QED
  BY <1>1, <1>2, <1>3, <1>4, <1>5 DEF ClientOK, SameData

\* A pager with nothing in its cache.
LEMMA EmptyMove ==
  ASSUME NEW z, NEW k, NEW X, NEW h, z.cache = EmptyCache, z.state \in {"OPEN", "DEAD"},
         z.op = "none", z.pc = "idle", z.dirty = {}, Cool(z, k) => ~Hot(jrnl)
  PROVE  ClientOK(z, k, X, h)
<1>1. \A p \in Page : z.cache[p] = NoPage
  BY DEF EmptyCache
<1>2. z.cache[1] = NoPage
  BY <1>1, Sizes
<1>3. ~Writes(z) /\ z.state \notin Writing
  BY DEF Writes, Writing
<1> QED
  BY <1>1, <1>2, <1>3 DEF ClientOK, Rests

\* What the unlocking functions leave of a Pager.
LEMMA ClosedData ==
  ASSUME NEW x \in Pager
  PROVE  /\ Closed(x).cache = EmptyCache /\ Closed(x).dirty = {} /\ Closed(x).vers = x.vers
         /\ Closed(x).heldShared = x.heldShared
         /\ Unlocked(x).cache = x.cache /\ Unlocked(x).dirty = {} /\ Unlocked(x).vers = x.vers
         /\ Unlocked(x).heldShared = x.heldShared
<1>1. NewPager \in Pager /\ NewPager.cache = EmptyCache /\ NewPager.dirty = {}
  BY Values DEF NewPager
<1>2. Closed(x) \in Pager
  BY ClosedPager
<1>3. /\ Closed(x).cache = EmptyCache /\ Closed(x).dirty = {} /\ Closed(x).vers = x.vers
      /\ Closed(x).heldShared = x.heldShared
  BY <1>1 DEF Closed, Pager
<1> QED
  BY <1>2, <1>3 DEF Unlocked, Pager

\* The content of a page is not the mark of a page that is not in the cache.
LEMMA PagesInCache ==
  ASSUME NEW X, NEW Y, Versions(X, Y), nTxn \in Nat
  PROVE  /\ \A p \in Page : X[p] \in Nat /\ X[p] # NoPage /\ X[p] <= nTxn /\ X[p] + 1 # NoPage
         /\ nTxn # NoPage /\ nTxn <= MaxTxn
<1>1. MaxTxn \in Nat /\ NoPage = MaxTxn + 2
  BY PagerCommitAssumption DEF NoPage
<1>2. \A p \in Page : X[p] \in Nat /\ X[p] <= nTxn
  BY DEF Versions
<1>3. nTxn <= MaxTxn
  BY DEF Versions
<1> QED
  BY <1>1, <1>2, <1>3

\* What the invariant gives for the client that takes the step.
LEMMA StepFacts ==
  ASSUME NEW c \in Client, NEW X, NEW Y, NEW h, Before(c, X, Y, h)
  PROVE  /\ pager \in [Client -> Pager] /\ held \in [Client -> Level]
         /\ pager[c] \in Pager /\ held[c] \in Level /\ Legal(pager[c], held[c])
         /\ ClientOK(pager[c], held[c], X, h) /\ JournalOK(pager[c]) /\ Clean(pager[c])
         /\ Files /\ Excluded /\ nTxn \in Nat /\ h \in Places
         /\ Versions(X, Y) /\ DiskOK(X, h) /\ GhostsOK(X, Y)
         /\ pager'[c] \in Pager /\ held'[c] \in Level /\ Legal(pager'[c], held'[c])
         /\ JournalOK(pager[c])' /\ Files'
         /\ \A d \in Client : ClientOK(pager[d], held[d], X, h)
BY DEF Before, Core, JournalInv, LockInv, Shapes, Pagers

\* hasHotJournal and the locks around it.
LEMMA HotJournalSteps ==
  ASSUME NEW c \in Client, NEW X, NEW Y, NEW h, Before(c, X, Y, h),
         \/ SharedLock(c) \/ JournalAccess(c) \/ CheckReserved(c) \/ FirstByte(c)
         \/ HotLock(c) \/ HotRefused(c) \/ Recheck(c), ~misled'
  PROVE  Arrives(X, Y)
<1> DEFINE x == pager[c]
           l == held[c]
           z == pager'[c]
           k == held'[c]
<1>1. /\ x \in Pager /\ l \in Level /\ Legal(x, l) /\ ClientOK(x, l, X, h) /\ Excluded
      /\ pager \in [Client -> Pager] /\ held \in [Client -> Level]
      /\ \A d \in Client : ClientOK(pager[d], held[d], X, h)
  BY StepFacts
<1>2. UNCHANGED <<server, nTxn>>
  BY DEF SharedLock, JournalAccess, CheckReserved, FirstByte, HotLock, HotRefused, Recheck
<1>3. x.pc \in {"idle", "access", "reserved", "first", "hotlock", "refused", "exists"}
      /\ (x.pc = "idle" => x.state = "OPEN")
  BY DEF SharedLock, JournalAccess, CheckReserved, FirstByte, HotLock, HotRefused, Recheck, At
<1>4. x.state = "OPEN" /\ x.op = "none"
  BY <1>1, <1>3 DEF Legal, Stands
<1>5. x.dirty = {} /\ Rests(x, X)
  BY <1>1, <1>4 DEF ClientOK
<1>6. ~Exists(jrnl) => ~Hot(jrnl)
  <2>1. Nil.kind # "hdr" /\ 1 \in Slot
    BY Sizes DEF Nil
  <2> QED
    BY <2>1 DEF Exists, Hot
<1>7. ASSUME NEW pc, Goto(c, pc)
      PROVE  SameData(x, z) /\ z.state = "OPEN" /\ z.op = "none" /\ z.pc = pc
  BY <1>1, <1>4, <1>7 DEF Goto, Pager, SameData
<1>8. /\ SameData(x, z) /\ z.state = "OPEN" /\ (z.op = "hot" => z.pc = "hotsync")
      /\ Cool(z, k) => ~Hot(jrnl)
  <2>1. CASE SharedLock(c)
    <3>1. Goto(c, "access") /\ k = SHARED_LOCK
      BY <1>1, <2>1 DEF SharedLock, Vfs!Share, Vfs!SHARED_LOCK
    <3> QED
      BY <1>7, <3>1 DEF Cool
  <2>2. CASE JournalAccess(c)
    <3>1. k = l /\ x.pc = "access" /\ Goto(c, IF Exists(jrnl) THEN "reserved" ELSE "version")
      BY <2>2 DEF JournalAccess, At
    <3>2. l = SHARED_LOCK
      BY <1>1, <1>4, <3>1 DEF Legal, Stands
    <3> QED
      BY <1>6, <1>7, <3>1, <3>2 DEF Cool
  <2>3. CASE CheckReserved(c)
    <3>1. /\ k = l /\ x.pc = "reserved"
          /\ Goto(c, IF \E d \in Client : held[d] > SHARED_LOCK THEN "version" ELSE "first")
      BY <2>3 DEF CheckReserved, At
    <3>2. l = SHARED_LOCK
      BY <1>1, <1>4, <3>1 DEF Legal, Stands
    <3>3. ASSUME NEW d \in Client, held[d] > SHARED_LOCK
          PROVE  ~Hot(jrnl)
      <4>1. held[d] \in Level /\ held[d] # EXCLUSIVE_LOCK
        BY <1>1, <3>2, <3>3 DEF Excluded
      <4>2. CASE Refused(d)
        BY <2>3, <4>2 DEF CheckReserved
      <4>3. CASE ~Refused(d)
        <5>1. Cool(pager[d], held[d])
          BY <3>3, <4>1, <4>3 DEF Cool, Refused
        <5> QED
          BY <1>1, <5>1 DEF ClientOK
      <4> QED
        BY <4>2, <4>3
    <3> QED
      BY <1>7, <3>1, <3>2, <3>3 DEF Cool
  <2>4. CASE FirstByte(c)
    <3>1. /\ k = l /\ x.pc = "first"
          /\ Goto(c, IF ~Exists(jrnl) \/ Hot(jrnl) THEN "hotlock" ELSE "version")
      BY <2>4 DEF FirstByte, At
    <3>2. l = SHARED_LOCK
      BY <1>1, <1>4, <3>1 DEF Legal, Stands
    <3> QED
      BY <1>7, <3>1, <3>2 DEF Cool
  <2>5. CASE HotLock(c)
    <3>1. CASE Vfs!Exclude(c) /\ Goto(c, "exists")
      <4>1. k = EXCLUSIVE_LOCK
        BY <1>1, <3>1 DEF Vfs!Exclude, Vfs!EXCLUSIVE_LOCK
      <4> QED
        BY <1>7, <3>1, <4>1 DEF Cool
    <3>2. CASE Goto(c, "refused")
      <4>1. k = PENDING_LOCK \/ k = l
        BY <1>1, <2>5, <3>2 DEF HotLock, Vfs!Exclude, Vfs!Pend, Vfs!PENDING_LOCK, Goto, Pager
      <4>2. l = SHARED_LOCK
        BY <1>1, <1>4, <2>5 DEF HotLock, At, Legal, Stands
      <4> QED
        BY <1>7, <3>2, <4>1, <4>2 DEF Cool
    <3> QED
      BY <2>5, <3>1, <3>2 DEF HotLock
  <2>6. CASE Recheck(c)
    <3>1. CASE Exists(jrnl) /\ UNCHANGED held
               /\ pager' = [pager EXCEPT ![c].op = "hot", ![c].pc = "hotsync"]
      <4>1. k = EXCLUSIVE_LOCK
        BY <1>1, <1>4, <2>6, <3>1 DEF Recheck, At, Legal, Stands
      <4>2. SameData(x, z) /\ z.state = "OPEN" /\ z.pc = "hotsync"
        BY <1>1, <1>4, <3>1 DEF Pager, SameData
      <4> QED
        BY <4>1, <4>2 DEF Cool
    <3>2. CASE ~Exists(jrnl) /\ Goto(c, "version")
      BY <1>6, <1>7, <3>2
    <3> QED
      BY <2>6, <3>1, <3>2 DEF Recheck
  <2>7. CASE HotRefused(c)
    <3>1. k = NO_LOCK /\ z = Unlocked(x)
      BY <1>1, <2>7 DEF HotRefused, Vfs!Release
    <3>2. Unlocked(x).state = "OPEN" /\ Unlocked(x).op = "none" /\ Unlocked(x).pc = "idle"
      BY <1>1, ClosedPager
    <3>3. SameData(x, Unlocked(x))
      BY <1>1, <1>5, ClosedData DEF SameData
    <3> QED
      BY <3>1, <3>2, <3>3 DEF Cool
  <2> QED
    BY <2>1, <2>2, <2>3, <2>4, <2>5, <2>6, <2>7
<1>9. ClientOK(z, k, X, h)
  <2> HIDE DEF x, l, z, k
  <2> QED
    BY <1>1, <1>5, <1>8, PlainMove
<1> HIDE DEF z, k
<1>10. pager'[c] = z /\ held'[c] = k
  BY DEF z, k
<1> QED
  BY <1>2, <1>9, <1>10, ClientMoves

\* The start and the end of a read, and the end of a transaction.
LEMMA ReaderSteps ==
  ASSUME NEW c \in Client, NEW X, NEW Y, NEW h, Before(c, X, Y, h),
         \/ CheckVersion(c) \/ EndRead(c) \/ Begin(c) \/ EndEmpty(c) \/ EndUnlock(c)
  PROVE  Arrives(X, Y)
<1> DEFINE x == pager[c]
           l == held[c]
           z == pager'[c]
           k == held'[c]
<1>1. /\ x \in Pager /\ l \in Level /\ Legal(x, l) /\ ClientOK(x, l, X, h)
      /\ pager \in [Client -> Pager] /\ held \in [Client -> Level]
      /\ Files /\ DiskOK(X, h) /\ h \in Places
  BY StepFacts
<1>2. UNCHANGED <<server, nTxn>>
  BY DEF CheckVersion, EndRead, Begin, EndEmpty, EndUnlock
<1>3. ClientOK(z, k, X, h)
  <2>1. CASE CheckVersion(c)
    <3> DEFINE cache == IF x.heldShared /\ x.vers # db[1] THEN EmptyCache ELSE x.cache
    <3>1. x.pc = "version" /\ k = l
      BY <2>1 DEF CheckVersion, At
    <3>2. x.state = "OPEN" /\ x.op = "none" /\ ~Hot(jrnl)
      BY <1>1, <3>1 DEF Legal, Stands, ClientOK, Cool
    <3>3. /\ z.state = "READER" /\ z.pc = "idle" /\ z.op = "none" /\ z.heldShared = TRUE
          /\ z.cache = cache /\ z.vers = x.vers /\ z.dirty = x.dirty
      BY <1>1, <2>1, <3>2 DEF CheckVersion, Pager
    <3>4. db[1] = X[1]
      BY <1>1, <3>2, CoolFiles, Sizes
    <3>5. \A p \in Page : EmptyCache[p] = NoPage
      BY DEF EmptyCache
    <3>6. /\ x.cache[1] = NoPage => \A p \in Page : x.cache[p] = NoPage
          /\ x.heldShared \/ x.cache[1] = NoPage
          /\ Rests(x, X) /\ x.dirty = {}
      BY <1>1, <3>2 DEF ClientOK
    <3>7. Fresh(z, X) /\ (z.cache[1] = NoPage => \A p \in Page : z.cache[p] = NoPage)
      <4>1. CASE x.heldShared /\ x.vers # db[1]
        BY <3>3, <3>5, <4>1, Sizes DEF Fresh
      <4>2. CASE ~(x.heldShared /\ x.vers # db[1])
        <5>1. cache = x.cache
          BY <4>2
        <5>2. \A p \in Page : x.cache[p] \in {NoPage, X[p]}
          BY <3>4, <3>6, <4>2 DEF Rests
        <5>3. x.cache[1] # NoPage => x.vers = X[1]
          BY <3>4, <3>6, <4>2
        <5> QED
          BY <3>3, <3>6, <5>1, <5>2, <5>3 DEF Fresh
      <4> QED
        BY <4>1, <4>2
    <3> HIDE DEF z, k
    <3>8. ~Writes(z) /\ z.state \notin Writing
      BY <3>3 DEF Writes, Writing
    <3> QED
      BY <3>2, <3>3, <3>6, <3>7, <3>8 DEF ClientOK
  <2>2. CASE EndRead(c)
    <3>1. x.state = "READER" /\ z = Unlocked(x) /\ k = NO_LOCK
      BY <1>1, <2>2 DEF EndRead, Vfs!Release
    <3>2. Fresh(x, X) /\ x.dirty = {}
      BY <1>1, <3>1 DEF ClientOK
    <3>3. Rests(x, X)
      BY <1>1, <3>2, Sizes DEF Fresh, Rests, Pager
    <3>4. /\ SameData(x, z) /\ z.state = "OPEN" /\ z.op = "none" /\ z.pc = "idle"
      BY <1>1, <3>1, <3>2, ClosedData, ClosedPager DEF SameData
    <3>5. ~Cool(z, k)
      BY <3>1, <3>4 DEF Cool
    <3> HIDE DEF x, l, z, k
    <3> QED
      BY <1>1, <3>2, <3>3, <3>4, <3>5, PlainMove
  <2>3. CASE Begin(c)
    <3>1. x.state = "READER" /\ x.op = "none" /\ x.pc = "idle" /\ x.cache[1] # NoPage
      BY <2>3 DEF Begin, At
    <3>2. SameData(x, z) /\ z.state = "WRITER_LOCKED" /\ z.op = "none" /\ z.pc = "idle"
      BY <1>1, <2>3, <3>1 DEF Begin, Pager, SameData
    <3>3. Fresh(x, X) /\ x.dirty = {} /\ ~Hot(jrnl) /\ x.heldShared
      BY <1>1, <3>1 DEF ClientOK, Cool
    <3> HIDE DEF x, l, z, k
    <3> QED
      BY <1>1, <3>1, <3>2, <3>3, PlainMove
  <2>4. CASE EndEmpty(c)
    <3>1. x.state = "WRITER_LOCKED" /\ x.op = "none" /\ x.pc = "idle"
      BY <2>4 DEF EndEmpty, At
    <3>2. SameData(x, z) /\ z.state = "READER" /\ z.op = "none" /\ z.pc = "idle"
      BY <1>1, <2>4, <3>1 DEF EndEmpty, Pager, SameData
    <3>3. l = RESERVED_LOCK
      BY <1>1, <3>1 DEF Legal, Stands
    <3>4. Fresh(x, X) /\ x.dirty = {} /\ ~Hot(jrnl) /\ x.heldShared
      BY <1>1, <3>1, <3>3 DEF ClientOK, Cool
    <3> HIDE DEF x, l, z, k
    <3> QED
      BY <1>1, <3>1, <3>2, <3>4, PlainMove
  <2>5. CASE EndUnlock(c)
    <3> DEFINE u == Unlocked(x)
               rest == [u EXCEPT !.state = "READER"]
               hot == [rest EXCEPT !.state = "OPEN", !.pc = "version"]
    <3>1. /\ u \in Pager /\ u.op = "none" /\ u.pc = "idle" /\ u.cache = x.cache
          /\ u.vers = x.vers /\ u.heldShared = x.heldShared /\ u.dirty = {}
      BY <1>1, ClosedPager, ClosedData
    <3>2. z = IF x.op = "hot" THEN hot ELSE rest
      BY <1>1, <2>5 DEF EndUnlock, Ended
    <3>3. ~Hot(jrnl)
      <4>1. x.pc = "unlock"
        BY <2>5 DEF EndUnlock
      <4> QED
        BY <1>1, <4>1 DEF ClientOK, Cool
    <3> HIDE DEF u
    <3>4. /\ rest \in Pager /\ rest.op = "none" /\ rest.pc = "idle" /\ rest.cache = x.cache
          /\ rest.vers = x.vers /\ rest.heldShared = x.heldShared /\ rest.dirty = {}
          /\ rest.state = "READER"
      BY <3>1 DEF Pager, PagerState
    <3> HIDE DEF rest
    <3>5. /\ hot.op = "none" /\ hot.pc = "version" /\ hot.cache = x.cache
          /\ hot.vers = x.vers /\ hot.heldShared = x.heldShared /\ hot.dirty = {}
          /\ hot.state = "OPEN"
      BY <3>4 DEF Pager
    <3> HIDE DEF hot
    <3>6. /\ z.op = "none" /\ z.pc \in {"idle", "version"} /\ z.cache = x.cache
          /\ z.vers = x.vers /\ z.heldShared = x.heldShared /\ z.dirty = {}
          /\ z.state = IF x.op = "hot" THEN "OPEN" ELSE "READER"
      BY <3>2, <3>4, <3>5
    <3>7. x.pc = "unlock" /\ (x.op = "hot" => x.state = "OPEN")
          /\ (x.op # "hot" => x.state \in Writing)
      <4>1. x.pc = "unlock"
        BY <2>5 DEF EndUnlock
      <4> HIDE DEF x
      <4> QED
        BY <1>1, <4>1 DEF Legal, Stands, Writing
    <3>8. /\ x.op = "hot" => Rests(x, X)
          /\ x.op # "hot" => Fresh(x, X) /\ x.heldShared
          /\ x.cache[1] = NoPage => \A p \in Page : x.cache[p] = NoPage
          /\ x.heldShared \/ x.cache[1] = NoPage
      BY <1>1, <3>7 DEF ClientOK, Writing
    <3> HIDE DEF x, l, z, k
    <3>9. /\ Rests(x, X) => Rests(z, X)
          /\ Fresh(x, X) => Fresh(z, X)
          /\ z.cache[1] = NoPage => \A p \in Page : z.cache[p] = NoPage
      BY <3>6, <3>8 DEF Rests, Fresh
    <3>10. ~Writes(z) /\ z.state \notin Writing
      BY <3>6 DEF Writes, Writing
    <3> QED
      BY <3>3, <3>6, <3>8, <3>9, <3>10 DEF ClientOK
  <2> QED
    BY <2>1, <2>2, <2>3, <2>4, <2>5
<1> HIDE DEF z, k
<1>4. pager'[c] = z /\ held'[c] = k
  BY DEF z, k
<1> QED
  BY <1>2, <1>3, <1>4, ClientMoves

\* A pager that gives up, and a client that dies.
LEMMA GivingUp ==
  ASSUME NEW c \in Client, NEW X, NEW Y, NEW h, Before(c, X, Y, h),
         \/ PagerError(c) \/ DeleteFails(c) \/ ErrorUnlock(c) \/ HotFails(c) \/ ClientDies(c)
  PROVE  Arrives(X, Y)
<1> DEFINE x == pager[c]
           l == held[c]
           z == pager'[c]
           k == held'[c]
<1>1. /\ x \in Pager /\ l \in Level /\ Legal(x, l) /\ ClientOK(x, l, X, h)
      /\ pager \in [Client -> Pager] /\ held \in [Client -> Level]
  BY StepFacts
<1>2. UNCHANGED <<server, nTxn>>
  BY DEF PagerError, DeleteFails, ErrorUnlock, HotFails, ClientDies
<1>3. ClientOK(z, k, X, h)
  <2>1. CASE PagerError(c) \/ DeleteFails(c)
    <3>1. /\ z.state = "ERROR" /\ z.op = "none" /\ z.pc = "idle"
          /\ z.cache = x.cache /\ z.heldShared = x.heldShared
      BY <1>1, <2>1 DEF PagerError, DeleteFails, Pager
    <3>2. k \in {l, SHARED_LOCK}
      BY <1>1, <2>1 DEF PagerError, DeleteFails, Vfs!Release
    <3>3. x.state \in Writing
      <4>1. \/ x.op = "spill" \/ x.op = "rollback" \/ x.state = "WRITER_FINISHED"
        BY <2>1 DEF PagerError, DeleteFails, At
      <4> HIDE DEF x, l
      <4> QED
        BY <1>1, <4>1 DEF Legal, Stands, Writing
    <3>4. x.heldShared /\ (x.cache[1] = NoPage => \A p \in Page : x.cache[p] = NoPage)
      BY <1>1, <3>3 DEF ClientOK, Writing
    <3>5. Cool(z, k) => ~Hot(jrnl)
      <4>1. x.pc # "refused" /\ x.state # "DEAD"
        BY <1>1, <3>3 DEF Legal, Stands, Writing
      <4>2. Cool(z, k) => Cool(x, l)
        BY <3>1, <3>2, <4>1 DEF Cool
      <4> QED
        BY <1>1, <4>2 DEF ClientOK
    <3> HIDE DEF x, l, z, k
    <3>6. ~Writes(z) /\ z.state \notin Writing
      BY <3>1 DEF Writes, Writing
    <3> QED
      BY <3>1, <3>4, <3>5, <3>6 DEF ClientOK
  <2>2. CASE ErrorUnlock(c) \/ HotFails(c)
    <3>1. z = Closed(x) /\ k = NO_LOCK
      BY <1>1, <2>2 DEF ErrorUnlock, HotFails, Vfs!Release
    <3>2. /\ z.cache = EmptyCache /\ z.dirty = {} /\ z.state = "OPEN"
          /\ z.op = "none" /\ z.pc = "idle"
      BY <1>1, <3>1, ClosedData, ClosedPager
    <3>3. ~Cool(z, k)
      BY <3>1, <3>2 DEF Cool
    <3> HIDE DEF x, l, z, k
    <3> QED
      BY <3>2, <3>3, EmptyMove
  <2>3. CASE ClientDies(c)
    <3>1. /\ z.cache = EmptyCache /\ z.dirty = {} /\ z.state = "DEAD"
          /\ z.op = "none" /\ z.pc = "idle" /\ k = l
      BY <1>1, <2>3, Values DEF ClientDies, NewPager, Pager
    <3>2. Cool(z, k) => ~Hot(jrnl)
      <4>1. Cool(z, k) => Cool(x, l)
        BY <3>1 DEF Cool
      <4> QED
        BY <1>1, <4>1 DEF ClientOK
    <3> HIDE DEF x, l, z, k
    <3> QED
      BY <3>1, <3>2, EmptyMove
  <2> QED
    BY <2>1, <2>2, <2>3
<1> HIDE DEF z, k
<1>4. pager'[c] = z /\ held'[c] = k
  BY DEF z, k
<1> QED
  BY <1>2, <1>3, <1>4, ClientMoves

-----------------------------------------------------------------------------
(* Steps of a transaction that change no file. *)

\* A transaction that goes on.
LEMMA WriterMove ==
  ASSUME NEW x, NEW l, NEW z, NEW k, NEW X, NEW h, ClientOK(x, l, X, h),
         Writes(x), Writes(z), z.op # "hot", z.heldShared = x.heldShared,
         Cool(z, k) => ~Hot(jrnl), WriterOK(z, X, h)
  PROVE  ClientOK(z, k, X, h)
<1>1. x.heldShared
  BY DEF ClientOK, Writes, Writing
<1>2. /\ z.state \in Writing /\ z.pc # "unlock"
      /\ z.state \notin {"OPEN", "READER", "WRITER_LOCKED"}
  BY DEF Writes, Writing
<1>3. z.cache[1] # NoPage
  BY DEF WriterOK
<1> QED
  BY <1>1, <1>2, <1>3 DEF ClientOK

\* Its account of the journal stays.
LEMMA WriterKept ==
  ASSUME NEW x, NEW z, NEW X, NEW h, WriterOK(x, X, h), Keeps(x, z),
         z.cache[1] # NoPage, z.state = "WRITER_CACHEMOD" => x.state = "WRITER_CACHEMOD",
         z.pc \notin {"nrec", "sync2"},
         z.op = "rollback" => Undoing(z, X),
         z.op # "rollback" /\ z.state # "WRITER_FINISHED" => Changing(z, X, h),
         z.op # "rollback" /\ z.state = "WRITER_FINISHED" => Finished(z, X)
  PROVE  WriterOK(z, X, h)
<1>1. Body(z) = Body(x) /\ PageOne(z) = PageOne(x) /\ Mine(z, jrnl) = Mine(x, jrnl)
  BY DEF Keeps, Body, PageOne, Mine
<1>2. z.txn = x.txn /\ z.hdr = x.hdr /\ z.off = x.off /\ z.nRec = x.nRec
  BY DEF Keeps
<1>3. Bound(z, h)
  BY <1>2 DEF WriterOK, Bound
<1> QED
  BY <1>1, <1>2, <1>3 DEF WriterOK

\* A page is read from the file: it is the content, or the transaction's own.
LEMMA ReadPageStep ==
  ASSUME NEW c \in Client, NEW X, NEW Y, NEW h, Before(c, X, Y, h),
         NEW p \in Page, ReadPage(c, p)
  PROVE  Arrives(X, Y)
<1> DEFINE x == pager[c]
           l == held[c]
           z == pager'[c]
           vers == IF p = 1 THEN db[1] ELSE x.vers
<1>1. /\ x \in Pager /\ l \in Level /\ Legal(x, l) /\ ClientOK(x, l, X, h)
      /\ pager \in [Client -> Pager] /\ JournalOK(x)
      /\ Files /\ DiskOK(X, h) /\ h \in Places /\ Versions(X, Y) /\ nTxn \in Nat
  BY StepFacts
<1>2. UNCHANGED <<server, nTxn>> /\ held'[c] = l
  BY DEF ReadPage
<1>3. /\ x.op = "none" /\ x.pc = "idle" /\ x.cache[p] = NoPage
      /\ p = 1 \/ x.cache[1] # NoPage
      /\ x.state \in {"READER", "WRITER_LOCKED", "WRITER_CACHEMOD", "WRITER_DBMOD"}
  BY DEF ReadPage, InTransaction, At
<1>4. /\ z.state = x.state /\ z.op = x.op /\ z.pc = x.pc /\ z.vers = vers
      /\ z.cache = [x.cache EXCEPT ![p] = db[p]] /\ z.heldShared = x.heldShared
      /\ z.dirty = x.dirty /\ z.needSync = x.needSync /\ Keeps(x, z) /\ z.page = x.page
  BY <1>1 DEF ReadPage, Pager, Keeps
<1>5. /\ z.cache[p] = db[p] /\ \A q \in Page : q # p => z.cache[q] = x.cache[q]
  BY <1>1, <1>4 DEF Pager
<1>6. /\ \A q \in Page : X[q] \in Nat /\ X[q] # NoPage /\ X[q] <= nTxn
      /\ nTxn # NoPage
  BY <1>1, PagesInCache
<1>7. Cool(z, l) => ~Hot(jrnl)
  BY <1>1, <1>4 DEF ClientOK, Cool
<1>8. CASE x.state \in {"READER", "WRITER_LOCKED"}
  <2>1. ~Hot(jrnl)
    BY <1>1, <1>3, <1>8 DEF Legal, Stands, ClientOK, Cool
  <2>2. db[p] = X[p]
    BY <1>1, <2>1, CoolFiles
  <2>3. Fresh(x, X) /\ x.heldShared /\ x.dirty = {}
        /\ (x.state = "WRITER_LOCKED" => x.cache[1] # NoPage)
    BY <1>1, <1>8 DEF ClientOK
  <2>4. z.cache[1] # NoPage
    BY <1>3, <1>5, <1>6, <2>2, Sizes
  <2>5. Fresh(z, X)
    <3>1. \A q \in Page : z.cache[q] \in {NoPage, X[q]}
      BY <1>5, <2>2, <2>3 DEF Fresh
    <3>2. z.vers = X[1]
      BY <1>3, <1>4, <2>2, <2>3 DEF Fresh
    <3> QED
      BY <3>1, <3>2 DEF Fresh
  <2>6. ~Writes(z) /\ z.state \notin Writing
    BY <1>4, <1>8 DEF Writes, Writing
  <2> HIDE DEF x, l, z
  <2>7. ClientOK(z, l, X, h)
    BY <1>3, <1>4, <1>7, <1>8, <2>3, <2>4, <2>5, <2>6 DEF ClientOK
  <2>8. pager'[c] = z
    BY DEF z
  <2> QED
    BY <1>2, <2>7, <2>8, ClientMoves
<1>9. CASE x.state \in {"WRITER_CACHEMOD", "WRITER_DBMOD"}
  <2>1. Writes(x) /\ Writes(z)
    BY <1>3, <1>4, <1>9 DEF Writes, Writing
  <2>2. WriterOK(x, X, h) /\ Contents(x, jrnl) /\ x.txn = nTxn
    BY <1>1, <2>1 DEF ClientOK, JournalOK
  <2>3. Changing(x, X, h) /\ x.cache[1] # NoPage
    BY <1>3, <1>9, <2>2 DEF WriterOK
  <2>4. p # 1 /\ z.cache[1] # NoPage /\ z.vers = x.vers
    BY <1>3, <1>4, <1>5, <2>3, Sizes
  <2>5. p \notin x.inJournal => db[p] = X[p]
    BY <1>1, <2>2, Uncovered
  <2>6. p \in x.inJournal => p \notin x.dirty /\ db[p] = x.txn
    <3>1. x.txn # NoPage
      BY <1>6, <2>2
    <3> QED
      BY <1>3, <2>3, <2>4, <3>1 DEF Changing
  <2>7. Changing(z, X, h)
    <3>1. z.inJournal = x.inJournal /\ z.txn = x.txn
      BY <1>4 DEF Keeps
    <3>2. \A q \in Page \ z.inJournal : z.cache[q] \in {NoPage, X[q]}
      BY <1>5, <2>3, <2>5, <3>1 DEF Changing
    <3>3. \A q \in z.inJournal \ {1} :
             IF q \in z.dirty THEN z.cache[q] = z.txn
             ELSE z.cache[q] \in {NoPage, z.txn} /\ db[q] = z.txn
      <4>1. \A q \in x.inJournal : q \in Page
        BY <1>1 DEF Pager
      <4> QED
        BY <1>4, <1>5, <2>3, <2>6, <3>1, <4>1 DEF Changing
    <3>4. z.cache[1] = x.cache[1]
      BY <1>5, <2>4, Sizes
    <3> HIDE DEF x, z
    <3> QED
      BY <1>3, <1>4, <2>3, <2>4, <3>1, <3>2, <3>3, <3>4 DEF Changing
  <2> HIDE DEF x, l, z
  <2>8. WriterOK(z, X, h)
    BY <1>3, <1>4, <1>9, <2>2, <2>4, <2>7, WriterKept
  <2>9. ClientOK(z, l, X, h)
    BY <1>1, <1>3, <1>4, <1>7, <2>1, <2>8, WriterMove
  <2>10. pager'[c] = z
    BY DEF z
  <2> QED
    BY <1>2, <2>9, <2>10, ClientMoves
<1> QED
  BY <1>3, <1>8, <1>9

\* pagerStress, and the lock it needs.
LEMMA LockingSteps ==
  ASSUME NEW c \in Client, NEW X, NEW Y, NEW h, Before(c, X, Y, h),
         ExclusiveLock(c) \/ LockBusy(c) \/ \E p \in Page \ {1} : Spill(c, p)
  PROVE  Arrives(X, Y)
<1> DEFINE x == pager[c]
           l == held[c]
           z == pager'[c]
           k == held'[c]
<1>1. /\ x \in Pager /\ l \in Level /\ Legal(x, l) /\ ClientOK(x, l, X, h)
      /\ pager \in [Client -> Pager] /\ held \in [Client -> Level] /\ z \in Pager
  BY StepFacts
<1>2. UNCHANGED <<server, nTxn>>
  BY DEF ExclusiveLock, LockBusy, Spill
<1>3. /\ x.state \in {"WRITER_CACHEMOD", "WRITER_DBMOD"} /\ x.pc \in {"idle", "lock"}
      /\ x.op \in {"none", "spill", "commit"} /\ (x.pc = "lock" => x.op # "none")
  <2>1. \/ x.pc = "lock"
        \/ x.state \in {"WRITER_CACHEMOD", "WRITER_DBMOD"} /\ x.op = "none" /\ x.pc = "idle"
    BY DEF ExclusiveLock, LockBusy, Spill, At
  <2> HIDE DEF x, l
  <2> QED
    BY <1>1, <2>1 DEF Legal, Stands
<1>4. Writes(x)
  BY <1>3 DEF Writes, Writing
<1>5. WriterOK(x, X, h)
  BY <1>1, <1>4 DEF ClientOK
<1>6. Changing(x, X, h) /\ x.cache[1] # NoPage
  BY <1>3, <1>5 DEF WriterOK
<1>7. 1 \in x.inJournal => 1 \in x.dirty
  BY <1>3, <1>6 DEF Changing
<1>8. /\ Keeps(x, z) /\ SameData(x, z) /\ z.needSync = x.needSync /\ z.state = x.state
      /\ z.op \in {"none", "spill", "commit"} /\ z.pc \in {"idle", "lock", "sync1", "write"}
      /\ z.op = "spill" => z.page \in x.dirty \ {1}
      /\ z.op = "spill" /\ z.pc = "write" => z.page \notin x.needSync
      /\ z.op = "commit" => x.op = "commit" /\ z.pc \in {"lock", "sync1"}
      /\ Cool(z, k) => Cool(x, l)
  <2>1. CASE ExclusiveLock(c)
    <3>0. x.pc = "lock"
      BY <2>1 DEF ExclusiveLock
    <3>1. CASE Goto(c, "sync1")
      <4>1. z = [x EXCEPT !.pc = "sync1"]
        BY <1>1, <3>1 DEF Goto
      <4>2. /\ Keeps(x, z) /\ SameData(x, z) /\ z.needSync = x.needSync /\ z.state = x.state
            /\ z.op = x.op /\ z.pc = "sync1" /\ z.page = x.page
        BY <1>1, <4>1 DEF Pager, Keeps, SameData
      <4>3. k = EXCLUSIVE_LOCK
        <5>1. k \in Level /\ Legal(z, k)
          BY StepFacts
        <5> HIDE DEF z, k
        <5> QED
          BY <4>2, <5>1 DEF Legal, Stands
      <4> HIDE DEF x, l, z, k
      <4> QED
        BY <1>3, <1>6, <3>0, <4>2, <4>3 DEF Changing, Cool
    <3>2. CASE Vfs!Pend(c) /\ UNCHANGED pager
      <4>1. z = x /\ k = PENDING_LOCK
        BY <1>1, <3>2 DEF Vfs!Pend, Vfs!PENDING_LOCK
      <4>2. l = RESERVED_LOCK
        <5>1. l \in {SHARED_LOCK, RESERVED_LOCK}
          BY <3>2 DEF Vfs!Pend, Vfs!SHARED_LOCK, Vfs!RESERVED_LOCK
        <5> HIDE DEF x, l
        <5> QED
          BY <1>1, <1>3, <5>1 DEF Legal, Stands
      <4> HIDE DEF x, l, z, k
      <4> QED
        BY <1>3, <1>6, <3>0, <4>1, <4>2 DEF Changing, Cool, Keeps, SameData
    <3> QED
      BY <2>1, <3>1, <3>2 DEF ExclusiveLock
  <2>2. CASE LockBusy(c)
    <3>1. z = [x EXCEPT !.op = "none", !.pc = "idle", !.page = 0] /\ k = l
      BY <1>1, <2>2 DEF LockBusy
    <3>2. /\ Keeps(x, z) /\ SameData(x, z) /\ z.needSync = x.needSync /\ z.state = x.state
          /\ z.op = "none" /\ z.pc = "idle"
      BY <1>1, <3>1 DEF Pager, Keeps, SameData
    <3> HIDE DEF x, l, z, k
    <3> QED
      BY <1>3, <3>1, <3>2 DEF Cool
  <2>3. ASSUME NEW p \in Page \ {1}, Spill(c, p)
        PROVE  /\ Keeps(x, z) /\ SameData(x, z) /\ z.needSync = x.needSync /\ z.state = x.state
               /\ z.op = "spill" /\ z.pc \in {"lock", "write"}
               /\ z.page \in x.dirty \ {1} /\ (z.pc = "write" => z.page \notin x.needSync)
               /\ k = l
    <3> DEFINE pc == IF p \in x.needSync \/ x.state = "WRITER_CACHEMOD" THEN "lock" ELSE "write"
    <3>1. z = [x EXCEPT !.op = "spill", !.page = p, !.pc = pc] /\ k = l /\ p \in x.dirty
      BY <1>1, <2>3 DEF Spill
    <3>2. pc \in {"lock", "write"} /\ (pc = "write" => p \notin x.needSync)
      OBVIOUS
    <3> HIDE DEF pc
    <3>3. /\ Keeps(x, z) /\ SameData(x, z) /\ z.needSync = x.needSync /\ z.state = x.state
          /\ z.op = "spill" /\ z.pc = pc /\ z.page = p
      BY <1>1, <3>1 DEF Pager, Keeps, SameData
    <3> QED
      BY <3>1, <3>2, <3>3
  <2>4. CASE \E p \in Page \ {1} : Spill(c, p)
    <3>1. /\ Keeps(x, z) /\ SameData(x, z) /\ z.needSync = x.needSync /\ z.state = x.state
          /\ z.op = "spill" /\ z.pc \in {"lock", "write"}
          /\ z.page \in x.dirty \ {1} /\ (z.pc = "write" => z.page \notin x.needSync)
          /\ k = l
      BY <2>3, <2>4
    <3> HIDE DEF x, l, z, k
    <3> QED
      BY <1>3, <3>1 DEF Cool
  <2> QED
    BY <2>1, <2>2, <2>4
<1> HIDE DEF x, l, z, k
<1>9. Changing(z, X, h)
  <2>1. /\ z.inJournal = x.inJournal /\ z.txn = x.txn /\ z.dirty = x.dirty /\ z.cache = x.cache
        /\ z.vers = x.vers
    BY <1>8 DEF Keeps, SameData
  <2> QED
    BY <1>6, <1>7, <1>8, <2>1 DEF Changing
<1>10. Writes(z) /\ z.cache[1] # NoPage /\ z.heldShared = x.heldShared
  BY <1>3, <1>6, <1>8 DEF Writes, Writing, SameData
<1>11. WriterOK(z, X, h)
  BY <1>3, <1>5, <1>8, <1>9, <1>10, WriterKept
<1>12. Cool(z, k) => ~Hot(jrnl)
  BY <1>1, <1>8 DEF ClientOK
<1>13. ClientOK(z, k, X, h)
  BY <1>1, <1>4, <1>8, <1>10, <1>11, <1>12, WriterMove
<1>14. pager'[c] = z /\ held'[c] = k
  BY DEF z, k
<1> QED
  BY <1>2, <1>13, <1>14, ClientMoves

\* sqlite3PagerRollback, and a commit that fails: the playback starts with all the
\* records of the transaction.
LEMMA RollbackSteps ==
  ASSUME NEW c \in Client, NEW X, NEW Y, NEW h, Before(c, X, Y, h),
         Rollback(c) \/ CommitFails(c)
  PROVE  Arrives(X, Y)
<1> DEFINE x == pager[c]
           l == held[c]
           todo == Playable(jrnl, x.hdr)
           pc == Playing(x, todo)
           z == [x EXCEPT !.op = "rollback", !.page = 0, !.todo = todo, !.pc = pc]
<1>1. /\ x \in Pager /\ l \in Level /\ Legal(x, l) /\ ClientOK(x, l, X, h)
      /\ pager \in [Client -> Pager] /\ JournalOK(x) /\ Files /\ DiskOK(X, h) /\ h \in Places
  BY StepFacts
<1>2. UNCHANGED <<server, nTxn>> /\ held'[c] = l /\ pager'[c] = z
  BY <1>1 DEF Rollback, CommitFails, StartPlayback
<1>3. Writes(x) /\ x.op \in {"none", "commit"}
  <2>1. (x.state \in Writing /\ x.op = "none" /\ x.pc = "idle") \/ x.op = "commit"
    BY DEF Rollback, CommitFails, At
  <2> HIDE DEF x, l
  <2> QED
    BY <1>1, <2>1 DEF Legal, Stands, Writes, Writing
<1>4. Counters(x) /\ Contents(x, jrnl) /\ WriterOK(x, X, h)
  BY <1>1, <1>3 DEF JournalOK, ClientOK
<1>5. todo = Mine(x, jrnl)
  <2> HIDE DEF x
  <2> QED
    BY <1>1, <1>4, OwnPlayed DEF todo
<1>6. /\ pc \in {"play", "delete", "dbsync"} /\ (pc # "play" => todo = {})
      /\ (pc = "delete" => x.state = "WRITER_CACHEMOD")
  BY DEF Playing
<1> HIDE DEF todo, pc
<1>7. /\ Keeps(x, z) /\ z.cache = x.cache /\ z.vers = x.vers /\ z.heldShared = x.heldShared
      /\ z.op = "rollback" /\ z.todo = todo /\ z.pc = pc /\ z.state = x.state
  BY <1>1 DEF Pager, Keeps
<1> HIDE DEF z, x, l
<1>8. \A p \in x.inJournal : \E i \in todo : jrnl[i].pg = p
  BY <1>4, <1>5 DEF Contents
<1>9. \A p \in Page : p \notin x.inJournal => x.cache[p] \in {NoPage, X[p]}
  <2>1. CASE x.state # "WRITER_FINISHED"
    <3>1. Changing(x, X, h)
      BY <1>3, <1>4, <2>1 DEF WriterOK
    <3> QED
      BY <3>1 DEF Changing
  <2>2. CASE x.state = "WRITER_FINISHED"
    <3>1. Finished(x, X)
      BY <1>3, <1>4, <2>2 DEF WriterOK
    <3> QED
      BY <3>1 DEF Finished
  <2> QED
    BY <2>1, <2>2
<1>10. 1 \notin x.inJournal => x.vers = X[1]
  <2>1. CASE x.state # "WRITER_FINISHED"
    <3>1. Changing(x, X, h)
      BY <1>3, <1>4, <2>1 DEF WriterOK
    <3> QED
      BY <3>1 DEF Changing
  <2>2. CASE x.state = "WRITER_FINISHED"
    <3>1. Finished(x, X)
      BY <1>3, <1>4, <2>2 DEF WriterOK
    <3> QED
      BY <3>1 DEF Finished
  <2> QED
    BY <2>1, <2>2
<1>11. ASSUME NEW p \in Page
       PROVE  db[p] = X[p] \/ \E i \in todo : i < x.hdr /\ jrnl[i].pg = p
  <2>1. CASE Covered(jrnl, h, p)
    <3>1. PICK i \in Slot : i < h /\ jrnl[i].kind = "rec" /\ jrnl[i].pg = p
      BY <2>1 DEF Covered
    <3>2. i \in todo
      BY <1>4, <1>5, <3>1 DEF WriterOK, Mine
    <3>3. i < x.hdr
      BY <1>1, <1>4, <3>1, Sizes DEF WriterOK, Bound, Places, Pager
    <3> QED
      BY <3>1, <3>2, <3>3
  <2>2. CASE ~Covered(jrnl, h, p)
    BY <1>1, <2>2 DEF DiskOK
  <2> QED
    BY <2>1, <2>2
<1>12. Undoing(z, X)
  <2>1. Mine(z, jrnl) = Mine(x, jrnl) /\ z.hdr = x.hdr
    BY <1>7 DEF Mine, Keeps
  <2>2. z.pc = "delete" => \A p \in Page : dbDisk[p] = {X[p]}
    BY <1>4, <1>6, <1>7 DEF WriterOK
  <2>3. \A p \in Page : z.cache[p] \in {NoPage, X[p]} \/ \E i \in z.todo : jrnl[i].pg = p
    BY <1>7, <1>8, <1>9
  <2>4. z.vers = X[1] \/ \E i \in z.todo : jrnl[i].pg = 1
    BY <1>7, <1>8, <1>10
  <2> QED
    BY <1>5, <1>6, <1>7, <1>11, <2>1, <2>2, <2>3, <2>4 DEF Undoing
<1>13. z.cache[1] # NoPage
  BY <1>4, <1>7 DEF WriterOK
<1>14. WriterOK(z, X, h)
  BY <1>4, <1>6, <1>7, <1>12, <1>13, WriterKept
<1>15. Writes(z) /\ (Cool(z, l) => ~Hot(jrnl))
  <2>1. Writes(z)
    BY <1>3, <1>6, <1>7 DEF Writes
  <2>2. x.pc # "refused" /\ x.state # "DEAD"
    BY <1>1, <1>3 DEF Legal, Stands, Writes, Writing
  <2>3. Cool(z, l) => Cool(x, l)
    BY <1>6, <1>7, <2>2 DEF Cool
  <2> QED
    BY <1>1, <2>1, <2>3 DEF ClientOK
<1>16. ClientOK(z, l, X, h)
  BY <1>1, <1>3, <1>7, <1>14, <1>15, WriterMove
<1> QED
  BY <1>2, <1>16, ClientMoves

-----------------------------------------------------------------------------
(* Steps that write the journal. *)

\* A transaction that has changed a file.
LEMMA WriterArrives ==
  ASSUME NEW c \in Client, NEW X, NEW Y, NEW h, Before(c, X, Y, h), NEW X2, NEW h2,
         pager[c].heldShared, Writes(pager'[c]), pager'[c].op # "hot",
         pager'[c].heldShared = pager[c].heldShared,
         Cool(pager'[c], held'[c]) => ~Hot(jrnl'), WriterOK(pager[c], X2, h2)'
  PROVE  ClientOK(pager[c], held[c], X2, h2)'
<1>1. /\ pager'[c].state \in Writing /\ pager'[c].pc # "unlock"
      /\ pager'[c].state \notin {"OPEN", "READER", "WRITER_LOCKED"}
  BY DEF Writes, Writing
<1>2. pager'[c].cache[1] # NoPage
  BY DEF WriterOK
<1> QED
  BY <1>1, <1>2 DEF ClientOK, Writing

\* A slot is written at the end of what is synced, or behind it.
LEMMA JournalWritten ==
  ASSUME NEW X, NEW Y, NEW h \in Places, Files, Files', DiskOK(X, h), GhostsOK(X, Y),
         NEW i \in Slot, i >= h, NEW s, ~Valid(s), i > h => s.kind # "hdr",
         WriteJournal(i, s), \A r \in jDisk[h] : ~Valid(r)
  PROVE  /\ DiskOK(X, h)' /\ GhostsOK(X, Y)'
         /\ jrnl'[i] = s /\ jDisk'[i] = jDisk[i] \cup {s, Nil}
         /\ \A m \in Slot \ {i} : jrnl'[m] = jrnl[m] /\ jDisk'[m] = jDisk[m]
         /\ \A p \in Page : Covered(jrnl', h, p) <=> Covered(jrnl, h, p)
<1>1. h \in Nat /\ h \in Slot /\ i \in Nat
  BY Sizes DEF Places, Slot
<1>2. /\ jrnl'[i] = s /\ jDisk'[i] = jDisk[i] \cup {s, Nil}
      /\ \A m \in Slot \ {i} : jrnl'[m] = jrnl[m] /\ jDisk'[m] = jDisk[m]
      /\ UNCHANGED <<db, dbDisk, ghosts>>
  BY DEF WriteJournal, Files
<1>3. \A m \in Slot : m < h => jrnl'[m] = jrnl[m] /\ jDisk'[m] = jDisk[m]
  BY <1>1, <1>2, Sizes
<1>4. ~Valid(Nil) /\ Nil.kind # "hdr"
  BY DEF Valid, Nil
<1>5. ~Valid(jrnl'[h])
  <2>1. ~Valid(jrnl[h])
    BY <1>1 DEF DiskOK
  <2> QED
    BY <1>1, <1>2, <2>1
<1>6. \A m \in Slot : m > h => jrnl'[m].kind # "hdr"
  BY <1>2 DEF DiskOK, Laid
<1>7. Laid(jrnl', h, X)
  <2>1. Chain(jrnl', h)
    <3>1. Readable(jrnl) /\ Chain(jrnl, h)
      BY DEF DiskOK, Laid, Files, Readable
    <3> QED
      BY <1>3, <3>1, ChainPrefix
  <2>2. \A m \in Slot : m < h /\ jrnl'[m].kind = "rec" => jrnl'[m].n = X[jrnl'[m].pg]
    BY <1>3 DEF DiskOK, Laid
  <2> QED
    BY <1>5, <1>6, <2>1, <2>2 DEF Laid
<1>8. \A p \in Page : Covered(jrnl', h, p) <=> Covered(jrnl, h, p)
  BY <1>3 DEF Covered
<1>9. \A r \in jDisk'[h] : ~Valid(r)
  BY <1>1, <1>2, <1>4
<1>10. \A m \in Slot : /\ jrnl'[m] \in jDisk'[m]
                       /\ m < h => jDisk'[m] = {jrnl'[m]}
                       /\ m > h => \A r \in jDisk'[m] : r.kind # "hdr"
  <2>1. /\ jrnl'[i] \in jDisk'[i]
        /\ ~(i < h)
        /\ i > h => \A r \in jDisk'[i] : r.kind # "hdr"
    BY <1>1, <1>2, <1>4 DEF DiskOK
  <2>2. \A m \in Slot \ {i} : /\ jrnl'[m] \in jDisk'[m]
                              /\ m < h => jDisk'[m] = {jrnl'[m]}
                              /\ m > h => \A r \in jDisk'[m] : r.kind # "hdr"
    BY <1>2 DEF DiskOK
  <2> QED
    BY <2>1, <2>2
<1>11. \A p \in Page : /\ db'[p] \in dbDisk'[p]
                       /\ dbDisk'[p] = {X[p]} \/ Covered(jrnl', h, p)
  BY <1>2, <1>8 DEF DiskOK
<1>12. DiskOK(X, h)'
  BY <1>7, <1>9, <1>10, <1>11 DEF DiskOK
<1>13. ghosts' # {} => \A r \in jDisk'[1] : ~Valid(r)
  <2>1. 1 \in Slot
    BY Sizes
  <2> QED
    BY <1>2, <1>4, <2>1 DEF GhostsOK
<1>14. GhostsOK(X, Y)'
  BY <1>2, <1>13 DEF GhostsOK
<1> QED
  BY <1>2, <1>8, <1>12, <1>14

\* pager_open_journal: the header of the new journal has no records.
LEMMA OpenJournalContent ==
  ASSUME NEW c \in Client, NEW X, NEW Y, NEW h, Before(c, X, Y, h),
         NEW p \in Page \ {1}, OpenJournal(c, p)
  PROVE  Arrives(X, Y)
<1> DEFINE x == pager[c]
           l == held[c]
           z == pager'[c]
           t == nTxn + 1
<1>1. /\ x \in Pager /\ l \in Level /\ Legal(x, l) /\ ClientOK(x, l, X, h) /\ Clean(x)
      /\ pager \in [Client -> Pager] /\ Files /\ DiskOK(X, h) /\ GhostsOK(X, Y)
      /\ h \in Places /\ Versions(X, Y) /\ nTxn \in Nat /\ Files' /\ JournalOK(pager[c])'
  BY StepFacts
<1>2. /\ x.state = "WRITER_LOCKED" /\ x.op = "none" /\ x.cache[p] # NoPage /\ nTxn < MaxTxn
      /\ nTxn' = t /\ WriteJournal(1, Header(t, 0)) /\ held'[c] = l
  BY DEF OpenJournal, At
<1>3. l = RESERVED_LOCK
  BY <1>1, <1>2 DEF Legal, Stands
<1>4. /\ ~Hot(jrnl) /\ Fresh(x, X) /\ x.dirty = {} /\ x.inJournal = {} /\ x.needSync = {}
      /\ x.cache[1] # NoPage /\ x.heldShared
  BY <1>1, <1>2, <1>3 DEF ClientOK, Cool, Clean
<1>5. h = 1 /\ \A q \in Page : dbDisk[q] = {X[q]} /\ db[q] = X[q]
  BY <1>1, <1>4, CoolFiles
<1>6. /\ z.state = "WRITER_CACHEMOD" /\ z.pc = "journal" /\ z.op = "none"
      /\ z.page = p /\ z.txn = t /\ z.nRec = 0 /\ z.hdr = 1 /\ z.off = 2
      /\ z.inJournal = {} /\ z.needSync = {} /\ z.dirty = {} /\ z.cache = x.cache
      /\ z.vers = x.vers /\ z.heldShared = x.heldShared
  BY <1>1, <1>2, <1>4 DEF OpenJournal, Pager
<1>7. ~Valid(Header(t, 0)) /\ \A r \in jDisk[h] : ~Valid(r)
  <2>1. ~Valid(Header(t, 0))
    BY DEF Valid, Header
  <2>2. ~Valid(jrnl[1])
    BY <1>4 DEF Valid, Hot
  <2>3. \A r \in jDisk[1] : Valid(r) => r = jrnl[1]
    BY <1>1, <1>5, Sizes DEF DiskOK
  <2> QED
    BY <1>5, <2>1, <2>2, <2>3
<1>8. /\ DiskOK(X, h)' /\ GhostsOK(X, Y)' /\ jrnl'[1] = Header(t, 0)
  <2> DEFINE i == 1
             s == Header(t, 0)
  <2>1. /\ i \in Slot /\ i >= h /\ ~(i > h) /\ ~Valid(s) /\ WriteJournal(i, s)
        /\ \A r \in jDisk[h] : ~Valid(r)
    BY <1>2, <1>5, <1>7, Sizes
  <2>2. /\ DiskOK(X, h)' /\ GhostsOK(X, Y)' /\ jrnl'[i] = s
    <3> HIDE DEF i, s
    <3> QED
      BY <1>1, <2>1, JournalWritten
  <2> QED
    BY <2>2
<1>9. ~Hot(jrnl')
  BY <1>8 DEF Hot, Header
<1>10. Versions(X, Y)'
  <2>1. \A q \in Page : X[q] \in Nat /\ Y[q] \in Nat /\ X[q] <= nTxn /\ Y[q] <= nTxn
    BY <1>1 DEF Versions
  <2>2. \A q \in Page : X[q] <= t /\ Y[q] <= t
    BY <1>1, <2>1
  <2>3. t <= MaxTxn
    BY <1>1, <1>2, PagerCommitAssumption
  <2> QED
    BY <1>1, <1>2, <2>2, <2>3 DEF Versions
<1>11. Mine(z, jrnl') = {}
  <2>1. Writes(z)
    BY <1>6 DEF Writes, Writing
  <2>2. Contents(z, jrnl')
    BY <1>1, <2>1 DEF JournalOK
  <2> QED
    BY <1>6, <2>2 DEF Contents
<1>12. \A q \in Page : X[q] < t
  BY <1>1 DEF Versions
<1>13. z.nRec <= Body(z) + PageOne(z)
  <2>1. z \in Pager
    BY StepFacts
  <2>2. Body(z) \in Nat /\ PageOne(z) \in {0, 1}
    BY <2>1, BodySize
  <2> QED
    BY <1>6, <2>2
<1>14. Changing(pager[c], X, h)'
  <2>1. \A q \in Page : x.cache[q] \in {NoPage, X[q]}
    BY <1>4 DEF Fresh
  <2>2. x.vers = X[1]
    BY <1>4 DEF Fresh
  <2> HIDE DEF x, l
  <2> QED
    BY <1>2, <1>6, <2>1, <2>2 DEF Changing
<1>15. WriterOK(pager[c], X, h)'
  <2>1. \A q \in Page : dbDisk'[q] = {X[q]}
    BY <1>2, <1>5 DEF WriteJournal
  <2>2. \A i \in Slot : ~(i < 1)
    BY Sizes DEF Slot
  <2>3. Mine(pager[c], jrnl)' = {}
    BY <1>11 DEF Mine
  <2>4. (Body(pager[c]) + PageOne(pager[c]))' = Body(z) + PageOne(z)
    BY DEF Body, PageOne
  <2> HIDE DEF x, l, t
  <2> QED
    BY <1>4, <1>5, <1>6, <1>12, <1>13, <1>14, <2>1, <2>2, <2>3, <2>4 DEF WriterOK, Bound
<1>16. ClientOK(pager[c], held[c], X, h)'
  <2>1. Writes(z)
    BY <1>6 DEF Writes, Writing
  <2> QED
    BY <1>4, <1>6, <1>9, <1>15, <2>1, WriterArrives
<1>17. AtomicStep(X, Y, X, Y)
  BY DEF AtomicStep
<1> QED
  BY <1>1, <1>3, <1>8, <1>9, <1>10, <1>16, <1>17, WholeStep

\* What pager_write leaves of the rest of the Pager.
LEMMA ModifiedData ==
  ASSUME NEW x \in Pager, NEW p \in Page, NEW v \in Nat
  PROVE  /\ Modified(x, p, v).cache = [x.cache EXCEPT ![p] = v]
         /\ Modified(x, p, v).dirty = x.dirty \cup {p}
         /\ Modified(x, p, v).vers = x.vers
         /\ Modified(x, p, v).heldShared = x.heldShared
         /\ Modified(x, p, v).needSync = IF p \in x.inJournal THEN x.needSync
                                         ELSE x.needSync \cup {p}
<1> DEFINE w == [x EXCEPT !.cache[p] = v, !.dirty = @ \cup {p}, !.page = 0, !.pc = "idle"]
<1>1. /\ w \in Pager /\ w.cache = [x.cache EXCEPT ![p] = v] /\ w.dirty = x.dirty \cup {p}
      /\ w.vers = x.vers /\ w.heldShared = x.heldShared /\ w.needSync = x.needSync
  BY DEF Pager, Pc
<1> HIDE DEF w
<1> DEFINE y == [w EXCEPT !.inJournal = @ \cup {p}, !.needSync = @ \cup {p},
                          !.off = @ + 1, !.nRec = @ + 1]
<1>2. /\ y.cache = w.cache /\ y.dirty = w.dirty /\ y.vers = w.vers
      /\ y.heldShared = w.heldShared /\ y.needSync = w.needSync \cup {p}
  BY <1>1 DEF Pager
<1> HIDE DEF y
<1>3. Modified(x, p, v) = IF p \in x.inJournal THEN w ELSE y
  BY DEF Modified, w, y
<1> QED
  BY <1>1, <1>2, <1>3

\* The pager z after page p became v in the cache of x and is in the journal.
Writing1(x, z, p, v) ==
    /\ z.state = x.state /\ z.vers = x.vers /\ z.heldShared = x.heldShared
    /\ z.cache = [x.cache EXCEPT ![p] = v] /\ z.dirty = x.dirty \cup {p}
    /\ z.txn = x.txn /\ z.inJournal = x.inJournal \cup {p}
    /\ IF p = 1 THEN z.op = "commit" /\ z.pc = "lock" ELSE z.op = "none" /\ z.pc = "idle"

\* The changed page is dirty, and journalled.
LEMMA PageChanging ==
  ASSUME NEW x \in Pager, NEW z, NEW p \in Page, NEW v, NEW X, NEW h, Changing(x, X, h),
         Writing1(x, z, p, v), x.op = "none",
         v = IF p = 1 THEN X[1] + 1 ELSE x.txn,
         z.needSync = x.needSync \/ z.needSync = x.needSync \cup {p},
         p \in x.inJournal \/ p \in z.needSync
  PROVE  Changing(z, X, h)
<1>1. /\ z.cache[p] = v /\ \A q \in Page : q # p => z.cache[q] = x.cache[q]
  BY DEF Writing1, Pager
<1>2. /\ z.inJournal = x.inJournal \cup {p} /\ z.dirty = x.dirty \cup {p} /\ z.txn = x.txn
      /\ z.vers = x.vers /\ (IF p = 1 THEN z.op = "commit" /\ z.pc = "lock"
                                      ELSE z.op = "none" /\ z.pc = "idle")
  BY DEF Writing1
<1>3. /\ x.dirty \subseteq x.inJournal /\ x.inJournal \subseteq Page /\ 1 \in Page
      /\ 1 \in x.inJournal => 1 \in x.dirty /\ x.cache[1] = X[1] + 1
      /\ 1 \notin x.inJournal => x.vers = X[1]
  BY Sizes DEF Changing, Pager
<1>4. \A q \in Page \ z.inJournal : z.cache[q] \in {NoPage, X[q]}
  BY <1>1, <1>2 DEF Changing
<1>5. \A q \in z.inJournal \ {1} :
         IF q \in z.dirty THEN z.cache[q] = z.txn
         ELSE z.cache[q] \in {NoPage, z.txn} /\ db[q] = z.txn
  BY <1>1, <1>2, <1>3 DEF Changing
<1>6. 1 \in z.inJournal => 1 \in z.dirty /\ z.cache[1] = X[1] + 1
  BY <1>1, <1>2, <1>3
<1>7. \A q \in z.inJournal : q \in z.needSync \/ Covered(jrnl, h, q)
  BY <1>2 DEF Changing
<1> QED
  BY <1>2, <1>3, <1>4, <1>5, <1>6, <1>7 DEF Changing

\* A page of the content goes into the journal before it is changed.
LEMMA PageChanged ==
  ASSUME NEW c \in Client, NEW X, NEW Y, NEW h, Before(c, X, Y, h), NEW p \in Page, NEW v,
         pager[c].state \in {"WRITER_CACHEMOD", "WRITER_DBMOD"}, pager[c].op = "none",
         pager[c].pc \in {"idle", "journal"}, pager[c].cache[p] # NoPage,
         AddToJournal(c, p), UNCHANGED nTxn, UNCHANGED held,
         Writing1(pager[c], pager'[c], p, v),
         IF p \in pager[c].inJournal
         THEN Keeps(pager[c], pager'[c]) /\ pager'[c].needSync = pager[c].needSync
         ELSE Adds(pager[c], pager'[c], p) /\ pager'[c].needSync = pager[c].needSync \cup {p},
         v = IF p = 1 THEN X[1] + 1 ELSE pager[c].txn
  PROVE  Arrives(X, Y)
<1> DEFINE x == pager[c]
           l == held[c]
           z == pager'[c]
<1>1. /\ x \in Pager /\ l \in Level /\ Legal(x, l) /\ ClientOK(x, l, X, h) /\ JournalOK(x)
      /\ pager \in [Client -> Pager] /\ Files /\ DiskOK(X, h) /\ GhostsOK(X, Y)
      /\ h \in Places /\ Versions(X, Y) /\ nTxn \in Nat /\ Files' /\ JournalOK(pager[c])'
      /\ z \in Pager /\ held'[c] = l
  BY StepFacts
<1>2. Writes(x) /\ Writes(z) /\ l >= RESERVED_LOCK
  <2>1. Writes(x) /\ Writes(z)
    BY DEF Writes, Writing, Writing1
  <2> QED
    BY <1>1, <2>1, WritesHolds
<1>3. /\ WriterOK(x, X, h) /\ Counters(x) /\ Contents(x, jrnl) /\ Unsealed(x, jrnl)
      /\ x.txn = nTxn /\ Counters(z) /\ Contents(z, jrnl')
  BY <1>1, <1>2 DEF ClientOK, JournalOK
<1>4. Changing(x, X, h) /\ x.heldShared /\ x.cache[1] # NoPage
  <2>1. Changing(x, X, h) /\ x.cache[1] # NoPage
    BY <1>3 DEF WriterOK
  <2> QED
    BY <1>1, <1>2, <2>1 DEF ClientOK, Writes, Writing
<1>5. Changing(z, X, h)
  <2>1. p \in x.inJournal \/ p \in z.needSync
    OBVIOUS
  <2> HIDE DEF x, z
  <2>2. /\ Writing1(x, z, p, v) /\ x.op = "none" /\ (v = IF p = 1 THEN X[1] + 1 ELSE x.txn)
        /\ z.needSync = x.needSync \/ z.needSync = x.needSync \cup {p}
    BY DEF x, z
  <2> QED
    BY <1>1, <1>4, <2>1, <2>2, PageChanging
<1>6. z.cache[1] # NoPage
  <2>1. X[1] + 1 # NoPage
    BY <1>1, PagesInCache, Sizes
  <2>2. z.cache = [x.cache EXCEPT ![p] = v] /\ x.cache \in [Page -> Nat] /\ 1 \in Page
    BY <1>1, Sizes DEF Writing1, Pager
  <2> QED
    BY <1>4, <2>1, <2>2
<1>7. /\ z.state = x.state /\ z.op \in {"none", "commit"} /\ z.pc \in {"idle", "lock"}
      /\ z.heldShared = x.heldShared
  BY DEF Writing1
<1>8. Cool(z, l) => ~Hot(jrnl)
  <2>1. Cool(z, l) => Cool(x, l)
    BY <1>7 DEF Cool
  <2> QED
    BY <1>1, <2>1 DEF ClientOK
<1>9. CASE p \in x.inJournal
  <2>1. UNCHANGED <<server, nTxn>> /\ Keeps(x, z)
    BY <1>9 DEF AddToJournal
  <2> HIDE DEF x, l, z
  <2>2. x.state \in {"WRITER_CACHEMOD", "WRITER_DBMOD"}
    BY DEF x
  <2>3. WriterOK(z, X, h)
    BY <1>3, <1>5, <1>6, <1>7, <2>1, <2>2, WriterKept
  <2>4. ClientOK(z, l, X, h)
    BY <1>1, <1>2, <1>7, <1>8, <2>3, WriterMove
  <2>5. pager'[c] = z
    BY DEF z
  <2> QED
    BY <1>1, <2>1, <2>4, <2>5, ClientMoves
<1>10. CASE p \notin x.inJournal
  <2> DEFINE i == x.off
             s == Record(x.txn, p, x.cache[p])
  <2>1. Adds(x, z, p) /\ WriteJournal(i, s)
    BY <1>10 DEF AddToJournal
  <2>2. x.hdr < x.off /\ x.hdr \in Nat /\ x.off \in Nat /\ x.nRec \in Nat /\ x.hdr >= 1
    <3>1. ~Between(x)
      BY DEF Between
    <3>2. x.hdr \in Nat /\ x.off \in Nat /\ x.nRec \in Nat
      BY <1>1 DEF Pager
    <3>3. x.hdr \in 1 .. x.off /\ x.hdr # x.off
      BY <1>3, <3>1 DEF Counters
    <3> HIDE DEF x
    <3> QED
      BY <3>2, <3>3
  <2>3. h = x.hdr /\ jrnl[h] = Header(x.txn, 0)
    <3>1. h = x.hdr
      BY <1>3, <2>2 DEF WriterOK, Bound
    <3> QED
      BY <1>3, <2>2, <3>1 DEF Unsealed, Sealed
  <2>4. i \in Slot
    <3>1. i \in (z.hdr + 1) .. (z.off - 1)
      BY <2>1, <2>2 DEF Adds
    <3> QED
      BY <1>3, <3>1 DEF Contents, Mine
  <2>5. h \in Slot /\ h < i
    BY <2>2, <2>3, <2>4, Sizes DEF Slot
  <2>6. ~Valid(s) /\ s.kind # "hdr" /\ \A r \in jDisk[h] : ~Valid(r)
    <3>1. ~Valid(jrnl[h])
      BY <2>3 DEF Valid, Header
    <3>2. ~Valid(s) /\ s.kind # "hdr"
      BY DEF Valid, Record
    <3> QED
      BY <1>1, <2>5, <3>1, <3>2 DEF DiskOK
  <2>7. i >= h
    BY <2>2, <2>3
  <2>8. /\ DiskOK(X, h)' /\ GhostsOK(X, Y)' /\ jrnl'[i] = s
        /\ \A m \in Slot \ {i} : jrnl'[m] = jrnl[m] /\ jDisk'[m] = jDisk[m]
        /\ \A q \in Page : Covered(jrnl', h, q) <=> Covered(jrnl, h, q)
    <3> HIDE DEF i, s
    <3> QED
      BY <1>1, <2>1, <2>4, <2>6, <2>7, JournalWritten
  <2>9. UNCHANGED <<db, dbDisk, ghosts>>
    BY <2>1 DEF WriteJournal
  <2>10. s.kind = "rec" /\ s.n = X[p] /\ s.pg = p /\ s.key = x.txn
    <3>1. x.cache[p] = X[p]
      BY <1>4, <1>10 DEF Changing
    <3> QED
      BY <3>1 DEF Record
  <2>11. \A m \in Mine(z, jrnl') : m = i \/ m \in Mine(x, jrnl)
    BY <2>1, <2>8 DEF Mine, Adds
  <2>12. \A m \in Mine(z, jrnl') : jrnl'[m].n = X[jrnl'[m].pg]
    <3>1. \A m \in Mine(x, jrnl) : m < i /\ m \in Nat /\ m \in Slot /\ jrnl[m].n = X[jrnl[m].pg]
      BY <1>3, Sizes DEF Contents, WriterOK, Mine
    <3>2. \A m \in Mine(x, jrnl) : jrnl'[m] = jrnl[m]
      BY <2>2, <2>8, <3>1
    <3> QED
      BY <2>8, <2>10, <2>11, <3>1, <3>2
  <2>13. \A m \in Slot : m < h => jrnl'[m].key = z.txn
    <3>1. \A m \in Slot : m < h => m # i
      BY <2>2, <2>3, Sizes
    <3>2. z.txn = x.txn
      BY <2>1 DEF Adds
    <3> QED
      BY <1>3, <2>8, <3>1, <3>2 DEF WriterOK
  <2>14. z.nRec <= Body(z) + PageOne(z)
    <3>1. IF p = 1 THEN Body(z) = Body(x) /\ PageOne(x) = 0 /\ PageOne(z) = 1
          ELSE Body(z) = Body(x) + 1 /\ PageOne(z) = PageOne(x)
      BY <1>1, <1>10, <2>1, BodyGrows DEF Adds
    <3>2. Body(x) \in Nat /\ PageOne(x) \in {0, 1} /\ x.nRec <= Body(x) + PageOne(x)
          /\ z.nRec = x.nRec + 1
      BY <1>1, <1>3, <2>1, BodySize DEF WriterOK, Adds
    <3> QED
      BY <2>2, <3>1, <3>2
  <2>15. Changing(pager[c], X, h)'
    <3> HIDE DEF x, l, i, s
    <3>1. \A q \in z.inJournal : q \in z.needSync \/ Covered(jrnl', h, q)
      <4>1. z.inJournal \subseteq Page
        BY <1>1 DEF Pager
      <4> QED
        BY <1>5, <2>8, <4>1 DEF Changing
    <3> QED
      BY <1>5, <2>9, <3>1 DEF Changing
  <2>16. WriterOK(pager[c], X, h)'
    <3>1. z.hdr = h /\ z.off = i + 1 /\ z.txn = x.txn /\ z.state = x.state
      BY <1>7, <2>1, <2>3 DEF Adds
    <3>2. h # z.off
      BY <2>2, <2>3, <3>1
    <3>3. \A q \in Page : X[q] < z.txn
      BY <1>3, <3>1 DEF WriterOK
    <3>4. z.state = "WRITER_CACHEMOD" => \A q \in Page : dbDisk'[q] = {X[q]}
      BY <1>3, <2>9, <3>1 DEF WriterOK
    <3>5. Mine(pager[c], jrnl)' = Mine(z, jrnl')
      BY DEF Mine
    <3>6. (Body(pager[c]) + PageOne(pager[c]))' = Body(z) + PageOne(z)
      BY DEF Body, PageOne
    <3>7. z.op # "rollback" /\ z.state # "WRITER_FINISHED"
      BY <1>7
    <3> HIDE DEF x, l, i, s
    <3> QED
      BY <1>6, <1>7, <2>12, <2>13, <2>14, <2>15, <3>1, <3>2, <3>3, <3>4, <3>5, <3>6, <3>7
         DEF WriterOK, Bound
  <2>17. Hot(jrnl') => Hot(jrnl)
    <3>1. 1 \in Slot /\ 1 # i
      BY <2>2, Sizes
    <3> QED
      BY <2>8, <3>1 DEF Hot
  <2>18. ClientOK(pager[c], held[c], X, h)'
    BY <1>1, <1>2, <1>4, <1>7, <1>8, <2>16, <2>17, WriterArrives
  <2>19. Versions(X, Y)' /\ AtomicStep(X, Y, X, Y)
    BY <1>1 DEF Versions, AtomicStep
  <2> QED
    BY <1>1, <1>2, <2>8, <2>17, <2>18, <2>19, WholeStep
<1> QED
  BY <1>9, <1>10

\* pager_write, and pager_incr_changecounter of a commit.
LEMMA PageSteps ==
  ASSUME NEW c \in Client, NEW X, NEW Y, NEW h, Before(c, X, Y, h),
         CommitPhaseOne(c) \/ \E p \in Page \ {1} : WritePage(c, p)
  PROVE  Arrives(X, Y)
<1> DEFINE x == pager[c]
           z == pager'[c]
<1>1. /\ x \in Pager /\ Legal(x, held[c]) /\ ClientOK(x, held[c], X, h)
      /\ pager \in [Client -> Pager] /\ Versions(X, Y) /\ nTxn \in Nat /\ JournalOK(x)
  BY StepFacts
<1>2. ASSUME x.state \in {"WRITER_CACHEMOD", "WRITER_DBMOD"}, x.op = "none",
             x.pc \in {"idle", "journal"}
      PROVE  Changing(x, X, h) /\ x.cache[1] # NoPage
  <2>1. Writes(x)
    BY <1>2 DEF Writes, Writing
  <2> QED
    BY <1>1, <1>2, <2>1 DEF ClientOK, WriterOK
<1>3. CASE CommitPhaseOne(c)
  <2> DEFINE v == IF 1 \in x.inJournal THEN x.cache[1] ELSE Incremented(x.vers)
             w == Modified(x, 1, v)
  <2>1. /\ z = [w EXCEPT !.op = "commit", !.pc = "lock"] /\ UNCHANGED nTxn /\ UNCHANGED held
        /\ AddToJournal(c, 1) /\ x.state \in {"WRITER_CACHEMOD", "WRITER_DBMOD"}
        /\ x.op = "none" /\ x.pc = "idle"
    BY <1>1, <1>3 DEF CommitPhaseOne, At
  <2>2. v \in Nat /\ 1 \in Page
    BY <1>1, Sizes, Values DEF Pager, Incremented, Torn
  <2>3. v = X[1] + 1 /\ x.cache[1] # NoPage
    <3>1. X[1] # Torn
      BY <1>1, <2>2, Values DEF Versions, Torn
    <3> QED
      BY <1>2, <2>1, <3>1 DEF Changing, Incremented
  <2> HIDE DEF v
  <2>4. /\ w \in Pager /\ w.state = x.state
        /\ IF 1 \in x.inJournal THEN Keeps(x, w) /\ w.needSync = x.needSync ELSE Adds(x, w, 1)
        /\ w.cache = [x.cache EXCEPT ![1] = v] /\ w.dirty = x.dirty \cup {1}
        /\ w.vers = x.vers /\ w.heldShared = x.heldShared
        /\ w.needSync = IF 1 \in x.inJournal THEN x.needSync ELSE x.needSync \cup {1}
    <3> DEFINE p == 1
    <3>1. p \in Page
      BY <2>2
    <3> HIDE DEF x, p
    <3>2. Modified(x, p, v) \in Pager /\ Modified(x, p, v).state = x.state
      BY <1>1, <2>2, <3>1, ModifiedPager
    <3>3. IF p \in x.inJournal
          THEN Keeps(x, Modified(x, p, v)) /\ Modified(x, p, v).needSync = x.needSync
          ELSE Adds(x, Modified(x, p, v), p)
      BY <1>1, <2>2, <3>1, ModifiedAdds
    <3>4. /\ Modified(x, p, v).cache = [x.cache EXCEPT ![p] = v]
          /\ Modified(x, p, v).dirty = x.dirty \cup {p}
          /\ Modified(x, p, v).vers = x.vers
          /\ Modified(x, p, v).heldShared = x.heldShared
          /\ Modified(x, p, v).needSync = IF p \in x.inJournal THEN x.needSync
                                          ELSE x.needSync \cup {p}
      BY <1>1, <2>2, <3>1, ModifiedData
    <3> QED
      BY <3>2, <3>3, <3>4 DEF p
  <2> HIDE DEF w
  <2>5. /\ z.state = w.state /\ z.op = "commit" /\ z.pc = "lock" /\ Keeps(w, z)
        /\ z.needSync = w.needSync /\ z.cache = w.cache /\ z.dirty = w.dirty
        /\ z.vers = w.vers /\ z.heldShared = w.heldShared
    BY <2>1, <2>4 DEF Pager, Keeps
  <2>6. z.inJournal = x.inJournal \cup {1} /\ z.txn = x.txn
    BY <2>4, <2>5 DEF Keeps, Adds
  <2>7. IF 1 \in x.inJournal THEN Keeps(x, z) /\ z.needSync = x.needSync
        ELSE Adds(x, z, 1) /\ z.needSync = x.needSync \cup {1}
    BY <2>4, <2>5 DEF Keeps, Adds
  <2>8. Writing1(x, z, 1, v)
    BY <2>4, <2>5, <2>6 DEF Writing1
  <2> DEFINE p == 1
  <2>9. /\ p \in Page /\ p = 1 /\ AddToJournal(c, p) /\ Writing1(x, z, p, v)
        /\ IF p \in x.inJournal THEN Keeps(x, z) /\ z.needSync = x.needSync
           ELSE Adds(x, z, p) /\ z.needSync = x.needSync \cup {p}
        /\ x.cache[p] # NoPage
    BY <2>1, <2>2, <2>3, <2>7, <2>8
  <2>10. /\ x.state \in {"WRITER_CACHEMOD", "WRITER_DBMOD"} /\ x.op = "none"
         /\ x.pc \in {"idle", "journal"} /\ UNCHANGED nTxn /\ UNCHANGED held
         /\ (v = IF p = 1 THEN X[1] + 1 ELSE x.txn)
    BY <2>1, <2>3
  <2> HIDE DEF p
  <2> QED
    BY <2>9, <2>10, PageChanged
<1>4. ASSUME NEW q \in Page, q # 1, WritePage(c, q)
      PROVE  Arrives(X, Y)
  <2> DEFINE v == x.txn
  <2>1. /\ z = Modified(x, q, v) /\ UNCHANGED nTxn /\ UNCHANGED held
        /\ AddToJournal(c, q) /\ x.op = "none" /\ x.pc \in {"idle", "journal"}
        /\ x.pc = "idle" => x.state \in {"WRITER_CACHEMOD", "WRITER_DBMOD"} /\ x.cache[q] # NoPage
        /\ x.pc = "journal" => x.page = q
    BY <1>1, <1>4 DEF WritePage, At
  <2>2. x.state \in {"WRITER_CACHEMOD", "WRITER_DBMOD"}
    <3> HIDE DEF x
    <3> QED
      BY <1>1, <2>1 DEF Legal, Stands
  <2>3. x.cache[q] # NoPage
    BY <1>2, <2>1, <2>2 DEF Changing
  <2>4. v \in Nat /\ q \in Page
    BY <1>1 DEF Pager
  <2>5. /\ z \in Pager /\ z.state = x.state /\ z.op = x.op /\ z.pc = "idle"
        /\ IF q \in x.inJournal THEN Keeps(x, z) /\ z.needSync = x.needSync ELSE Adds(x, z, q)
        /\ z.cache = [x.cache EXCEPT ![q] = v] /\ z.dirty = x.dirty \cup {q}
        /\ z.vers = x.vers /\ z.heldShared = x.heldShared
        /\ z.needSync = IF q \in x.inJournal THEN x.needSync ELSE x.needSync \cup {q}
    <3> HIDE DEF x, z, v
    <3>1. Modified(x, q, v) \in Pager /\ Modified(x, q, v).state = x.state
          /\ Modified(x, q, v).op = x.op /\ Modified(x, q, v).pc = "idle"
      BY <1>1, <2>4, ModifiedPager
    <3>2. IF q \in x.inJournal
          THEN Keeps(x, Modified(x, q, v)) /\ Modified(x, q, v).needSync = x.needSync
          ELSE Adds(x, Modified(x, q, v), q)
      BY <1>1, <2>4, ModifiedAdds
    <3>3. /\ Modified(x, q, v).cache = [x.cache EXCEPT ![q] = v]
          /\ Modified(x, q, v).dirty = x.dirty \cup {q}
          /\ Modified(x, q, v).vers = x.vers
          /\ Modified(x, q, v).heldShared = x.heldShared
          /\ Modified(x, q, v).needSync = IF q \in x.inJournal THEN x.needSync
                                          ELSE x.needSync \cup {q}
      <4>1. x \in Pager /\ q \in Page /\ v \in Nat
        BY <1>1, <2>4
      <4> QED
        BY <4>1, ModifiedData
    <3>4. z = Modified(x, q, v)
      BY <2>1
    <3> QED
      BY <3>1, <3>2, <3>3, <3>4, Zenon
  <2>6. Writing1(x, z, q, v)
    <3>1. z.inJournal = x.inJournal \cup {q} /\ z.txn = x.txn
      BY <2>5 DEF Keeps, Adds
    <3> QED
      BY <1>4, <2>1, <2>5, <3>1 DEF Writing1
  <2>7. IF q \in x.inJournal THEN Keeps(x, z) /\ z.needSync = x.needSync
        ELSE Adds(x, z, q) /\ z.needSync = x.needSync \cup {q}
    BY <2>5
  <2> QED
    <3>1. v = IF q = 1 THEN X[1] + 1 ELSE x.txn
      BY <1>4
    <3> HIDE DEF v
    <3> QED
      BY <2>1, <2>2, <2>3, <2>4, <2>6, <2>7, <3>1, PageChanged
<1>5. \A p \in Page \ {1} : p \in Page /\ p # 1
  OBVIOUS
<1> QED
  BY <1>3, <1>4, <1>5

-----------------------------------------------------------------------------
(* syncJournal. *)

\* What a transaction knows of its journal while it syncs it.
LEMMA SyncFacts ==
  ASSUME NEW c \in Client, NEW X, NEW Y, NEW h, Before(c, X, Y, h),
         pager[c].pc \in {"sync1", "nrec", "sync2", "newhdr"}
  PROVE  /\ Writes(pager[c]) /\ held[c] = EXCLUSIVE_LOCK /\ pager[c].op \in {"spill", "commit"}
         /\ pager[c].state \in {"WRITER_CACHEMOD", "WRITER_DBMOD"}
         /\ WriterOK(pager[c], X, h) /\ Changing(pager[c], X, h) /\ Counters(pager[c])
         /\ Contents(pager[c], jrnl) /\ Unsealed(pager[c], jrnl)
         /\ pager[c].heldShared /\ pager[c].cache[1] # NoPage
         /\ pager[c].hdr \in Nat /\ pager[c].off \in Nat /\ pager[c].nRec \in Nat
         /\ h \in Nat /\ h >= 1 /\ JLen \in Nat
<1> DEFINE x == pager[c]
<1>1. /\ x \in Pager /\ held[c] \in Level /\ Legal(x, held[c]) /\ ClientOK(x, held[c], X, h)
      /\ JournalOK(x) /\ h \in Places
  BY StepFacts
<1>2. x.pc \in {"sync1", "nrec", "sync2", "newhdr"}
  OBVIOUS
<1> HIDE DEF x
<1>3. /\ x.op \in {"spill", "commit"} /\ x.state \in {"WRITER_CACHEMOD", "WRITER_DBMOD"}
      /\ held[c] = EXCLUSIVE_LOCK
  BY <1>1, <1>2 DEF Legal, Stands
<1>4. Writes(x)
  BY <1>2, <1>3 DEF Writes, Writing
<1>5. /\ WriterOK(x, X, h) /\ Counters(x) /\ Contents(x, jrnl) /\ Unsealed(x, jrnl)
  BY <1>1, <1>4 DEF ClientOK, JournalOK
<1>6. Changing(x, X, h) /\ x.cache[1] # NoPage
  BY <1>3, <1>5 DEF WriterOK
<1>7. x.heldShared
  BY <1>1, <1>3 DEF ClientOK
<1>8. x.hdr \in Nat /\ x.off \in Nat /\ x.nRec \in Nat /\ h \in Nat /\ h >= 1 /\ JLen \in Nat
  BY <1>1, Sizes DEF Pager, Places
<1> QED
  BY <1>3, <1>4, <1>5, <1>6, <1>7, <1>8 DEF x

\* The last header is the one at h, and behind it are the records it will announce.
LEMMA LastHeader ==
  ASSUME NEW c \in Client, NEW X, NEW Y, NEW h, Before(c, X, Y, h),
         pager[c].pc \in {"sync1", "nrec", "sync2"}
  PROVE  /\ h = pager[c].hdr /\ h \in Slot /\ pager[c].off = h + pager[c].nRec + 1
         /\ h + pager[c].nRec <= JLen
         /\ \A i \in (h + 1) .. (h + pager[c].nRec) : i \in Mine(pager[c], jrnl)
         /\ pager[c].pc # "sync2" => jrnl[h] = Header(pager[c].txn, 0)
         /\ pager[c].pc = "sync2" => jrnl[h] = Header(pager[c].txn, pager[c].nRec)
<1> DEFINE x == pager[c]
<1>1. x.pc \in {"sync1", "nrec", "sync2"}
  OBVIOUS
<1>2. /\ x.op \in {"spill", "commit"} /\ x.state \in {"WRITER_CACHEMOD", "WRITER_DBMOD"}
      /\ WriterOK(x, X, h) /\ Counters(x) /\ Contents(x, jrnl) /\ Unsealed(x, jrnl)
      /\ x.hdr \in Nat /\ x.off \in Nat /\ x.nRec \in Nat /\ h \in Nat /\ h >= 1 /\ JLen \in Nat
  BY SyncFacts
<1>3. x \in Pager
  BY StepFacts
<1> HIDE DEF x
<1>4. ~Between(x)
  BY <1>1, <1>2 DEF Between
<1>5. x.hdr < x.off /\ x.off = x.hdr + x.nRec + 1
  <2>1. x.hdr \in 1 .. x.off /\ x.hdr # x.off /\ (x.hdr < x.off => x.off = x.hdr + x.nRec + 1)
    BY <1>2, <1>4 DEF Counters
  <2> QED
    BY <1>2, <2>1
<1>6. h = x.hdr
  BY <1>2, <1>5 DEF WriterOK, Bound
<1>7. \A i \in (h + 1) .. (h + x.nRec) : i \in Mine(x, jrnl)
  <2>1. h + x.nRec = x.off - 1
    BY <1>2, <1>5, <1>6
  <2> QED
    BY <1>2, <1>6, <2>1 DEF Contents
<1>8. h + x.nRec <= JLen
  <2>1. CASE x.nRec = 0
    \* a header that has no record yet is in the journal all the same
    <3>1. x.off <= 2 * Body(x) + 2 + PageOne(x) /\ Body(x) \in Nat /\ Body(x) <= NPage - 1
          /\ PageOne(x) \in {0, 1} /\ JLen = 2 * NPage /\ NPage \in Nat
      BY <1>2, <1>3, BodySize, Sizes DEF Counters
    <3> QED
      BY <1>2, <1>5, <1>6, <2>1, <3>1
  <2>2. CASE x.nRec > 0
    <3>1. h + x.nRec \in (h + 1) .. (h + x.nRec)
      BY <1>2, <2>2
    <3>2. h + x.nRec \in Slot
      BY <1>7, <3>1 DEF Mine
    <3> QED
      BY <1>2, <3>2 DEF Slot
  <2> QED
    BY <1>2, <2>1, <2>2
<1>9. h \in Slot
  BY <1>2, <1>8 DEF Slot
<1>10. x.pc # "sync2" => jrnl[h] = Header(x.txn, 0)
  BY <1>2, <1>5, <1>6 DEF Unsealed, Sealed
<1>11. x.pc = "sync2" => jrnl[h] = Header(x.txn, x.nRec)
  BY <1>2, <1>6 DEF WriterOK
<1> QED
  BY <1>5, <1>6, <1>7, <1>8, <1>9, <1>10, <1>11 DEF x

\* The pages of the transaction stay while the journal is synced.
SamePages(x, z) ==
    /\ z.cache = x.cache /\ z.dirty = x.dirty /\ z.vers = x.vers /\ z.txn = x.txn
    /\ z.inJournal = x.inJournal /\ z.op = x.op /\ z.page = x.page
    /\ z.heldShared = x.heldShared

\* A sync keeps the account of a transaction that changes pages.
LEMMA SyncChanging ==
  ASSUME NEW c \in Client, NEW X, NEW h, NEW h2, Changing(pager[c], X, h), UNCHANGED db,
         SamePages(pager[c], pager'[c]), pager[c].pc \notin {"write", "dbsync"},
         pager'[c].pc \notin {"journal", "dbsync"},
         \A p \in pager[c].inJournal : p \in pager'[c].needSync \/ Covered(jrnl', h2, p),
         pager'[c].pc = "write" => /\ pager'[c].needSync = {}
                                   /\ pager'[c].op = "commit" => pager'[c].dirty # {}
  PROVE  Changing(pager[c], X, h2)'
BY DEF Changing, SamePages

\* Syncing the journal: what is in the file, up to k, is on the disk.
LEMMA SyncedAt ==
  ASSUME NEW X, NEW h \in Places, Files, DiskOK(X, h), SyncJournalFile,
         NEW k \in Places, Laid(jrnl, k, X),
         \A p \in Page : Covered(jrnl, h, p) => Covered(jrnl, k, p)
  PROVE  /\ DiskOK(X, k)' /\ UNCHANGED <<db, dbDisk, jrnl>>
         /\ \A i \in Slot : jDisk'[i] = {jrnl[i]}
<1>1. UNCHANGED <<db, dbDisk, jrnl>> /\ \A i \in Slot : jDisk'[i] = {jrnl[i]}
  BY DEF SyncJournalFile
<1>2. ASSUME k \in Slot, Valid(jrnl[k])
      PROVE  \A i \in (k + 1) .. (k + jrnl[k].n) : i \in Slot
  <2>1. k + jrnl[k].n <= JLen /\ k \in Nat /\ k >= 1 /\ JLen \in Nat /\ jrnl[k].n \in Nat
    BY <1>2, Sizes DEF Laid, Places, Files, PagedSlot, SlotRec
  <2> DEFINE n == jrnl[k].n
  <2> HIDE DEF n
  <2>2. \A i \in (k + 1) .. (k + n) : i \in Slot
    BY <2>1 DEF Slot, n
  <2> QED
    BY <2>2 DEF n
<1>3. k \in Slot => \A s \in jDisk'[k] :
          Valid(s) => s = jrnl[k] /\ \A i \in (k + 1) .. (k + s.n) : jDisk'[i] = {jrnl[i]}
  BY <1>1, <1>2
<1>4. \A i \in Slot : i > k => \A s \in jDisk'[i] : s.kind # "hdr"
  BY <1>1 DEF Laid
<1>5. \A p \in Page : db[p] \in dbDisk[p] /\ (dbDisk[p] = {X[p]} \/ Covered(jrnl, k, p))
  BY DEF DiskOK
<1>6. DiskOK(X, k)'
  BY <1>1, <1>3, <1>4, <1>5 DEF DiskOK
<1> QED
  BY <1>1, <1>6

\* A sync of the journal file leaves what a recovery finds.
LEMMA JournalSynced ==
  ASSUME NEW X, NEW h \in Places, Files, DiskOK(X, h), SyncJournalFile
  PROVE  /\ DiskOK(X, h)' /\ UNCHANGED <<db, dbDisk, jrnl>>
         /\ \A i \in Slot : jDisk'[i] = {jrnl[i]}
<1>1. Laid(jrnl, h, X)
  BY DEF DiskOK
<1> QED
  BY <1>1, SyncedAt

\* The first sync: no deleted journal comes back.
LEMMA FirstSyncStep ==
  ASSUME NEW c \in Client, NEW X, NEW Y, NEW h, Before(c, X, Y, h), FirstSync(c)
  PROVE  Arrives(X, Y)
<1> DEFINE x == pager[c]
           z == pager'[c]
<1>1. /\ x \in Pager /\ pager \in [Client -> Pager] /\ Files /\ DiskOK(X, h)
      /\ h \in Places /\ Versions(X, Y) /\ nTxn \in Nat
  BY StepFacts
<1>2. /\ x.pc = "sync1" /\ SyncJournalFile /\ ghosts' = {} /\ UNCHANGED <<held, nTxn>>
      /\ pager' = [pager EXCEPT ![c].pc = "nrec"]
  BY DEF FirstSync, Goto
<1>3. /\ Writes(x) /\ held[c] = EXCLUSIVE_LOCK /\ x.op \in {"spill", "commit"}
      /\ x.state \in {"WRITER_CACHEMOD", "WRITER_DBMOD"} /\ x.cache[1] # NoPage
      /\ WriterOK(x, X, h) /\ Changing(x, X, h) /\ x.heldShared
      /\ x.hdr \in Nat /\ x.off \in Nat /\ x.nRec \in Nat /\ h \in Nat
  BY <1>2, SyncFacts
<1>4. h = x.hdr /\ x.off = h + x.nRec + 1
  BY <1>2, LastHeader
<1>5. /\ SamePages(x, z) /\ z.state = x.state /\ z.pc = "nrec" /\ z.needSync = x.needSync
      /\ Keeps(x, z)
  BY <1>1, <1>2 DEF Pager, SamePages, Keeps
<1>6. /\ DiskOK(X, h)' /\ UNCHANGED <<db, dbDisk, jrnl>> /\ \A i \in Slot : jDisk'[i] = {jrnl[i]}
  BY <1>1, <1>2, JournalSynced
<1>7. Changing(pager[c], X, h)'
  <2>1. \A p \in x.inJournal : p \in z.needSync \/ Covered(jrnl', h, p)
    BY <1>3, <1>5, <1>6 DEF Changing
  <2> QED
    BY <1>2, <1>3, <1>5, <1>6, <2>1, SyncChanging
<1>8. WriterOK(pager[c], X, h)'
  <2>1. h # z.off /\ z.hdr = h /\ z.txn = x.txn /\ z.nRec = x.nRec /\ z.cache[1] # NoPage
    BY <1>3, <1>4, <1>5 DEF Keeps, SamePages
  <2>2. Mine(pager[c], jrnl)' = Mine(x, jrnl)
    BY <1>5, <1>6 DEF Mine, Keeps
  <2>3. (Body(pager[c]) + PageOne(pager[c]))' = Body(x) + PageOne(x)
    BY <1>5 DEF Body, PageOne, Keeps
  <2>4. z.op # "rollback" /\ z.state # "WRITER_FINISHED"
    BY <1>3, <1>5 DEF SamePages
  <2> HIDE DEF x
  <2> QED
    BY <1>2, <1>3, <1>5, <1>6, <1>7, <2>1, <2>2, <2>3, <2>4 DEF WriterOK, Bound
<1>9. ClientOK(pager[c], held[c], X, h)'
  <2>1. Writes(z) /\ z.op # "hot" /\ z.heldShared = x.heldShared
    BY <1>3, <1>5 DEF Writes, Writing, SamePages
  <2>2. ~Cool(z, held'[c])
    BY <1>2, <1>3, <1>5 DEF Cool
  <2> QED
    BY <1>3, <1>8, <2>1, <2>2, WriterArrives
<1>10. Versions(X, X)' /\ GhostsOK(X, X)' /\ AtomicStep(X, Y, X, X)
  BY <1>1, <1>2 DEF Versions, GhostsOK, AtomicStep
<1> QED
  BY <1>1, <1>3, <1>6, <1>9, <1>10, WholeStep

\* The number of records goes into the header once they are on the disk.
LEMMA WriteNRecStep ==
  ASSUME NEW c \in Client, NEW X, NEW Y, NEW h, Before(c, X, Y, h), WriteNRec(c)
  PROVE  Arrives(X, Y)
<1> DEFINE x == pager[c]
           z == pager'[c]
           n == x.nRec
           t == x.txn
<1>1. /\ x \in Pager /\ pager \in [Client -> Pager] /\ Files /\ DiskOK(X, h) /\ GhostsOK(X, Y)
      /\ h \in Places /\ Versions(X, Y) /\ nTxn \in Nat
  BY StepFacts
<1>2. /\ x.pc = "nrec" /\ PatchHeader(x.hdr, n) /\ UNCHANGED <<held, nTxn>>
      /\ pager' = [pager EXCEPT ![c].pc = "sync2"]
  BY DEF WriteNRec, Goto
<1>3. /\ Writes(x) /\ held[c] = EXCLUSIVE_LOCK /\ x.op \in {"spill", "commit"}
      /\ x.state \in {"WRITER_CACHEMOD", "WRITER_DBMOD"} /\ x.cache[1] # NoPage
      /\ WriterOK(x, X, h) /\ Changing(x, X, h) /\ x.heldShared
      /\ x.off \in Nat /\ n \in Nat /\ h \in Nat /\ h >= 1 /\ JLen \in Nat
  BY <1>2, SyncFacts
<1>4. /\ h = x.hdr /\ x.off = h + n + 1 /\ h \in Slot /\ h + n <= JLen
      /\ \A i \in (h + 1) .. (h + n) : i \in Mine(x, jrnl)
      /\ jrnl[h] = Header(t, 0)
  BY <1>2, LastHeader
<1>5. /\ SamePages(x, z) /\ z.state = x.state /\ z.pc = "sync2" /\ z.needSync = x.needSync
      /\ Keeps(x, z)
  BY <1>1, <1>2 DEF Pager, SamePages, Keeps
<1>6. /\ jrnl'[h] = Header(t, n) /\ jDisk'[h] = jDisk[h] \cup {Header(t, n)}
      /\ \A i \in Slot \ {h} : jrnl'[i] = jrnl[i] /\ jDisk'[i] = jDisk[i]
      /\ UNCHANGED <<db, dbDisk, ghosts>>
  <2>1. [jrnl[h] EXCEPT !.n = n] = Header(t, n)
    BY <1>4 DEF Header
  <2> QED
    BY <1>1, <1>2, <1>4, <2>1 DEF PatchHeader, Files
<1>7. ghosts = {} /\ \A i \in Slot : jDisk[i] = {jrnl[i]}
  BY <1>2, <1>3 DEF WriterOK
<1>8. \A i \in Slot : i # h => jrnl'[i] = jrnl[i] /\ jDisk'[i] = {jrnl'[i]}
  BY <1>6, <1>7
<1>9. /\ \A i \in Mine(x, jrnl) : i \in Slot /\ i # h /\ jrnl'[i] = jrnl[i]
      /\ Mine(z, jrnl') = Mine(x, jrnl)
  <2>1. jrnl[h].kind # "rec" /\ jrnl'[h].kind # "rec"
    BY <1>4, <1>6 DEF Header
  <2>2. \A i : i \in Mine(x, jrnl) <=> i \in Slot /\ i # h /\ jrnl[i].kind = "rec" /\ jrnl[i].key = t
    BY <2>1 DEF Mine
  <2>3. \A i : i \in Mine(z, jrnl') <=> i \in Slot /\ i # h /\ jrnl'[i].kind = "rec" /\ jrnl'[i].key = t
    BY <1>5, <2>1 DEF Mine, Keeps
  <2>4. \A i : i \in Mine(z, jrnl') <=> i \in Mine(x, jrnl)
    BY <1>8, <2>2, <2>3
  <2>5. Mine(z, jrnl') = Mine(x, jrnl)
    BY <2>4, Zenon
  <2> QED
    BY <1>8, <2>2, <2>5
<1>10. \A i \in Mine(x, jrnl) : jrnl'[i].kind = "rec" /\ jrnl'[i].key = t
                                /\ jrnl'[i].n = X[jrnl'[i].pg]
  BY <1>3, <1>9 DEF WriterOK, Mine
<1>11. \A i \in Slot : i < h => i # h
  BY <1>3, Sizes
<1>12. \A i \in Slot : i > h => i # h
  BY <1>3, Sizes
<1>13. jrnl'[h].n = n /\ jrnl'[h].key = t /\ ~Valid(Header(t, 0))
  BY <1>6 DEF Header, Valid
<1> HIDE DEF n, t, z
<1>14. Laid(jrnl', h, X)
  <2>1. Chain(jrnl', h)
    <3>1. Readable(jrnl) /\ Chain(jrnl, h)
      BY <1>1 DEF DiskOK, Laid, Files, Readable
    <3> QED
      BY <1>1, <1>8, <1>11, <3>1, ChainPrefix
  <2>2. \A i \in Slot : i > h => jrnl'[i].kind # "hdr"
    BY <1>1, <1>8, <1>12 DEF DiskOK, Laid
  <2>3. \A i \in Slot : i < h /\ jrnl'[i].kind = "rec" => jrnl'[i].n = X[jrnl'[i].pg]
    BY <1>1, <1>8, <1>11 DEF DiskOK, Laid
  <2>4. \A i \in (h + 1) .. (h + jrnl'[h].n) :
           jrnl'[i].kind = "rec" /\ jrnl'[i].key = jrnl'[h].key /\ jrnl'[i].n = X[jrnl'[i].pg]
    BY <1>4, <1>10, <1>13
  <2>5. h + jrnl'[h].n <= JLen
    BY <1>4, <1>13
  <2> QED
    BY <2>1, <2>2, <2>3, <2>4, <2>5 DEF Laid
<1>15. \A p \in Page : Covered(jrnl', h, p) <=> Covered(jrnl, h, p)
  BY <1>8, <1>11 DEF Covered
<1>16. DiskOK(X, h)'
  <2>1. \A i \in Slot : /\ jrnl'[i] \in jDisk'[i]
                        /\ i < h => jDisk'[i] = {jrnl'[i]}
                        /\ i > h => \A s \in jDisk'[i] : s.kind # "hdr"
    <3>1. jrnl'[h] \in jDisk'[h] /\ ~(h < h) /\ ~(h > h)
      BY <1>3, <1>6
    <3>2. \A i \in Slot : i # h => /\ jrnl'[i] \in jDisk'[i]
                                   /\ i < h => jDisk'[i] = {jrnl'[i]}
                                   /\ i > h => \A s \in jDisk'[i] : s.kind # "hdr"
      BY <1>8, <1>14 DEF Laid
    <3> QED
      BY <3>1, <3>2
  <2>2. \A s \in jDisk'[h] :
           Valid(s) => s = jrnl'[h] /\ \A i \in (h + 1) .. (h + s.n) : jDisk'[i] = {jrnl'[i]}
    <3>1. \A s \in jDisk'[h] : Valid(s) => s = jrnl'[h]
      BY <1>4, <1>6, <1>7, <1>13
    <3>2. \A i \in (h + 1) .. (h + jrnl'[h].n) : jDisk'[i] = {jrnl'[i]}
      BY <1>4, <1>8, <1>9, <1>13
    <3> QED
      BY <3>1, <3>2
  <2>3. \A p \in Page : db'[p] \in dbDisk'[p] /\ (dbDisk'[p] = {X[p]} \/ Covered(jrnl', h, p))
    BY <1>1, <1>6, <1>15 DEF DiskOK
  <2> QED
    BY <1>14, <2>1, <2>2, <2>3 DEF DiskOK
<1>17. Changing(pager[c], X, h)'
  <2>1. \A p \in x.inJournal : p \in z.needSync \/ Covered(jrnl', h, p)
    <3>1. x.inJournal \subseteq Page
      BY <1>1 DEF Pager
    <3> QED
      BY <1>3, <1>5, <1>15, <3>1 DEF Changing
  <2>2. pager'[c] = z
    BY DEF z
  <2> QED
    BY <1>2, <1>3, <1>5, <1>6, <2>1, <2>2, SyncChanging
<1>18. WriterOK(pager[c], X, h)'
  <2>1. h # z.off /\ z.hdr = h /\ z.txn = t /\ z.nRec = n /\ z.cache[1] # NoPage
    <3>1. h # h + n + 1
      BY <1>3
    <3> QED
      BY <1>3, <1>4, <1>5, <3>1 DEF Keeps, SamePages, n, t
  <2>2. Mine(pager[c], jrnl)' = Mine(x, jrnl)
    BY <1>9 DEF Mine, z
  <2>3. (Body(pager[c]) + PageOne(pager[c]))' = Body(x) + PageOne(x)
    BY <1>5 DEF Body, PageOne, Keeps, z
  <2>4. z.op # "rollback" /\ z.state # "WRITER_FINISHED"
    BY <1>3, <1>5 DEF SamePages
  <2>5. \A i \in Slot : i < h => jrnl'[i].key = t
    BY <1>3, <1>8, <1>11 DEF WriterOK, t
  <2>6. /\ \A p \in Page : X[p] < t
        /\ n <= Body(x) + PageOne(x)
        /\ x.state = "WRITER_CACHEMOD" => \A p \in Page : dbDisk[p] = {X[p]}
    BY <1>3 DEF WriterOK, t, n
  <2>7. \A i \in Mine(x, jrnl) : jrnl'[i].n = X[jrnl'[i].pg]
    BY <1>10
  <2>8. pager'[c] = z
    BY DEF z
  <2> HIDE DEF x
  <2> QED
    BY <1>5, <1>6, <1>17, <2>1, <2>2, <2>3, <2>4, <2>5, <2>6, <2>7, <2>8 DEF WriterOK, Bound
<1>19. pager'[c] = z
  BY DEF z
<1>20. ClientOK(pager[c], held[c], X, h)'
  <2>1. Writes(z) /\ z.op # "hot" /\ z.heldShared = x.heldShared
    BY <1>3, <1>5 DEF Writes, Writing, SamePages
  <2>2. ~Cool(z, held'[c])
    BY <1>2, <1>3, <1>5 DEF Cool
  <2> QED
    BY <1>3, <1>18, <1>19, <2>1, <2>2, WriterArrives
<1>21. Versions(X, Y)' /\ GhostsOK(X, Y)' /\ AtomicStep(X, Y, X, Y)
  <2>1. Y = X /\ ghosts' = {}
    BY <1>1, <1>6, <1>7 DEF GhostsOK
  <2> QED
    BY <1>1, <1>2, <2>1 DEF Versions, GhostsOK, AtomicStep
<1> QED
  BY <1>1, <1>3, <1>16, <1>20, <1>21, WholeStep

\* A header with its number of records and the records is one more link.
LEMMA ChainGrows ==
  ASSUME NEW j, Readable(j), NEW X, NEW h \in Slot, Laid(j, h, X), Valid(j[h])
  PROVE  /\ h + j[h].n + 1 \in Places /\ Laid(j, h + j[h].n + 1, X)
         /\ \A p \in Page : Covered(j, h, p) => Covered(j, h + j[h].n + 1, p)
<1> DEFINE n == j[h].n
           k == h + n + 1
<1>1. /\ h \in Nat /\ h >= 1 /\ JLen \in Nat /\ n \in Nat /\ n > 0 /\ h + n <= JLen
      /\ j[h].kind = "hdr"
      /\ \A i \in (h + 1) .. (h + n) :
            j[i].kind = "rec" /\ j[i].key = j[h].key /\ j[i].n = X[j[i].pg]
  BY Sizes DEF Readable, PagedSlot, SlotRec, Slot, Laid, Valid
<1> HIDE DEF n
<1>2. k \in Nat /\ k \in Places /\ h < k
  BY <1>1 DEF Places
<1>3. \A i \in Slot : i \in Nat /\ (i < k => i < h \/ i = h \/ i \in (h + 1) .. (h + n))
                      /\ (i > k => i > h) /\ (i < h => i < k)
  BY <1>1, Sizes
<1>4. Chain(j, k)
  <2>1. \A i \in Slot : i < k => j[i].kind \in {"hdr", "rec"}
    BY <1>1, <1>3 DEF Laid, Chain
  <2>2. j[1].kind = "hdr"
    <3>1. h = 1 \/ h > 1
      BY <1>1
    <3> QED
      BY <1>1, <3>1 DEF Laid, Chain
  <2>3. ASSUME NEW i \in Slot, i < k, j[i].kind = "hdr"
        PROVE  /\ j[i].n > 0 /\ i + j[i].n < k
               /\ \A m \in (i + 1) .. (i + j[i].n) : j[m].kind = "rec" /\ j[m].key = j[i].key
               /\ i + j[i].n + 1 < k => j[i + j[i].n + 1].kind = "hdr"
    <3>1. CASE i = h
      BY <1>1, <3>1 DEF n
    <3>2. CASE i # h
      <4> DEFINE m == j[i].n
                 e == i + m + 1
      <4>1. i < h
        BY <1>1, <1>3, <2>3, <3>2
      <4>2. /\ m \in Nat /\ m > 0 /\ i + m < h
            /\ \A q \in (i + 1) .. (i + m) : j[q].kind = "rec" /\ j[q].key = j[i].key
            /\ e < h => j[e].kind = "hdr"
        BY <2>3, <4>1 DEF Laid, Chain, Readable, PagedSlot, SlotRec
      <4>3. i + m < k /\ (e < h \/ e = h)
        <5> HIDE DEF m
        <5> QED
          BY <1>1, <1>2, <1>3, <4>2
      <4>4. j[e].kind = "hdr"
        <5> HIDE DEF e
        <5> QED
          BY <1>1, <4>2, <4>3
      <4> QED
        BY <4>2, <4>3, <4>4
    <3> QED
      BY <3>1, <3>2
  <2> QED
    BY <2>1, <2>2, <2>3 DEF Chain
<1>5. \A i \in Slot : i > k => j[i].kind # "hdr"
  BY <1>3 DEF Laid
<1>6. \A i \in Slot : i < k /\ j[i].kind = "rec" => j[i].n = X[j[i].pg]
  BY <1>1, <1>3 DEF Laid
<1>7. k \in Slot => ~Valid(j[k])
  BY <1>2 DEF Laid, Valid
<1>8. \A p \in Page : Covered(j, h, p) => Covered(j, k, p)
  BY <1>3 DEF Covered
<1>9. Laid(j, k, X)
  BY <1>4, <1>5, <1>6, <1>7 DEF Laid
<1> QED
  BY <1>2, <1>8, <1>9 DEF n

\* The second sync: from now on the records restore the pages they are of.
LEMMA SecondSyncStep ==
  ASSUME NEW c \in Client, NEW X, NEW Y, NEW h, Before(c, X, Y, h), SecondSync(c)
  PROVE  Arrives(X, Y)
<1> DEFINE x == pager[c]
           z == pager'[c]
           n == x.nRec
           t == x.txn
<1>1. /\ x \in Pager /\ pager \in [Client -> Pager] /\ Files /\ DiskOK(X, h) /\ GhostsOK(X, Y)
      /\ h \in Places /\ Versions(X, Y) /\ nTxn \in Nat
  BY StepFacts
<1>2. /\ x.pc = "sync2" /\ SyncJournalFile /\ UNCHANGED ghosts /\ UNCHANGED <<held, nTxn>>
  BY DEF SecondSync
<1>3. /\ Writes(x) /\ held[c] = EXCLUSIVE_LOCK /\ x.op \in {"spill", "commit"}
      /\ x.state \in {"WRITER_CACHEMOD", "WRITER_DBMOD"} /\ x.cache[1] # NoPage
      /\ WriterOK(x, X, h) /\ Changing(x, X, h) /\ x.heldShared /\ Counters(x)
      /\ x.off \in Nat /\ n \in Nat /\ h \in Nat /\ h >= 1 /\ JLen \in Nat /\ Contents(x, jrnl)
  BY <1>2, SyncFacts
<1>4. /\ h = x.hdr /\ x.off = h + n + 1 /\ h \in Slot /\ h + n <= JLen
      /\ \A i \in (h + 1) .. (h + n) : i \in Mine(x, jrnl)
      /\ jrnl[h] = Header(t, n)
  BY <1>2, LastHeader
<1>5. /\ SamePages(x, z) /\ z.nRec = n /\ z.hdr = x.off /\ z.off = x.off
      /\ IF x.op = "spill"
         THEN z.state = x.state /\ z.pc = "newhdr" /\ z.needSync = x.needSync
         ELSE z.state = "WRITER_DBMOD" /\ z.pc = "write" /\ z.needSync = {}
  <2> DEFINE spill == x.op = "spill"
             state == IF spill THEN x.state ELSE "WRITER_DBMOD"
             needSync == IF spill THEN x.needSync ELSE {}
             pc == IF spill THEN "newhdr" ELSE "write"
  <2>1. pager'[c] = [x EXCEPT !.hdr = x.off, !.needSync = needSync, !.state = state, !.pc = pc]
    BY <1>1 DEF SecondSync
  <2> HIDE DEF state, needSync, pc
  <2>2. /\ SamePages(x, z) /\ z.nRec = n /\ z.hdr = x.off /\ z.off = x.off
        /\ z.state = state /\ z.pc = pc /\ z.needSync = needSync
    BY <1>1, <2>1 DEF Pager, SamePages
  <2> QED
    BY <2>2 DEF state, needSync, pc
<1>6. x.op # "spill" => x.dirty # {}
  BY <1>2, <1>3 DEF Changing
<1>7. UNCHANGED <<db, dbDisk, jrnl>> /\ \A i \in Slot : jDisk'[i] = {jrnl[i]}
  BY <1>1, <1>2, JournalSynced
<1>8. ASSUME NEW k \in Places, DiskOK(X, k)', Bound(pager[c], k)',
             \A i \in Slot : i < k => jrnl[i].key = t,
             k = x.off /\ k \in Slot => jrnl[k].kind # "hdr",
             \A p \in x.inJournal : p \in z.needSync \/ Covered(jrnl, k, p)
      PROVE  Arrives(X, Y)
  <2>1. Changing(pager[c], X, k)'
    <3>1. \A p \in x.inJournal : p \in z.needSync \/ Covered(jrnl', k, p)
      BY <1>7, <1>8
    <3>2. z.pc \notin {"journal", "dbsync"} /\ (z.pc = "write" => z.needSync = {}
                           /\ (z.op = "commit" => z.dirty # {}))
      BY <1>5, <1>6 DEF SamePages
    <3> QED
      BY <1>2, <1>3, <1>5, <1>7, <3>1, <3>2, SyncChanging
  <2>2. WriterOK(pager[c], X, k)'
    <3>1. z.txn = t /\ z.nRec = n /\ z.cache[1] # NoPage /\ z.off = x.off
      BY <1>3, <1>5 DEF SamePages
    <3>2. Mine(pager[c], jrnl)' = Mine(x, jrnl)
      BY <1>5, <1>7 DEF Mine, SamePages
    <3>3. (Body(pager[c]) + PageOne(pager[c]))' = Body(x) + PageOne(x)
      BY <1>5 DEF Body, PageOne, SamePages
    <3>4. z.op # "rollback" /\ z.state # "WRITER_FINISHED" /\ z.pc \notin {"nrec", "sync2"}
          /\ (z.state = "WRITER_CACHEMOD" => x.state = "WRITER_CACHEMOD")
      BY <1>3, <1>5 DEF SamePages
    <3>5. /\ \A p \in Page : X[p] < t
          /\ n <= Body(x) + PageOne(x)
          /\ x.state = "WRITER_CACHEMOD" => \A p \in Page : dbDisk[p] = {X[p]}
          /\ \A i \in Mine(x, jrnl) : jrnl[i].n = X[jrnl[i].pg]
      BY <1>3 DEF WriterOK
    <3>6. k = z.off /\ k \in Slot => \A s \in jDisk'[k] : s.kind # "hdr"
      BY <1>7, <1>8, <3>1
    <3> HIDE DEF x, n, t
    <3> QED
      BY <1>7, <1>8, <2>1, <3>1, <3>2, <3>3, <3>4, <3>5, <3>6 DEF WriterOK
  <2>3. Writes(z) /\ z.op # "hot" /\ z.heldShared = x.heldShared
    BY <1>3, <1>5 DEF Writes, Writing, SamePages
  <2>4. ~Cool(z, held'[c])
    BY <1>2, <1>3, <1>5 DEF Cool
  <2>5. ClientOK(pager[c], held[c], X, k)'
    BY <1>3, <2>2, <2>3, <2>4, WriterArrives
  <2>6. Versions(X, Y)' /\ AtomicStep(X, Y, X, Y)
    BY <1>1, <1>2 DEF Versions, AtomicStep
  <2>7. GhostsOK(X, Y)'
    <3>1. ghosts # {} => ~Valid(jrnl[1])
      BY <1>1, Sizes DEF GhostsOK, DiskOK
    <3> QED
      BY <1>1, <1>2, <1>7, <3>1, Sizes DEF GhostsOK
  <2> QED
    BY <1>3, <1>8, <2>5, <2>6, <2>7, WholeStep
<1>9. CASE n > 0
  <2>1. Valid(jrnl[h]) /\ jrnl[h].n = n /\ Readable(jrnl) /\ Laid(jrnl, h, X)
    BY <1>1, <1>4, <1>9 DEF Valid, Header, Files, Readable, DiskOK
  <2>2. PICK k \in Places :
           /\ k = h + n + 1 /\ Laid(jrnl, k, X)
           /\ \A p \in Page : Covered(jrnl, h, p) => Covered(jrnl, k, p)
    <3>1. /\ h + n + 1 \in Places /\ Laid(jrnl, h + n + 1, X)
          /\ \A p \in Page : Covered(jrnl, h, p) => Covered(jrnl, h + n + 1, p)
      BY <1>4, <2>1, ChainGrows
    <3> QED
      BY <3>1
  <2>3. k = x.off /\ h < k /\ k \in Nat
    BY <1>3, <1>4, <2>2
  <2>4. DiskOK(X, k)'
    BY <1>1, <1>2, <2>2, SyncedAt
  <2>5. Bound(pager[c], k)'
    BY <1>5, <2>3 DEF Bound
  <2>6. \A i \in Slot : i < k => jrnl[i].key = t
    <3>1. \A i \in Slot : i < k => i < h \/ i = h \/ i \in (h + 1) .. (h + n)
      BY <1>3, <1>4, <2>3, Sizes
    <3>2. \A i \in Slot : i < h => jrnl[i].key = t
      BY <1>3 DEF WriterOK
    <3>3. jrnl[h].key = t
      BY <1>4 DEF Header
    <3>4. \A i \in (h + 1) .. (h + n) : jrnl[i].key = t
      BY <1>4 DEF Mine
    <3> QED
      BY <3>1, <3>2, <3>3, <3>4
  <2>7. k \in Slot => jrnl[k].kind # "hdr"
    BY <2>1, <2>3 DEF Laid
  <2>8. \A p \in x.inJournal : Covered(jrnl, k, p)
    <3>1. \A i \in Mine(x, jrnl) : i \in Slot /\ i < k /\ jrnl[i].kind = "rec"
      BY <1>3, <2>3 DEF Contents, Mine
    <3>2. \A p \in x.inJournal : \E i \in Mine(x, jrnl) : jrnl[i].pg = p
      BY <1>3 DEF Contents
    <3> QED
      BY <3>1, <3>2 DEF Covered
  <2> QED
    BY <1>8, <2>2, <2>4, <2>5, <2>6, <2>7, <2>8
<1>10. CASE n = 0
  <2>1. x.op = "commit" /\ x.needSync = {}
    BY <1>2, <1>3, <1>10 DEF Counters
  <2>2. DiskOK(X, h)'
    BY <1>1, <1>2, JournalSynced
  <2>3. Bound(pager[c], h)'
    <3>1. h + 1 = z.hdr /\ z.hdr = z.off /\ z.nRec = 0 /\ jrnl'[h] = Header(z.txn, 0)
      BY <1>3, <1>4, <1>5, <1>7, <1>10 DEF SamePages
    <3> QED
      BY <3>1 DEF Bound
  <2>4. \A i \in Slot : i < h => jrnl[i].key = t
    BY <1>3 DEF WriterOK
  <2>5. h # x.off
    BY <1>3, <1>4
  <2>6. \A p \in x.inJournal : Covered(jrnl, h, p)
    BY <1>3, <2>1 DEF Changing
  <2> QED
    BY <1>1, <1>8, <2>2, <2>3, <2>4, <2>5, <2>6
<1> QED
  BY <1>3, <1>9, <1>10

\* writeJournalHdr: the next records go behind a header of their own.
LEMMA NewHeaderStep ==
  ASSUME NEW c \in Client, NEW X, NEW Y, NEW h, Before(c, X, Y, h), NewHeader(c)
  PROVE  Arrives(X, Y)
<1> DEFINE x == pager[c]
           z == pager'[c]
           t == x.txn
<1>1. /\ x \in Pager /\ pager \in [Client -> Pager] /\ Files /\ DiskOK(X, h) /\ GhostsOK(X, Y)
      /\ h \in Places /\ Versions(X, Y) /\ nTxn \in Nat /\ Files' /\ Legal(x, held[c])
  BY StepFacts
<1>2. /\ x.pc = "newhdr" /\ WriteJournal(x.off, Header(t, 0)) /\ UNCHANGED <<held, nTxn>>
  BY DEF NewHeader
<1>3. /\ Writes(x) /\ held[c] = EXCLUSIVE_LOCK
      /\ x.state \in {"WRITER_CACHEMOD", "WRITER_DBMOD"} /\ x.cache[1] # NoPage
      /\ WriterOK(x, X, h) /\ Changing(x, X, h) /\ x.heldShared /\ Counters(x)
      /\ x.hdr \in Nat /\ x.off \in Nat /\ x.nRec \in Nat /\ h \in Nat /\ h >= 1 /\ JLen \in Nat
      /\ Contents(x, jrnl)
  BY <1>2, SyncFacts
<1>4. /\ SamePages(x, z) /\ z.nRec = 0 /\ z.hdr = x.hdr /\ z.off = x.off + 1
      /\ z.state = "WRITER_DBMOD" /\ z.pc = "write" /\ z.needSync = {}
  BY <1>1 DEF NewHeader, Pager, SamePages
<1>5. x.op = "spill"
  <2>1. x.pc = "newhdr"
    BY <1>2
  <2> HIDE DEF x
  <2> QED
    BY <1>1, <2>1 DEF Legal, Stands
<1> HIDE DEF x, z, t
<1>6. x.nRec > 0 /\ x.hdr = x.off
  BY <1>2, <1>3, <1>5 DEF Counters
<1>7. h = x.off /\ h = x.hdr
  BY <1>3, <1>6 DEF WriterOK, Bound
<1>8. h \in Slot
  <2>1. x.off <= 2 * Body(x) + 1 + PageOne(x) /\ Body(x) \in Nat /\ Body(x) <= NPage - 1
        /\ PageOne(x) \in {0, 1} /\ JLen = 2 * NPage /\ NPage \in Nat
    BY <1>1, <1>3, <1>5, <1>6, BodySize, Sizes DEF Counters
  <2> QED
    BY <1>3, <1>7, <2>1 DEF Slot
<1>9. \A r \in jDisk[h] : ~Valid(r)
  BY <1>3, <1>7, <1>8 DEF WriterOK, Valid
<1>10. /\ DiskOK(X, h)' /\ GhostsOK(X, Y)' /\ jrnl'[h] = Header(t, 0)
       /\ \A m \in Slot \ {h} : jrnl'[m] = jrnl[m] /\ jDisk'[m] = jDisk[m]
       /\ \A p \in Page : Covered(jrnl', h, p) <=> Covered(jrnl, h, p)
  <2> DEFINE s == Header(t, 0)
  <2>1. ~Valid(s) /\ h >= h /\ ~(h > h) /\ WriteJournal(h, s)
    BY <1>2, <1>3, <1>7 DEF Valid, Header, x
  <2>2. jrnl'[h] = s
    <3> HIDE DEF s
    <3> QED
      BY <1>1, <1>8, <1>9, <2>1, JournalWritten
  <2> HIDE DEF s
  <2>3. /\ DiskOK(X, h)' /\ GhostsOK(X, Y)'
        /\ \A m \in Slot \ {h} : jrnl'[m] = jrnl[m] /\ jDisk'[m] = jDisk[m]
        /\ \A p \in Page : Covered(jrnl', h, p) <=> Covered(jrnl, h, p)
    BY <1>1, <1>8, <1>9, <2>1, JournalWritten
  <2> QED
    BY <2>2, <2>3 DEF s
<1>11. UNCHANGED <<db, dbDisk, ghosts>>
  BY <1>2 DEF WriteJournal
<1>12. \A i \in Mine(x, jrnl) : i \in Slot /\ i < h /\ i # h /\ jrnl[i].kind = "rec"
  BY <1>3, <1>7, Sizes DEF Contents, Mine
<1>13. \A p \in x.inJournal : Covered(jrnl', h, p)
  <2>1. \A p \in x.inJournal : p \in Page /\ \E i \in Mine(x, jrnl) : jrnl[i].pg = p
    BY <1>1, <1>3 DEF Contents, Pager
  <2>2. \A p \in x.inJournal : Covered(jrnl, h, p)
    BY <1>12, <2>1 DEF Covered
  <2> QED
    BY <1>10, <2>1, <2>2
<1>14. \A i \in Mine(z, jrnl') : i \in Mine(x, jrnl) /\ jrnl'[i] = jrnl[i]
  <2>1. jrnl'[h].kind # "rec"
    BY <1>10 DEF Header
  <2>2. z.txn = t
    BY <1>4 DEF SamePages, t
  <2> QED
    BY <1>10, <2>1, <2>2 DEF Mine, t
<1>15. Changing(pager[c], X, h)'
  <2>1. pager'[c] = z /\ pager[c] = x
    BY DEF x, z
  <2>2. z.op # "commit"
    BY <1>4, <1>5 DEF SamePages
  <2> QED
    BY <1>2, <1>3, <1>4, <1>11, <1>13, <2>1, <2>2, SyncChanging
<1>16. pager'[c] = z /\ pager[c] = x
  BY DEF x, z
<1>17. WriterOK(pager[c], X, h)'
  <2>1. z.txn = t /\ z.cache[1] # NoPage /\ z.hdr = h /\ h # z.off
    BY <1>3, <1>4, <1>7 DEF SamePages, t
  <2>2. Mine(pager[c], jrnl)' = Mine(z, jrnl')
    BY <1>16 DEF Mine
  <2>3. z.nRec <= (Body(pager[c]) + PageOne(pager[c]))'
    <3>1. (Body(pager[c]) + PageOne(pager[c]))' = Body(x) + PageOne(x)
      BY <1>4, <1>16 DEF Body, PageOne, SamePages
    <3>2. Body(x) \in Nat /\ PageOne(x) \in {0, 1}
      BY <1>1, BodySize
    <3> QED
      BY <1>4, <3>1, <3>2
  <2>4. z.op # "rollback" /\ z.state # "WRITER_FINISHED" /\ z.pc \notin {"nrec", "sync2"}
        /\ z.state # "WRITER_CACHEMOD"
    BY <1>4, <1>5 DEF SamePages
  <2>5. /\ \A p \in Page : X[p] < t
        /\ \A i \in Mine(x, jrnl) : jrnl[i].n = X[jrnl[i].pg]
    BY <1>3 DEF WriterOK, t
  <2>6. \A i \in Mine(z, jrnl') : jrnl'[i].n = X[jrnl'[i].pg]
    BY <1>14, <2>5
  <2>7. \A i \in Slot : i < h => jrnl'[i].key = t
    <3>1. \A i \in Slot : i < h => i # h
      BY <1>3, Sizes
    <3> QED
      BY <1>3, <1>10, <3>1 DEF WriterOK, t
  <2> QED
    BY <1>15, <1>16, <2>1, <2>2, <2>3, <2>4, <2>5, <2>6, <2>7 DEF WriterOK, Bound
<1>18. ClientOK(pager[c], held[c], X, h)'
  <2>1. Writes(z) /\ z.op # "hot" /\ z.heldShared = x.heldShared
    BY <1>4, <1>5 DEF Writes, Writing, SamePages
  <2>2. ~Cool(z, held'[c])
    BY <1>2, <1>3, <1>4 DEF Cool
  <2> QED
    BY <1>3, <1>16, <1>17, <2>1, <2>2, WriterArrives
<1>19. Versions(X, Y)' /\ AtomicStep(X, Y, X, Y)
  BY <1>1, <1>2 DEF Versions, AtomicStep
<1> QED
  BY <1>1, <1>3, <1>10, <1>18, <1>19, WholeStep

-----------------------------------------------------------------------------
(* Steps that write or sync the database file. *)

\* A page is written to the file once its record is synced.
LEMMA DbWritten ==
  ASSUME NEW X, NEW Y, NEW h \in Places, Files, DiskOK(X, h), GhostsOK(X, Y),
         NEW p \in Page, NEW v, Covered(jrnl, h, p), WriteDb(p, v)
  PROVE  /\ DiskOK(X, h)' /\ GhostsOK(X, Y)' /\ UNCHANGED <<jrnl, jDisk>>
         /\ db'[p] = v /\ \A q \in Page : q # p => db'[q] = db[q] /\ dbDisk'[q] = dbDisk[q]
<1>1. ghosts = {} /\ Y = X
  BY CoveredHot
<1>2. /\ db'[p] = v /\ dbDisk'[p] = dbDisk[p] \cup {v, Torn}
      /\ \A q \in Page : q # p => db'[q] = db[q] /\ dbDisk'[q] = dbDisk[q]
      /\ UNCHANGED <<jrnl, jDisk, ghosts>>
  BY DEF WriteDb, Files
<1>3. \A q \in Page : db'[q] \in dbDisk'[q] /\ (dbDisk'[q] = {X[q]} \/ Covered(jrnl, h, q))
  <2>1. db'[p] \in dbDisk'[p] /\ Covered(jrnl, h, p)
    BY <1>2
  <2>2. \A q \in Page : q # p =>
           db'[q] \in dbDisk'[q] /\ (dbDisk'[q] = {X[q]} \/ Covered(jrnl, h, q))
    BY <1>2 DEF DiskOK
  <2> QED
    BY <2>1, <2>2
<1>4. DiskOK(X, h)'
  BY <1>2, <1>3 DEF DiskOK
<1>5. GhostsOK(X, Y)'
  BY <1>1, <1>2 DEF GhostsOK
<1> QED
  BY <1>2, <1>4, <1>5

\* The file is synced.
LEMMA DbSynced ==
  ASSUME NEW X, NEW Y, NEW h \in Places, Files, DiskOK(X, h), GhostsOK(X, Y), SyncDb
  PROVE  /\ DiskOK(X, h)' /\ GhostsOK(X, Y)' /\ UNCHANGED <<db, jrnl, jDisk, ghosts>>
         /\ \A p \in Page : dbDisk'[p] = {db[p]}
<1>1. UNCHANGED <<db, jrnl, jDisk, ghosts>> /\ \A p \in Page : dbDisk'[p] = {db[p]}
  BY DEF SyncDb
<1>2. \A p \in Page : db[p] \in dbDisk[p] /\ (dbDisk[p] = {X[p]} \/ Covered(jrnl, h, p))
  BY DEF DiskOK
<1>3. \A p \in Page : dbDisk'[p] = {X[p]} \/ Covered(jrnl, h, p)
  BY <1>1, <1>2
<1>4. DiskOK(X, h)'
  BY <1>1, <1>3 DEF DiskOK
<1>5. GhostsOK(X, Y)'
  BY <1>1 DEF GhostsOK
<1> QED
  BY <1>1, <1>4, <1>5

\* The account of the journal stays while the database file is written.
LEMMA WriterWrote ==
  ASSUME NEW c \in Client, NEW X, NEW h, WriterOK(pager[c], X, h), UNCHANGED <<jrnl, jDisk>>,
         Keeps(pager[c], pager'[c]), pager'[c].cache[1] # NoPage,
         pager'[c].state = "WRITER_CACHEMOD" => \A p \in Page : dbDisk'[p] = {X[p]},
         pager'[c].pc \notin {"nrec", "sync2"},
         pager'[c].op = "rollback" => Undoing(pager[c], X)',
         pager'[c].op # "rollback" /\ pager'[c].state # "WRITER_FINISHED" =>
            Changing(pager[c], X, h)',
         pager'[c].op # "rollback" /\ pager'[c].state = "WRITER_FINISHED" =>
            Finished(pager[c], X)'
  PROVE  WriterOK(pager[c], X, h)'
<1> DEFINE x == pager[c]
           z == pager'[c]
<1>1. (Body(pager[c]) + PageOne(pager[c]))' = Body(x) + PageOne(x)
  BY DEF Keeps, Body, PageOne
<1>2. Mine(pager[c], jrnl)' = Mine(x, jrnl)
  BY DEF Keeps, Mine
<1>3. z.txn = x.txn /\ z.hdr = x.hdr /\ z.off = x.off /\ z.nRec = x.nRec
  BY DEF Keeps
<1>4. Bound(pager[c], h)'
  BY <1>3 DEF WriterOK, Bound
<1> QED
  BY <1>1, <1>2, <1>3, <1>4 DEF WriterOK

\* What a transaction knows when it writes the file.
LEMMA WritingFacts ==
  ASSUME NEW c \in Client, NEW X, NEW Y, NEW h, Before(c, X, Y, h),
         pager[c].op \in {"spill", "commit"}, pager[c].pc \in {"write", "dbsync"}
  PROVE  /\ Writes(pager[c]) /\ held[c] = EXCLUSIVE_LOCK
         /\ pager[c].state = "WRITER_DBMOD"
         /\ WriterOK(pager[c], X, h) /\ Changing(pager[c], X, h) /\ Contents(pager[c], jrnl)
         /\ pager[c].heldShared /\ pager[c].cache[1] # NoPage
         /\ pager[c].txn = nTxn
<1> DEFINE x == pager[c]
<1>1. /\ x \in Pager /\ held[c] \in Level /\ Legal(x, held[c]) /\ ClientOK(x, held[c], X, h)
      /\ JournalOK(x)
  BY StepFacts
<1>2. x.op \in {"spill", "commit"} /\ x.pc \in {"write", "dbsync"}
  OBVIOUS
<1> HIDE DEF x
<1>3. x.state = "WRITER_DBMOD" /\ held[c] = EXCLUSIVE_LOCK
  BY <1>1, <1>2 DEF Legal, Stands
<1>4. Writes(x)
  BY <1>2, <1>3 DEF Writes, Writing
<1>5. WriterOK(x, X, h) /\ x.txn = nTxn /\ Contents(x, jrnl)
  BY <1>1, <1>4 DEF ClientOK, JournalOK
<1>6. Changing(x, X, h) /\ x.cache[1] # NoPage
  BY <1>2, <1>3, <1>5 DEF WriterOK
<1>7. x.heldShared
  BY <1>1, <1>3 DEF ClientOK
<1> QED
  BY <1>3, <1>4, <1>5, <1>6, <1>7 DEF x

\* The end of a step of a transaction that has the file to itself.
LEMMA WroteFile ==
  ASSUME NEW c \in Client, NEW X, NEW Y, NEW h, Before(c, X, Y, h), UNCHANGED <<held, nTxn, jrnl>>,
         held[c] = EXCLUSIVE_LOCK, pager[c].heldShared, Writes(pager'[c]), pager'[c].op # "hot",
         pager'[c].pc # "version", pager'[c].heldShared = pager[c].heldShared,
         DiskOK(X, h)', GhostsOK(X, Y)', WriterOK(pager[c], X, h)'
  PROVE  Arrives(X, Y)
<1>1. Versions(X, Y) /\ h \in Places
  BY StepFacts
<1>2. ~Cool(pager'[c], held'[c])
  BY DEF Cool, Writes, Writing
<1>3. ClientOK(pager[c], held[c], X, h)'
  BY <1>2, WriterArrives
<1>4. Versions(X, Y)' /\ AtomicStep(X, Y, X, Y)
  BY <1>1 DEF Versions, AtomicStep
<1> QED
  BY <1>1, <1>3, <1>4, WholeStep

\* pagerStress writes a dirty page to the file.
LEMMA SpillWriteStep ==
  ASSUME NEW c \in Client, NEW X, NEW Y, NEW h, Before(c, X, Y, h), SpillWrite(c)
  PROVE  Arrives(X, Y)
<1> DEFINE x == pager[c]
           z == pager'[c]
           p == x.page
           v == x.cache[p]
<1>1. /\ x \in Pager /\ pager \in [Client -> Pager] /\ Files /\ DiskOK(X, h) /\ GhostsOK(X, Y)
      /\ h \in Places
  BY StepFacts
<1>2. /\ x.op = "spill" /\ x.pc = "write" /\ WriteDb(p, v) /\ UNCHANGED <<held, nTxn>>
  BY DEF SpillWrite, At
<1>3. /\ held[c] = EXCLUSIVE_LOCK /\ x.state = "WRITER_DBMOD" /\ x.cache[1] # NoPage
      /\ WriterOK(x, X, h) /\ Changing(x, X, h) /\ x.heldShared
  BY <1>2, WritingFacts
<1>4. /\ z.state = x.state /\ z.op = "none" /\ z.pc = "idle" /\ z.dirty = x.dirty \ {p}
      /\ z.cache = [x.cache EXCEPT ![p] = NoPage] /\ z.vers = x.vers /\ Keeps(x, z)
      /\ z.needSync = x.needSync /\ z.heldShared = x.heldShared
  BY <1>1 DEF SpillWrite, Pager, Keeps
<1>5. p \in x.dirty /\ p \in x.inJournal /\ p # 1 /\ p \in Page /\ Covered(jrnl, h, p) /\ v = x.txn
  <2>1. p \in x.dirty /\ p # 1 /\ p \notin x.needSync /\ p \in x.inJournal
    BY <1>2, <1>3 DEF Changing
  <2> QED
    BY <1>1, <1>3, <2>1 DEF Changing, Pager
<1> HIDE DEF v, p
<1>6. /\ DiskOK(X, h)' /\ GhostsOK(X, Y)' /\ UNCHANGED <<jrnl, jDisk>>
      /\ db'[p] = v /\ \A q \in Page : q # p => db'[q] = db[q]
  BY <1>1, <1>2, <1>5, DbWritten
<1>7. /\ z.cache[p] = NoPage /\ z.cache[1] = x.cache[1]
      /\ \A q \in Page : q # p => z.cache[q] = x.cache[q]
  BY <1>1, <1>4, <1>5, Sizes DEF Pager
<1>8. Changing(pager[c], X, h)'
  <2>1. x.inJournal \subseteq Page /\ z.inJournal = x.inJournal /\ z.txn = x.txn
    BY <1>1, <1>4 DEF Pager, Keeps
  <2>2. \A q \in Page \ z.inJournal : z.cache[q] \in {NoPage, X[q]}
    BY <1>3, <1>5, <1>7, <2>1 DEF Changing
  <2>3. \A q \in z.inJournal \ {1} :
           IF q \in z.dirty THEN z.cache[q] = z.txn
           ELSE z.cache[q] \in {NoPage, z.txn} /\ db'[q] = z.txn
    BY <1>3, <1>4, <1>5, <1>6, <1>7, <2>1 DEF Changing
  <2>4. 1 \in z.inJournal => 1 \in z.dirty
    BY <1>2, <1>3, <1>4, <1>5, <2>1 DEF Changing
  <2>5. /\ z.dirty \subseteq z.inJournal
        /\ 1 \notin z.inJournal => z.vers = X[1]
        /\ 1 \in z.inJournal => z.cache[1] = X[1] + 1
        /\ \A q \in z.inJournal : q \in z.needSync \/ Covered(jrnl', h, q)
    BY <1>3, <1>4, <1>6, <1>7, <2>1 DEF Changing
  <2> HIDE DEF x
  <2> QED
    BY <1>4, <2>2, <2>3, <2>4, <2>5 DEF Changing
<1>9. WriterOK(pager[c], X, h)'
  BY <1>3, <1>4, <1>6, <1>7, <1>8, WriterWrote
<1> QED
  <2>1. Writes(z)
    BY <1>3, <1>4 DEF Writes, Writing
  <2> QED
    BY <1>2, <1>3, <1>4, <1>6, <1>9, <2>1, WroteFile

\* pager_write_pagelist writes the least dirty page.
LEMMA CommitWriteStep ==
  ASSUME NEW c \in Client, NEW X, NEW Y, NEW h, Before(c, X, Y, h), CommitWrite(c)
  PROVE  Arrives(X, Y)
<1> DEFINE x == pager[c]
           z == pager'[c]
           p == Min(x.dirty)
           v == x.cache[p]
<1>1. /\ x \in Pager /\ pager \in [Client -> Pager] /\ Files /\ DiskOK(X, h) /\ GhostsOK(X, Y)
      /\ h \in Places
  BY StepFacts
<1>2. /\ x.op = "commit" /\ x.pc = "write" /\ WriteDb(p, v) /\ UNCHANGED <<held, nTxn>>
  BY DEF CommitWrite, At
<1>3. /\ held[c] = EXCLUSIVE_LOCK /\ x.state = "WRITER_DBMOD" /\ x.cache[1] # NoPage
      /\ WriterOK(x, X, h) /\ Changing(x, X, h) /\ x.heldShared
  BY <1>2, WritingFacts
<1>4. /\ z.state = x.state /\ z.op = "commit" /\ z.dirty = x.dirty \ {p}
      /\ z.pc = (IF x.dirty = {p} THEN "dbsync" ELSE "write")
      /\ z.cache = x.cache /\ z.vers = (IF p = 1 THEN x.cache[1] ELSE x.vers) /\ Keeps(x, z)
      /\ z.needSync = x.needSync /\ z.heldShared = x.heldShared
  <2> DEFINE vers == IF p = 1 THEN x.cache[1] ELSE x.vers
             pc == IF x.dirty = {p} THEN "dbsync" ELSE x.pc
  <2>1. z = [x EXCEPT !.dirty = @ \ {p}, !.vers = vers, !.pc = pc]
    BY <1>1 DEF CommitWrite
  <2> HIDE DEF vers, pc, p
  <2>2. /\ z.state = x.state /\ z.op = x.op /\ z.dirty = x.dirty \ {p} /\ z.pc = pc
        /\ z.cache = x.cache /\ z.vers = vers /\ Keeps(x, z)
        /\ z.needSync = x.needSync /\ z.heldShared = x.heldShared
    BY <1>1, <2>1 DEF Pager, Keeps
  <2> QED
    BY <1>2, <2>2 DEF vers, pc
<1>5. p \in x.dirty /\ x.needSync = {}
  <2>1. x.dirty # {} /\ x.needSync = {}
    BY <1>2, <1>3 DEF Changing
  <2>2. x.dirty \in SUBSET Nat
    BY <1>1, Sizes DEF Pager
  <2> QED
    BY <2>1, <2>2, MinIsLeast
<1> HIDE DEF p
<1>6. /\ p \in x.inJournal /\ p \in Page /\ Covered(jrnl, h, p)
      /\ v = IF p = 1 THEN X[1] + 1 ELSE x.txn
  <2>1. p \in x.inJournal
    BY <1>3, <1>5 DEF Changing
  <2> QED
    BY <1>1, <1>3, <1>5, <2>1 DEF Changing, Pager
<1> HIDE DEF v
<1>7. /\ DiskOK(X, h)' /\ GhostsOK(X, Y)' /\ UNCHANGED <<jrnl, jDisk>>
      /\ db'[p] = v /\ \A q \in Page : q # p => db'[q] = db[q]
  BY <1>1, <1>2, <1>6, DbWritten
<1>8. Changing(pager[c], X, h)'
  <2>1. /\ x.inJournal \subseteq Page /\ z.inJournal = x.inJournal /\ z.txn = x.txn
        /\ 1 \in x.inJournal /\ x.cache[1] = X[1] + 1 /\ x.dirty \subseteq x.inJournal
    BY <1>1, <1>2, <1>3, <1>4 DEF Pager, Keeps, Changing
  <2>2. \A q \in Page \ z.inJournal : z.cache[q] \in {NoPage, X[q]}
    BY <1>3, <1>4, <2>1 DEF Changing
  <2>3. \A q \in z.inJournal \ {1} :
           IF q \in z.dirty THEN z.cache[q] = z.txn
           ELSE z.cache[q] \in {NoPage, z.txn} /\ db'[q] = z.txn
    BY <1>3, <1>4, <1>6, <1>7, <2>1 DEF Changing, v
  <2>4. 1 \notin z.dirty => db'[1] = X[1] + 1 /\ z.vers = X[1] + 1
    <3>1. CASE p = 1
      BY <1>4, <1>6, <1>7, <2>1, <3>1
    <3>2. CASE p # 1
      BY <1>3, <1>4, <1>7, <2>1, <3>2, Sizes DEF Changing
    <3> QED
      BY <3>1, <3>2
  <2>5. \A q \in z.inJournal : q \in z.needSync \/ Covered(jrnl', h, q)
    BY <1>3, <1>4, <1>7, <2>1 DEF Changing
  <2>6. /\ z.pc \in {"write", "dbsync"} /\ (z.pc = "write" => z.dirty # {})
        /\ (z.pc = "dbsync" => z.dirty = {}) /\ z.needSync = {}
    BY <1>4, <1>5
  <2>7. /\ z.dirty \subseteq z.inJournal /\ z.cache[1] = X[1] + 1 /\ 1 \in z.inJournal
    BY <1>4, <2>1
  <2> HIDE DEF x
  <2> QED
    BY <1>4, <2>2, <2>3, <2>4, <2>5, <2>6, <2>7 DEF Changing
<1>9. WriterOK(pager[c], X, h)'
  <2>1. z.pc \notin {"nrec", "sync2"} /\ z.cache[1] # NoPage /\ z.state # "WRITER_CACHEMOD"
        /\ z.state # "WRITER_FINISHED" /\ z.op # "rollback"
    BY <1>3, <1>4
  <2> QED
    BY <1>3, <1>4, <1>7, <1>8, <2>1, WriterWrote
<1> QED
  <2>1. Writes(z) /\ z.pc # "version" /\ z.op # "hot"
    BY <1>3, <1>4 DEF Writes, Writing
  <2> QED
    BY <1>2, <1>3, <1>4, <1>7, <1>9, <2>1, WroteFile

\* A step of the rollback of a hot journal.
LEMMA HotGoes ==
  ASSUME NEW c \in Client, NEW X, NEW Y, NEW h, Before(c, X, Y, h), UNCHANGED <<held, nTxn>>,
         held[c] = EXCLUSIVE_LOCK, pager[c].state = "OPEN", NEW k \in Places,
         pager'[c].state = "OPEN", pager'[c].op = "hot",
         pager'[c].pc \in {"play", "dbsync", "delete"},
         pager'[c].dirty = pager[c].dirty, pager'[c].vers = pager[c].vers,
         pager'[c].heldShared = pager[c].heldShared,
         pager'[c].cache = pager[c].cache \/ pager'[c].cache = EmptyCache,
         DiskOK(X, k)', GhostsOK(X, Y)', HotOK(pager[c], X, k)'
  PROVE  Arrives(X, Y)
<1> DEFINE x == pager[c]
           z == pager'[c]
<1>1. ClientOK(x, held[c], X, h) /\ Versions(X, Y)
  BY StepFacts
<1>2. \A p \in Page : EmptyCache[p] = NoPage
  BY DEF EmptyCache
<1>3. z.cache[1] = NoPage => \A p \in Page : z.cache[p] = NoPage
  BY <1>1, <1>2 DEF ClientOK
<1>4. z.heldShared \/ z.cache[1] = NoPage
  BY <1>1, <1>2, Sizes DEF ClientOK
<1>5. Rests(pager[c], X)'
  <2>1. Rests(x, X)
    BY <1>1 DEF ClientOK
  <2>2. CASE z.cache = x.cache
    BY <2>1, <2>2 DEF Rests
  <2>3. CASE z.cache = EmptyCache
    BY <1>2, <2>3, Sizes DEF Rests
  <2> QED
    BY <2>2, <2>3
<1>6. z.dirty = {}
  BY <1>1 DEF ClientOK
<1>7. ~Cool(z, held'[c])
  BY DEF Cool
<1>8. ClientOK(pager[c], held[c], X, k)'
  BY <1>3, <1>4, <1>5, <1>6, <1>7 DEF ClientOK, Writes, Writing
<1>9. Versions(X, Y)' /\ AtomicStep(X, Y, X, Y)
  BY <1>1 DEF Versions, AtomicStep
<1> QED
  BY <1>8, <1>9, WholeStep

\* The rollback of a hot journal is found in the client's Pager.
LEMMA HotFacts ==
  ASSUME NEW c \in Client, NEW X, NEW Y, NEW h, Before(c, X, Y, h), pager[c].op = "hot"
  PROVE  pager[c].state = "OPEN" /\ held[c] = EXCLUSIVE_LOCK /\ HotOK(pager[c], X, h)
<1> DEFINE x == pager[c]
<1>1. Legal(x, held[c]) /\ ClientOK(x, held[c], X, h) /\ x.op = "hot"
  BY StepFacts
<1> HIDE DEF x
<1> QED
  BY <1>1 DEF Legal, Stands, ClientOK, x

\* pagerSyncHotJournal: what is played back is on the disk.
LEMMA HotSyncStep ==
  ASSUME NEW c \in Client, NEW X, NEW Y, NEW h, Before(c, X, Y, h), HotSync(c)
  PROVE  Arrives(X, Y)
<1> DEFINE x == pager[c]
           z == pager'[c]
           todo == Playable(jrnl, 0)
<1>1. /\ x \in Pager /\ pager \in [Client -> Pager] /\ Files /\ DiskOK(X, h) /\ GhostsOK(X, Y)
      /\ h \in Places
  BY StepFacts
<1>2. /\ x.op = "hot" /\ x.pc = "hotsync" /\ SyncJournalFile /\ UNCHANGED ghosts
      /\ UNCHANGED <<held, nTxn>>
  BY DEF HotSync, At
<1>3. x.state = "OPEN" /\ held[c] = EXCLUSIVE_LOCK
  BY <1>2, HotFacts
<1>4. /\ z.state = x.state /\ z.op = x.op /\ z.dirty = x.dirty /\ z.vers = x.vers
      /\ z.heldShared = x.heldShared /\ z.todo = todo
      /\ z.cache = (IF todo = {} THEN x.cache ELSE EmptyCache)
      /\ z.pc = (IF todo # {} THEN "play" ELSE "dbsync")
  <2> DEFINE pc == Playing(x, todo)
             cache == IF todo = {} THEN x.cache ELSE EmptyCache
  <2>1. z = [x EXCEPT !.todo = todo, !.cache = cache, !.pc = pc]
    BY <1>1 DEF HotSync
  <2>2. pc = IF todo # {} THEN "play" ELSE "dbsync"
    BY <1>3 DEF Playing
  <2> HIDE DEF pc, cache, todo
  <2>3. /\ z.state = x.state /\ z.op = x.op /\ z.dirty = x.dirty /\ z.vers = x.vers
        /\ z.heldShared = x.heldShared /\ z.todo = todo /\ z.cache = cache /\ z.pc = pc
    BY <1>1, <2>1 DEF Pager
  <2> QED
    BY <2>2, <2>3 DEF cache
<1>5. Readable(jrnl) /\ Laid(jrnl, h, X) /\ h \in Nat /\ h >= 1 /\ h <= JLen + 1 /\ JLen \in Nat
  BY <1>1, Sizes DEF Files, Readable, DiskOK, Places
<1>6. PICK k \in Places : /\ Laid(jrnl, k, X) /\ (k \in Slot => ~Valid(jrnl[k]))
                          /\ \A p \in Page : Covered(jrnl, h, p) => Covered(jrnl, k, p)
  <2>1. CASE h \in Slot /\ Valid(jrnl[h])
    <3> DEFINE n == jrnl[h].n
    <3>1. /\ h + n + 1 \in Places /\ Laid(jrnl, h + n + 1, X)
          /\ \A p \in Page : Covered(jrnl, h, p) => Covered(jrnl, h + n + 1, p)
      BY <1>5, <2>1, ChainGrows
    <3>2. n \in Nat
      BY <1>5, <2>1 DEF Readable, PagedSlot, SlotRec
    <3> HIDE DEF n
    <3>3. h + n + 1 \in Slot => h + n + 1 > h
      BY <1>5, <3>2
    <3>4. h + n + 1 \in Slot => ~Valid(jrnl[h + n + 1])
      BY <1>5, <3>3 DEF Laid, Valid
    <3> QED
      BY <3>1, <3>4
  <2>2. CASE ~(h \in Slot /\ Valid(jrnl[h]))
    BY <1>1, <1>5, <2>2
  <2> QED
    BY <2>1, <2>2
<1>7. todo = RecordsBefore(jrnl, k)
  BY <1>5, <1>6, LaidPlayed
<1>8. /\ DiskOK(X, k)' /\ UNCHANGED <<db, dbDisk, jrnl>> /\ \A i \in Slot : jDisk'[i] = {jrnl[i]}
  BY <1>1, <1>2, <1>6, SyncedAt
<1>9. \A p \in Page : db[p] = X[p] \/ \E i \in todo : jrnl[i].pg = p
  <2>1. \A p \in Page : db[p] = X[p] \/ Covered(jrnl, k, p)
    BY <1>8 DEF DiskOK
  <2> QED
    BY <1>7, <2>1 DEF Covered, RecordsBefore
<1>10. \A i \in todo : i < k /\ jrnl[i].kind = "rec"
  BY <1>7 DEF RecordsBefore
<1>11. HotOK(pager[c], X, k)'
  <2>1. EmptyCache[1] = NoPage
    BY Sizes DEF EmptyCache
  <2> HIDE DEF todo
  <2> QED
    BY <1>4, <1>8, <1>9, <1>10, <2>1 DEF HotOK
<1>12. GhostsOK(X, Y)'
  <2>1. ghosts # {} => ~Valid(jrnl[1])
    BY <1>1, Sizes DEF GhostsOK, DiskOK
  <2> QED
    BY <1>1, <1>2, <1>8, <2>1, Sizes DEF GhostsOK
<1> QED
  BY <1>2, <1>3, <1>4, <1>8, <1>11, <1>12, HotGoes

\* What a pager's own rollback knows.
LEMMA UndoFacts ==
  ASSUME NEW c \in Client, NEW X, NEW Y, NEW h, Before(c, X, Y, h), pager[c].op = "rollback",
         pager[c].pc \in {"play", "dbsync", "delete"}
  PROVE  /\ Writes(pager[c]) /\ held[c] >= RESERVED_LOCK /\ pager[c].heldShared
         /\ WriterOK(pager[c], X, h) /\ Undoing(pager[c], X) /\ Contents(pager[c], jrnl)
         /\ pager[c].cache[1] # NoPage
         /\ pager[c].state # "WRITER_CACHEMOD" => held[c] = EXCLUSIVE_LOCK
         /\ pager[c].pc = "dbsync" => pager[c].state # "WRITER_CACHEMOD"
<1> DEFINE x == pager[c]
<1>1. /\ Legal(x, held[c]) /\ ClientOK(x, held[c], X, h) /\ JournalOK(x) /\ held[c] \in Level
      /\ x.op = "rollback" /\ x.pc \in {"play", "dbsync", "delete"}
  BY StepFacts
<1> HIDE DEF x
<1>2. /\ x.state \in Writing /\ (x.state # "WRITER_CACHEMOD" => held[c] = EXCLUSIVE_LOCK)
      /\ (x.pc = "dbsync" => x.state # "WRITER_CACHEMOD")
  BY <1>1 DEF Legal, Stands, Writing
<1>3. Writes(x)
  BY <1>1, <1>2 DEF Writes
<1>4. held[c] >= RESERVED_LOCK
  BY <1>1, <1>3, WritesHolds
<1>5. WriterOK(x, X, h) /\ Contents(x, jrnl)
  BY <1>1, <1>3 DEF ClientOK, JournalOK
<1>6. Undoing(x, X) /\ x.cache[1] # NoPage
  BY <1>1, <1>5 DEF WriterOK
<1>7. x.heldShared
  BY <1>1, <1>2 DEF ClientOK, Writing
<1> QED
  BY <1>2, <1>3, <1>4, <1>5, <1>6, <1>7 DEF x

\* The sync of the file at the end of a commit, and of a rollback.
LEMMA DbSyncStep ==
  ASSUME NEW c \in Client, NEW X, NEW Y, NEW h, Before(c, X, Y, h), DbSync(c)
  PROVE  Arrives(X, Y)
<1> DEFINE x == pager[c]
           z == pager'[c]
<1>1. /\ x \in Pager /\ pager \in [Client -> Pager] /\ Files /\ DiskOK(X, h) /\ GhostsOK(X, Y)
      /\ h \in Places /\ Legal(x, held[c]) /\ ClientOK(x, held[c], X, h)
  BY StepFacts
<1>2. x.pc = "dbsync" /\ SyncDb /\ UNCHANGED <<held, nTxn>>
  BY DEF DbSync
<1>3. /\ DiskOK(X, h)' /\ GhostsOK(X, Y)' /\ UNCHANGED <<db, jrnl, jDisk>>
      /\ \A p \in Page : dbDisk'[p] = {db[p]}
  BY <1>1, <1>2, DbSynced
<1>4. CASE x.op = "commit"
  <2>1. /\ held[c] = EXCLUSIVE_LOCK /\ WriterOK(x, X, h) /\ Changing(x, X, h) /\ x.heldShared
        /\ Contents(x, jrnl) /\ x.cache[1] # NoPage
    BY <1>2, <1>4, WritingFacts
  <2>2. /\ z.state = "WRITER_FINISHED" /\ z.op = "none" /\ z.pc = "idle" /\ z.cache = x.cache
        /\ z.vers = x.vers /\ z.heldShared = x.heldShared /\ Keeps(x, z)
    BY <1>1, <1>4 DEF DbSync, Pager, Keeps
  <2>3. Finished(pager[c], X)'
    <3>1. x.dirty = {} /\ 1 \in x.inJournal
      BY <1>2, <1>4, <2>1 DEF Changing
    <3>2. db[1] = X[1] + 1 /\ x.vers = X[1] + 1 /\ x.cache[1] = X[1] + 1
      BY <2>1, <3>1 DEF Changing
    <3>3. \A p \in x.inJournal \ {1} : x.cache[p] \in {NoPage, x.txn} /\ db[p] = x.txn
      BY <2>1, <3>1 DEF Changing
    <3>4. \A p \in Page : p \notin x.inJournal => x.cache[p] \in {NoPage, X[p]} /\ db[p] = X[p]
      <4>1. \A p \in Page : p \notin x.inJournal => db[p] = X[p]
        <5> SUFFICES ASSUME NEW p \in Page, p \notin x.inJournal PROVE db[p] = X[p]
          OBVIOUS
        <5> HIDE DEF x
        <5> QED
          BY <1>1, <2>1, Uncovered
      <4> QED
        BY <2>1, <4>1 DEF Changing
    <3>5. z.inJournal = x.inJournal /\ z.txn = x.txn
      BY <2>2 DEF Keeps
    <3>6. \A p \in Page : x.cache[p] \in {NoPage, db[p]}
      BY <3>2, <3>3, <3>4
    <3>7. \A p \in Page : db[p] = IF p = 1 THEN X[1] + 1
                                  ELSE IF p \in x.inJournal THEN x.txn ELSE X[p]
      BY <3>2, <3>3, <3>4
    <3> HIDE DEF x
    <3> QED
      BY <1>3, <2>2, <3>1, <3>2, <3>5, <3>6, <3>7 DEF Finished
  <2>4. WriterOK(pager[c], X, h)'
    BY <1>3, <2>1, <2>2, <2>3, WriterWrote
  <2>5. Writes(z)
    BY <2>2 DEF Writes, Writing
  <2> QED
    BY <1>2, <1>3, <2>1, <2>2, <2>4, <2>5, WroteFile
<1>5. CASE x.op # "commit"
  <2>1. /\ z.state = x.state /\ z.op = x.op /\ z.pc = "delete" /\ z.cache = x.cache
        /\ z.vers = x.vers /\ z.heldShared = x.heldShared /\ Keeps(x, z) /\ z.dirty = x.dirty
        /\ z.todo = x.todo
    BY <1>1, <1>5 DEF DbSync, Goto, Pager, Keeps
  <2>2. x.op \in {"hot", "rollback"}
    <3>1. x.pc = "dbsync" /\ x.op # "commit"
      BY <1>2, <1>5
    <3> HIDE DEF x
    <3> QED
      BY <1>1, <3>1 DEF Legal, Stands
  <2>3. CASE x.op = "hot"
    <3>1. x.state = "OPEN" /\ held[c] = EXCLUSIVE_LOCK /\ HotOK(x, X, h)
      BY <2>3, HotFacts
    <3>2. HotOK(pager[c], X, h)'
      BY <1>2, <1>3, <2>1, <3>1 DEF HotOK
    <3> QED
      BY <1>1, <1>2, <1>3, <2>1, <2>3, <3>1, <3>2, HotGoes
  <2>4. CASE x.op = "rollback"
    <3>1. /\ WriterOK(x, X, h) /\ Undoing(x, X) /\ x.heldShared /\ Writes(x)
          /\ x.state # "WRITER_CACHEMOD" /\ held[c] = EXCLUSIVE_LOCK /\ x.cache[1] # NoPage
      BY <1>2, <2>4, UndoFacts
    <3>2. x.todo = {} /\ \A p \in Page : db[p] = X[p]
      BY <1>2, <3>1 DEF Undoing
    <3>3. Undoing(pager[c], X)'
      <4>1. \A p \in Page : x.cache[p] \in {NoPage, X[p]}
        BY <3>1, <3>2 DEF Undoing
      <4>2. x.vers = X[1]
        BY <3>1, <3>2 DEF Undoing
      <4> HIDE DEF x
      <4> QED
        BY <1>3, <2>1, <3>2, <4>1, <4>2 DEF Undoing
    <3>4. WriterOK(pager[c], X, h)'
      BY <1>3, <2>1, <2>4, <3>1, <3>3, WriterWrote
    <3>5. Writes(z) /\ z.op # "hot"
      BY <2>1, <2>4, <3>1 DEF Writes
    <3> QED
      BY <1>2, <1>3, <2>1, <3>1, <3>4, <3>5, WroteFile
  <2> QED
    BY <2>2, <2>3, <2>4
<1> QED
  BY <1>4, <1>5


\* What pager_playback_one_page changes in the Pager.
LEMMA PlayedPager ==
  ASSUME NEW c \in Client, NEW X, NEW Y, NEW h, Before(c, X, Y, h), PlaybackOnePage(c),
         NEW i, i = Min(pager[c].todo), NEW p \in Page, p = jrnl[i].pg
  PROVE  /\ pager'[c].state = pager[c].state /\ pager'[c].op = pager[c].op
         /\ pager'[c].dirty = pager[c].dirty /\ pager'[c].heldShared = pager[c].heldShared
         /\ Keeps(pager[c], pager'[c])
         /\ pager'[c].todo = pager[c].todo \ {i}
         /\ pager'[c].pc = (IF pager[c].todo \ {i} # {} THEN "play"
                            ELSE IF pager[c].state = "WRITER_CACHEMOD" THEN "delete" ELSE "dbsync")
         /\ pager'[c].cache[p] = (IF pager[c].cache[p] # NoPage THEN jrnl[i].n ELSE NoPage)
         /\ \A q \in Page : q # p => pager'[c].cache[q] = pager[c].cache[q]
         /\ pager[c].cache[p] = NoPage => pager'[c].cache = pager[c].cache
         /\ pager'[c].vers = (IF pager[c].cache[p] # NoPage /\ p = 1 THEN jrnl[i].n
                              ELSE pager[c].vers)
<1> DEFINE x == pager[c]
           z == pager'[c]
           todo == x.todo \ {i}
           vers == IF x.cache[p] # NoPage /\ p = 1 THEN jrnl[i].n ELSE x.vers
           v == IF x.cache[p] # NoPage THEN jrnl[i].n ELSE x.cache[p]
           pc == Playing(x, todo)
<1>1. x \in Pager /\ pager \in [Client -> Pager]
  BY StepFacts
<1>2. z = [x EXCEPT !.todo = todo, !.cache[p] = v, !.vers = vers, !.pc = pc]
  BY <1>1 DEF PlaybackOnePage
<1> HIDE DEF todo, vers, v, pc
<1>3. /\ z.state = x.state /\ z.op = x.op /\ z.dirty = x.dirty /\ z.heldShared = x.heldShared
      /\ Keeps(x, z) /\ z.todo = todo /\ z.pc = pc /\ z.vers = vers
      /\ z.cache = [x.cache EXCEPT ![p] = v]
  BY <1>1, <1>2 DEF Pager, Keeps
<1>4. x.cache \in [Page -> Nat]
  BY <1>1 DEF Pager
<1>5. z.cache[p] = v /\ \A q \in Page : q # p => z.cache[q] = x.cache[q]
  BY <1>3, <1>4
<1>6. x.cache[p] = NoPage => z.cache = x.cache
  BY <1>3, <1>4 DEF v
<1> QED
  BY <1>3, <1>5, <1>6 DEF todo, vers, v, pc, Playing

\* pager_playback_one_page, for a hot journal and for the pager's own.
LEMMA PlaybackStep ==
  ASSUME NEW c \in Client, NEW X, NEW Y, NEW h, Before(c, X, Y, h), PlaybackOnePage(c)
  PROVE  Arrives(X, Y)
<1> DEFINE x == pager[c]
           z == pager'[c]
<1>1. /\ x \in Pager /\ pager \in [Client -> Pager] /\ Files /\ DiskOK(X, h) /\ GhostsOK(X, Y)
      /\ h \in Places /\ Legal(x, held[c]) /\ ClientOK(x, held[c], X, h) /\ held[c] \in Level
      /\ Versions(X, Y) /\ nTxn \in Nat
  BY StepFacts
<1>2. x.pc = "play" /\ UNCHANGED <<held, nTxn>>
  BY DEF PlaybackOnePage
<1>3. PICK i \in x.todo : i = Min(x.todo)
  <2>1. x.todo # {}
    BY <1>2 DEF Before, JournalInv, LockInv, Shapes, Pagers
  <2>2. x.todo \in SUBSET Nat
    BY <1>1, Sizes DEF Pager
  <2> QED
    BY <2>1, <2>2, MinIsLeast
<1>4. i \in Slot /\ i \in Nat
  BY <1>1, <1>3, Sizes DEF Pager
<1>5. x.op = "hot" \/ x.op = "rollback"
  <2> HIDE DEF x
  <2>1. x.pc = "play"
    BY <1>2
  <2> QED
    BY <1>1, <2>1 DEF Legal, Stands
<1>6. CASE x.op = "hot"
  <2>1. /\ x.state = "OPEN" /\ held[c] = EXCLUSIVE_LOCK /\ i < h /\ jrnl[i].kind = "rec"
        /\ x.cache[1] = NoPage
        /\ \A q \in Page : db[q] = X[q] \/ \E m \in x.todo : jrnl[m].pg = q
        /\ \A m \in x.todo : m < h /\ jrnl[m].kind = "rec"
    BY <1>2, <1>3, <1>6, HotFacts DEF HotOK
  <2>2. PICK p \in Page : p = jrnl[i].pg
    BY <1>1, <1>4, <2>1 DEF Files, PagedSlot
  <2>3. jrnl[i].n = X[p] /\ Covered(jrnl, h, p)
    BY <1>1, <1>4, <2>1, <2>2 DEF DiskOK, Laid, Covered
  <2>4. WriteDb(p, X[p])
    BY <1>3, <1>6, <2>2, <2>3 DEF PlaybackOnePage
  <2>5. /\ DiskOK(X, h)' /\ GhostsOK(X, Y)' /\ UNCHANGED <<jrnl, jDisk>>
        /\ db'[p] = X[p] /\ \A q \in Page : q # p => db'[q] = db[q]
    <3> DEFINE v == X[p]
    <3>1. WriteDb(p, v)
      BY <2>4
    <3> HIDE DEF v
    <3>2. /\ DiskOK(X, h)' /\ GhostsOK(X, Y)' /\ UNCHANGED <<jrnl, jDisk>>
          /\ db'[p] = v /\ \A q \in Page : q # p => db'[q] = db[q]
      BY <1>1, <2>3, <3>1, DbWritten
    <3> QED
      BY <3>2 DEF v
  <2>6. x.cache[p] = NoPage
    BY <1>1, <2>1 DEF ClientOK
  <2>7. /\ z.state = x.state /\ z.op = x.op /\ z.dirty = x.dirty /\ z.heldShared = x.heldShared
        /\ z.todo = x.todo \ {i} /\ z.cache = x.cache /\ z.vers = x.vers
        /\ z.pc = (IF x.todo \ {i} # {} THEN "play" ELSE "dbsync")
    BY <1>3, <2>1, <2>2, <2>6, PlayedPager
  <2>8. \A q \in Page : db'[q] = X[q] \/ \E m \in z.todo : jrnl[m].pg = q
    <3> SUFFICES ASSUME NEW q \in Page, q # p
                 PROVE  db'[q] = X[q] \/ \E m \in z.todo : jrnl[m].pg = q
      BY <2>5
    <3>1. db'[q] = X[q] \/ \E m \in x.todo : jrnl[m].pg = q
      BY <2>1, <2>5
    <3> QED
      BY <2>2, <2>7, <3>1
  <2>9. HotOK(pager[c], X, h)'
    <3> HIDE DEF x
    <3> QED
      BY <2>1, <2>5, <2>7, <2>8 DEF HotOK
  <2>10. z.pc \in {"play", "dbsync", "delete"}
    BY <2>7
  <2> QED
    BY <1>1, <1>2, <1>6, <2>1, <2>5, <2>7, <2>9, <2>10, HotGoes
<1>7. CASE x.op = "rollback"
  <2>1. /\ Writes(x) /\ held[c] >= RESERVED_LOCK /\ x.heldShared
        /\ WriterOK(x, X, h) /\ Undoing(x, X) /\ x.cache[1] # NoPage
        /\ x.state # "WRITER_CACHEMOD" => held[c] = EXCLUSIVE_LOCK
    BY <1>2, <1>7, UndoFacts
  <2>2. i \in Mine(x, jrnl) /\ jrnl[i].kind = "rec"
    BY <1>3, <2>1 DEF Undoing, Mine
  <2>3. PICK p \in Page : p = jrnl[i].pg
    BY <1>1, <1>4, <2>2 DEF Files, PagedSlot
  <2>4. jrnl[i].n = X[p] /\ X[p] # NoPage /\ X[1] # NoPage
    BY <1>1, <2>1, <2>2, <2>3, PagesInCache, Sizes DEF WriterOK
  <2>5. /\ z.state = x.state /\ z.op = x.op /\ z.dirty = x.dirty /\ z.heldShared = x.heldShared
        /\ z.todo = x.todo \ {i} /\ Keeps(x, z)
        /\ z.cache[p] = (IF x.cache[p] # NoPage THEN X[p] ELSE NoPage)
        /\ \A q \in Page : q # p => z.cache[q] = x.cache[q]
        /\ z.vers = (IF x.cache[p] # NoPage /\ p = 1 THEN X[p] ELSE x.vers)
        /\ z.pc = (IF x.todo \ {i} # {} THEN "play"
                   ELSE IF x.state = "WRITER_CACHEMOD" THEN "delete" ELSE "dbsync")
    BY <1>3, <2>3, <2>4, PlayedPager
  <2>6. /\ DiskOK(X, h)' /\ GhostsOK(X, Y)' /\ UNCHANGED <<jrnl, jDisk>>
        /\ x.state = "WRITER_CACHEMOD" => UNCHANGED dbDisk
        /\ x.state # "WRITER_CACHEMOD" /\ i < x.hdr =>
              db'[p] = X[p] /\ \A q \in Page : q # p => db'[q] = db[q]
        /\ ~(i < x.hdr) => UNCHANGED db
    <3>1. CASE x.state # "WRITER_CACHEMOD" /\ i < x.hdr
      <4>1. i < h
        <5>1. CASE h = x.hdr
          BY <3>1, <5>1
        <5>2. CASE h + 1 = x.hdr /\ jrnl[h] = Header(x.txn, 0)
          <6>1. i # h
            BY <2>2, <5>2 DEF Header
          <6>2. h \in Nat
            BY <1>1, Sizes DEF Places
          <6> QED
            BY <1>4, <3>1, <5>2, <6>1, <6>2
        <5> QED
          BY <2>1, <5>1, <5>2 DEF WriterOK, Bound
      <4>2. Covered(jrnl, h, p)
        BY <1>4, <2>2, <2>3, <4>1 DEF Covered
      <4> DEFINE v == X[p]
      <4>3. WriteDb(p, v)
        BY <1>3, <2>3, <2>4, <3>1 DEF PlaybackOnePage
      <4> HIDE DEF v
      <4>4. /\ DiskOK(X, h)' /\ GhostsOK(X, Y)' /\ UNCHANGED <<jrnl, jDisk>>
            /\ db'[p] = v /\ \A q \in Page : q # p => db'[q] = db[q]
        BY <1>1, <4>2, <4>3, DbWritten
      <4> QED
        BY <3>1, <4>4 DEF v
    <3>2. CASE ~(x.state # "WRITER_CACHEMOD" /\ i < x.hdr)
      <4>1. UNCHANGED <<db, dbDisk, jrnl, jDisk, ghosts>>
        BY <1>3, <1>7, <3>2 DEF PlaybackOnePage, server
      <4>2. DiskOK(X, h)'
        BY <1>1, <4>1 DEF DiskOK
      <4>3. GhostsOK(X, Y)'
        BY <1>1, <4>1 DEF GhostsOK
      <4> QED
        BY <3>2, <4>1, <4>2, <4>3
    <3> QED
      BY <3>1, <3>2
  <2>7. Mine(pager[c], jrnl)' = Mine(x, jrnl)
    BY <2>5, <2>6 DEF Mine, Keeps
  <2>8. \A q \in Page : z.cache[q] \in {NoPage, X[q]} \/ \E m \in z.todo : jrnl[m].pg = q
    <3>1. z.cache[p] \in {NoPage, X[p]}
      BY <2>5
    <3>2. ASSUME NEW q \in Page, q # p
          PROVE  z.cache[q] \in {NoPage, X[q]} \/ \E m \in z.todo : jrnl[m].pg = q
      <4>1. z.cache[q] \in {NoPage, X[q]} \/ \E m \in x.todo : jrnl[m].pg = q
        BY <2>1, <2>5, <3>2 DEF Undoing
      <4> QED
        BY <2>3, <2>5, <3>2, <4>1
    <3> QED
      BY <3>1, <3>2
  <2>9. z.vers = X[1] \/ \E m \in z.todo : jrnl[m].pg = 1
    <3>1. CASE p = 1
      BY <2>1, <2>5, <3>1
    <3>2. CASE p # 1
      <4>1. z.vers = X[1] \/ \E m \in x.todo : jrnl[m].pg = 1
        BY <2>1, <2>5, <3>2 DEF Undoing
      <4> QED
        BY <2>3, <2>5, <3>2, <4>1
    <3> QED
      BY <3>1, <3>2
  <2>10. ASSUME x.state # "WRITER_CACHEMOD", NEW q \in Page
         PROVE  db'[q] = X[q] \/ \E m \in z.todo : m < x.hdr /\ jrnl[m].pg = q
    <3>1. db[q] = X[q] \/ \E m \in x.todo : m < x.hdr /\ jrnl[m].pg = q
      BY <2>1, <2>10 DEF Undoing
    <3>2. CASE i < x.hdr
      <4>1. CASE q = p
        BY <2>6, <2>10, <3>2, <4>1
      <4>2. CASE q # p
        BY <2>3, <2>5, <2>6, <2>10, <3>1, <3>2, <4>2
      <4> QED
        BY <4>1, <4>2
    <3>3. CASE ~(i < x.hdr)
      BY <2>5, <2>6, <3>1, <3>3
    <3> QED
      BY <3>2, <3>3
  <2>11. \A q \in Page : x.state = "WRITER_CACHEMOD" => dbDisk'[q] = {X[q]}
    BY <2>1, <2>6 DEF WriterOK
  <2>12. Undoing(pager[c], X)'
    <3>1. z.todo \subseteq Mine(x, jrnl)
      BY <2>1, <2>5 DEF Undoing
    <3>2. z.hdr = x.hdr
      BY <2>5 DEF Keeps
    <3>3. (z.pc # "play" => z.todo = {}) /\ (z.pc = "delete" => x.state = "WRITER_CACHEMOD")
      BY <2>5
    <3>4. jrnl' = jrnl
      BY <2>6
    <3> HIDE DEF x
    <3> QED
      BY <2>5, <2>7, <2>8, <2>9, <2>10, <2>11, <3>1, <3>2, <3>3, <3>4 DEF Undoing
  <2>13. z.cache[1] # NoPage
    BY <2>1, <2>4, <2>5, Sizes
  <2>14. z.pc \in {"play", "dbsync", "delete"}
    BY <2>5
  <2>15. WriterOK(pager[c], X, h)'
    BY <1>7, <2>1, <2>5, <2>6, <2>11, <2>12, <2>13, <2>14, WriterWrote
  <2>16. Writes(z) /\ z.op # "hot"
    BY <1>7, <2>1, <2>5, <2>14 DEF Writes
  <2>17. Cool(z, held'[c]) => ~Hot(jrnl')
    <3>1. Cool(z, held'[c]) => Cool(x, held[c])
      BY <1>2, <2>1, <2>5, <2>14 DEF Cool, Writes, Writing
    <3> QED
      BY <1>1, <2>6, <3>1 DEF ClientOK
  <2>18. ClientOK(pager[c], held[c], X, h)'
    BY <2>1, <2>5, <2>15, <2>16, <2>17, WriterArrives
  <2>19. Versions(X, Y)' /\ AtomicStep(X, Y, X, Y)
    BY <1>1, <1>2 DEF Versions, AtomicStep
  <2>20. Hot(jrnl') => Hot(jrnl)
    BY <2>6
  <2> QED
    BY <1>1, <2>1, <2>6, <2>18, <2>19, <2>20, WholeStep
<1> QED
  BY <1>5, <1>6, <1>7

-----------------------------------------------------------------------------
(* The end of a transaction. *)

\* With the journal gone the content is what the database file holds.
LEMMA JournalDeleted ==
  ASSUME Files, DeleteJournal, NEW X2, \A p \in Page : dbDisk[p] = {X2[p]} /\ db[p] = X2[p]
  PROVE  DiskOK(X2, 1)' /\ ~Hot(jrnl') /\ \A s \in jDisk'[1] : ~Valid(s)
<1>1. /\ \A i \in Slot : jrnl'[i] = Nil /\ jDisk'[i] = {Nil}
      /\ UNCHANGED <<db, dbDisk>>
  BY DEF DeleteJournal, NoJournal
<1>2. Nil.kind = "nil"
  BY DEF Nil
<1>3. 1 \in Slot /\ \A i \in Slot : i \in Nat /\ ~(i < 1)
  BY Sizes DEF Slot
<1>4. Laid(jrnl', 1, X2)
  BY <1>1, <1>2, <1>3 DEF Laid, Chain, Valid
<1>5. \A p \in Page : db'[p] \in dbDisk'[p] /\ dbDisk'[p] = {X2[p]}
  BY <1>1
<1>6. DiskOK(X2, 1)'
  BY <1>1, <1>2, <1>3, <1>4, <1>5 DEF DiskOK, Valid
<1> QED
  BY <1>1, <1>2, <1>3, <1>6 DEF Hot, Valid

\* What a loss of power may bring back of the deleted journal restores the content
\* it was written for.
LEMMA GhostsDeleted ==
  ASSUME NEW X, NEW Y, NEW h \in Places, Files, DiskOK(X, h), GhostsOK(X, Y), DeleteJournal,
         NEW X2, NEW Y2, \A p \in Page : dbDisk[p] = {X2[p]} /\ db[p] = X2[p],
         (ghosts = {} /\ Hot(jrnl) /\ Y2 = X) \/ (X2 = X /\ Y2 = Y)
  PROVE  GhostsOK(X2, Y2)'
<1> DEFINE new == {j \in Outcomes(jDisk) : Hot(j)}
<1>1. ghosts' = ghosts \cup new /\ UNCHANGED <<db, dbDisk>> /\ \A s \in jDisk'[1] : ~Valid(s)
  BY JournalDeleted DEF DeleteJournal
<1>2. \A p \in Page : dbDisk'[p] = {db'[p]}
  BY <1>1
<1>3. ASSUME NEW g \in new
      PROVE  /\ Hot(g) /\ Laid(g, h, X) /\ (\A p \in Page : db[p] = X[p] \/ Covered(g, h, p))
             /\ g[1] \in jDisk[1]
  <2>1. g \in Outcomes(jDisk) /\ Hot(g)
    OBVIOUS
  <2>2. /\ Laid(g, h, X) /\ g[1] \in jDisk[1]
        /\ \A p \in Page : Covered(jrnl, h, p) => Covered(g, h, p)
    BY <2>1, OutcomeLaid, Sizes
  <2>3. \A p \in Page : db[p] = X[p] \/ Covered(jrnl, h, p)
    BY DEF DiskOK
  <2> QED
    BY <2>1, <2>2, <2>3
<1>4. CASE ghosts = {} /\ Hot(jrnl) /\ Y2 = X
  <2>1. jrnl \in new
    BY <1>4, PresentOutcome
  <2>2. ghosts' # {} /\ ghosts' = new
    BY <1>1, <1>4, <2>1
  <2> HIDE DEF new
  <2> QED
    BY <1>1, <1>2, <1>3, <1>4, <2>2 DEF GhostsOK
<1>5. CASE X2 = X /\ Y2 = Y
  <2>1. CASE ghosts = {}
    <3>1. Y = X /\ ghosts' = new
      BY <1>1, <2>1 DEF GhostsOK
    <3> HIDE DEF new
    <3> QED
      BY <1>1, <1>2, <1>3, <1>5, <3>1 DEF GhostsOK
  <2>2. CASE ghosts # {}
    <3>1. \A g \in new : Valid(g[1]) /\ g[1] \in jDisk[1]
      BY <1>3 DEF Hot, Valid
    <3>2. new = {}
      BY <2>2, <3>1 DEF GhostsOK
    <3>3. ghosts' = ghosts
      BY <1>1, <3>2
    <3> QED
      BY <1>1, <1>2, <1>5, <2>2, <3>3 DEF GhostsOK
  <2> QED
    BY <2>1, <2>2
<1> QED
  BY <1>4, <1>5

\* The journal of a transaction that is committed, or taken back, is deleted.
LEMMA EndTransactionStep ==
  ASSUME NEW c \in Client, NEW X, NEW Y, NEW h, Before(c, X, Y, h), EndTransaction(c)
  PROVE  Arrives(X, Y)
<1> DEFINE x == pager[c]
           z == pager'[c]
<1>1. /\ x \in Pager /\ pager \in [Client -> Pager] /\ Files /\ DiskOK(X, h) /\ GhostsOK(X, Y)
      /\ h \in Places /\ Legal(x, held[c]) /\ ClientOK(x, held[c], X, h) /\ held[c] \in Level
      /\ Versions(X, Y) /\ nTxn \in Nat /\ JournalOK(x)
  BY StepFacts
<1>2. DeleteJournal /\ UNCHANGED <<held, nTxn>> /\ Goto(c, "unlock")
  BY DEF EndTransaction
<1>3. /\ z.state = x.state /\ z.op = x.op /\ z.pc = "unlock" /\ z.cache = x.cache
      /\ z.vers = x.vers /\ z.heldShared = x.heldShared /\ z.dirty = x.dirty
  BY <1>1, <1>2 DEF Goto, Pager
<1>4. UNCHANGED <<db, dbDisk>>
  BY <1>2 DEF DeleteJournal
<1>5. 1 \in Places /\ 1 \in Page
  BY Sizes DEF Places
<1>6. CASE x.state = "WRITER_FINISHED" /\ x.op = "none" /\ x.pc = "idle"
  <2>1. Writes(x) /\ held[c] = EXCLUSIVE_LOCK
    <3>1. Writes(x)
      BY <1>6 DEF Writes, Writing
    <3>2. x.state = "WRITER_FINISHED"
      BY <1>6
    <3> HIDE DEF x
    <3> QED
      BY <1>1, <3>1, <3>2 DEF Legal, Stands
  <2>2. WriterOK(x, X, h) /\ Finished(x, X) /\ x.cache[1] # NoPage /\ x.heldShared
    BY <1>1, <1>6, <2>1 DEF ClientOK, WriterOK
  <2>3. PICK X2 : X2 = db
    OBVIOUS
  <2>4. /\ \A p \in Page : dbDisk[p] = {X2[p]} /\ db[p] = X2[p] /\ x.cache[p] \in {NoPage, X2[p]}
        /\ \A p \in Page : X2[p] = IF p = 1 THEN X[1] + 1
                                   ELSE IF p \in x.inJournal THEN x.txn ELSE X[p]
        /\ x.vers = X2[1] /\ 1 \in x.inJournal
    BY <2>2, <2>3 DEF Finished
  <2>5. X \in [Page -> Nat] /\ X[1] \in Nat /\ X2[1] = X[1] + 1 /\ X[1] < X2[1] /\ X2[1] \in Nat
    BY <1>1, <1>5, <2>4 DEF Versions
  <2>6. ghosts = {} /\ Hot(jrnl)
    <3> DEFINE p == 1
    <3>1. p \in Page /\ dbDisk[p] # {X[p]}
      BY <1>5, <2>4, <2>5
    <3> HIDE DEF p
    <3>2. Covered(jrnl, h, p)
      BY <1>1, <3>1 DEF DiskOK
    <3> QED
      BY <1>1, <3>1, <3>2, CoveredHot
  <2>7. DiskOK(X2, 1)' /\ ~Hot(jrnl')
    BY <1>1, <1>2, <2>4, JournalDeleted
  <2>8. GhostsOK(X2, X)'
    BY <1>1, <1>2, <2>4, <2>6, GhostsDeleted
  <2>9. x.txn = nTxn /\ x.txn > 0 /\ x.inJournal \ {1} # {} /\ x.inJournal \subseteq Page
    <3>1. x.txn = nTxn /\ Counters(x) /\ x.pc # "journal" /\ x.inJournal \subseteq Page
      BY <1>1, <1>6, <2>1 DEF JournalOK, Pager
    <3> HIDE DEF x
    <3> QED
      BY <3>1 DEF Counters
  <2>10. \A p \in Page : X[p] < nTxn
    BY <2>2, <2>9 DEF WriterOK
  <2>11. X2 \in [Page -> Nat] /\ \A p \in Page : X2[p] <= nTxn
    <3>1. X2 = [p \in Page |-> X2[p]]
      BY <1>1, <2>3 DEF Files
    <3>2. \A p \in Page : X2[p] \in Nat /\ X2[p] <= nTxn
      BY <1>1, <1>5, <2>4, <2>5, <2>9, <2>10 DEF Versions
    <3> QED
      BY <3>1, <3>2
  <2>12. Versions(X2, X)'
    BY <1>1, <1>2, <2>11 DEF Versions
  <2>13. AtomicStep(X, Y, X2, X)
    <3>1. PICK t \in Txn \ {0} : t = nTxn
      BY <1>1, <2>9, PagerCommitAssumption DEF Txn, Versions
    <3>2. PICK W \in SUBSET (Page \ {1}) : W = x.inJournal \ {1}
      BY <2>9
    <3>3. X2 = [p \in Page |-> CASE p = 1 -> X[1] + 1
                                 [] p \in W -> t
                                 [] OTHER -> X[p]]
      <4>1. \A p \in Page : X2[p] = CASE p = 1 -> X[1] + 1
                                      [] p \in W -> t
                                      [] OTHER -> X[p]
        <5> SUFFICES ASSUME NEW p \in Page
                     PROVE  X2[p] = CASE p = 1 -> X[1] + 1
                                      [] p \in W -> t
                                      [] OTHER -> X[p]
          OBVIOUS
        <5>1. p \in W <=> p # 1 /\ p \in x.inJournal
          BY <3>2
        <5>2. X2[p] = IF p = 1 THEN X[1] + 1 ELSE IF p \in W THEN t ELSE X[p]
          BY <2>4, <2>9, <3>1, <5>1
        <5> QED
          BY <5>1, <5>2
      <4> QED
        BY <2>11, <4>1
    <3>4. W # {} /\ \A p \in Page \ {1} : X[p] < t
      BY <2>9, <2>10, <3>1, <3>2
    <3> QED
      BY <3>3, <3>4 DEF AtomicStep
  <2>14. ClientOK(pager[c], held[c], X2, 1)'
    <3>1. Fresh(pager[c], X2)'
      BY <1>3, <2>4 DEF Fresh
    <3>2. z.state = "WRITER_FINISHED" /\ z.op = "none" /\ z.cache[1] # NoPage /\ z.heldShared
      BY <1>3, <1>6, <2>2
    <3> HIDE DEF x
    <3> QED
      BY <1>3, <2>7, <3>1, <3>2 DEF ClientOK, Writes
  <2> QED
    BY <1>5, <2>1, <2>5, <2>7, <2>8, <2>12, <2>13, <2>14, WholeStep
<1>7. CASE x.pc = "delete"
  <2>1. x.op \in {"hot", "rollback"}
    <3>1. x.pc = "delete"
      BY <1>7
    <3> HIDE DEF x
    <3> QED
      BY <1>1, <3>1 DEF Legal, Stands
  <2>2. \A p \in Page : dbDisk[p] = {X[p]}
    <3>1. CASE x.op = "hot"
      BY <1>7, <3>1, HotFacts DEF HotOK
    <3>2. CASE x.op = "rollback"
      BY <1>7, <3>2, UndoFacts DEF Undoing
    <3> QED
      BY <2>1, <3>1, <3>2
  <2>3. \A p \in Page : dbDisk[p] = {X[p]} /\ db[p] = X[p]
    BY <1>1, <2>2 DEF DiskOK
  <2>4. DiskOK(X, 1)' /\ ~Hot(jrnl')
    BY <1>1, <1>2, <2>3, JournalDeleted
  <2>5. GhostsOK(X, Y)'
    BY <1>1, <1>2, <2>3, GhostsDeleted
  <2>6. Versions(X, Y)' /\ AtomicStep(X, Y, X, Y)
    BY <1>1, <1>2 DEF Versions, AtomicStep
  <2>7. ClientOK(pager[c], held[c], X, 1)' /\ held[c] >= RESERVED_LOCK
    <3>1. CASE x.op = "hot"
      <4>1. x.state = "OPEN" /\ held[c] = EXCLUSIVE_LOCK
        BY <3>1, HotFacts
      <4>2. /\ Rests(x, X) /\ x.dirty = {}
            /\ x.cache[1] = NoPage => \A p \in Page : x.cache[p] = NoPage
            /\ x.heldShared \/ x.cache[1] = NoPage
        BY <1>1, <4>1 DEF ClientOK
      <4>3. Rests(pager[c], X)' /\ HotOK(pager[c], X, 1)'
        BY <1>3, <4>2 DEF Rests, HotOK
      <4> HIDE DEF x
      <4> QED
        BY <1>3, <2>4, <3>1, <4>1, <4>2, <4>3 DEF ClientOK, Writes, Writing
    <3>2. CASE x.op = "rollback"
      <4>1. /\ Writes(x) /\ held[c] >= RESERVED_LOCK /\ x.heldShared /\ x.cache[1] # NoPage
            /\ Undoing(x, X)
        BY <1>7, <3>2, UndoFacts
      <4>2. x.state \in Writing
        BY <4>1 DEF Writes
      <4>3. x.todo = {}
        BY <1>7, <4>1 DEF Undoing
      <4>4. x.vers = X[1] /\ \A p \in Page : x.cache[p] \in {NoPage, X[p]}
        BY <4>1, <4>3 DEF Undoing
      <4>5. Fresh(pager[c], X)'
        BY <1>3, <4>4 DEF Fresh
      <4> HIDE DEF x
      <4> QED
        BY <1>3, <2>4, <3>2, <4>1, <4>2, <4>5 DEF ClientOK, Writes, Writing
    <3> QED
      BY <2>1, <3>1, <3>2
  <2> QED
    BY <1>5, <2>4, <2>5, <2>6, <2>7, WholeStep
<1> QED
  BY <1>6, <1>7 DEF EndTransaction, At

-----------------------------------------------------------------------------
(* The server starts again, or loses power. *)

\* New Pager objects know nothing, whatever the content is.
LEMMA Reconnected ==
  ASSUME Reconnect, NEW X, NEW h, NEW c \in Client
  PROVE  ClientOK(pager[c], held[c], X, h)'
<1> DEFINE z == NewPager
<1>1. pager'[c] = z /\ held'[c] = NO_LOCK
  BY DEF Reconnect
<1>2. /\ z.cache = EmptyCache /\ z.state = "OPEN" /\ z.op = "none" /\ z.pc = "idle"
      /\ z.dirty = {}
  BY DEF NewPager
<1> HIDE DEF z
<1>3. ~Cool(z, NO_LOCK)
  BY <1>2 DEF Cool
<1>4. \A p \in Page : z.cache[p] = NoPage
  BY <1>2 DEF EmptyCache
<1>5. z.cache[1] = NoPage
  BY <1>4, Sizes
<1> QED
  BY <1>1, <1>2, <1>3, <1>4, <1>5 DEF ClientOK, Writes, Writing, Rests

\* The server process starts again: the files are as they were.
LEMMA ServerRestartStep ==
  ASSUME NEW X, NEW Y, NEW h \in Places, Core(X, Y, h), ServerRestarts
  PROVE  Arrives(X, Y)
<1>1. UNCHANGED <<db, dbDisk, jrnl, jDisk, ghosts, nTxn>> /\ Reconnect
  BY DEF ServerRestarts, server
<1>2. Versions(X, Y)'
  BY <1>1 DEF Core, Versions
<1>3. DiskOK(X, h)'
  BY <1>1 DEF Core, DiskOK
<1>4. GhostsOK(X, Y)'
  BY <1>1 DEF Core, GhostsOK
<1>5. \A c \in Client : ClientOK(pager[c], held[c], X, h)'
  BY <1>1, Reconnected
<1>6. Core(X, Y, h)'
  BY <1>2, <1>3, <1>4, <1>5 DEF Core
<1>7. AtomicStep(X, Y, X, Y)
  BY DEF AtomicStep
<1> QED
  BY <1>6, <1>7 DEF Arrives

\* What a loss of power leaves is on the disk.
LEMMA DiskSettled ==
  ASSUME NEW X, NEW h \in Places, NEW d, NEW j, Readable(j), Laid(j, h, X),
         \A p \in Page : d[p] = X[p] \/ Covered(j, h, p),
         db' = d, dbDisk' = [p \in Page |-> {d[p]}], jrnl' = j,
         jDisk' = [i \in Slot |-> {j[i]}]
  PROVE  DiskOK(X, h)'
<1>1. \A i \in Slot : jDisk'[i] = {j[i]}
  OBVIOUS
<1>2. \A i \in Slot : i > h => j[i].kind # "hdr"
  BY DEF Laid
<1>3. \A p \in Page : dbDisk'[p] = {d[p]}
  OBVIOUS
<1>4. ASSUME h \in Slot, Valid(j[h])
      PROVE  \A i \in (h + 1) .. (h + j[h].n) : jDisk'[i] = {j[i]}
  <2>1. h + j[h].n <= JLen /\ j[h].n \in Nat /\ h \in Nat /\ JLen \in Nat
    BY <1>4, Sizes DEF Laid, Readable, PagedSlot, SlotRec
  <2>2. \A i \in (h + 1) .. (h + j[h].n) : i \in Slot
    BY <2>1 DEF Slot
  <2> QED
    BY <1>1, <2>2
<1> QED
  BY <1>1, <1>2, <1>3, <1>4 DEF DiskOK

\* A loss of power leaves the content, or takes the last transaction back.
LEMMA PowerLossStep ==
  ASSUME NEW X, NEW Y, NEW h \in Places, Core(X, Y, h), Files, nTxn \in Nat, PowerLoss
  PROVE  Arrives(X, Y)
<1>1. PICK d \in Outcomes(dbDisk), j \in Outcomes(jDisk) \cup ghosts :
          /\ db' = d
          /\ dbDisk' = [p \in Page |-> {d[p]}]
          /\ jrnl' = j
          /\ jDisk' = [i \in Slot |-> {j[i]}]
  BY DEF PowerLoss
<1>2. Reconnect /\ ghosts' = {} /\ nTxn' = nTxn
  BY DEF PowerLoss
<1>3. Versions(X, Y) /\ DiskOK(X, h) /\ GhostsOK(X, Y)
  BY DEF Core
<1>4. \A p \in Page : d[p] \in dbDisk[p]
  BY OutcomesChoose DEF Files
<1>5. ASSUME NEW V, V = X \/ V = Y, NEW k \in Places, Laid(j, k, V),
             \A p \in Page : d[p] = V[p] \/ Covered(j, k, p)
      PROVE  Core(V, V, k)'
  <2>1. DiskOK(V, k)'
    <3>1. Readable(j)
      BY OutcomesChoose DEF Files, Readable
    <3> QED
      BY <1>1, <1>5, <3>1, DiskSettled
  <2>2. Versions(V, V)'
    BY <1>2, <1>3, <1>5 DEF Versions
  <2>3. GhostsOK(V, V)'
    BY <1>2 DEF GhostsOK
  <2>4. \A c \in Client : ClientOK(pager[c], held[c], V, k)'
    BY <1>2, Reconnected
  <2> QED
    BY <2>1, <2>2, <2>3, <2>4 DEF Core
<1>6. CASE j \in Outcomes(jDisk)
  <2>1. Laid(j, h, X) /\ \A p \in Page : Covered(jrnl, h, p) => Covered(j, h, p)
    BY <1>3, <1>6, OutcomeLaid
  <2>2. \A p \in Page : d[p] = X[p] \/ Covered(j, h, p)
    BY <1>3, <1>4, <2>1 DEF DiskOK
  <2>3. Core(X, X, h)'
    BY <1>5, <2>1, <2>2
  <2>4. AtomicStep(X, Y, X, X)
    BY DEF AtomicStep
  <2> QED
    BY <2>3, <2>4 DEF Arrives
<1>7. CASE j \in ghosts
  <2>1. PICK k \in Places : Laid(j, k, Y) /\ \A p \in Page : db[p] = Y[p] \/ Covered(j, k, p)
    BY <1>3, <1>7 DEF GhostsOK
  <2>2. \A p \in Page : d[p] = db[p]
    BY <1>3, <1>4, <1>7 DEF GhostsOK
  <2>3. \A p \in Page : d[p] = Y[p] \/ Covered(j, k, p)
    BY <2>1, <2>2
  <2>4. Core(Y, Y, k)'
    BY <1>5, <2>1, <2>3
  <2>5. AtomicStep(X, Y, Y, Y)
    BY DEF AtomicStep
  <2> QED
    BY <2>4, <2>5 DEF Arrives
<1> QED
  BY <1>6, <1>7

\* A step of a client.
LEMMA ClientArrives ==
  ASSUME NEW c \in Client, NEW X, NEW Y, NEW h, Before(c, X, Y, h),
         ClientStep(c) \/ ClientDies(c), ~misled'
  PROVE  Arrives(X, Y)
<1>1. CASE \/ SharedLock(c) \/ JournalAccess(c) \/ CheckReserved(c) \/ FirstByte(c)
           \/ HotLock(c) \/ HotRefused(c) \/ Recheck(c)
  BY <1>1, HotJournalSteps
<1>2. CASE CheckVersion(c) \/ EndRead(c) \/ Begin(c) \/ EndEmpty(c) \/ EndUnlock(c)
  BY <1>2, ReaderSteps
<1>3. CASE PagerError(c) \/ DeleteFails(c) \/ ErrorUnlock(c) \/ HotFails(c) \/ ClientDies(c)
  BY <1>3, GivingUp
<1>4. CASE \E p \in Page : ReadPage(c, p)
  BY <1>4, ReadPageStep
<1>5. CASE ExclusiveLock(c) \/ LockBusy(c) \/ \E p \in Page \ {1} : Spill(c, p)
  BY <1>5, LockingSteps
<1>6. CASE Rollback(c) \/ CommitFails(c)
  BY <1>6, RollbackSteps
<1>7. CASE \E p \in Page \ {1} : OpenJournal(c, p)
  BY <1>7, OpenJournalContent
<1>8. CASE CommitPhaseOne(c) \/ \E p \in Page \ {1} : WritePage(c, p)
  BY <1>8, PageSteps
<1>9. CASE FirstSync(c) \/ WriteNRec(c) \/ SecondSync(c) \/ NewHeader(c)
  BY <1>9, FirstSyncStep, WriteNRecStep, SecondSyncStep, NewHeaderStep
<1>10. CASE SpillWrite(c) \/ CommitWrite(c) \/ HotSync(c) \/ DbSync(c)
  BY <1>10, SpillWriteStep, CommitWriteStep, HotSyncStep, DbSyncStep
<1>11. CASE PlaybackOnePage(c) \/ EndTransaction(c)
  BY <1>11, PlaybackStep, EndTransactionStep
<1> QED
  BY <1>1, <1>2, <1>3, <1>4, <1>5, <1>6, <1>7, <1>8, <1>9, <1>10, <1>11 DEF ClientStep

\* misled is a history variable: once set, it stays.
LEMMA MisledStays ==
  ASSUME misled \in BOOLEAN, [Next]_vars
  PROVE  misled' \in BOOLEAN /\ (misled => misled')
<1>1. ASSUME NEW c \in Client, ClientStep(c), ~CheckReserved(c)
      PROVE  misled' = misled
  BY <1>1 DEF ClientStep, SharedLock, JournalAccess, FirstByte, HotLock, HotRefused, Recheck,
     HotSync, CheckVersion, EndRead, Begin, ReadPage, OpenJournal, WritePage, Spill,
     ExclusiveLock, LockBusy, FirstSync, WriteNRec, SecondSync, NewHeader, SpillWrite,
     CommitPhaseOne, CommitWrite, DbSync, Rollback, EndEmpty, PlaybackOnePage, EndTransaction,
     EndUnlock, CommitFails, PagerError, DeleteFails, ErrorUnlock, HotFails, Fault
<1>2. ASSUME NEW c \in Client, CheckReserved(c)
      PROVE  misled' = (misled \/ (Hot(jrnl) /\ \E d \in Client : Refused(d)))
  BY <1>2 DEF CheckReserved
<1>3. ASSUME (\E c \in Client : ClientDies(c)) \/ ServerRestarts \/ PowerLoss
      PROVE  misled' = misled
  BY <1>3 DEF ClientDies, ServerRestarts, PowerLoss, Fault
<1>4. CASE UNCHANGED vars
  BY <1>4 DEF vars
<1> QED
  BY <1>1, <1>2, <1>3, <1>4, Zenon DEF Next

\* Every step leads to a content, and to one that AtomicDb allows, unless it is
\* the one that takes a hot journal for a living writer's.
LEMMA StepArrives ==
  ASSUME JournalInv, JournalInv', NEW X, NEW Y, NEW h \in Places, Core(X, Y, h), [Next]_vars,
         ~misled'
  PROVE  Arrives(X, Y)
<1>1. LockInv /\ Files /\ nTxn \in Nat
  BY DEF JournalInv, LockInv, Shapes, Pagers
<1>2. ASSUME NEW c \in Client, ClientStep(c) \/ ClientDies(c)
      PROVE  Arrives(X, Y)
  <2>1. Own(c)
    BY <1>1, <1>2, ClientWell DEF Well
  <2>2. Before(c, X, Y, h)
    BY <2>1 DEF Before
  <2> QED
    BY <1>2, <2>2, ClientArrives
<1>3. CASE ServerRestarts
  BY <1>3, ServerRestartStep
<1>4. CASE PowerLoss
  BY <1>1, <1>4, PowerLossStep
<1>5. CASE UNCHANGED vars
  <2>1. UNCHANGED <<held, pager, db, dbDisk, jrnl, jDisk, ghosts, nTxn>>
    BY <1>5 DEF vars, server
  <2>2. Versions(X, Y)' /\ DiskOK(X, h)' /\ GhostsOK(X, Y)'
    BY <2>1 DEF Core, Versions, DiskOK, GhostsOK
  <2>3. \A c \in Client : ClientOK(pager[c], held[c], X, h)'
    <3> SUFFICES ASSUME NEW c \in Client PROVE ClientOK(pager[c], held[c], X, h)'
      OBVIOUS
    <3>1. ClientOK(pager[c], held[c], X, h)
      BY DEF Core
    <3> QED
      BY <2>1, <3>1 DEF ClientOK, WriterOK, Bound, Changing, Finished, Undoing, HotOK, Cool,
         Rests, Fresh, Writes
  <2>4. Core(X, Y, h)' /\ AtomicStep(X, Y, X, Y)
    BY <2>2, <2>3 DEF Core, AtomicStep
  <2> QED
    BY <2>4 DEF Arrives
<1> QED
  BY <1>2, <1>3, <1>4, <1>5 DEF Next

-----------------------------------------------------------------------------
(* The content of the database, for every behaviour. *)

\* At first the pages are empty and there is no journal.
LEMMA InitCore ==
  ASSUME Init
  PROVE  /\ [p \in Page |-> 0] \in [Page -> Nat] /\ 1 \in Places
         /\ Core([p \in Page |-> 0], [p \in Page |-> 0], 1)
<1> DEFINE X == [p \in Page |-> 0]
<1>1. X \in [Page -> Nat] /\ \A p \in Page : X[p] = 0
  OBVIOUS
<1>2. 1 \in Places /\ 1 \in Slot /\ \A i \in Slot : i \in Nat /\ ~(i < 1)
  BY Sizes DEF Places, Slot
<1>3. /\ db = X /\ ghosts = {} /\ nTxn = 0
      /\ \A p \in Page : dbDisk[p] = {0}
      /\ \A i \in Slot : jrnl[i] = Nil /\ jDisk[i] = {Nil}
  BY DEF Init, NoJournal
<1> HIDE DEF X
<1>4. Nil.kind = "nil"
  BY DEF Nil
<1>5. DiskOK(X, 1)
  <2>1. Laid(jrnl, 1, X)
    BY <1>2, <1>3, <1>4 DEF Laid, Chain, Valid
  <2> QED
    BY <1>1, <1>2, <1>3, <1>4, <2>1 DEF DiskOK, Valid
<1>6. GhostsOK(X, X)
  BY <1>3 DEF GhostsOK
<1>7. Versions(X, X)
  BY <1>1, <1>3, PagerCommitAssumption DEF Versions
<1>8. \A c \in Client : ClientOK(pager[c], held[c], X, 1)
  <2> SUFFICES ASSUME NEW c \in Client PROVE ClientOK(pager[c], held[c], X, 1)
    OBVIOUS
  <2>1. pager[c] = NewPager /\ held[c] = NO_LOCK
    BY DEF Init
  <2> DEFINE z == NewPager
  <2>2. /\ z.cache = EmptyCache /\ z.state = "OPEN" /\ z.op = "none" /\ z.pc = "idle"
        /\ z.dirty = {}
    BY DEF NewPager
  <2> HIDE DEF z
  <2>3. ~Cool(z, NO_LOCK)
    BY <2>2 DEF Cool
  <2>4. ClientOK(z, NO_LOCK, X, 1)
    BY <2>2, <2>3, EmptyMove
  <2> QED
    BY <2>1, <2>4 DEF z
<1> QED
  BY <1>1, <1>2, <1>5, <1>6, <1>7, <1>8 DEF Core, X

\* There is a content that the files and the caches agree on.
LEMMA ContentInvariance ==
  Spec => []ContentInv
<1>1. Init /\ JournalInv => ContentInv
  BY InitCore DEF ContentInv, Settled, Init
<1>2. JournalInv /\ JournalInv' /\ ContentInv /\ [Next]_vars => ContentInv'
  <2> SUFFICES ASSUME JournalInv, JournalInv', ContentInv, [Next]_vars
               PROVE  ContentInv'
    OBVIOUS
  <2>1. misled' \in BOOLEAN /\ (misled => misled')
    BY MisledStays DEF ContentInv
  <2>2. ASSUME ~misled'
        PROVE  Settled'
    <3>1. PICK X, Y : \E h \in Places : Core(X, Y, h)
      BY <2>1, <2>2 DEF ContentInv, Settled
    <3>2. PICK h \in Places : Core(X, Y, h)
      BY <3>1
    <3>3. Arrives(X, Y)
      BY <2>2, <3>2, StepArrives
    <3> QED
      BY <3>3 DEF Arrives, Settled
  <2> QED
    BY <2>1, <2>2 DEF ContentInv
<1> QED
  BY <1>1, <1>2, JournalInvariance, PTL DEF Spec

\* The content is what the next client to open the database will find.
LEMMA ContentIs ==
  ASSUME JournalInv, NEW X, NEW Y, NEW h \in Places, Core(X, Y, h)
  PROVE  Content = X /\ Fallback = Y
<1>1. Files /\ Versions(X, Y) /\ DiskOK(X, h) /\ GhostsOK(X, Y)
  BY DEF JournalInv, LockInv, Shapes, Core
<1> QED
  BY <1>1, CoreContent

\* The caches hold the content.
LEMMA ContentInvReads ==
  ContentInv => OnlyRefusalMisleads
<1> SUFFICES ASSUME ContentInv, ~misled, NEW c \in Client, NEW p \in Page, p \notin pager[c].inJournal,
                    InTransaction(c)
             PROVE  pager[c].cache[p] \in {NoPage, Content[p]}
  BY DEF OnlyRefusalMisleads, ReaderSeesContent
<1> DEFINE x == pager[c]
<1>1. PICK X, Y : \E h \in Places : Core(X, Y, h)
  BY DEF ContentInv, Settled
<1>2. PICK h \in Places : Core(X, Y, h)
  BY <1>1
<1>3. Content = X
  BY <1>2, ContentIs DEF ContentInv
<1>4. ClientOK(x, held[c], X, h) /\ JournalOK(x)
  BY <1>2 DEF Core, ContentInv, JournalInv
<1>5. CASE x.state \in {"READER", "WRITER_LOCKED"}
  BY <1>3, <1>4, <1>5 DEF ClientOK, Fresh
<1>6. CASE x.state \in Writing /\ x.pc = "unlock"
  BY <1>3, <1>4, <1>6 DEF ClientOK, Fresh
<1>7. CASE Writes(x)
  <2>1. WriterOK(x, X, h) /\ Contents(x, jrnl)
    BY <1>4, <1>7 DEF ClientOK, JournalOK
  <2>2. CASE x.op = "rollback"
    <3>1. x.todo \subseteq Mine(x, jrnl) /\ (x.cache[p] \in {NoPage, X[p]} \/ \E i \in x.todo : jrnl[i].pg = p)
      BY <2>1, <2>2 DEF WriterOK, Undoing
    <3>2. ~\E i \in x.todo : jrnl[i].pg = p
      BY <2>1, <3>1 DEF Contents
    <3> QED
      BY <1>3, <3>1, <3>2
  <2>3. CASE x.op # "rollback"
    <3>1. x.state # "WRITER_FINISHED"
      BY DEF InTransaction
    <3>2. Changing(x, X, h)
      BY <2>1, <2>3, <3>1 DEF WriterOK
    <3> QED
      BY <1>3, <3>2 DEF Changing
  <2> QED
    BY <2>2, <2>3
<1> QED
  BY <1>5, <1>6, <1>7 DEF InTransaction, Writes, Writing

\* For any number of clients, pages, transactions and faults, no cache is stale
\* after another client's commit and no reader sees part of a transaction: a page
\* in the cache that its client has not journalled is the page of the database a
\* recovery would leave; unless some client took the PENDING lock of a refused
\* rollback for a living writer's, which is the one way to see anything else.
THEOREM ReadersSeeContent ==
  Spec => []OnlyRefusalMisleads
BY ContentInvariance, ContentInvReads, PTL

\* A step to a new content is one that AtomicDb promises.
LEMMA AtomicSteps ==
  ASSUME NEW X, NEW Y, NEW X2, NEW Y2, AtomicStep(X, Y, X2, Y2),
         Content = X, Fallback = Y, Content' = X2, Fallback' = Y2
  PROVE  Atomic!Promised
<1>1. CASE X2 = X /\ Y2 = X
  BY <1>1 DEF Atomic!Promised, Atomic!Settle
<1>2. CASE X2 = X /\ Y2 = Y
  BY <1>2 DEF Atomic!Promised
<1>3. CASE X2 = Y /\ Y2 = Y
  BY <1>3 DEF Atomic!Promised, Atomic!Revert
<1>4. CASE /\ Y2 = X
           /\ \E t \in Txn \ {0} : \E W \in SUBSET (Page \ {1}) :
                 /\ W # {}
                 /\ \A p \in Page \ {1} : X[p] < t
                 /\ X2 = [p \in Page |-> CASE p = 1 -> X[1] + 1
                                           [] p \in W -> t
                                           [] OTHER -> X[p]]
  <2>1. Atomic!Page = Page
    BY DEF Atomic!Page, Page
  <2>2. PICK t \in Txn \ {0}, W \in SUBSET (Page \ {1}) :
            /\ W # {}
            /\ \A p \in Page \ {1} : X[p] < t
            /\ X2 = [p \in Page |-> CASE p = 1 -> X[1] + 1
                                      [] p \in W -> t
                                      [] OTHER -> X[p]]
    BY <1>4
  <2>3. Atomic!Commit(t, W)
    BY <1>4, <2>1, <2>2 DEF Atomic!Commit
  <2> QED
    BY <2>1, <2>2, <2>3 DEF Atomic!Promised
<1> QED
  BY <1>1, <1>2, <1>3, <1>4 DEF AtomicStep

\* For any number of clients, pages, transactions and faults, a transaction changes
\* the database in one step and as a whole, and only a loss of power takes the last
\* one back, as a whole, as long as no client was let in before a recovery.
THEOREM CommitsAreAtomic ==
  Spec => ImplementsAtomicDb
<1>1. /\ JournalInv => \A X, Y : \A h \in Places : Core(X, Y, h) => Content = X /\ Fallback = Y
      /\ JournalInv' => \A X, Y : \A h \in Places : Core(X, Y, h)' => Content' = X /\ Fallback' = Y
  <2>1. JournalInv => \A X, Y : \A h \in Places : Core(X, Y, h) => Content = X /\ Fallback = Y
    BY ContentIs
  <2>2. (JournalInv => \A X, Y : \A h \in Places : Core(X, Y, h) => Content = X /\ Fallback = Y)'
    BY <2>1, PTL
  <2> QED
    BY <2>1, <2>2
<1>2. Init /\ ContentInv => Atomic!Init
  <2> SUFFICES ASSUME Init, ContentInv PROVE Atomic!Init
    OBVIOUS
  <2>1. misled = FALSE
    BY DEF Init
  <2> QED
    BY <2>1, InitCore, ContentIs DEF ContentInv, Atomic!Init, Atomic!Page, Page
<1>3. ContentInv /\ ContentInv' /\ [Next]_vars => [Atomic!Next]_<<Content, Fallback, misled>>
  <2> SUFFICES ASSUME ContentInv, ContentInv', [Next]_vars
               PROVE  Atomic!Next
    OBVIOUS
  <2>1. JournalInv /\ JournalInv' /\ misled' \in BOOLEAN /\ (misled => misled')
    BY MisledStays DEF ContentInv
  <2>2. CASE misled'
    BY <2>1, <2>2 DEF Atomic!Next
  <2>3. CASE ~misled'
    <3>1. ~misled /\ Settled
      BY <2>1, <2>3 DEF ContentInv
    <3>2. PICK X, Y : \E h \in Places : Core(X, Y, h)
      BY <3>1 DEF Settled
    <3>3. PICK h \in Places : Core(X, Y, h)
      BY <3>2
    <3>4. PICK X2, Y2 : AtomicStep(X, Y, X2, Y2) /\ \E h2 \in Places : Core(X2, Y2, h2)'
      BY <2>1, <2>3, <3>3, StepArrives DEF Arrives
    <3>5. PICK h2 \in Places : Core(X2, Y2, h2)'
      BY <3>4
    <3>6. Content = X /\ Fallback = Y
      BY <2>1, <3>3, ContentIs
    <3>7. Content' = X2 /\ Fallback' = Y2
      BY <1>1, <2>1, <3>5
    <3>8. Atomic!Promised
      BY <3>4, <3>6, <3>7, AtomicSteps
    <3> QED
      BY <2>3, <3>1, <3>8 DEF Atomic!Next
  <2> QED
    BY <2>2, <2>3
<1> QED
  BY <1>2, <1>3, ContentInvariance, PTL DEF Spec, ImplementsAtomicDb, Atomic!Spec

-----------------------------------------------------------------------------
(* The types of the variables, which they keep behind a misled client as     *)
(* well: nothing here rests on the content.                                  *)

\* The counters of a Pager are in their ranges.
Numbers(x) == x.nRec <= NPage /\ x.hdr <= JLen + 1 /\ x.off <= JLen + 1 /\ x.txn <= MaxTxn

\* What a page and a slot of a journal can hold once n transactions were started.
Known(n) == (0 .. n) \cup {Torn}

KnownSlot(n) ==
    {Nil} \cup {Header(k, m) : k \in 1 .. n, m \in 0 .. NPage}
          \cup {Record(k, p, v) : k \in 1 .. n, p \in Page, v \in Known(n)}

\* What a Pager keeps in its cache, whatever the pages hold: a dirty page, page 1
\* of a writer, and a change counter below the number of its transaction.
Sound(x, j) ==
    /\ x.dirty \subseteq x.inJournal
    /\ \A p \in x.dirty : x.cache[p] # NoPage
    /\ x.state = "WRITER_LOCKED" \/ Writes(x) => x.cache[1] # NoPage
    /\ Writes(x) => x.nRec <= Body(x) + PageOne(x)
    /\ Writes(x) /\ x.op \in {"none", "spill"} /\ 1 \notin x.inJournal =>
          x.vers = Torn \/ x.vers < x.txn
    /\ x.op = "spill" => x.page \in x.dirty \ {1}
    /\ x.op = "commit" => 1 \in x.inJournal
    /\ x.op = "commit" /\ x.pc # "dbsync" => x.dirty # {}
    /\ x.pc = "journal" => x.cache[x.page] # NoPage
    /\ x.pc = "play" => \A i \in x.todo : j[i].kind = "rec"

\* The parts of TypeOK.
PagerTyped(x, n) ==
    /\ x.cache \in [Page -> Known(n) \cup {NoPage}] /\ x.vers \in Known(n)
    /\ Numbers(x) /\ x.page \in Page \cup {0}

DbTyped(n) == db \in [Page -> Known(n)] /\ dbDisk \in [Page -> SUBSET Known(n)]

JournalTyped(n) ==
    /\ jrnl \in [Slot -> KnownSlot(n)] /\ jDisk \in [Slot -> SUBSET KnownSlot(n)]
    /\ ghosts \subseteq [Slot -> KnownSlot(n)]

TypeInv ==
    /\ nTxn \in Txn /\ faults \in 0 .. MaxFaults /\ misled \in BOOLEAN
    /\ \A c \in Client : PagerTyped(pager[c], nTxn) /\ Sound(pager[c], jrnl)
    /\ DbTyped(nTxn) /\ JournalTyped(nTxn)

\* The numbers of transactions, and the two that are none.
LEMMA KnownValues ==
  ASSUME NEW n \in Txn
  PROVE  /\ n \in Nat /\ n <= MaxTxn /\ MaxTxn \in Nat
         /\ n \in Known(n) /\ 0 \in Known(n) /\ Torn \in Known(n)
         /\ \A v \in Known(n) : v \in Nat /\ v # NoPage /\ v \in Value
         /\ NoPage \notin Known(n)
<1>1. n \in Nat /\ n <= MaxTxn /\ MaxTxn \in Nat
  BY PagerCommitAssumption DEF Txn
<1>2. \A v \in Known(n) : v \in Nat /\ v # NoPage /\ v \in Value
  BY <1>1 DEF Known, Torn, NoPage, Value, Txn
<1>3. n \in 0 .. n /\ 0 \in 0 .. n
  BY <1>1
<1>4. NoPage \notin Known(n)
  BY <1>2
<1>5. n \in Known(n) /\ 0 \in Known(n) /\ Torn \in Known(n)
  BY <1>3 DEF Known
<1> QED
  BY <1>1, <1>2, <1>4, <1>5

\* What the slots of a journal may hold.
LEMMA SlotValues ==
  ASSUME NEW n \in Txn
  PROVE  /\ Nil \in KnownSlot(n)
         /\ \A k \in 1 .. n : \A m \in 0 .. NPage : Header(k, m) \in KnownSlot(n)
         /\ \A k \in 1 .. n : \A p \in Page : \A v \in Known(n) : Record(k, p, v) \in KnownSlot(n)
         /\ \A s \in KnownSlot(n) : s.kind = "rec" => s.n \in Known(n)
<1>1. /\ Nil \in KnownSlot(n)
      /\ \A k \in 1 .. n : \A m \in 0 .. NPage : Header(k, m) \in KnownSlot(n)
      /\ \A k \in 1 .. n : \A p \in Page : \A v \in Known(n) : Record(k, p, v) \in KnownSlot(n)
  BY DEF KnownSlot
<1>2. ASSUME NEW s \in KnownSlot(n), s.kind = "rec"
      PROVE  s.n \in Known(n)
  <2>1. CASE s = Nil
    BY <1>2, <2>1 DEF Nil
  <2>2. CASE s \in {Header(k, m) : k \in 1 .. n, m \in 0 .. NPage}
    BY <1>2, <2>2 DEF Header
  <2>3. CASE s \in {Record(k, p, v) : k \in 1 .. n, p \in Page, v \in Known(n)}
    BY <2>3 DEF Record
  <2> QED
    BY <2>1, <2>2, <2>3 DEF KnownSlot
<1> QED
  BY <1>1, <1>2

\* More transactions know more values.
LEMMA KnownGrows ==
  ASSUME NEW m \in Txn, NEW n \in Txn, m <= n
  PROVE  Known(m) \subseteq Known(n) /\ KnownSlot(m) \subseteq KnownSlot(n)
<1>1. m \in Nat /\ n \in Nat
  BY KnownValues
<1>2. Known(m) \subseteq Known(n) /\ 1 .. m \subseteq 1 .. n
  BY <1>1 DEF Known
<1>3. KnownSlot(m) \subseteq KnownSlot(n)
  <2> SUFFICES ASSUME NEW s \in KnownSlot(m) PROVE s \in KnownSlot(n)
    OBVIOUS
  <2>1. CASE s = Nil
    BY <2>1, SlotValues
  <2>2. CASE s \in {Header(k, i) : k \in 1 .. m, i \in 0 .. NPage}
    BY <1>2, <2>2, SlotValues
  <2>3. CASE s \in {Record(k, p, v) : k \in 1 .. m, p \in Page, v \in Known(m)}
    BY <1>2, <2>3, SlotValues
  <2> QED
    BY <2>1, <2>2, <2>3 DEF KnownSlot
<1> QED
  BY <1>2, <1>3

\* With the shapes of the variables these make up TypeOK.
LEMMA TypeInvTypes ==
  JournalInv /\ TypeInv => TypeOK
<1> SUFFICES ASSUME JournalInv, TypeInv PROVE TypeOK
  OBVIOUS
<1>1. /\ held \in [Client -> Level] /\ nTxn \in Txn
      /\ \A c \in Client : pager[c] \in Pager /\ PagerTyped(pager[c], nTxn)
  BY DEF JournalInv, LockInv, Shapes, Pagers, TypeInv
<1>2. Known(nTxn) \subseteq Value /\ KnownSlot(nTxn) \subseteq SlotValue
  <2>1. Known(nTxn) \subseteq Value /\ 1 .. nTxn \subseteq Txn \ {0}
    BY <1>1, KnownValues DEF Txn
  <2>2. ASSUME NEW s \in KnownSlot(nTxn)
        PROVE  s \in SlotValue
    <3>1. CASE s = Nil
      BY <3>1 DEF SlotValue
    <3>2. CASE s \in {Header(k, i) : k \in 1 .. nTxn, i \in 0 .. NPage}
      BY <2>1, <3>2 DEF SlotValue
    <3>3. CASE s \in {Record(k, p, v) : k \in 1 .. nTxn, p \in Page, v \in Known(nTxn)}
      BY <2>1, <3>3 DEF SlotValue
    <3> QED
      BY <2>2, <3>1, <3>2, <3>3 DEF KnownSlot
  <2> QED
    BY <2>1, <2>2
<1>3. ASSUME NEW c \in Client
      PROVE  LET pg == pager[c]
             IN  /\ pg.state \in PagerState /\ pg.op \in Op /\ pg.pc \in Pc
                 /\ pg.cache \in [Page -> Value \cup {NoPage}]
                 /\ pg.vers \in Value /\ pg.heldShared \in BOOLEAN
                 /\ pg.dirty \cup pg.needSync \cup pg.inJournal \subseteq Page
                 /\ pg.nRec \in 0 .. NPage
                 /\ pg.hdr \in 0 .. (JLen + 1) /\ pg.off \in 0 .. (JLen + 1)
                 /\ pg.txn \in Txn /\ pg.page \in Page \cup {0}
                 /\ pg.todo \subseteq Slot
  <2> DEFINE x == pager[c]
  <2>1. x \in Pager /\ PagerTyped(x, nTxn)
    BY <1>1
  <2> HIDE DEF x
  <2>2. /\ x.state \in PagerState /\ x.op \in Op /\ x.pc \in Pc /\ x.heldShared \in BOOLEAN
        /\ x.dirty \cup x.needSync \cup x.inJournal \subseteq Page /\ x.todo \subseteq Slot
        /\ x.nRec \in Nat /\ x.hdr \in Nat /\ x.off \in Nat /\ x.txn \in Nat
    BY <2>1 DEF Pager
  <2>3. /\ x.nRec \in 0 .. NPage /\ x.hdr \in 0 .. (JLen + 1) /\ x.off \in 0 .. (JLen + 1)
        /\ x.txn \in Txn
    BY <2>1, <2>2, Sizes, PagerCommitAssumption DEF PagerTyped, Numbers, Txn
  <2>4. x.cache \in [Page -> Value \cup {NoPage}] /\ x.vers \in Value
    BY <1>2, <2>1 DEF PagerTyped
  <2> QED
    BY <2>1, <2>2, <2>3, <2>4 DEF PagerTyped, x
<1>4. db \in [Page -> Value] /\ dbDisk \in [Page -> SUBSET Value]
  BY <1>2 DEF TypeInv, DbTyped
<1>5. /\ jrnl \in [Slot -> SlotValue] /\ jDisk \in [Slot -> SUBSET SlotValue]
      /\ ghosts \subseteq [Slot -> SlotValue]
  BY <1>2 DEF TypeInv, JournalTyped
<1> QED
  BY <1>1, <1>3, <1>4, <1>5 DEF TypeOK, TypeInv

\* The counters of a transaction fit into the journal.
LEMMA WriterNumbers ==
  ASSUME NEW x \in Pager, x.nRec <= Body(x) + PageOne(x), Counters(x), x.txn <= MaxTxn
  PROVE  Numbers(x)
<1>1. /\ Body(x) \in Nat /\ Body(x) <= NPage - 1 /\ PageOne(x) \in {0, 1}
      /\ NPage \in Nat /\ JLen = 2 * NPage
  BY BodySize, Sizes
<1>2. x.nRec \in Nat /\ x.hdr \in Nat /\ x.off \in Nat
  BY DEF Pager
<1>3. x.off <= 2 * Body(x) + 2 + PageOne(x) /\ x.hdr \in 1 .. x.off
  BY DEF Counters
<1>4. x.off <= JLen + 1 /\ x.hdr <= x.off /\ x.nRec <= NPage
  BY <1>1, <1>2, <1>3
<1>5. x.hdr <= JLen + 1
  BY <1>1, <1>2, <1>4
<1> QED
  BY <1>4, <1>5 DEF Numbers

\* Before a step of c, after which n transactions were started.
Prior(c, n) ==
    /\ JournalInv /\ JournalInv' /\ Own(c)
    /\ nTxn \in Txn /\ n \in Txn /\ nTxn' = n
    /\ pager[c].vers \in Known(nTxn)
    /\ \A d \in Client : PagerTyped(pager[d], n) /\ Sound(pager[d], jrnl)
    /\ DbTyped(n) /\ JournalTyped(n)

\* What this says of the client.
LEMMA PriorFacts ==
  ASSUME NEW c \in Client, NEW n, Prior(c, n)
  PROVE  /\ pager[c] \in Pager /\ pager'[c] \in Pager /\ pager \in [Client -> Pager]
         /\ Legal(pager[c], held[c]) /\ Legal(pager'[c], held'[c])
         /\ pager[c].pc = "play" => pager[c].todo # {}
         /\ Writes(pager[c]) => /\ pager[c].txn = nTxn /\ Counters(pager[c])
                                /\ Contents(pager[c], jrnl)
         /\ Writes(pager'[c]) => pager'[c].txn = n /\ Counters(pager'[c])
         /\ PagerTyped(pager[c], n) /\ Sound(pager[c], jrnl) /\ Files /\ n \in Txn
         /\ pager[c].state \in {"OPEN", "READER", "WRITER_LOCKED"} =>
               pager[c].inJournal = {} /\ pager[c].dirty = {}
<1>1. LockInv /\ LockInv' /\ JournalOK(pager[c]) /\ JournalOK(pager[c])' /\ Clean(pager[c])
  BY DEF Prior, JournalInv
<1>2. /\ pager[c] \in Pager /\ pager'[c] \in Pager /\ pager \in [Client -> Pager] /\ Files
      /\ pager[c].pc = "play" => pager[c].todo # {}
  BY <1>1 DEF LockInv, Shapes, Pagers
<1>3. Legal(pager[c], held[c])
  BY <1>1 DEF LockInv
<1>4. Legal(pager'[c], held'[c])
  BY <1>1 DEF LockInv, Legal, Stands
<1>5. Writes(pager[c]) => pager[c].txn = nTxn /\ Counters(pager[c]) /\ Contents(pager[c], jrnl)
  BY <1>1 DEF JournalOK
<1>6. Writes(pager'[c]) => pager'[c].txn = nTxn' /\ Counters(pager'[c])
  BY <1>1 DEF JournalOK, Writes, Counters, Between, Body, PageOne
<1>7. PagerTyped(pager[c], n) /\ Sound(pager[c], jrnl) /\ n \in Txn /\ nTxn' = n
  BY DEF Prior
<1>8. pager[c].state \in {"OPEN", "READER", "WRITER_LOCKED"} =>
         pager[c].inJournal = {} /\ pager[c].dirty = {}
  BY <1>1, <1>7 DEF Clean, Sound
<1> QED
  BY <1>2, <1>3, <1>4, <1>5, <1>6, <1>7, <1>8

\* A Pager that rests, reads or rolls a hot journal back.
LEMMA SoundRests ==
  ASSUME NEW z, NEW j, z.dirty = {}, z.state \in {"OPEN", "READER", "DEAD"},
         z.op \in {"none", "hot"}, z.pc # "journal",
         z.pc = "play" => \A i \in z.todo : j[i].kind = "rec"
  PROVE  Sound(z, j)
<1>1. ~Writes(z) /\ z.state # "WRITER_LOCKED"
  BY DEF Writes, Writing
<1> QED
  BY <1>1 DEF Sound

\* A Pager whose cache stays as it is.
LEMMA SoundKept ==
  ASSUME NEW x \in Pager, NEW z, NEW i, NEW j, Sound(x, i),
         z.cache = x.cache, z.dirty = x.dirty, z.inJournal = x.inJournal,
         z.vers = x.vers, z.txn = x.txn, z.nRec \in {x.nRec, 0},
         z.state # "WRITER_LOCKED", Writes(z) => Writes(x),
         x.op = "rollback" => ~(Writes(z) /\ z.op \in {"none", "spill"}),
         z.op = "spill" => z.page \in x.dirty \ {1},
         z.op = "commit" => x.op = "commit" /\ (x.pc = "dbsync" => z.pc = "dbsync"),
         z.pc # "journal", x.op # "hot",
         z.pc = "play" => \A k \in z.todo : j[k].kind = "rec"
  PROVE  Sound(z, j)
<1>1. Body(z) = Body(x) /\ PageOne(z) = PageOne(x)
  BY DEF Body, PageOne
<1>2. Body(x) \in Nat /\ PageOne(x) \in Nat
  BY BodySize
<1>3. Writes(z) => z.nRec <= Body(z) + PageOne(z)
  BY <1>1, <1>2 DEF Sound
<1>4. Writes(z) => z.cache[1] # NoPage
  BY DEF Sound
<1>5. x.op \in {"none", "spill", "commit", "rollback"}
  BY DEF Pager, Op
<1>6. Writes(z) /\ z.op \in {"none", "spill"} /\ 1 \notin z.inJournal =>
         z.vers = Torn \/ z.vers < z.txn
  BY <1>5 DEF Sound
<1> QED
  BY <1>3, <1>4, <1>6 DEF Sound

\* The steps of a client that has no transaction, and those that leave it.
LEMMA RestingSteps ==
  ASSUME NEW c \in Client, NEW n, Prior(c, n),
         \/ SharedLock(c) \/ JournalAccess(c) \/ CheckReserved(c) \/ FirstByte(c)
         \/ HotLock(c) \/ HotRefused(c) \/ Recheck(c) \/ HotSync(c) \/ CheckVersion(c)
         \/ EndRead(c) \/ EndEmpty(c) \/ EndUnlock(c) \/ ErrorUnlock(c) \/ HotFails(c)
         \/ ClientDies(c)
  PROVE  Sound(pager'[c], jrnl')
<1> DEFINE x == pager[c]
           z == pager'[c]
<1>1. /\ x \in Pager /\ pager \in [Client -> Pager] /\ Legal(x, held[c]) /\ Files
      /\ x.state \in {"OPEN", "READER", "WRITER_LOCKED"} => x.dirty = {}
  BY PriorFacts
<1>2. CASE \/ SharedLock(c) \/ JournalAccess(c) \/ CheckReserved(c) \/ FirstByte(c)
           \/ HotLock(c) \/ Recheck(c)
  <2>1. x.pc \in {"access", "reserved", "first", "hotlock", "exists"} \/ x.state = "OPEN"
    BY <1>2 DEF SharedLock, JournalAccess, CheckReserved, FirstByte, HotLock, Recheck, At
  <2>2. x.state = "OPEN"
    BY <1>1, <2>1 DEF Legal, Stands
  <2>3. \/ \E pc \in {"access", "reserved", "version", "first", "hotlock", "exists", "refused"} :
              Goto(c, pc)
        \/ pager' = [pager EXCEPT ![c].op = "hot", ![c].pc = "hotsync"]
    BY <1>2 DEF SharedLock, JournalAccess, CheckReserved, FirstByte, HotLock, Recheck
  <2>4. x.op \in {"none", "hot"}
    BY <1>1, <2>2 DEF Legal, Stands
  <2>5. /\ z.dirty = {} /\ z.state = "OPEN" /\ z.op \in {"none", "hot"}
        /\ z.pc \notin {"journal", "play"}
    <3>1. ASSUME NEW pc \in {"access", "reserved", "version", "first", "hotlock", "exists", "refused"},
                 Goto(c, pc)
          PROVE  z.dirty = x.dirty /\ z.state = x.state /\ z.op = x.op /\ z.pc = pc
      BY <1>1, <3>1 DEF Goto, Pager
    <3>2. CASE pager' = [pager EXCEPT ![c].op = "hot", ![c].pc = "hotsync"]
      BY <1>1, <2>2, <3>2 DEF Pager
    <3> QED
      BY <1>1, <2>2, <2>3, <2>4, <3>1, <3>2
  <2> QED
    BY <2>5, SoundRests
<1>3. CASE HotSync(c)
  <2> DEFINE todo == Playable(jrnl, 0)
             pc == Playing(x, todo)
             cache == IF todo = {} THEN x.cache ELSE EmptyCache
  <2>1. z = [x EXCEPT !.todo = todo, !.cache = cache, !.pc = pc] /\ jrnl' = jrnl
    BY <1>1, <1>3 DEF HotSync, SyncJournalFile
  <2>2. x.state = "OPEN" /\ x.op = "hot"
    BY <1>1, <1>3 DEF HotSync, At, Legal, Stands
  <2>3. pc # "journal" /\ \A i \in todo : jrnl[i].kind = "rec"
    BY <1>1, PlayableRecords DEF Playing, Files, Readable
  <2> HIDE DEF todo, pc, cache
  <2>4. z.dirty = x.dirty /\ z.state = x.state /\ z.op = x.op /\ z.pc = pc /\ z.todo = todo
    BY <1>1, <2>1 DEF Pager
  <2>5. /\ z.dirty = {} /\ z.state = "OPEN" /\ z.op = "hot" /\ z.pc # "journal"
        /\ \A i \in z.todo : jrnl'[i].kind = "rec"
    BY <1>1, <2>1, <2>2, <2>3, <2>4
  <2> HIDE DEF z
  <2>6. Sound(z, jrnl')
    BY <2>5, SoundRests
  <2> QED
    BY <2>6 DEF z
<1>4. CASE CheckVersion(c) \/ EndEmpty(c)
  <2>1. x.state \in {"OPEN", "WRITER_LOCKED"} /\ x.op = "none"
    BY <1>1, <1>4 DEF CheckVersion, EndEmpty, At, Legal, Stands
  <2>2. z.dirty = x.dirty /\ z.state = "READER" /\ z.op = x.op /\ z.pc = "idle"
    BY <1>1, <1>4 DEF CheckVersion, EndEmpty, At, Pager
  <2> QED
    BY <1>1, <2>1, <2>2, SoundRests
<1>5. CASE \/ HotRefused(c) \/ EndRead(c) \/ ErrorUnlock(c) \/ HotFails(c) \/ EndUnlock(c)
           \/ ClientDies(c)
  <2> DEFINE u == Unlocked(x)
             d == Closed(x)
             dead == [NewPager EXCEPT !.state = "DEAD"]
  <2>1. /\ u \in Pager /\ u.dirty = {} /\ u.state = "OPEN" /\ u.op = "none" /\ u.pc = "idle"
        /\ d \in Pager /\ d.dirty = {} /\ d.state = "OPEN" /\ d.op = "none" /\ d.pc = "idle"
    BY <1>1, ClosedPager, ClosedData
  <2>2. dead.dirty = {} /\ dead.state = "DEAD" /\ dead.op = "none" /\ dead.pc = "idle"
    BY DEF NewPager
  <2>3. \/ z = u \/ z = d \/ z = dead
        \/ z = [u EXCEPT !.state = "READER"]
        \/ z = [[u EXCEPT !.state = "READER"] EXCEPT !.state = "OPEN", !.pc = "version"]
    BY <1>1, <1>5 DEF HotRefused, EndRead, ErrorUnlock, HotFails, EndUnlock, ClientDies, Ended
  <2> HIDE DEF u, d, dead
  <2>4. /\ z.dirty = {} /\ z.state \in {"OPEN", "READER", "DEAD"} /\ z.op = "none"
        /\ z.pc \in {"idle", "version"}
    BY <2>1, <2>2, <2>3 DEF Pager
  <2> QED
    BY <2>4, SoundRests
<1> QED
  BY <1>2, <1>3, <1>4, <1>5

\* The steps of a transaction that leave the cache as it is.
LEMMA KeepingSteps ==
  ASSUME NEW c \in Client, NEW n, Prior(c, n),
         \/ ExclusiveLock(c) \/ LockBusy(c) \/ FirstSync(c) \/ WriteNRec(c) \/ SecondSync(c)
         \/ NewHeader(c) \/ DbSync(c) \/ EndTransaction(c) \/ Rollback(c) \/ CommitFails(c)
         \/ PagerError(c) \/ DeleteFails(c) \/ \E p \in Page \ {1} : Spill(c, p)
  PROVE  Sound(pager'[c], jrnl')
<1> DEFINE x == pager[c]
           z == pager'[c]
           Same == /\ z.cache = x.cache /\ z.dirty = x.dirty /\ z.inJournal = x.inJournal
                   /\ z.vers = x.vers /\ z.txn = x.txn
<1>1. /\ x \in Pager /\ pager \in [Client -> Pager] /\ Legal(x, held[c]) /\ Files
      /\ Sound(x, jrnl)
      /\ x.state \in {"OPEN", "READER", "WRITER_LOCKED"} => x.dirty = {}
  BY PriorFacts
<1>2. ASSUME NEW pc \in Pc, Goto(c, pc)
      PROVE  Same /\ z.nRec = x.nRec /\ z.state = x.state /\ z.op = x.op /\ z.page = x.page
             /\ z.pc = pc
  BY <1>1, <1>2 DEF Goto, Pager
<1>3. CASE ExclusiveLock(c) \/ FirstSync(c) \/ WriteNRec(c)
  <2>1. /\ x.pc \in {"lock", "sync1", "nrec"}
        /\ (\E pc \in {"sync1", "nrec", "sync2"} : Goto(c, pc)) \/ z = x
    BY <1>3 DEF ExclusiveLock, FirstSync, WriteNRec
  <2>2. x.op \in {"spill", "commit"} /\ Writes(x) /\ x.state # "WRITER_LOCKED"
    BY <1>1, <2>1 DEF Legal, Stands, Writes, Writing
  <2>3. /\ Same /\ z.nRec = x.nRec /\ z.state = x.state /\ z.op = x.op /\ z.page = x.page
        /\ z.pc \in {"lock", "sync1", "nrec", "sync2"}
    BY <1>2, <2>1 DEF Pc
  <2>4. z.op = "spill" => z.page \in x.dirty \ {1}
    BY <1>1, <2>3 DEF Sound
  <2> HIDE DEF x, z
  <2> QED
    BY <1>1, <2>1, <2>2, <2>3, <2>4, SoundKept DEF z
<1>4. CASE LockBusy(c)
  <2>1. x.pc = "lock" /\ z = [x EXCEPT !.op = "none", !.pc = "idle", !.page = 0]
    BY <1>1, <1>4 DEF LockBusy
  <2>2. x.op \in {"spill", "commit"} /\ Writes(x) /\ x.state # "WRITER_LOCKED"
    BY <1>1, <2>1 DEF Legal, Stands, Writes, Writing
  <2>3. /\ Same /\ z.nRec = x.nRec /\ z.state = x.state /\ z.op = "none" /\ z.pc = "idle"
    BY <1>1, <2>1 DEF Pager
  <2> HIDE DEF x, z
  <2> QED
    BY <1>1, <2>2, <2>3, SoundKept DEF z
<1>5. CASE SecondSync(c)
  <2> DEFINE spill == x.op = "spill"
             needSync == IF spill THEN x.needSync ELSE {}
             state == IF spill THEN x.state ELSE "WRITER_DBMOD"
             pc == IF spill THEN "newhdr" ELSE "write"
  <2>1. x.pc = "sync2" /\ z = [x EXCEPT !.hdr = x.off, !.needSync = needSync, !.state = state,
                                        !.pc = pc]
    BY <1>1, <1>5 DEF SecondSync
  <2>2. x.op \in {"spill", "commit"} /\ Writes(x) /\ x.state # "WRITER_LOCKED"
    BY <1>1, <2>1 DEF Legal, Stands, Writes, Writing
  <2>3. state # "WRITER_LOCKED" /\ pc \in {"newhdr", "write"}
    BY <2>2
  <2> HIDE DEF needSync, state, pc
  <2>4. /\ Same /\ z.nRec = x.nRec /\ z.state = state /\ z.op = x.op /\ z.page = x.page
        /\ z.pc = pc
    BY <1>1, <2>1 DEF Pager
  <2>5. z.op = "spill" => z.page \in x.dirty \ {1}
    BY <1>1, <2>4 DEF Sound
  <2> HIDE DEF x, z
  <2> QED
    BY <1>1, <2>1, <2>2, <2>3, <2>4, <2>5, SoundKept DEF z
<1>6. CASE NewHeader(c)
  <2>1. x.pc = "newhdr"
    BY <1>6 DEF NewHeader
  <2>2. x.op = "spill" /\ Writes(x)
    BY <1>1, <2>1 DEF Legal, Stands, Writes, Writing
  <2>3. /\ Same /\ z.nRec = 0 /\ z.state = "WRITER_DBMOD" /\ z.op = x.op /\ z.page = x.page
        /\ z.pc = "write"
    BY <1>1, <1>6 DEF NewHeader, Pager
  <2>4. z.page \in x.dirty \ {1}
    BY <1>1, <2>2, <2>3 DEF Sound
  <2> HIDE DEF x, z
  <2> QED
    BY <1>1, <2>2, <2>3, <2>4, SoundKept DEF z
<1>7. ASSUME DbSync(c) \/ EndTransaction(c), x.op = "hot"
      PROVE  Sound(z, jrnl')
  <2>1. x.state = "OPEN"
    BY <1>1, <1>7 DEF Legal, Stands
  <2>2. Goto(c, "delete") \/ Goto(c, "unlock")
    BY <1>7 DEF DbSync, EndTransaction
  <2>3. z.dirty = {} /\ z.state = "OPEN" /\ z.op = "hot" /\ z.pc \in {"delete", "unlock"}
    BY <1>1, <1>2, <1>7, <2>1, <2>2 DEF Pc
  <2> QED
    BY <2>3, SoundRests
<1>8. ASSUME DbSync(c) \/ EndTransaction(c), x.op # "hot"
      PROVE  Sound(z, jrnl')
  <2>1. x.pc \in {"dbsync", "delete"} \/ (x.state = "WRITER_FINISHED" /\ x.op = "none" /\ x.pc = "idle")
    BY <1>8 DEF DbSync, EndTransaction, At
  <2>2. x.state \in Writing /\ x.op \in {"none", "commit", "rollback"} /\ Writes(x)
    BY <1>1, <1>8, <2>1 DEF Legal, Stands, Writes, Writing
  <2>3. /\ Same /\ z.nRec = x.nRec
        /\ \/ z.state = "WRITER_FINISHED" /\ z.op = "none" /\ z.pc = "idle" /\ x.op = "commit"
           \/ z.state = x.state /\ z.op = x.op /\ z.pc = "delete" /\ x.op # "commit"
           \/ z.state = x.state /\ z.op = x.op /\ z.pc = "unlock" /\ x.op # "commit"
    <3>1. CASE DbSync(c) /\ x.op = "commit"
      BY <1>1, <3>1 DEF DbSync, Pager
    <3>2. CASE DbSync(c) /\ x.op # "commit"
      BY <1>2, <3>2 DEF DbSync, Pc
    <3>3. CASE EndTransaction(c)
      <4>1. x.op # "commit"
        BY <1>1, <3>3 DEF EndTransaction, At, Legal, Stands
      <4> QED
        BY <1>2, <3>3, <4>1 DEF EndTransaction, Pc
    <3> QED
      BY <1>8, <3>1, <3>2, <3>3
  <2>4. z.state # "WRITER_LOCKED" /\ z.op # "spill" /\ z.op # "commit" /\ z.pc \notin {"journal", "play"}
    BY <2>2, <2>3 DEF Writing
  <2>5. x.op = "rollback" => ~(Writes(z) /\ z.op \in {"none", "spill"})
    BY <2>3
  <2> HIDE DEF x, z
  <2>6. Sound(z, jrnl')
    BY <1>1, <1>8, <2>2, <2>3, <2>4, <2>5, SoundKept
  <2> QED
    BY <2>6 DEF z
<1>9. CASE Rollback(c) \/ CommitFails(c)
  <2> DEFINE todo == Playable(jrnl, x.hdr)
             pc == Playing(x, todo)
  <2>1. z = [x EXCEPT !.op = "rollback", !.page = 0, !.todo = todo, !.pc = pc] /\ jrnl' = jrnl
    BY <1>1, <1>9 DEF Rollback, CommitFails, StartPlayback, server
  <2>2. Writes(x) /\ x.op # "hot"
    <3>1. (x.state \in Writing /\ x.op = "none" /\ x.pc = "idle") \/ x.op = "commit"
      BY <1>9 DEF Rollback, CommitFails, At
    <3> HIDE DEF x
    <3> QED
      BY <1>1, <3>1 DEF Legal, Stands, Writes, Writing
  <2>3. pc # "journal" /\ \A i \in todo : jrnl[i].kind = "rec"
    BY <1>1, PlayableRecords DEF Playing, Files, Readable
  <2> HIDE DEF todo, pc
  <2>4. /\ Same /\ z.nRec = x.nRec /\ z.state = x.state /\ z.op = "rollback" /\ z.pc = pc
        /\ z.todo = todo
    BY <1>1, <2>1 DEF Pager
  <2>5. z.state # "WRITER_LOCKED" /\ z.pc # "journal" /\ \A i \in z.todo : jrnl'[i].kind = "rec"
    BY <2>1, <2>2, <2>3, <2>4 DEF Writes, Writing
  <2> HIDE DEF x, z
  <2>6. Sound(z, jrnl')
    BY <1>1, <2>2, <2>4, <2>5, SoundKept
  <2> QED
    BY <2>6 DEF z
<1>10. CASE PagerError(c) \/ DeleteFails(c)
  <2>1. x.op # "hot"
    BY <1>10 DEF PagerError, DeleteFails, At
  <2>2. /\ Same /\ z.nRec = x.nRec /\ z.state = "ERROR" /\ z.op = "none" /\ z.pc = "idle"
    BY <1>1, <1>10 DEF PagerError, DeleteFails, Pager
  <2>3. ~Writes(z)
    BY <2>2 DEF Writes, Writing
  <2> HIDE DEF x, z
  <2>4. Sound(z, jrnl')
    BY <1>1, <2>1, <2>2, <2>3, SoundKept
  <2> QED
    BY <2>4 DEF z
<1>11. ASSUME NEW p \in Page \ {1}, Spill(c, p)
       PROVE  Sound(z, jrnl')
  <2> DEFINE pc == IF p \in x.needSync \/ x.state = "WRITER_CACHEMOD" THEN "lock" ELSE "write"
  <2>1. z = [x EXCEPT !.op = "spill", !.page = p, !.pc = pc] /\ p \in x.dirty
    BY <1>1, <1>11 DEF Spill
  <2>2. Writes(x) /\ x.op = "none" /\ x.state # "WRITER_LOCKED"
    BY <1>11 DEF Spill, At, Writes, Writing
  <2>3. pc \in {"lock", "write"}
    OBVIOUS
  <2> HIDE DEF pc
  <2>4. Same /\ z.nRec = x.nRec /\ z.state = x.state /\ z.op = "spill" /\ z.page = p /\ z.pc = pc
    BY <1>1, <2>1 DEF Pager
  <2> HIDE DEF x, z
  <2>5. Sound(z, jrnl')
    BY <1>1, <2>1, <2>2, <2>3, <2>4, SoundKept
  <2> QED
    BY <2>5 DEF z
<1> QED
  BY <1>3, <1>4, <1>5, <1>6, <1>7, <1>8, <1>9, <1>10, <1>11

\* A change of a page, on its own or as the first step of a commit.
LEMMA ModifiedSound ==
  ASSUME NEW n \in Txn, NEW x \in Pager, NEW j, Sound(x, j), x.op = "none",
         x.state \in {"WRITER_CACHEMOD", "WRITER_DBMOD"}, x.pc # "unlock",
         NEW p \in Page, NEW v \in Known(n), NEW m, m = Modified(x, p, v), NEW z, NEW i,
         z = m \/ (z = [m EXCEPT !.op = "commit", !.pc = "lock"] /\ p = 1)
  PROVE  Sound(z, i)
<1>1. v \in Nat /\ v # NoPage
  BY KnownValues
<1>2. /\ m \in Pager /\ m.state = x.state /\ m.op = "none" /\ m.pc = "idle"
      /\ m.cache = [x.cache EXCEPT ![p] = v] /\ m.dirty = x.dirty \cup {p} /\ m.vers = x.vers
  <2>1. m \in Pager /\ m.state = x.state /\ m.op = "none" /\ m.pc = "idle"
    BY <1>1, ModifiedPager
  <2>2. m.cache = [x.cache EXCEPT ![p] = v] /\ m.dirty = x.dirty \cup {p} /\ m.vers = x.vers
    <3>1. /\ Modified(x, p, v).cache = [x.cache EXCEPT ![p] = v]
          /\ Modified(x, p, v).dirty = x.dirty \cup {p}
          /\ Modified(x, p, v).vers = x.vers
          /\ Modified(x, p, v).heldShared = x.heldShared
          /\ Modified(x, p, v).needSync = IF p \in x.inJournal THEN x.needSync
                                          ELSE x.needSync \cup {p}
      BY <1>1, ModifiedData
    <3> QED
      BY <3>1
  <2> QED
    BY <2>1, <2>2
<1>3. IF p \in x.inJournal THEN Keeps(x, m) ELSE Adds(x, m, p)
  BY <1>1, ModifiedAdds
<1>4. m.inJournal = x.inJournal \cup {p} /\ m.txn = x.txn
  BY <1>3 DEF Keeps, Adds
<1>5. Writes(x) /\ x.nRec <= Body(x) + PageOne(x)
  BY DEF Writes, Writing, Sound
<1>6. m.nRec <= Body(m) + PageOne(m)
  <2>1. /\ Body(x) \in Nat /\ PageOne(x) \in {0, 1} /\ x.nRec \in Nat
        /\ Body(m) \in Nat /\ PageOne(m) \in {0, 1}
    BY <1>2, BodySize DEF Pager
  <2>2. CASE p \in x.inJournal
    <3>1. m.nRec = x.nRec /\ Body(m) = Body(x) /\ PageOne(m) = PageOne(x)
      BY <1>3, <1>4, <2>2 DEF Keeps, Body, PageOne
    <3> QED
      BY <1>5, <3>1
  <2>3. CASE p \notin x.inJournal
    <3>1. m.nRec = x.nRec + 1
      BY <1>3, <2>3 DEF Adds
    <3>2. IF p = 1 THEN Body(m) = Body(x) /\ PageOne(x) = 0 /\ PageOne(m) = 1
          ELSE Body(m) = Body(x) + 1 /\ PageOne(m) = PageOne(x)
      BY <1>2, <1>4, <2>3, BodyGrows
    <3> QED
      BY <1>5, <2>1, <3>1, <3>2
  <2> QED
    BY <2>2, <2>3
<1>7. /\ z.cache = m.cache /\ z.dirty = m.dirty /\ z.vers = m.vers /\ z.inJournal = m.inJournal
      /\ z.txn = m.txn /\ z.nRec = m.nRec /\ z.state = m.state
      /\ (z.op = "none" /\ z.pc = "idle") \/ (z.op = "commit" /\ z.pc = "lock" /\ p = 1)
  BY <1>2 DEF Pager
<1>8. Body(z) = Body(m) /\ PageOne(z) = PageOne(m)
  BY <1>7 DEF Body, PageOne
<1>9. \A q \in Page : m.cache[q] = (IF q = p THEN v ELSE x.cache[q])
  BY <1>2 DEF Pager
<1>10. z.dirty \subseteq z.inJournal /\ z.dirty # {}
  BY <1>2, <1>4, <1>7 DEF Sound
<1>11. \A q \in z.dirty : z.cache[q] # NoPage
  BY <1>1, <1>2, <1>7, <1>9 DEF Sound, Pager
<1>12. z.cache[1] # NoPage
  BY <1>1, <1>5, <1>7, <1>9, Sizes DEF Sound
<1>13. z.op = "none" /\ 1 \notin z.inJournal => z.vers = Torn \/ z.vers < z.txn
  BY <1>2, <1>4, <1>5, <1>7 DEF Sound
<1>14. z.op = "commit" => 1 \in z.inJournal
  BY <1>4, <1>7
<1> QED
  BY <1>6, <1>7, <1>8, <1>10, <1>11, <1>12, <1>13, <1>14 DEF Sound

\* The value of a page that a writer changes.
LEMMA WrittenValues ==
  ASSUME NEW c \in Client, NEW n, Prior(c, n), Writes(pager[c]), pager[c].op = "none"
  PROVE  /\ pager[c].cache[1] \in Known(n)
         /\ nTxn = n => /\ pager[c].txn \in Known(n)
                        /\ 1 \notin pager[c].inJournal =>
                              Incremented(pager[c].vers) \in Known(n)
<1> DEFINE x == pager[c]
<1>1. x.cache[1] \in Known(n) \cup {NoPage} /\ x.vers \in Known(n) /\ n \in Txn
  BY PriorFacts, Sizes DEF PagerTyped
<1>2. x.cache[1] # NoPage /\ (1 \notin x.inJournal => x.vers = Torn \/ x.vers < x.txn)
      /\ x.txn = nTxn
  BY PriorFacts DEF Sound
<1> HIDE DEF x
<1>3. n \in Nat /\ Torn \in Nat /\ n \in Known(n) /\ Torn \in Known(n)
  BY <1>1, KnownValues
<1>4. ASSUME nTxn = n, 1 \notin x.inJournal
      PROVE  Incremented(x.vers) \in Known(n)
  <2>1. CASE x.vers = Torn
    BY <1>3, <2>1 DEF Incremented
  <2>2. CASE x.vers # Torn
    <3>1. x.vers \in 0 .. n /\ x.vers < n
      BY <1>1, <1>2, <1>4, <2>2 DEF Known
    <3>2. x.vers + 1 \in 0 .. n
      BY <1>3, <3>1
    <3> QED
      BY <2>2, <3>2 DEF Incremented, Known
  <2> QED
    BY <2>1, <2>2
<1> QED
  BY <1>1, <1>2, <1>3, <1>4 DEF x

\* The steps that read, change, write or restore a page.
LEMMA PageSound ==
  ASSUME NEW c \in Client, NEW n, Prior(c, n),
         \/ Begin(c) \/ \E p \in Page : ReadPage(c, p)
         \/ \E p \in Page \ {1} : OpenJournal(c, p) \/ WritePage(c, p)
         \/ SpillWrite(c) \/ CommitPhaseOne(c) \/ CommitWrite(c) \/ PlaybackOnePage(c)
  PROVE  Sound(pager'[c], jrnl')
<1> DEFINE x == pager[c]
           z == pager'[c]
<1>1. /\ x \in Pager /\ pager \in [Client -> Pager] /\ Legal(x, held[c]) /\ Files
      /\ PagerTyped(x, n) /\ Sound(x, jrnl) /\ n \in Txn /\ nTxn \in Txn
      /\ x.pc = "play" => x.todo # {}
      /\ x.state \in {"OPEN", "READER", "WRITER_LOCKED"} => x.inJournal = {} /\ x.dirty = {}
  BY PriorFacts DEF Prior
<1>2. x.cache \in [Page -> Nat] /\ x.dirty \subseteq Page /\ x.inJournal \subseteq Page
  BY <1>1 DEF Pager
<1>3. CASE Begin(c)
  <2>1. x.state = "READER" /\ x.op = "none" /\ x.pc = "idle" /\ x.cache[1] # NoPage
    BY <1>3 DEF Begin, At
  <2>2. /\ z.state = "WRITER_LOCKED" /\ z.op = x.op /\ z.pc = x.pc /\ z.cache = x.cache
        /\ z.dirty = x.dirty
    BY <1>1, <1>3 DEF Begin, Pager
  <2>3. ~Writes(z) /\ z.dirty = {} /\ z.cache[1] # NoPage /\ z.op = "none" /\ z.pc = "idle"
    BY <1>1, <2>1, <2>2 DEF Writes, Writing
  <2> HIDE DEF x, z
  <2>4. Sound(z, jrnl')
    BY <2>3 DEF Sound
  <2> QED
    BY <2>4 DEF z
<1>4. ASSUME NEW p \in Page, ReadPage(c, p)
      PROVE  Sound(z, jrnl')
  <2> DEFINE vers == IF p = 1 THEN db[1] ELSE x.vers
  <2>1. z = [x EXCEPT !.cache[p] = db[p], !.vers = vers]
    BY <1>1, <1>4 DEF ReadPage
  <2>2. /\ x.op = "none" /\ x.pc = "idle" /\ x.cache[p] = NoPage
        /\ p = 1 \/ x.cache[1] # NoPage
    BY <1>4 DEF ReadPage, At
  <2>3. db[p] # NoPage
    BY <1>1, KnownValues DEF Prior, DbTyped
  <2>4. p # 1 => vers = x.vers
    OBVIOUS
  <2> HIDE DEF vers
  <2>5. /\ z.state = x.state /\ z.op = x.op /\ z.pc = x.pc /\ z.vers = vers /\ z.dirty = x.dirty
        /\ z.nRec = x.nRec /\ z.txn = x.txn /\ z.inJournal = x.inJournal
        /\ z.cache = [x.cache EXCEPT ![p] = db[p]]
    BY <1>1, <2>1 DEF Pager
  <2>6. \A q \in Page : z.cache[q] = (IF q = p THEN db[p] ELSE x.cache[q])
    BY <1>2, <2>5
  <2>7. (Writes(z) <=> Writes(x)) /\ Body(z) = Body(x) /\ PageOne(z) = PageOne(x)
    BY <2>5 DEF Writes, Body, PageOne
  <2> HIDE DEF x, z
  <2>8. \A q \in z.dirty : z.cache[q] # NoPage
    BY <1>1, <1>2, <2>3, <2>5, <2>6 DEF Sound
  <2>9. (z.state = "WRITER_LOCKED" \/ Writes(z)) => p # 1 /\ z.cache[1] # NoPage
    BY <1>1, <2>2, <2>3, <2>5, <2>6, <2>7, Sizes DEF Sound
  <2>10. Sound(z, jrnl')
    BY <1>1, <2>2, <2>4, <2>5, <2>7, <2>8, <2>9 DEF Sound
  <2> QED
    BY <2>10 DEF z
<1>5. ASSUME NEW p \in Page, OpenJournal(c, p)
      PROVE  Sound(z, jrnl')
  <2> DEFINE k == nTxn + 1
  <2>1. z = [x EXCEPT !.state = "WRITER_CACHEMOD", !.pc = "journal", !.page = p, !.txn = k,
                      !.nRec = 0, !.hdr = 1, !.off = 2]
    BY <1>1, <1>5 DEF OpenJournal
  <2>2. x.state = "WRITER_LOCKED" /\ x.op = "none" /\ x.cache[p] # NoPage
    BY <1>5 DEF OpenJournal, At
  <2>3. x.vers = Torn \/ x.vers < k
    <3>1. x.vers \in Known(nTxn) /\ nTxn \in Nat
      BY <1>1, KnownValues DEF Prior
    <3> QED
      BY <3>1 DEF Known
  <2> HIDE DEF k
  <2>4. /\ z.state = "WRITER_CACHEMOD" /\ z.op = x.op /\ z.pc = "journal" /\ z.vers = x.vers
        /\ z.dirty = x.dirty /\ z.nRec = 0 /\ z.txn = k /\ z.inJournal = x.inJournal
        /\ z.cache = x.cache /\ z.page = p
    BY <1>1, <2>1 DEF Pager
  <2>5. z.dirty = {} /\ z.cache[1] # NoPage /\ z.cache[z.page] # NoPage
    BY <1>1, <2>2, <2>4 DEF Sound
  <2>6. z.nRec <= Body(z) + PageOne(z)
    <3>1. Body(z) = Body(x) /\ PageOne(z) = PageOne(x)
      BY <2>4 DEF Body, PageOne
    <3>2. Body(x) \in Nat /\ PageOne(x) \in {0, 1}
      BY <1>1, BodySize
    <3> QED
      BY <2>4, <3>1, <3>2
  <2> HIDE DEF x, z
  <2>7. Sound(z, jrnl')
    BY <2>2, <2>3, <2>4, <2>5, <2>6 DEF Sound
  <2> QED
    BY <2>7 DEF z
<1>6. ASSUME NEW p \in Page \ {1}, WritePage(c, p)
      PROVE  Sound(z, jrnl')
  <2>1. x.op = "none" /\ (x.pc = "journal" \/ (x.state \in {"WRITER_CACHEMOD", "WRITER_DBMOD"} /\ x.pc = "idle"))
    BY <1>6 DEF WritePage, At
  <2>2. x.state \in {"WRITER_CACHEMOD", "WRITER_DBMOD"} /\ x.pc # "unlock"
    BY <1>1, <2>1 DEF Legal, Stands
  <2>3. Writes(x) /\ nTxn = n
    BY <1>6, <2>2 DEF Writes, Writing, WritePage, Prior
  <2>4. x.txn \in Known(n)
    BY <2>1, <2>3, WrittenValues
  <2>5. z = Modified(x, p, x.txn)
    BY <1>1, <1>6 DEF WritePage
  <2> HIDE DEF x, z
  <2>6. Sound(z, jrnl')
    BY <1>1, <2>1, <2>2, <2>4, <2>5, ModifiedSound
  <2> QED
    BY <2>6 DEF z
<1>7. CASE CommitPhaseOne(c)
  <2> DEFINE v == IF 1 \in x.inJournal THEN x.cache[1] ELSE Incremented(x.vers)
             m == Modified(x, 1, v)
  <2>1. x.op = "none" /\ x.pc = "idle" /\ x.state \in {"WRITER_CACHEMOD", "WRITER_DBMOD"}
    BY <1>7 DEF CommitPhaseOne, At
  <2>2. Writes(x) /\ nTxn = n
    BY <1>7, <2>1 DEF Writes, Writing, CommitPhaseOne, Prior
  <2>3. v \in Known(n)
    BY <2>1, <2>2, WrittenValues
  <2>4. z = [m EXCEPT !.op = "commit", !.pc = "lock"]
    BY <1>1, <1>7 DEF CommitPhaseOne
  <2> HIDE DEF x, z, v
  <2>5. Sound(z, jrnl')
    BY <1>1, <2>1, <2>3, <2>4, ModifiedSound, Sizes
  <2> QED
    BY <2>5 DEF z
<1>8. CASE SpillWrite(c)
  <2> DEFINE p == x.page
             dirty == x.dirty \ {p}
  <2>1. z = [x EXCEPT !.dirty = dirty, !.cache[p] = NoPage, !.page = 0, !.op = "none",
                      !.pc = "idle"]
    BY <1>1, <1>8 DEF SpillWrite
  <2>2. x.op = "spill" /\ x.pc = "write" /\ p \in x.dirty \ {1}
    BY <1>1, <1>8 DEF SpillWrite, At, Sound
  <2>3. Writes(x) /\ x.state # "WRITER_LOCKED"
    BY <1>1, <2>2 DEF Legal, Stands, Writes, Writing
  <2> HIDE DEF p
  <2>4. /\ z.cache = [x.cache EXCEPT ![p] = NoPage] /\ z.vers = x.vers /\ z.dirty = dirty
        /\ z.state = x.state /\ z.op = "none" /\ z.pc = "idle"
        /\ z.nRec = x.nRec /\ z.txn = x.txn /\ z.inJournal = x.inJournal
    BY <1>1, <2>1 DEF Pager
  <2>5. \A q \in Page : z.cache[q] = (IF q = p THEN NoPage ELSE x.cache[q])
    BY <1>2, <2>4
  <2>6. Body(z) = Body(x) /\ PageOne(z) = PageOne(x)
    BY <2>4 DEF Body, PageOne
  <2> HIDE DEF x, z
  <2>7. z.dirty \subseteq z.inJournal /\ \A q \in z.dirty : z.cache[q] # NoPage
    BY <1>1, <1>2, <2>4, <2>5 DEF Sound
  <2>8. z.cache[1] # NoPage
    BY <1>1, <2>2, <2>3, <2>5, Sizes DEF Sound
  <2>9. Sound(z, jrnl')
    BY <1>1, <2>2, <2>3, <2>4, <2>6, <2>7, <2>8 DEF Sound
  <2> QED
    BY <2>9 DEF z
<1>9. CASE CommitWrite(c)
  <2> DEFINE p == Min(x.dirty)
             dirty == x.dirty \ {p}
             vers == IF p = 1 THEN x.cache[1] ELSE x.vers
             pc == IF x.dirty = {p} THEN "dbsync" ELSE x.pc
  <2>1. z = [x EXCEPT !.dirty = dirty, !.vers = vers, !.pc = pc]
    BY <1>1, <1>9 DEF CommitWrite
  <2>2. x.op = "commit" /\ x.pc = "write"
    BY <1>9 DEF CommitWrite, At
  <2>3. Writes(x)
    BY <1>1, <2>2 DEF Legal, Stands, Writes, Writing
  <2>4. x.dirty # {} /\ 1 \in x.inJournal
    BY <1>1, <2>2 DEF Sound
  <2>5. p \in x.dirty
    BY <1>2, <2>4, Sizes, MinIsLeast
  <2> HIDE DEF p
  <2>6. (pc # "dbsync" => dirty # {}) /\ pc \in {"dbsync", "write"}
    BY <2>2, <2>5
  <2> HIDE DEF vers, pc
  <2>7. /\ z.cache = x.cache /\ z.dirty = dirty /\ z.inJournal = x.inJournal
        /\ z.state = x.state /\ z.op = x.op /\ z.pc = pc /\ z.nRec = x.nRec
    BY <1>1, <2>1 DEF Pager
  <2>8. Body(z) = Body(x) /\ PageOne(z) = PageOne(x)
    BY <2>7 DEF Body, PageOne
  <2> HIDE DEF x, z
  <2>9. Sound(z, jrnl')
    BY <1>1, <2>2, <2>3, <2>4, <2>6, <2>7, <2>8 DEF Sound
  <2> QED
    BY <2>9 DEF z
<1>10. CASE PlaybackOnePage(c)
  <2> DEFINE i == Min(x.todo)
             k == jrnl[i].n
             p == jrnl[i].pg
             todo == x.todo \ {i}
             v == IF x.cache[p] # NoPage THEN k ELSE x.cache[p]
             vers == IF x.cache[p] # NoPage /\ p = 1 THEN k ELSE x.vers
             pc == Playing(x, todo)
  <2>1. x.pc = "play" /\ jrnl' = jrnl
    BY <1>10 DEF PlaybackOnePage, WriteDb, server
  <2>2. z = [x EXCEPT !.todo = todo, !.cache[p] = v, !.vers = vers, !.pc = pc]
    BY <1>1, <1>10 DEF PlaybackOnePage
  <2>3. x.op \in {"hot", "rollback"} /\ x.state # "WRITER_LOCKED"
    BY <1>1, <2>1 DEF Legal, Stands
  <2>4. i \in x.todo /\ x.todo \subseteq Slot /\ \A y \in x.todo : jrnl[y].kind = "rec"
    BY <1>1, <2>1, Sizes, MinIsLeast DEF Pager, Sound
  <2>5. k # NoPage
    <3> HIDE DEF i
    <3>1. jrnl[i] \in KnownSlot(n) /\ jrnl[i].kind = "rec"
      BY <2>4 DEF Prior, JournalTyped
    <3> QED
      BY <1>1, <3>1, SlotValues, KnownValues
  <2>6. v = NoPage => x.cache[p] = NoPage
    BY <2>5
  <2>7. pc # "journal"
    BY DEF Playing
  <2> HIDE DEF i, k, p, v, vers, pc
  <2>8. /\ z.cache = [x.cache EXCEPT ![p] = v] /\ z.dirty = x.dirty /\ z.inJournal = x.inJournal
        /\ z.state = x.state /\ z.op = x.op /\ z.pc = pc /\ z.nRec = x.nRec /\ z.todo = todo
    BY <1>1, <2>2 DEF Pager
  <2>9. \A q \in Page : z.cache[q] = NoPage => x.cache[q] = NoPage
    BY <1>2, <2>6, <2>8
  <2>10. Body(z) = Body(x) /\ PageOne(z) = PageOne(x)
    BY <2>8 DEF Body, PageOne
  <2>11. Writes(z) => Writes(x)
    BY <2>1, <2>8 DEF Writes
  <2>12. \A y \in z.todo : jrnl'[y].kind = "rec"
    BY <2>1, <2>4, <2>8
  <2> HIDE DEF x, z
  <2>13. \A q \in z.dirty : z.cache[q] # NoPage
    BY <1>1, <1>2, <2>8, <2>9 DEF Sound
  <2>14. Writes(z) => z.cache[1] # NoPage
    BY <1>1, <2>9, <2>11, Sizes DEF Sound
  <2>15. Sound(z, jrnl')
    BY <1>1, <2>3, <2>7, <2>8, <2>10, <2>11, <2>12, <2>13, <2>14 DEF Sound
  <2> QED
    BY <2>15 DEF z
<1> QED
  BY <1>3, <1>4, <1>5, <1>6, <1>7, <1>8, <1>9, <1>10

\* A step of a client leaves the other Pagers sound: the journal that one of them
\* plays back stays as it is.
LEMMA OthersSound ==
  ASSUME NEW c \in Client, NEW n, Prior(c, n), ClientStep(c) \/ ClientDies(c),
         NEW d \in Client \ {c}
  PROVE  Sound(pager'[d], jrnl')
<1>1. pager'[d] = pager[d] /\ Sound(pager[d], jrnl)
  BY DEF Prior, Own
<1>2. /\ Legal(pager[c], held[c]) /\ Legal(pager[d], held[d])
      /\ held[c] \in Level /\ held[d] \in Level
      /\ held[c] >= RESERVED_LOCK => held[d] <= SHARED_LOCK
  BY DEF Prior, JournalInv, LockInv, Excluded, Shapes, Pagers
<1>3. ASSUME pager[d].pc = "play"
      PROVE  jrnl' = jrnl
  <2>1. held[d] >= RESERVED_LOCK
    BY <1>2, <1>3 DEF Legal, Stands
  <2>2. ~JournalSteps(c)
    <3> SUFFICES ASSUME JournalSteps(c) PROVE FALSE
      OBVIOUS
    <3>1. held[c] >= RESERVED_LOCK
      BY <1>2, JournalStepHolds
    <3> QED
      BY <1>2, <2>1, <3>1
  <2>3. CASE ClientStep(c)
    BY <2>2, <2>3, JournalStays
  <2>4. CASE ClientDies(c)
    BY <2>4 DEF ClientDies, server
  <2> QED
    BY <2>3, <2>4
<1> QED
  BY <1>1, <1>3 DEF Sound

\* The calls of the VFS keep the types of the files: a slot is written ...
LEMMA WriteJournalTyped ==
  ASSUME NEW n \in Txn, JournalTyped(n), NEW i, NEW s \in KnownSlot(n), WriteJournal(i, s)
  PROVE  JournalTyped(n)'
BY SlotValues DEF JournalTyped, WriteJournal

\* ... a header is given its number ...
LEMMA PatchHeaderTyped ==
  ASSUME NEW n \in Txn, JournalTyped(n), NEW i \in Slot, NEW m \in 0 .. NPage,
         NEW k \in 1 .. n, jrnl[i] \in {Header(k, 0), Header(k, m)}, PatchHeader(i, m)
  PROVE  JournalTyped(n)'
<1>1. [jrnl[i] EXCEPT !.n = m] = Header(k, m)
  BY DEF Header
<1>2. [jrnl[i] EXCEPT !.n = m] \in KnownSlot(n)
  BY <1>1, SlotValues
<1> QED
  BY <1>2 DEF JournalTyped, PatchHeader

\* ... the journal is synced ...
LEMMA SyncJournalTyped ==
  ASSUME NEW n, JournalTyped(n), SyncJournalFile, ghosts' \in SUBSET ghosts
  PROVE  JournalTyped(n)'
BY DEF JournalTyped, SyncJournalFile

\* ... and deleted.
LEMMA DeleteJournalTyped ==
  ASSUME NEW n \in Txn, JournalTyped(n), DeleteJournal
  PROVE  JournalTyped(n)'
<1>1. ASSUME NEW j \in Outcomes(jDisk)
      PROVE  j \in [Slot -> KnownSlot(n)]
  BY OutcomesChoose DEF JournalTyped
<1> QED
  BY <1>1, SlotValues DEF JournalTyped, DeleteJournal, NoJournal

\* A page of the database is written ...
LEMMA WriteDbTyped ==
  ASSUME NEW n, DbTyped(n), NEW p, NEW v \in Known(n), WriteDb(p, v)
  PROVE  DbTyped(n)'
BY DEF DbTyped, WriteDb, Known

\* ... and the database is synced.
LEMMA SyncDbTyped ==
  ASSUME NEW n, DbTyped(n), SyncDb
  PROVE  DbTyped(n)'
BY DEF DbTyped, SyncDb

\* Every call of a client writes what the types allow.
LEMMA ClientFilesTyped ==
  ASSUME NEW c \in Client, NEW n, Prior(c, n), ClientStep(c)
  PROVE  DbTyped(n)' /\ JournalTyped(n)'
<1> DEFINE x == pager[c]
<1>1. /\ x \in Pager /\ Legal(x, held[c]) /\ PagerTyped(x, n) /\ Sound(x, jrnl)
      /\ DbTyped(n) /\ JournalTyped(n) /\ n \in Txn /\ n \in Nat /\ nTxn \in Nat
      /\ x.pc = "play" => x.todo # {}
      /\ Writes(x) => x.txn = nTxn /\ Counters(x) /\ Contents(x, jrnl)
  BY PriorFacts, KnownValues DEF Prior
<1>2. ASSUME UNCHANGED server
      PROVE  DbTyped(n)' /\ JournalTyped(n)'
  BY <1>1, <1>2 DEF server, DbTyped, JournalTyped
<1>3. ASSUME UNCHANGED <<db, dbDisk>>
      PROVE  DbTyped(n)'
  BY <1>1, <1>3 DEF DbTyped
<1>4. ASSUME UNCHANGED <<jrnl, jDisk, ghosts>>
      PROVE  JournalTyped(n)'
  BY <1>1, <1>4 DEF JournalTyped
<1>5. Writes(x) /\ nTxn = n => x.txn \in 1 .. n /\ x.nRec \in 0 .. NPage
  <2>1. x.nRec \in Nat /\ x.nRec <= NPage /\ (Writes(x) => x.txn > 0)
    BY <1>1 DEF Pager, PagerTyped, Numbers, Counters
  <2> HIDE DEF x
  <2> QED
    BY <1>1, <2>1, Sizes
<1>6. CASE \/ SharedLock(c) \/ JournalAccess(c) \/ CheckReserved(c) \/ FirstByte(c)
           \/ HotLock(c) \/ HotRefused(c) \/ Recheck(c) \/ CheckVersion(c) \/ EndRead(c)
           \/ Begin(c) \/ ExclusiveLock(c) \/ LockBusy(c) \/ Rollback(c) \/ EndEmpty(c)
           \/ EndUnlock(c) \/ CommitFails(c) \/ PagerError(c) \/ DeleteFails(c)
           \/ ErrorUnlock(c) \/ HotFails(c)
  <2>1. UNCHANGED server
    BY <1>6 DEF SharedLock, JournalAccess, CheckReserved, FirstByte, HotLock, HotRefused,
                Recheck, CheckVersion, EndRead, Begin, ExclusiveLock, LockBusy, Rollback,
                EndEmpty, EndUnlock, CommitFails, PagerError, DeleteFails, ErrorUnlock, HotFails
  <2> QED
    BY <1>2, <2>1
<1>7. ASSUME NEW p \in Page, ReadPage(c, p) \/ Spill(c, p)
      PROVE  DbTyped(n)' /\ JournalTyped(n)'
  BY <1>2, <1>7 DEF ReadPage, Spill
<1>8. CASE HotSync(c) \/ FirstSync(c) \/ SecondSync(c)
  <2>1. SyncJournalFile /\ (ghosts' = ghosts \/ ghosts' = {})
    BY <1>8, Zenon DEF HotSync, FirstSync, SecondSync
  <2>2. ghosts' \in SUBSET ghosts
    BY <2>1
  <2> QED
    BY <1>1, <1>3, <2>1, <2>2, SyncJournalTyped DEF SyncJournalFile
<1>9. ASSUME NEW p \in Page, OpenJournal(c, p)
      PROVE  DbTyped(n)' /\ JournalTyped(n)'
  <2> DEFINE k == nTxn + 1
  <2>1. k = n /\ WriteJournal(1, Header(k, 0))
    BY <1>9 DEF OpenJournal, Prior
  <2>2. k \in 1 .. n
    BY <1>1, <2>1
  <2> HIDE DEF k
  <2>3. Header(k, 0) \in KnownSlot(n)
    BY <1>1, <2>2, Sizes, SlotValues
  <2> QED
    BY <1>1, <1>3, <2>1, <2>3, WriteJournalTyped DEF WriteJournal
<1>10. ASSUME NEW p \in Page, AddToJournal(c, p), Writes(x), nTxn = n, x.cache[p] \in Known(n)
       PROVE  DbTyped(n)' /\ JournalTyped(n)'
  <2>1. CASE p \in x.inJournal
    BY <1>2, <1>10, <2>1 DEF AddToJournal
  <2>2. CASE p \notin x.inJournal
    <3> DEFINE s == Record(x.txn, p, x.cache[p])
    <3>1. s \in KnownSlot(n) /\ WriteJournal(x.off, s)
      BY <1>1, <1>5, <1>10, <2>2, SlotValues DEF AddToJournal
    <3> HIDE DEF s
    <3> QED
      BY <1>1, <1>3, <3>1, WriteJournalTyped DEF WriteJournal
  <2> QED
    BY <2>1, <2>2
<1>11. ASSUME NEW p \in Page, WritePage(c, p)
       PROVE  DbTyped(n)' /\ JournalTyped(n)'
  <2>1. (x.pc = "journal" /\ x.page = p) \/ x.cache[p] # NoPage
    BY <1>11 DEF WritePage, At
  <2>2. Writes(x) /\ nTxn = n
    BY <1>1, <1>11 DEF Writes, Writing, WritePage, At, Legal, Stands, Prior
  <2>3. x.cache[p] \in Known(n)
    <3>1. x.cache[p] \in Known(n) \cup {NoPage}
      BY <1>1 DEF PagerTyped
    <3> QED
      BY <1>1, <2>1, <3>1 DEF Sound
  <2> QED
    BY <1>10, <1>11, <2>2, <2>3 DEF WritePage
<1>12. CASE CommitPhaseOne(c)
  <2>1. Writes(x) /\ x.op = "none" /\ nTxn = n
    BY <1>12 DEF Writes, Writing, CommitPhaseOne, At, Prior
  <2>2. x.cache[1] \in Known(n)
    BY <2>1, WrittenValues
  <2> QED
    BY <1>10, <1>12, <2>1, <2>2, Sizes DEF CommitPhaseOne
<1>13. CASE WriteNRec(c)
  <2>1. x.pc = "nrec" /\ PatchHeader(x.hdr, x.nRec) /\ nTxn = n
    BY <1>13 DEF WriteNRec, Prior
  <2>2. Writes(x) /\ x.op \in {"spill", "commit"} /\ x.state # "WRITER_FINISHED"
    BY <1>1, <2>1 DEF Writes, Writing, Legal, Stands
  <2>3. x.hdr < x.off /\ x.hdr >= 1
    <3>1. ~Between(x) /\ x.off \in Nat
      BY <1>1, <2>1, <2>2 DEF Between, Pager
    <3> HIDE DEF x
    <3> QED
      BY <1>1, <2>2, <3>1 DEF Counters
  <2>4. x.hdr \in Slot
    <3>1. x.hdr \in Nat /\ x.off \in Nat /\ x.off <= JLen + 1
      BY <1>1 DEF Pager, PagerTyped, Numbers
    <3> HIDE DEF x
    <3> QED
      BY <2>3, <3>1, Sizes DEF Slot
  <2>5. jrnl[x.hdr] \in {Header(x.txn, 0), Header(x.txn, x.nRec)}
    BY <1>1, <2>2, <2>3 DEF Contents
  <2>6. JournalTyped(n)'
    <3> HIDE DEF x
    <3> QED
      BY <1>1, <1>5, <2>1, <2>2, <2>4, <2>5, PatchHeaderTyped
  <2> QED
    BY <1>3, <2>1, <2>6 DEF PatchHeader
<1>14. CASE NewHeader(c)
  <2>1. Writes(x) /\ nTxn = n
    BY <1>1, <1>14 DEF Writes, Writing, NewHeader, Legal, Stands, Prior
  <2> DEFINE s == Header(x.txn, 0)
  <2>2. s \in KnownSlot(n) /\ WriteJournal(x.off, s)
    BY <1>1, <1>5, <1>14, <2>1, Sizes, SlotValues DEF NewHeader
  <2> HIDE DEF s
  <2> QED
    BY <1>1, <1>3, <2>2, WriteJournalTyped DEF WriteJournal
<1>15. ASSUME NEW p \in x.dirty
       PROVE  x.cache[p] \in Known(n)
  <2>1. p \in Page
    BY <1>1 DEF Pager
  <2> QED
    BY <1>1, <1>15, <2>1 DEF Sound, PagerTyped
<1>16. CASE SpillWrite(c)
  <2>1. x.op = "spill" /\ WriteDb(x.page, x.cache[x.page])
    BY <1>16 DEF SpillWrite, At
  <2>2. x.cache[x.page] \in Known(n)
    BY <1>1, <1>15, <2>1 DEF Sound
  <2> QED
    BY <1>1, <1>4, <2>1, <2>2, WriteDbTyped DEF WriteDb
<1>17. CASE CommitWrite(c)
  <2>1. x.op = "commit" /\ x.pc = "write" /\ WriteDb(Min(x.dirty), x.cache[Min(x.dirty)])
    BY <1>17 DEF CommitWrite, At
  <2>2. x.dirty # {} /\ x.dirty \in SUBSET Nat
    BY <1>1, <2>1, Sizes DEF Sound, Pager
  <2>3. x.cache[Min(x.dirty)] \in Known(n)
    BY <1>15, <2>2, MinIsLeast
  <2> QED
    BY <1>1, <1>4, <2>1, <2>3, WriteDbTyped DEF WriteDb
<1>18. CASE DbSync(c)
  BY <1>1, <1>4, <1>18, SyncDbTyped DEF DbSync, SyncDb
<1>19. CASE PlaybackOnePage(c)
  <2> DEFINE i == Min(x.todo)
  <2>1. x.pc = "play" /\ (WriteDb(jrnl[i].pg, jrnl[i].n) \/ UNCHANGED server)
    BY <1>19 DEF PlaybackOnePage
  <2>2. i \in x.todo
    BY <1>1, <2>1, Sizes, MinIsLeast DEF Pager
  <2> HIDE DEF i
  <2>3. jrnl[i] \in KnownSlot(n) /\ jrnl[i].kind = "rec"
    BY <1>1, <2>1, <2>2 DEF Sound, Pager, JournalTyped
  <2>4. jrnl[i].n \in Known(n)
    BY <1>1, <2>3, SlotValues
  <2> QED
    BY <1>1, <1>2, <1>4, <2>1, <2>4, WriteDbTyped DEF WriteDb
<1>20. CASE EndTransaction(c)
  BY <1>1, <1>3, <1>20, DeleteJournalTyped DEF EndTransaction, DeleteJournal
<1> QED
  BY <1>6, <1>7, <1>8, <1>9, <1>11, <1>12, <1>13, <1>14, <1>16, <1>17, <1>18, <1>19, <1>20
     DEF ClientStep

\* A Pager that has taken nothing new from a file.
Inherits(x, z) ==
    /\ z.cache = x.cache \/ z.cache = EmptyCache
    /\ z.vers \in {x.vers, 0} /\ z.nRec \in {x.nRec, 0} /\ z.txn \in {x.txn, 0}
    /\ z.off \in {x.off, 0} /\ z.hdr \in {x.hdr, x.off, 0}
    /\ z.page \in {x.page, 0}

\* It keeps its types.
LEMMA InheritedTypes ==
  ASSUME NEW n \in Txn, NEW x, NEW z, PagerTyped(x, n), Inherits(x, z)
  PROVE  PagerTyped(z, n)
<1>1. 0 \in Known(n) /\ 0 <= NPage /\ 0 <= JLen + 1 /\ 0 <= MaxTxn
  BY Sizes, KnownValues
<1>2. EmptyCache \in [Page -> Known(n) \cup {NoPage}]
  BY DEF EmptyCache
<1>3. z.cache \in [Page -> Known(n) \cup {NoPage}] /\ z.vers \in Known(n)
      /\ z.page \in Page \cup {0}
  BY <1>1, <1>2 DEF PagerTyped, Inherits
<1>4. Numbers(z)
  BY <1>1 DEF PagerTyped, Inherits, Numbers
<1> QED
  BY <1>3, <1>4 DEF PagerTyped

\* pager_unlock forgets the transaction.
LEMMA ClosedInherits ==
  ASSUME NEW x \in Pager
  PROVE  Inherits(x, Closed(x)) /\ Inherits(x, Unlocked(x)) /\ Inherits(x, NewPager)
<1>1. /\ NewPager \in Pager /\ NewPager.cache = EmptyCache /\ NewPager.vers = 0
      /\ NewPager.nRec = 0 /\ NewPager.hdr = 0 /\ NewPager.off = 0 /\ NewPager.txn = 0
      /\ NewPager.page = 0
  BY Values DEF NewPager
<1>2. Closed(x) \in Pager
  BY ClosedPager
<1>3. /\ Closed(x).cache = EmptyCache /\ Closed(x).vers = x.vers /\ Closed(x).nRec = 0
      /\ Closed(x).hdr = 0 /\ Closed(x).off = 0 /\ Closed(x).txn = 0 /\ Closed(x).page = 0
  BY <1>1 DEF Closed, Pager
<1>4. /\ Unlocked(x).cache = x.cache /\ Unlocked(x).vers = x.vers /\ Unlocked(x).nRec = 0
      /\ Unlocked(x).hdr = 0 /\ Unlocked(x).off = 0 /\ Unlocked(x).txn = 0
      /\ Unlocked(x).page = 0
  BY <1>2, <1>3 DEF Unlocked, Pager
<1> QED
  BY <1>1, <1>3, <1>4 DEF Inherits

\* Calls that take nothing new from a file.
LEMMA InheritingSteps ==
  ASSUME NEW c \in Client, pager \in [Client -> Pager],
         \/ SharedLock(c) \/ JournalAccess(c) \/ CheckReserved(c) \/ FirstByte(c)
         \/ HotLock(c) \/ HotRefused(c) \/ Recheck(c) \/ HotSync(c) \/ CheckVersion(c)
         \/ EndRead(c) \/ Begin(c)
         \/ ExclusiveLock(c) \/ LockBusy(c) \/ FirstSync(c) \/ WriteNRec(c) \/ SecondSync(c)
         \/ DbSync(c) \/ Rollback(c) \/ EndEmpty(c) \/ EndTransaction(c) \/ EndUnlock(c)
         \/ CommitFails(c) \/ PagerError(c) \/ DeleteFails(c) \/ ErrorUnlock(c) \/ HotFails(c)
         \/ ClientDies(c)
  PROVE  Inherits(pager[c], pager'[c])
<1> DEFINE x == pager[c]
           z == pager'[c]
<1>1. x \in Pager
  OBVIOUS
<1>2. ASSUME NEW pc, Goto(c, pc)
      PROVE  Inherits(x, z)
  BY <1>1, <1>2 DEF Goto, Pager, Inherits
<1>3. CASE \/ SharedLock(c) \/ JournalAccess(c) \/ CheckReserved(c) \/ FirstByte(c)
           \/ FirstSync(c) \/ WriteNRec(c) \/ EndTransaction(c)
  BY <1>2, <1>3 DEF SharedLock, JournalAccess, CheckReserved, FirstByte, FirstSync, WriteNRec,
                    EndTransaction
<1>4. CASE EndRead(c) \/ ErrorUnlock(c) \/ HotFails(c) \/ HotRefused(c)
  <2>1. z = Unlocked(x) \/ z = Closed(x)
    BY <1>4 DEF EndRead, ErrorUnlock, HotFails, HotRefused
  <2> QED
    BY <1>1, <2>1, ClosedInherits
<1>5. CASE HotLock(c)
  BY <1>2, <1>5 DEF HotLock
<1>6. CASE Recheck(c)
  <2>1. Goto(c, "version") \/ pager' = [pager EXCEPT ![c].op = "hot", ![c].pc = "hotsync"]
    BY <1>6 DEF Recheck
  <2> QED
    BY <1>1, <1>2, <2>1 DEF Pager, Inherits
<1>7. CASE HotSync(c)
  <2> DEFINE todo == Playable(jrnl, 0)
             pc == Playing(x, todo)
             cache == IF todo = {} THEN x.cache ELSE EmptyCache
  <2>1. z = [x EXCEPT !.todo = todo, !.cache = cache, !.pc = pc]
    BY <1>7 DEF HotSync
  <2>2. cache = x.cache \/ cache = EmptyCache
    OBVIOUS
  <2> HIDE DEF pc, cache, todo
  <2> QED
    BY <1>1, <2>1, <2>2 DEF Pager, Inherits
<1>8. CASE CheckVersion(c)
  <2> DEFINE cache == IF x.heldShared /\ x.vers # db[1] THEN EmptyCache ELSE x.cache
  <2>1. z = [x EXCEPT !.state = "READER", !.pc = "idle", !.heldShared = TRUE, !.cache = cache]
    BY <1>8 DEF CheckVersion
  <2>2. cache = x.cache \/ cache = EmptyCache
    OBVIOUS
  <2> HIDE DEF cache
  <2> QED
    BY <1>1, <2>1, <2>2 DEF Pager, Inherits
<1>9. CASE Begin(c) \/ LockBusy(c) \/ EndEmpty(c) \/ PagerError(c) \/ DeleteFails(c)
  BY <1>1, <1>9 DEF Begin, LockBusy, EndEmpty, PagerError, DeleteFails, Pager, Inherits
<1>10. CASE ExclusiveLock(c)
  <2>1. Goto(c, "sync1") \/ z = x
    BY <1>10 DEF ExclusiveLock
  <2> QED
    BY <1>2, <2>1 DEF Inherits
<1>11. CASE SecondSync(c)
  <2> DEFINE spill == x.op = "spill"
             needSync == IF spill THEN x.needSync ELSE {}
             state == IF spill THEN x.state ELSE "WRITER_DBMOD"
             pc == IF spill THEN "newhdr" ELSE "write"
  <2>1. z = [x EXCEPT !.hdr = x.off, !.needSync = needSync, !.state = state, !.pc = pc]
    BY <1>11 DEF SecondSync
  <2> HIDE DEF needSync, state, pc
  <2> QED
    BY <1>1, <2>1 DEF Pager, Inherits
<1>12. CASE DbSync(c)
  <2>1. CASE x.op = "commit"
    BY <1>1, <1>12, <2>1 DEF DbSync, Pager, Inherits
  <2>2. CASE x.op # "commit"
    BY <1>2, <1>12, <2>2 DEF DbSync
  <2> QED
    BY <2>1, <2>2
<1>13. CASE Rollback(c) \/ CommitFails(c)
  <2> DEFINE todo == Playable(jrnl, x.hdr)
             pc == Playing(x, todo)
  <2>1. z = [x EXCEPT !.op = "rollback", !.page = 0, !.todo = todo, !.pc = pc]
    BY <1>13 DEF Rollback, CommitFails, StartPlayback
  <2> HIDE DEF pc, todo
  <2> QED
    BY <1>1, <2>1 DEF Pager, Inherits
<1>14. CASE EndUnlock(c)
  <2> DEFINE u == Unlocked(x)
  <2>1. z = Ended(x)
    BY <1>14 DEF EndUnlock
  <2>2. u \in Pager /\ Inherits(x, u)
    BY <1>1, ClosedPager, ClosedInherits
  <2>3. \/ z = [u EXCEPT !.state = "READER"]
        \/ z = [[u EXCEPT !.state = "READER"] EXCEPT !.state = "OPEN", !.pc = "version"]
    BY <2>1 DEF Ended
  <2> HIDE DEF u
  <2>4. /\ z.cache = u.cache /\ z.vers = u.vers /\ z.nRec = u.nRec /\ z.hdr = u.hdr
        /\ z.off = u.off /\ z.txn = u.txn /\ z.page = u.page
    BY <2>2, <2>3 DEF Pager
  <2> QED
    BY <2>2, <2>4 DEF Inherits
<1>15. CASE ClientDies(c)
  <2>1. z = [NewPager EXCEPT !.state = "DEAD"]
    BY <1>15 DEF ClientDies
  <2> DEFINE u == NewPager
  <2>2. u \in Pager /\ Inherits(x, u)
    BY <1>1, Values, ClosedInherits
  <2> HIDE DEF u
  <2>3. /\ z.cache = u.cache /\ z.vers = u.vers /\ z.nRec = u.nRec /\ z.hdr = u.hdr
        /\ z.off = u.off /\ z.txn = u.txn /\ z.page = u.page
    BY <2>1, <2>2 DEF Pager, u
  <2> QED
    BY <2>2, <2>3 DEF Inherits
<1> QED
  BY <1>3, <1>4, <1>5, <1>6, <1>7, <1>8, <1>9, <1>10, <1>11, <1>12, <1>13, <1>14, <1>15

\* A change of a page leaves a cache of known pages ...
LEMMA ModifiedCache ==
  ASSUME NEW n \in Txn, NEW x \in Pager, x.cache \in [Page -> Known(n) \cup {NoPage}],
         NEW p \in Page, NEW v \in Known(n)
  PROVE  /\ Modified(x, p, v).cache \in [Page -> Known(n) \cup {NoPage}]
         /\ Modified(x, p, v).vers = x.vers
<1>1. v \in Nat
  BY KnownValues
<1>2. /\ Modified(x, p, v).cache = [x.cache EXCEPT ![p] = v]
      /\ Modified(x, p, v).dirty = x.dirty \cup {p}
      /\ Modified(x, p, v).vers = x.vers
      /\ Modified(x, p, v).heldShared = x.heldShared
      /\ Modified(x, p, v).needSync = IF p \in x.inJournal THEN x.needSync
                                      ELSE x.needSync \cup {p}
  BY <1>1, ModifiedData
<1> QED
  BY <1>2

\* ... and counters in their ranges.
LEMMA ModifiedTypes ==
  ASSUME NEW n \in Txn, NEW x \in Pager, PagerTyped(x, n),
         x.state \in {"WRITER_CACHEMOD", "WRITER_DBMOD"},
         NEW p \in Page, NEW v \in Known(n), NEW m, m = Modified(x, p, v), NEW z,
         z = m \/ z = [m EXCEPT !.op = "commit", !.pc = "lock"], Writes(z) => Numbers(z)
  PROVE  PagerTyped(z, n)
<1>1. v \in Nat /\ m.vers = x.vers /\ m.cache \in [Page -> Known(n) \cup {NoPage}]
  BY KnownValues, ModifiedCache DEF PagerTyped
<1>2. m \in Pager /\ m.state = x.state /\ m.pc = "idle"
  BY <1>1, ModifiedPager
<1>3. m.page = 0
  <2> DEFINE w == [x EXCEPT !.cache[p] = v, !.dirty = @ \cup {p}, !.page = 0, !.pc = "idle"]
             y == [w EXCEPT !.inJournal = @ \cup {p}, !.needSync = @ \cup {p},
                            !.off = @ + 1, !.nRec = @ + 1]
  <2>1. w \in Pager /\ w.page = 0
    BY <1>1 DEF Pager, Pc
  <2> HIDE DEF w
  <2>2. y.page = 0
    BY <2>1 DEF Pager
  <2> HIDE DEF y
  <2>3. m = IF p \in x.inJournal THEN w ELSE y
    BY DEF Modified, w, y
  <2> QED
    BY <2>1, <2>2, <2>3
<1>4. /\ z.state = x.state /\ z.vers = x.vers /\ z.page = 0 /\ z.pc # "unlock"
      /\ z.cache = m.cache
  BY <1>1, <1>2, <1>3 DEF Pager
<1>5. Writes(z)
  BY <1>4 DEF Writes, Writing
<1>6. z.cache \in [Page -> Known(n) \cup {NoPage}] /\ z.vers \in Known(n)
  BY <1>1, <1>4 DEF PagerTyped
<1> QED
  BY <1>4, <1>5, <1>6 DEF PagerTyped

\* Calls that read or change a page.
LEMMA PageTypes ==
  ASSUME NEW c \in Client, NEW n, Prior(c, n), Sound(pager'[c], jrnl'),
         \/ \E p \in Page : ReadPage(c, p)
         \/ \E p \in Page \ {1} : OpenJournal(c, p) \/ WritePage(c, p) \/ Spill(c, p)
         \/ NewHeader(c) \/ SpillWrite(c) \/ CommitPhaseOne(c) \/ CommitWrite(c)
         \/ PlaybackOnePage(c)
  PROVE  PagerTyped(pager'[c], n)
<1> DEFINE x == pager[c]
           z == pager'[c]
<1>1. /\ x \in Pager /\ pager \in [Client -> Pager] /\ z \in Pager /\ Legal(x, held[c])
      /\ PagerTyped(x, n) /\ Sound(x, jrnl) /\ Files /\ n \in Txn
      /\ x.pc = "play" => x.todo # {}
      /\ DbTyped(n) /\ JournalTyped(n)
  BY PriorFacts DEF Prior
<1>2. Writes(z) => Numbers(z)
  <2> SUFFICES ASSUME Writes(z) PROVE Numbers(z)
    OBVIOUS
  <2>1. z.txn = n /\ Counters(z) /\ z.nRec <= Body(z) + PageOne(z)
    BY PriorFacts DEF Sound
  <2>2. z.txn <= MaxTxn
    BY <1>1, <2>1, KnownValues
  <2> HIDE DEF z
  <2> QED
    BY <1>1, <2>1, <2>2, WriterNumbers
<1>3. x.cache \in [Page -> Known(n) \cup {NoPage}] /\ x.vers \in Known(n) /\ Numbers(x)
      /\ x.page \in Page \cup {0}
  BY <1>1 DEF PagerTyped
<1>4. ASSUME z.nRec = x.nRec, z.hdr = x.hdr, z.off = x.off, z.txn = x.txn
      PROVE  Numbers(z)
  BY <1>3, <1>4 DEF Numbers
<1>5. ASSUME NEW p \in Page, ReadPage(c, p)
      PROVE  PagerTyped(z, n)
  <2> DEFINE vers == IF p = 1 THEN db[1] ELSE x.vers
  <2>1. z = [x EXCEPT !.cache[p] = db[p], !.vers = vers]
    BY <1>1, <1>5 DEF ReadPage
  <2>2. db[p] \in Known(n) /\ vers \in Known(n)
    BY <1>1, <1>3 DEF DbTyped
  <2> HIDE DEF vers
  <2>3. /\ z.vers = vers /\ z.nRec = x.nRec /\ z.hdr = x.hdr /\ z.off = x.off /\ z.txn = x.txn
        /\ z.page = x.page /\ z.cache = [x.cache EXCEPT ![p] = db[p]]
    BY <1>1, <2>1 DEF Pager
  <2> QED
    BY <1>3, <1>4, <2>2, <2>3 DEF PagerTyped
<1>6. ASSUME NEW p \in Page, OpenJournal(c, p)
      PROVE  PagerTyped(z, n)
  <2> DEFINE k == nTxn + 1
  <2>1. z = [x EXCEPT !.state = "WRITER_CACHEMOD", !.pc = "journal", !.page = p, !.txn = k,
                      !.nRec = 0, !.hdr = 1, !.off = 2]
    BY <1>1, <1>6 DEF OpenJournal
  <2> HIDE DEF k
  <2>2. /\ z.state = "WRITER_CACHEMOD" /\ z.pc = "journal" /\ z.page = p
        /\ z.cache = x.cache /\ z.vers = x.vers
    BY <1>1, <2>1 DEF Pager
  <2>3. Numbers(z)
    BY <1>2, <2>2 DEF Writes, Writing
  <2> QED
    BY <1>3, <2>2, <2>3 DEF PagerTyped
<1>7. ASSUME NEW p \in Page, NEW v \in Known(n), x.state \in {"WRITER_CACHEMOD", "WRITER_DBMOD"},
             NEW m, m = Modified(x, p, v),
             z = m \/ z = [m EXCEPT !.op = "commit", !.pc = "lock"]
      PROVE  PagerTyped(z, n)
  BY <1>1, <1>2, <1>7, ModifiedTypes
<1>8. ASSUME NEW p \in Page, WritePage(c, p)
      PROVE  PagerTyped(z, n)
  <2>1. x.op = "none" /\ (x.pc = "journal" \/ (x.state \in {"WRITER_CACHEMOD", "WRITER_DBMOD"} /\ x.pc = "idle"))
    BY <1>8 DEF WritePage, At
  <2>2. x.state \in {"WRITER_CACHEMOD", "WRITER_DBMOD"} /\ x.pc # "unlock"
    BY <1>1, <2>1 DEF Legal, Stands
  <2>3. x.txn \in Known(n)
    BY <1>8, <2>1, <2>2, WrittenValues DEF Writes, Writing, WritePage, Prior
  <2>4. z = Modified(x, p, x.txn)
    BY <1>1, <1>8 DEF WritePage
  <2> HIDE DEF x, z
  <2> QED
    BY <1>7, <2>1, <2>2, <2>3, <2>4
<1>9. CASE CommitPhaseOne(c)
  <2> DEFINE v == IF 1 \in x.inJournal THEN x.cache[1] ELSE Incremented(x.vers)
  <2>1. x.op = "none" /\ x.pc = "idle" /\ x.state \in {"WRITER_CACHEMOD", "WRITER_DBMOD"}
    BY <1>9 DEF CommitPhaseOne, At
  <2>2. v \in Known(n)
    BY <1>9, <2>1, WrittenValues DEF Writes, Writing, CommitPhaseOne, Prior
  <2>3. z = [Modified(x, 1, v) EXCEPT !.op = "commit", !.pc = "lock"]
    BY <1>1, <1>9 DEF CommitPhaseOne
  <2> HIDE DEF v
  <2> QED
    BY <1>7, <2>1, <2>2, <2>3, Sizes
<1>10. ASSUME NEW p \in Page, Spill(c, p)
       PROVE  PagerTyped(z, n)
  <2> DEFINE pc == IF p \in x.needSync \/ x.state = "WRITER_CACHEMOD" THEN "lock" ELSE "write"
  <2>1. z = [x EXCEPT !.op = "spill", !.page = p, !.pc = pc]
    BY <1>1, <1>10 DEF Spill
  <2> HIDE DEF pc
  <2>2. /\ z.cache = x.cache /\ z.vers = x.vers /\ z.page = p
        /\ z.nRec = x.nRec /\ z.hdr = x.hdr /\ z.off = x.off /\ z.txn = x.txn
    BY <1>1, <2>1 DEF Pager
  <2> QED
    BY <1>3, <1>4, <2>2 DEF PagerTyped
<1>11. CASE NewHeader(c)
  <2>1. /\ z.state = "WRITER_DBMOD" /\ z.pc = "write" /\ z.page = x.page
        /\ z.cache = x.cache /\ z.vers = x.vers
    BY <1>1, <1>11 DEF NewHeader, Pager
  <2>2. Numbers(z)
    BY <1>2, <2>1 DEF Writes, Writing
  <2> QED
    BY <1>3, <2>1, <2>2 DEF PagerTyped
<1>12. CASE SpillWrite(c)
  <2> DEFINE p == x.page
             dirty == x.dirty \ {p}
  <2>1. z = [x EXCEPT !.dirty = dirty, !.cache[p] = NoPage, !.page = 0, !.op = "none",
                      !.pc = "idle"]
    BY <1>1, <1>12 DEF SpillWrite
  <2> HIDE DEF p, dirty
  <2>2. /\ z.cache = [x.cache EXCEPT ![p] = NoPage] /\ z.vers = x.vers /\ z.page = 0
        /\ z.nRec = x.nRec /\ z.hdr = x.hdr /\ z.off = x.off /\ z.txn = x.txn
    BY <1>1, <2>1 DEF Pager
  <2> QED
    BY <1>3, <1>4, <2>2 DEF PagerTyped
<1>13. CASE CommitWrite(c)
  <2> DEFINE p == Min(x.dirty)
             dirty == x.dirty \ {p}
             vers == IF p = 1 THEN x.cache[1] ELSE x.vers
             pc == IF x.dirty = {p} THEN "dbsync" ELSE x.pc
  <2>1. z = [x EXCEPT !.dirty = dirty, !.vers = vers, !.pc = pc]
    BY <1>1, <1>13 DEF CommitWrite
  <2>2. Writes(x)
    BY <1>1, <1>13 DEF CommitWrite, At, Legal, Stands, Writes, Writing
  <2>3. x.cache[1] \in Known(n)
    BY <1>1, <1>3, <2>2, Sizes DEF Sound
  <2>4. vers \in Known(n)
    BY <1>3, <2>3
  <2> HIDE DEF p, dirty, vers, pc
  <2>5. /\ z.cache = x.cache /\ z.vers = vers /\ z.page = x.page
        /\ z.nRec = x.nRec /\ z.hdr = x.hdr /\ z.off = x.off /\ z.txn = x.txn
    BY <1>1, <2>1 DEF Pager
  <2> QED
    BY <1>3, <1>4, <2>4, <2>5 DEF PagerTyped
<1>14. CASE PlaybackOnePage(c)
  <2> DEFINE i == Min(x.todo)
             k == jrnl[i].n
             p == jrnl[i].pg
             todo == x.todo \ {i}
             v == IF x.cache[p] # NoPage THEN k ELSE x.cache[p]
             vers == IF x.cache[p] # NoPage /\ p = 1 THEN k ELSE x.vers
             pc == Playing(x, todo)
  <2>1. x.pc = "play"
    BY <1>14 DEF PlaybackOnePage
  <2>2. z = [x EXCEPT !.todo = todo, !.cache[p] = v, !.vers = vers, !.pc = pc]
    BY <1>1, <1>14 DEF PlaybackOnePage
  <2>3. i \in x.todo
    BY <1>1, <2>1, Sizes, MinIsLeast DEF Pager
  <2>4. k \in Known(n) /\ p \in Page
    <3>1. /\ jrnl[i] \in KnownSlot(n) /\ jrnl[i] \in PagedSlot /\ jrnl[i].kind = "rec"
      <4> HIDE DEF i
      <4> QED
        BY <1>1, <2>1, <2>3 DEF Sound, Pager, JournalTyped, Files
    <3> HIDE DEF i
    <3> QED
      BY <1>1, <3>1, SlotValues DEF PagedSlot
  <2> HIDE DEF i, k, p, todo
  <2>5. v \in Known(n) \cup {NoPage} /\ vers \in Known(n)
    BY <1>3, <2>4
  <2> HIDE DEF v, vers, pc
  <2>6. /\ z.cache = [x.cache EXCEPT ![p] = v] /\ z.vers = vers /\ z.page = x.page
        /\ z.nRec = x.nRec /\ z.hdr = x.hdr /\ z.off = x.off /\ z.txn = x.txn
    BY <1>1, <2>2 DEF Pager
  <2> QED
    BY <1>3, <1>4, <2>4, <2>5, <2>6 DEF PagerTyped
<1> QED
  BY <1>5, <1>6, <1>8, <1>9, <1>10, <1>11, <1>12, <1>13, <1>14

\* A step of a client keeps the types.
LEMMA ClientTypes ==
  ASSUME NEW c \in Client, NEW n, Prior(c, n), faults \in 0 .. MaxFaults, misled' \in BOOLEAN,
         ClientStep(c) \/ ClientDies(c)
  PROVE  TypeInv'
<1>1. /\ PagerTyped(pager[c], n) /\ pager \in [Client -> Pager] /\ n \in Txn /\ nTxn' = n
      /\ DbTyped(n) /\ JournalTyped(n)
  BY PriorFacts DEF Prior
<1>2. Sound(pager'[c], jrnl')
  <2>1. CASE \/ SharedLock(c) \/ JournalAccess(c) \/ CheckReserved(c) \/ FirstByte(c)
             \/ HotLock(c) \/ HotRefused(c) \/ Recheck(c) \/ HotSync(c) \/ CheckVersion(c)
             \/ EndRead(c) \/ EndEmpty(c) \/ EndUnlock(c) \/ ErrorUnlock(c) \/ HotFails(c)
             \/ ClientDies(c)
    BY <2>1, RestingSteps
  <2>2. CASE \/ ExclusiveLock(c) \/ LockBusy(c) \/ FirstSync(c) \/ WriteNRec(c)
             \/ SecondSync(c) \/ NewHeader(c) \/ DbSync(c) \/ EndTransaction(c) \/ Rollback(c)
             \/ CommitFails(c) \/ PagerError(c) \/ DeleteFails(c)
             \/ \E p \in Page \ {1} : Spill(c, p)
    BY <2>2, KeepingSteps
  <2>3. CASE \/ Begin(c) \/ \E p \in Page : ReadPage(c, p)
             \/ \E p \in Page \ {1} : OpenJournal(c, p) \/ WritePage(c, p)
             \/ SpillWrite(c) \/ CommitPhaseOne(c) \/ CommitWrite(c) \/ PlaybackOnePage(c)
    BY <2>3, PageSound
  <2> QED
    BY <2>1, <2>2, <2>3 DEF ClientStep
<1>3. PagerTyped(pager'[c], n)
  <2>1. CASE Inherits(pager[c], pager'[c])
    BY <1>1, <2>1, InheritedTypes
  <2>2. CASE ~Inherits(pager[c], pager'[c])
    <3>1. \/ \E p \in Page : ReadPage(c, p)
          \/ \E p \in Page \ {1} : OpenJournal(c, p) \/ WritePage(c, p) \/ Spill(c, p)
          \/ NewHeader(c) \/ SpillWrite(c) \/ CommitPhaseOne(c) \/ CommitWrite(c)
          \/ PlaybackOnePage(c)
      BY <1>1, <2>2, InheritingSteps DEF ClientStep
    <3> QED
      BY <1>2, <3>1, PageTypes
  <2> QED
    BY <2>1, <2>2
<1>4. \A d \in Client : PagerTyped(pager'[d], n) /\ Sound(pager'[d], jrnl')
  <2>1. \A d \in Client \ {c} : PagerTyped(pager'[d], n)
    BY DEF Prior, Own
  <2>2. \A d \in Client \ {c} : Sound(pager'[d], jrnl')
    BY OthersSound
  <2> QED
    BY <1>2, <1>3, <2>1, <2>2
<1>5. DbTyped(n)' /\ JournalTyped(n)'
  <2>1. CASE ClientStep(c)
    BY <2>1, ClientFilesTyped
  <2>2. CASE ClientDies(c)
    BY <1>1, <2>2 DEF ClientDies, server, DbTyped, JournalTyped
  <2> QED
    BY <2>1, <2>2
<1>6. faults' = faults \/ Fault
  BY DEF ClientStep, ClientDies, SharedLock, JournalAccess, CheckReserved, FirstByte, HotLock,
         HotRefused, Recheck, HotSync, CheckVersion, EndRead, Begin, ReadPage, OpenJournal,
         WritePage, Spill, ExclusiveLock, LockBusy, FirstSync, WriteNRec, SecondSync, NewHeader,
         SpillWrite, CommitPhaseOne, CommitWrite, DbSync, Rollback, EndEmpty, PlaybackOnePage,
         EndTransaction, EndUnlock, CommitFails, PagerError, DeleteFails, ErrorUnlock, HotFails
<1>7. faults' \in 0 .. MaxFaults
  BY <1>6, PagerCommitAssumption DEF Fault
<1>8. \A d \in Client : PagerTyped(pager[d], nTxn)' /\ Sound(pager[d], jrnl)'
  BY <1>1, <1>4 DEF PagerTyped, Numbers, Sound, Writes, Body, PageOne
<1>9. DbTyped(nTxn)' /\ JournalTyped(nTxn)'
  BY <1>1, <1>5 DEF DbTyped, JournalTyped
<1> QED
  BY <1>1, <1>7, <1>8, <1>9 DEF TypeInv

\* A new Pager has its types, whatever the files hold.
LEMMA NewPagerTypes ==
  ASSUME NEW n \in Txn, NEW j
  PROVE  PagerTyped(NewPager, n) /\ Sound(NewPager, j)
<1> DEFINE z == NewPager
<1>1. /\ z.cache = EmptyCache /\ z.vers = 0 /\ z.nRec = 0 /\ z.hdr = 0 /\ z.off = 0
      /\ z.txn = 0 /\ z.page = 0 /\ z.dirty = {} /\ z.state = "OPEN" /\ z.op = "none"
      /\ z.pc = "idle"
  BY DEF NewPager
<1> HIDE DEF z
<1>2. EmptyCache \in [Page -> Known(n) \cup {NoPage}] /\ 0 \in Known(n)
  BY KnownValues DEF EmptyCache
<1>3. Numbers(z)
  BY <1>1, Sizes, PagerCommitAssumption DEF Numbers
<1>4. PagerTyped(z, n) /\ Sound(z, j)
  BY <1>1, <1>2, <1>3, SoundRests DEF PagerTyped
<1> QED
  BY <1>4 DEF z

\* So does a new start of the server, with or without a loss of power.
LEMMA RestartTypes ==
  ASSUME TypeInv, misled' \in BOOLEAN, ServerRestarts \/ PowerLoss
  PROVE  TypeInv'
<1>1. faults' \in 0 .. MaxFaults /\ nTxn' = nTxn /\ nTxn \in Txn
  BY PagerCommitAssumption DEF TypeInv, Fault, ServerRestarts, PowerLoss
<1>2. \A d \in Client : PagerTyped(pager[d], nTxn)' /\ Sound(pager[d], jrnl)'
  <2> SUFFICES ASSUME NEW d \in Client
               PROVE  PagerTyped(pager'[d], nTxn') /\ Sound(pager'[d], jrnl')
    BY DEF PagerTyped, Numbers, Sound, Writes, Body, PageOne
  <2>1. pager'[d] = NewPager
    BY DEF ServerRestarts, PowerLoss, Reconnect
  <2> QED
    BY <1>1, <2>1, NewPagerTypes
<1>3. CASE ServerRestarts
  <2>1. DbTyped(nTxn)' /\ JournalTyped(nTxn)'
    BY <1>1, <1>3 DEF TypeInv, ServerRestarts, server, DbTyped, JournalTyped
  <2> QED
    BY <1>1, <1>2, <2>1 DEF TypeInv
<1>4. CASE PowerLoss
  <2>1. PICK d \in Outcomes(dbDisk), j \in Outcomes(jDisk) \cup ghosts :
            /\ db' = d
            /\ dbDisk' = [p \in Page |-> {d[p]}]
            /\ jrnl' = j
            /\ jDisk' = [i \in Slot |-> {j[i]}]
    BY <1>4 DEF PowerLoss
  <2>2. d \in [Page -> Known(nTxn)]
    BY OutcomesChoose DEF TypeInv, DbTyped
  <2>3. j \in [Slot -> KnownSlot(nTxn)]
    BY OutcomesChoose DEF TypeInv, JournalTyped
  <2>4. DbTyped(nTxn)'
    BY <1>1, <2>1, <2>2 DEF DbTyped
  <2>5. JournalTyped(nTxn)'
    BY <1>1, <1>4, <2>1, <2>3 DEF JournalTyped, PowerLoss
  <2> QED
    BY <1>1, <1>2, <2>4, <2>5 DEF TypeInv
<1> QED
  BY <1>3, <1>4

\* Every step keeps the types.
LEMMA StepTypes ==
  ASSUME JournalInv, JournalInv', TypeInv, [Next]_vars
  PROVE  TypeInv'
<1>1. LockInv /\ faults \in 0 .. MaxFaults /\ misled' \in BOOLEAN
  BY MisledStays DEF JournalInv, TypeInv
<1>2. ASSUME NEW c \in Client, ClientStep(c) \/ ClientDies(c)
      PROVE  TypeInv'
  <2>1. Own(c)
    BY <1>1, <1>2, ClientWell DEF Well
  <2>2. nTxn \in Txn /\ nTxn \in Nat
    BY KnownValues DEF TypeInv
  <2>3. nTxn' \in Txn /\ nTxn <= nTxn'
    <3>1. CASE \E p \in Page \ {1} : OpenJournal(c, p)
      BY <2>2, <3>1, PagerCommitAssumption DEF OpenJournal, Txn
    <3>2. CASE ~\E p \in Page \ {1} : OpenJournal(c, p)
      <4>1. nTxn' = nTxn
        BY <1>2, <3>2 DEF ClientStep, ClientDies, SharedLock, JournalAccess, CheckReserved,
           FirstByte, HotLock, HotRefused, Recheck, HotSync, CheckVersion, EndRead, Begin,
           ReadPage, WritePage, Spill, ExclusiveLock, LockBusy, FirstSync, WriteNRec,
           SecondSync, NewHeader, SpillWrite, CommitPhaseOne, CommitWrite, DbSync, Rollback,
           EndEmpty, PlaybackOnePage, EndTransaction, EndUnlock, CommitFails, PagerError,
           DeleteFails, ErrorUnlock, HotFails
      <4> QED
        BY <2>2, <4>1
    <3> QED
      BY <3>1, <3>2
  <2>4. PICK n \in Txn : n = nTxn'
    BY <2>3
  <2>5. Known(nTxn) \subseteq Known(n) /\ KnownSlot(nTxn) \subseteq KnownSlot(n)
    BY <2>2, <2>3, <2>4, KnownGrows
  <2>6. \A d \in Client : PagerTyped(pager[d], n) /\ Sound(pager[d], jrnl)
    BY <2>5 DEF TypeInv, PagerTyped
  <2>7. DbTyped(n) /\ JournalTyped(n)
    <3>1. DbTyped(n)
      BY <2>5 DEF TypeInv, DbTyped
    <3>2. JournalTyped(n)
      BY <2>5 DEF TypeInv, JournalTyped
    <3> QED
      BY <3>1, <3>2
  <2>8. pager[c].vers \in Known(nTxn)
    BY DEF TypeInv, PagerTyped
  <2>9. Prior(c, n)
    BY <2>1, <2>2, <2>4, <2>6, <2>7, <2>8 DEF Prior
  <2> QED
    BY <1>1, <1>2, <2>9, ClientTypes
<1>3. CASE ServerRestarts \/ PowerLoss
  BY <1>1, <1>3, RestartTypes
<1>4. CASE UNCHANGED vars
  BY <1>4 DEF vars, server, TypeInv, PagerTyped, Numbers, Sound, Writes, Body, PageOne,
              DbTyped, JournalTyped
<1> QED
  BY <1>2, <1>3, <1>4 DEF Next

\* The types hold at first.
LEMMA InitTypes ==
  Init => TypeInv
<1> SUFFICES ASSUME Init PROVE TypeInv
  OBVIOUS
<1>1. nTxn \in Txn /\ MaxFaults \in Nat /\ nTxn = 0
  BY PagerCommitAssumption DEF Init, Txn
<1>2. DbTyped(nTxn)
  BY <1>1, KnownValues DEF Init, DbTyped
<1>3. JournalTyped(nTxn)
  BY <1>1, SlotValues DEF Init, NoJournal, JournalTyped
<1>4. \A c \in Client : PagerTyped(pager[c], nTxn) /\ Sound(pager[c], jrnl)
  BY <1>1, NewPagerTypes DEF Init
<1>5. faults \in 0 .. MaxFaults
  BY <1>1 DEF Init
<1>6. misled \in BOOLEAN
  BY Zenon DEF Init
<1> QED
  BY <1>1, <1>2, <1>3, <1>4, <1>5, <1>6 DEF TypeInv

\* For any number of clients, pages, transactions and faults, behind a misled client
\* too: the journal never outgrows a header and a record for every page, no count in
\* a header exceeds the pages, pager_incr_changecounter passes no transaction that was
\* started, and every page, cached, written or journalled, is one a transaction wrote,
\* or torn.
THEOREM Types ==
  Spec => []TypeOK
<1>1. Init => TypeInv
  BY InitTypes
<1>2. JournalInv /\ JournalInv' /\ TypeInv /\ [Next]_vars => TypeInv'
  BY StepTypes
<1> QED
  BY <1>1, <1>2, JournalInvariance, TypeInvTypes, PTL DEF Spec
=============================================================================
