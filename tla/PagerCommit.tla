----------------------------- MODULE PagerCommit -----------------------------
(***************************************************************************)
(* Transactions of the pagers (pager.c, journal_mode=DELETE, synchronous=  *)
(* FULL) of several clients over one database file and its rollback        *)
(* journal, both on the server.  Every call of a VFS method that touches   *)
(* a file or a lock is a step, so that the calls of the clients interleave *)
(* and a fault may come between any two of them.  The locks are those of   *)
(* VfsLock, which the remote VFS implements.                               *)
(*                                                                         *)
(* A file has the content its readers see and, per page or journal slot,   *)
(* the contents a loss of power may leave: what was written since the last *)
(* xSync may have reached the disk, in part or not at all.  The size of    *)
(* the database does not change, there are no savepoints and no master     *)
(* journal.                                                                *)
(***************************************************************************)
EXTENDS LockLevels, Sequences, FiniteSetsExt

CONSTANTS
    Client,
    NPage,             \* pages of the database; page 1 is the header page
    MaxTxn,            \* bound: write transactions that are started
    MaxFaults          \* bound: failed calls, dead clients, restarts, power

ASSUME PagerCommitAssumption ==
    /\ NPage \in Nat \ {0, 1}
    /\ MaxTxn \in Nat
    /\ MaxFaults \in Nat

Page == 1 .. NPage
JLen == 2 * NPage                    \* a header and a record for every page
Slot == 1 .. JLen
Txn == 0 .. MaxTxn

\* A page holds the transaction that wrote it, page 1 the change counter.
Torn == MaxTxn + 1                   \* a page written in part
NoPage == MaxTxn + 2                 \* a page that is not in the cache
Value == Txn \cup {Torn}

\* Slots of the journal: a header (nRec, and the magic number, are zero until
\* syncJournal), a record, or nothing that can be read: past the end or torn.
\* key stands for the random checksum seed of the header.
Nil == [kind |-> "nil", key |-> 0, n |-> 0, pg |-> 0]
Header(key, n) == [kind |-> "hdr", key |-> key, n |-> n, pg |-> 0]
Record(key, p, v) == [kind |-> "rec", key |-> key, n |-> v, pg |-> p]
NoJournal == [i \in Slot |-> Nil]

VARIABLES
    held,              \* held[c]: the lock of c on the database file
    pager,             \* pager[c]: the Pager object of c
    db, dbDisk,        \* the database file, and what a loss of power leaves
    jrnl, jDisk,       \* the journal file, likewise
    ghosts,            \* deleted journals a loss of power may bring back
    nTxn,              \* transactions started so far
    faults,            \* faults so far
    misled             \* history: a hot journal was taken for a living writer's

server == <<db, dbDisk, jrnl, jDisk, ghosts>>
vars == <<held, pager, server, nTxn, faults, misled>>

Vfs == INSTANCE VfsLock

-----------------------------------------------------------------------------
(* The journal as a rollback reads it.                                     *)

Exists(j) == \E i \in Slot : j[i] # Nil
Hot(j) == j[1].kind = "hdr" /\ j[1].n > 0

\* The records that follow the header at h and pass the checksum, at most n.
Segment(j, h, n) ==
    {i \in (h + 1) .. (h + n) \cap Slot :
        \A k \in (h + 1) .. i : j[k].kind = "rec" /\ j[k].key = j[h].key}

\* The slots pager_playback restores.  own is 0 for a hot journal; otherwise
\* it is Pager.journalHdr, the last header of the pager's own journal, whose
\* record count is taken from the size of the file while it is still zero.
Playable(j, own) ==
    LET from[h \in 1 .. (JLen + 1)] ==
          IF h > JLen \/ j[h].kind # "hdr" THEN {}
          ELSE LET n == IF j[h].n = 0 /\ h = own THEN JLen - h ELSE j[h].n
                   s == Segment(j, h, n)
               IN  IF n = 0 \/ Cardinality(s) < n THEN s
                   ELSE s \cup from[h + n + 1]
    IN  from[1]

\* The database that playing these slots back leaves.
Restored(d, j, slots) ==
    [p \in Page |-> IF \E i \in slots : j[i].pg = p
                    THEN j[CHOOSE i \in slots : j[i].pg = p].n
                    ELSE d[p]]

\* What the next client to open the database will find there.
Recovered(d, j) == IF Hot(j) THEN Restored(d, j, Playable(j, 0)) ELSE d
Content == Recovered(db, jrnl)
-----------------------------------------------------------------------------
(* Calls of the VFS that change a file.                                    *)

\* All that is possible after a loss of power, given the choices per place.
Outcomes(choices) ==
    {f \in [DOMAIN choices -> UNION {choices[k] : k \in DOMAIN choices}] :
        \A k \in DOMAIN choices : f[k] \in choices[k]}

WriteDb(p, v) ==
    /\ db' = [db EXCEPT ![p] = v]
    /\ dbDisk' = [dbDisk EXCEPT ![p] = @ \cup {v, Torn}]
    /\ UNCHANGED <<jrnl, jDisk, ghosts>>

SyncDb ==
    /\ dbDisk' = [p \in Page |-> {db[p]}]
    /\ UNCHANGED <<db, jrnl, jDisk, ghosts>>

WriteJournal(i, s) ==
    /\ jrnl' = [jrnl EXCEPT ![i] = s]
    /\ jDisk' = [jDisk EXCEPT ![i] = @ \cup {s, Nil}]
    /\ UNCHANGED <<db, dbDisk, ghosts>>

\* The 12 bytes of magic and nRec are inside one sector of a synced header.
PatchHeader(i, n) ==
    /\ jrnl' = [jrnl EXCEPT ![i].n = n]
    /\ jDisk' = [jDisk EXCEPT ![i] = @ \cup {[jrnl[i] EXCEPT !.n = n]}]
    /\ UNCHANGED <<db, dbDisk, ghosts>>

\* The first xSync of a journal that was created syncs its directory as well,
\* and so makes the deletion of earlier journals permanent.
SyncJournalFile ==
    /\ jDisk' = [i \in Slot |-> {jrnl[i]}]
    /\ UNCHANGED <<db, dbDisk, jrnl>>

\* xDelete does not sync the directory: the file may be back after a loss of
\* power.  Only a journal with a valid first header is worth remembering.
DeleteJournal ==
    /\ jrnl' = NoJournal
    /\ jDisk' = [i \in Slot |-> {Nil}]
    /\ ghosts' = ghosts \cup {j \in Outcomes(jDisk) : Hot(j)}
    /\ UNCHANGED <<db, dbDisk>>
-----------------------------------------------------------------------------
(* The pager.                                                              *)

PagerState == {"OPEN", "READER", "WRITER_LOCKED", "WRITER_CACHEMOD",
               "WRITER_DBMOD", "WRITER_FINISHED", "ERROR", "DEAD"}
Writing == {"WRITER_CACHEMOD", "WRITER_DBMOD", "WRITER_FINISHED"}
EmptyCache == [p \in Page |-> NoPage]

\* What the pager is doing (op) and the call it makes next (pc); "idle" is
\* the time between two calls of the b-tree layer.
Op == {"none", "hot", "spill", "commit", "rollback"}
Pc == {"idle", "access", "reserved", "first", "hotlock", "exists", "hotsync",
       "refused", "play", "version", "journal", "lock", "sync1", "nrec", "sync2",
       "newhdr", "write", "dbsync", "delete", "unlock"}

NewPager ==
    [state |-> "OPEN", op |-> "none", pc |-> "idle",
     cache |-> EmptyCache,
     vers |-> 0,                     \* dbFileVers
     heldShared |-> FALSE,           \* hasHeldSharedLock
     dirty |-> {}, needSync |-> {},  \* PGHDR_DIRTY, PGHDR_NEED_SYNC
     inJournal |-> {},               \* pInJournal
     nRec |-> 0, hdr |-> 0, off |-> 0,   \* nRec, journalHdr, journalOff
     txn |-> 0,                      \* the value this transaction writes
     page |-> 0,                     \* the page being written or spilled
     todo |-> {}]                    \* records still to be played back

Init ==
    /\ held = [c \in Client |-> NO_LOCK]
    /\ pager = [c \in Client |-> NewPager]
    /\ db = [p \in Page |-> 0]
    /\ dbDisk = [p \in Page |-> {0}]
    /\ jrnl = NoJournal
    /\ jDisk = [i \in Slot |-> {Nil}]
    /\ ghosts = {}
    /\ nTxn = 0
    /\ faults = 0
    /\ misled = FALSE

At(c, op, pc) == pager[c].op = op /\ pager[c].pc = pc
Goto(c, pc) == pager' = [pager EXCEPT ![c].pc = pc]

\* After pager_unlock and pager_reset.
Closed(pg) == [NewPager EXCEPT !.vers = pg.vers, !.heldShared = pg.heldShared]
\* After pager_unlock alone: the cache is kept for the next transaction.
Unlocked(pg) == [Closed(pg) EXCEPT !.cache = pg.cache]

\* What pager_playback does next: the file is synced only if it was written.
Playing(pg, todo) ==
    IF todo # {} THEN "play"
    ELSE IF pg.state = "WRITER_CACHEMOD" THEN "delete" ELSE "dbsync"
-----------------------------------------------------------------------------
(* sqlite3PagerSharedLock and hasHotJournal.                               *)

SharedLock(c) ==
    /\ pager[c].state = "OPEN"
    /\ At(c, "none", "idle")
    /\ Vfs!Share(c)
    /\ Goto(c, "access")
    /\ UNCHANGED <<server, nTxn, faults, misled>>

JournalAccess(c) ==
    /\ At(c, "none", "access")
    /\ Goto(c, IF Exists(jrnl) THEN "reserved" ELSE "version")
    /\ UNCHANGED <<held, server, nTxn, faults, misled>>

\* A client with the PENDING lock of a refused EXCLUSIVE request, on its way to
\* roll a hot journal back; or one that died with PENDING, whatever it was for.
Refused(c) ==
    /\ held[c] = PENDING_LOCK
    /\ pager[c].pc = "refused" \/ pager[c].state = "DEAD"

\* xCheckReservedLock answers yes for any lock above SHARED.  misled remembers
\* whether it ever did so for a hot journal that nobody is going to finish.
CheckReserved(c) ==
    /\ At(c, "none", "reserved")
    /\ Goto(c, IF \E d \in Client : held[d] > SHARED_LOCK
               THEN "version" ELSE "first")
    /\ misled' = (misled \/ (Hot(jrnl) /\ \E d \in Client : Refused(d)))
    /\ UNCHANGED <<held, server, nTxn, faults>>

\* A journal that is gone by now is taken for a hot one (ticket #3883).
FirstByte(c) ==
    /\ At(c, "none", "first")
    /\ Goto(c, IF ~Exists(jrnl) \/ Hot(jrnl) THEN "hotlock" ELSE "version")
    /\ UNCHANGED <<held, server, nTxn, faults, misled>>

\* Faulty variant: the journal is rolled back under a RESERVED lock.
HotLock_Reserved(c) ==
    /\ At(c, "none", "hotlock")
    /\ Vfs!Reserve(c)
    /\ Goto(c, "exists")
    /\ UNCHANGED <<server, nTxn, faults, misled>>

\* With readers in the way the request is refused and leaves PENDING behind; if
\* another client has more than SHARED it is refused and leaves nothing.
HotLock(c) ==
    /\ At(c, "none", "hotlock")
    /\ \/ Vfs!Exclude(c) /\ Goto(c, "exists")
       \/ /\ \E d \in Client \ {c} : held[d] > NO_LOCK
          /\ Vfs!Pend(c)
          /\ Goto(c, "refused")
       \/ /\ \E d \in Client \ {c} : held[d] > SHARED_LOCK
          /\ UNCHANGED held
          /\ Goto(c, "refused")
    /\ UNCHANGED <<server, nTxn, faults, misled>>

\* pager_unlock, after calls that leave the locks as they are.
HotRefused(c) ==
    /\ At(c, "none", "refused")
    /\ Vfs!Release(c, NO_LOCK)
    /\ pager' = [pager EXCEPT ![c] = Unlocked(@)]
    /\ UNCHANGED <<server, nTxn, faults, misled>>

Recheck(c) ==
    /\ At(c, "none", "exists")
    /\ \/ /\ Exists(jrnl)
          /\ pager' = [pager EXCEPT ![c].op = "hot", ![c].pc = "hotsync"]
          /\ UNCHANGED held
       \/ /\ ~Exists(jrnl)
          /\ Vfs!Release(c, SHARED_LOCK)
          /\ Goto(c, "version")
    /\ UNCHANGED <<server, nTxn, faults, misled>>

\* pagerSyncHotJournal, then the start of pager_playback.
HotSync(c) ==
    /\ At(c, "hot", "hotsync")
    /\ SyncJournalFile /\ UNCHANGED ghosts
    /\ LET todo == Playable(jrnl, 0)
       IN  pager' = [pager EXCEPT
               ![c].todo = todo,
               ![c].cache = IF todo = {} THEN @ ELSE EmptyCache,
               ![c].pc = Playing(pager[c], todo)]
    /\ UNCHANGED <<held, nTxn, faults, misled>>

\* The cache is dropped if the database has changed since it was filled.
CheckVersion(c) ==
    /\ At(c, "none", "version")
    /\ pager' = [pager EXCEPT
           ![c].state = "READER", ![c].pc = "idle",
           ![c].heldShared = TRUE,
           ![c].cache = IF pager[c].heldShared /\ pager[c].vers # db[1]
                        THEN EmptyCache ELSE @]
    /\ UNCHANGED <<held, server, nTxn, faults, misled>>
-----------------------------------------------------------------------------
(* Reading.                                                                *)

InTransaction(c) ==
    pager[c].state \in {"READER", "WRITER_LOCKED", "WRITER_CACHEMOD",
                        "WRITER_DBMOD"}

\* The b-tree layer reads page 1 first, in every transaction.
ReadPage(c, p) ==
    /\ InTransaction(c) /\ At(c, "none", "idle")
    /\ pager[c].cache[p] = NoPage
    /\ p = 1 \/ pager[c].cache[1] # NoPage
    /\ pager' = [pager EXCEPT ![c].cache[p] = db[p],
                              ![c].vers = IF p = 1 THEN db[1] ELSE @]
    /\ UNCHANGED <<held, server, nTxn, faults, misled>>

EndRead(c) ==
    /\ pager[c].state = "READER" /\ At(c, "none", "idle")
    /\ Vfs!Release(c, NO_LOCK)
    /\ pager' = [pager EXCEPT ![c] = Unlocked(@)]
    /\ UNCHANGED <<server, nTxn, faults, misled>>
-----------------------------------------------------------------------------
(* Writing: sqlite3PagerBegin, pager_write, pagerStress.                   *)

Begin(c) ==
    /\ pager[c].state = "READER" /\ At(c, "none", "idle")
    /\ pager[c].cache[1] # NoPage
    /\ Vfs!Reserve(c)
    /\ pager' = [pager EXCEPT ![c].state = "WRITER_LOCKED"]
    /\ UNCHANGED <<server, nTxn, faults, misled>>

\* pager_open_journal opens an existing file as it is: what an earlier
\* journal left behind the header stays there.
OpenJournal(c, p) ==
    /\ pager[c].state = "WRITER_LOCKED" /\ At(c, "none", "idle")
    /\ pager[c].cache[p] # NoPage
    /\ nTxn < MaxTxn
    /\ nTxn' = nTxn + 1
    /\ WriteJournal(1, Header(nTxn + 1, 0))
    /\ pager' = [pager EXCEPT
           ![c].state = "WRITER_CACHEMOD", ![c].pc = "journal",
           ![c].page = p, ![c].txn = nTxn + 1,
           ![c].nRec = 0, ![c].hdr = 1, ![c].off = 2]
    /\ UNCHANGED <<held, faults, misled>>

\* pager_write with the journal open, and the change that follows it: page p
\* is journalled unless it has been, and becomes v in the cache.
Modified(pg, p, v) ==
    LET w == [pg EXCEPT !.cache[p] = v, !.dirty = @ \cup {p},
                        !.page = 0, !.pc = "idle"]
    IN  IF p \in pg.inJournal THEN w
        ELSE [w EXCEPT !.inJournal = @ \cup {p}, !.needSync = @ \cup {p},
                       !.off = @ + 1, !.nRec = @ + 1]

AddToJournal(c, p) ==
    IF p \in pager[c].inJournal THEN UNCHANGED server
    ELSE WriteJournal(pager[c].off,
                      Record(pager[c].txn, p, pager[c].cache[p]))

WritePage(c, p) ==
    /\ \/ At(c, "none", "journal") /\ pager[c].page = p
       \/ /\ pager[c].state \in {"WRITER_CACHEMOD", "WRITER_DBMOD"}
          /\ At(c, "none", "idle")
          /\ pager[c].cache[p] # NoPage /\ p \notin pager[c].dirty
    /\ AddToJournal(c, p)
    /\ pager' = [pager EXCEPT ![c] = Modified(@, p, @.txn)]
    /\ UNCHANGED <<held, nTxn, faults, misled>>

\* Faulty variant: every spill syncs the journal and starts a new header.
Spill_AlwaysSyncs(c, p) ==
    /\ pager[c].state \in {"WRITER_CACHEMOD", "WRITER_DBMOD"}
    /\ At(c, "none", "idle")
    /\ p \in pager[c].dirty
    /\ pager' = [pager EXCEPT ![c].op = "spill", ![c].page = p, ![c].pc = "lock"]
    /\ UNCHANGED <<held, server, nTxn, faults, misled>>

\* The page cache is full and wants the room of a dirty page.
Spill(c, p) ==
    /\ pager[c].state \in {"WRITER_CACHEMOD", "WRITER_DBMOD"}
    /\ At(c, "none", "idle")
    /\ p \in pager[c].dirty
    /\ pager' = [pager EXCEPT
           ![c].op = "spill", ![c].page = p,
           ![c].pc = IF \/ p \in pager[c].needSync
                        \/ pager[c].state = "WRITER_CACHEMOD"
                     THEN "lock" ELSE "write"]
    /\ UNCHANGED <<held, server, nTxn, faults, misled>>
-----------------------------------------------------------------------------
(* syncJournal and pager_write_pagelist, for a spill and for a commit.     *)

\* sqlite3PagerExclusiveLock: with readers in the way the lock becomes
\* PENDING, and the call is repeated or gives up with SQLITE_BUSY.
ExclusiveLock(c) ==
    /\ pager[c].pc = "lock"
    /\ \/ /\ held[c] = EXCLUSIVE_LOCK
          /\ UNCHANGED held
          /\ Goto(c, "sync1")
       \/ Vfs!Exclude(c) /\ Goto(c, "sync1")
       \/ /\ \E d \in Client \ {c} : held[d] > NO_LOCK
          /\ Vfs!Pend(c)
          /\ UNCHANGED pager
    /\ UNCHANGED <<server, nTxn, faults, misled>>

LockBusy(c) ==
    /\ pager[c].pc = "lock" /\ held[c] = PENDING_LOCK
    /\ \E d \in Client \ {c} : held[d] > NO_LOCK
    /\ pager' = [pager EXCEPT ![c].op = "none", ![c].pc = "idle",
                              ![c].page = 0]
    /\ UNCHANGED <<held, server, nTxn, faults, misled>>

FirstSync(c) ==
    /\ pager[c].pc = "sync1"
    /\ SyncJournalFile /\ ghosts' = {}
    /\ Goto(c, "nrec")
    /\ UNCHANGED <<held, nTxn, faults, misled>>

WriteNRec(c) ==
    /\ pager[c].pc = "nrec"
    /\ PatchHeader(pager[c].hdr, pager[c].nRec)
    /\ Goto(c, "sync2")
    /\ UNCHANGED <<held, nTxn, faults, misled>>

\* Faulty variant: the journal is not synced before the database is written.
SecondSync_Skipped(c) ==
    /\ pager[c].pc = "sync2"
    /\ UNCHANGED server
    /\ LET spill == pager[c].op = "spill"
       IN  pager' = [pager EXCEPT
               ![c].hdr = pager[c].off,
               ![c].needSync = IF spill THEN @ ELSE {},
               ![c].state = IF spill THEN @ ELSE "WRITER_DBMOD",
               ![c].pc = IF spill THEN "newhdr" ELSE "write"]
    /\ UNCHANGED <<held, nTxn, faults, misled>>

SecondSync(c) ==
    /\ pager[c].pc = "sync2"
    /\ SyncJournalFile /\ UNCHANGED ghosts
    /\ LET spill == pager[c].op = "spill"
       IN  pager' = [pager EXCEPT
               ![c].hdr = pager[c].off,
               ![c].needSync = IF spill THEN @ ELSE {},
               ![c].state = IF spill THEN @ ELSE "WRITER_DBMOD",
               ![c].pc = IF spill THEN "newhdr" ELSE "write"]
    /\ UNCHANGED <<held, nTxn, faults, misled>>

\* Faulty variant: nRec goes on counting behind the new header.
NewHeader_KeepsNRec(c) ==
    /\ pager[c].pc = "newhdr"
    /\ WriteJournal(pager[c].off, Header(pager[c].txn, 0))
    /\ pager' = [pager EXCEPT
           ![c].off = @ + 1, ![c].needSync = {},
           ![c].state = "WRITER_DBMOD", ![c].pc = "write"]
    /\ UNCHANGED <<held, nTxn, faults, misled>>

NewHeader(c) ==
    /\ pager[c].pc = "newhdr"
    /\ WriteJournal(pager[c].off, Header(pager[c].txn, 0))
    /\ pager' = [pager EXCEPT
           ![c].nRec = 0, ![c].off = @ + 1, ![c].needSync = {},
           ![c].state = "WRITER_DBMOD", ![c].pc = "write"]
    /\ UNCHANGED <<held, nTxn, faults, misled>>

\* A spilled page leaves the cache.
SpillWrite(c) ==
    /\ At(c, "spill", "write")
    /\ LET p == pager[c].page
       IN  /\ WriteDb(p, pager[c].cache[p])
           /\ pager' = [pager EXCEPT
                  ![c].dirty = @ \ {p}, ![c].cache[p] = NoPage,
                  ![c].page = 0, ![c].op = "none", ![c].pc = "idle"]
    /\ UNCHANGED <<held, nTxn, faults, misled>>

CommitWrite(c) ==
    /\ At(c, "commit", "write")
    /\ LET p == Min(pager[c].dirty)
       IN  /\ WriteDb(p, pager[c].cache[p])
           /\ pager' = [pager EXCEPT
                  ![c].dirty = @ \ {p},
                  ![c].vers = IF p = 1 THEN pager[c].cache[1] ELSE @,
                  ![c].pc = IF pager[c].dirty = {p} THEN "dbsync" ELSE @]
    /\ UNCHANGED <<held, nTxn, faults, misled>>
-----------------------------------------------------------------------------
(* sqlite3PagerCommitPhaseOne and PhaseTwo, sqlite3PagerRollback and       *)
(* pager_playback, pager_end_transaction.                                  *)

\* The counter of a page 1 that was written in part stays unknown.
Incremented(v) == IF v = Torn THEN Torn ELSE v + 1

\* pager_incr_changecounter, once per transaction; then syncJournal follows.
CommitPhaseOne(c) ==
    /\ pager[c].state \in {"WRITER_CACHEMOD", "WRITER_DBMOD"}
    /\ At(c, "none", "idle")
    /\ AddToJournal(c, 1)
    /\ LET counter == IF 1 \in pager[c].inJournal THEN pager[c].cache[1]
                      ELSE Incremented(pager[c].vers)
       IN  pager' = [pager EXCEPT ![c] =
               [Modified(@, 1, counter) EXCEPT !.op = "commit", !.pc = "lock"]]
    /\ UNCHANGED <<held, nTxn, faults, misled>>

DbSync(c) ==
    /\ pager[c].pc = "dbsync"
    /\ SyncDb
    /\ IF pager[c].op = "commit"
       THEN pager' = [pager EXCEPT ![c].op = "none", ![c].pc = "idle",
                                   ![c].state = "WRITER_FINISHED"]
       ELSE Goto(c, "delete")
    /\ UNCHANGED <<held, nTxn, faults, misled>>

\* The pager's own rollback restores the cache, and the database file only
\* from the records that were synced before it was written.
StartPlayback(pg) ==
    LET todo == Playable(jrnl, pg.hdr)
    IN  [pg EXCEPT !.op = "rollback", !.page = 0, !.todo = todo,
                   !.pc = Playing(pg, todo)]

Rollback(c) ==
    /\ pager[c].state \in Writing /\ At(c, "none", "idle")
    /\ pager' = [pager EXCEPT ![c] = StartPlayback(@)]
    /\ UNCHANGED <<held, server, nTxn, faults, misled>>

\* A transaction that has not written anything has no journal to finalize.
EndEmpty(c) ==
    /\ pager[c].state = "WRITER_LOCKED" /\ At(c, "none", "idle")
    /\ Vfs!Release(c, SHARED_LOCK)
    /\ pager' = [pager EXCEPT ![c].state = "READER"]
    /\ UNCHANGED <<server, nTxn, faults, misled>>

PlaybackOnePage(c) ==
    /\ pager[c].pc = "play"
    /\ LET pg == pager[c]
           i == Min(pg.todo)
           p == jrnl[i].pg
           toFile == \/ pg.op = "hot"
                     \/ pg.state # "WRITER_CACHEMOD" /\ i < pg.hdr
           cached == pg.cache[p] # NoPage
       IN  /\ IF toFile THEN WriteDb(p, jrnl[i].n) ELSE UNCHANGED server
           /\ pager' = [pager EXCEPT
                  ![c].todo = @ \ {i},
                  ![c].cache[p] = IF cached THEN jrnl[i].n ELSE @,
                  ![c].vers = IF cached /\ p = 1 THEN jrnl[i].n ELSE @,
                  ![c].pc = Playing(pg, pg.todo \ {i})]
    /\ UNCHANGED <<held, nTxn, faults, misled>>

\* sqlite3PagerCommitPhaseTwo calls pager_end_transaction, as do both kinds
\* of playback: the journal is closed and deleted ...
EndTransaction(c) ==
    /\ \/ pager[c].state = "WRITER_FINISHED" /\ At(c, "none", "idle")
       \/ pager[c].pc = "delete"
    /\ DeleteJournal
    /\ Goto(c, "unlock")
    /\ UNCHANGED <<held, nTxn, faults, misled>>

\* ... and the lock goes back to SHARED.
Ended(pg) ==
    LET rest == [Unlocked(pg) EXCEPT !.state = "READER"]
    IN  IF pg.op = "hot" THEN [rest EXCEPT !.state = "OPEN", !.pc = "version"]
        ELSE rest

EndUnlock(c) ==
    /\ pager[c].pc = "unlock"
    /\ Vfs!Release(c, SHARED_LOCK)
    /\ pager' = [pager EXCEPT ![c] = Ended(@)]
    /\ UNCHANGED <<server, nTxn, faults, misled>>
-----------------------------------------------------------------------------
(* Faults.                                                                 *)

Fault == faults < MaxFaults /\ faults' = faults + 1 /\ UNCHANGED misled

\* A call of the commit fails: the b-tree layer rolls the transaction back.
CommitFails(c) ==
    /\ Fault
    /\ pager[c].op = "commit"
    /\ pager' = [pager EXCEPT ![c] = StartPlayback(@)]
    /\ UNCHANGED <<held, server, nTxn>>

\* A call of a spill or of the pager's own rollback fails: pager_error.
PagerError(c) ==
    /\ Fault
    /\ \/ pager[c].op = "spill"
       \/ pager[c].op = "rollback" /\ pager[c].pc \in {"play", "dbsync"}
    /\ pager' = [pager EXCEPT ![c].state = "ERROR", ![c].op = "none",
                              ![c].pc = "idle"]
    /\ UNCHANGED <<held, server, nTxn>>

\* The journal cannot be deleted: the database is unlocked all the same.
DeleteFails(c) ==
    /\ Fault
    /\ \/ pager[c].state = "WRITER_FINISHED" /\ At(c, "none", "idle")
       \/ At(c, "rollback", "delete")
    /\ Vfs!Release(c, SHARED_LOCK)
    /\ pager' = [pager EXCEPT ![c].state = "ERROR", ![c].op = "none",
                              ![c].pc = "idle"]
    /\ UNCHANGED <<server, nTxn>>

\* pager_unlock of a pager in the error state: its journal is left behind.
ErrorUnlock(c) ==
    /\ pager[c].state = "ERROR"
    /\ Vfs!Release(c, NO_LOCK)
    /\ pager' = [pager EXCEPT ![c] = Closed(@)]
    /\ UNCHANGED <<server, nTxn, faults, misled>>

\* A call of the rollback of a hot journal fails: pager_error, pager_unlock.
HotFails(c) ==
    /\ Fault
    /\ pager[c].op = "hot" /\ pager[c].pc # "unlock"
    /\ Vfs!Release(c, NO_LOCK)
    /\ pager' = [pager EXCEPT ![c] = Closed(@)]
    /\ UNCHANGED <<server, nTxn>>

\* The client process ends; nobody gives its locks back.
ClientDies(c) ==
    /\ Fault
    /\ pager[c].state # "DEAD"
    /\ pager' = [pager EXCEPT ![c] = [NewPager EXCEPT !.state = "DEAD"]]
    /\ UNCHANGED <<held, server, nTxn>>

\* The server process starts again, and the clients connect to it anew.
Reconnect ==
    /\ held' = [c \in Client |-> NO_LOCK]
    /\ pager' = [c \in Client |-> NewPager]

ServerRestarts ==
    /\ Fault
    /\ Reconnect
    /\ UNCHANGED <<server, nTxn>>

\* The machine of the server loses power.
PowerLoss ==
    /\ Fault
    /\ Reconnect
    /\ \E d \in Outcomes(dbDisk), j \in Outcomes(jDisk) \cup ghosts :
          /\ db' = d
          /\ dbDisk' = [p \in Page |-> {d[p]}]
          /\ jrnl' = j
          /\ jDisk' = [i \in Slot |-> {j[i]}]
    /\ ghosts' = {}
    /\ UNCHANGED nTxn
-----------------------------------------------------------------------------
ClientStep(c) ==
    \/ SharedLock(c) \/ JournalAccess(c) \/ CheckReserved(c) \/ FirstByte(c)
    \/ HotLock(c) \/ HotRefused(c) \/ Recheck(c) \/ HotSync(c) \/ CheckVersion(c)
    \/ EndRead(c) \/ Begin(c)
    \/ \E p \in Page : ReadPage(c, p)
    \/ \E p \in Page \ {1} : OpenJournal(c, p) \/ WritePage(c, p) \/ Spill(c, p)
    \/ ExclusiveLock(c) \/ LockBusy(c) \/ FirstSync(c) \/ WriteNRec(c)
    \/ SecondSync(c) \/ NewHeader(c) \/ SpillWrite(c)
    \/ CommitPhaseOne(c) \/ CommitWrite(c) \/ DbSync(c)
    \/ Rollback(c) \/ EndEmpty(c) \/ PlaybackOnePage(c)
    \/ EndTransaction(c) \/ EndUnlock(c)
    \/ CommitFails(c) \/ PagerError(c) \/ DeleteFails(c) \/ ErrorUnlock(c)
    \/ HotFails(c)

Next ==
    \/ \E c \in Client : ClientStep(c) \/ ClientDies(c)
    \/ ServerRestarts \/ PowerLoss

Spec == Init /\ [][Next]_vars
-----------------------------------------------------------------------------
SlotValue ==
    {Nil} \cup {Header(k, n) : k \in Txn \ {0}, n \in 0 .. NPage}
          \cup {Record(k, p, v) : k \in Txn \ {0}, p \in Page, v \in Value}

\* Every variable has its type; the journal never outgrows its slots.
TypeOK ==
    /\ held \in [Client -> Level]
    /\ \A c \in Client :
          LET pg == pager[c]
          IN  /\ pg.state \in PagerState /\ pg.op \in Op /\ pg.pc \in Pc
              /\ pg.cache \in [Page -> Value \cup {NoPage}]
              /\ pg.vers \in Value /\ pg.heldShared \in BOOLEAN
              /\ pg.dirty \cup pg.needSync \cup pg.inJournal \subseteq Page
              /\ pg.nRec \in 0 .. NPage
              /\ pg.hdr \in 0 .. (JLen + 1) /\ pg.off \in 0 .. (JLen + 1)
              /\ pg.txn \in Txn /\ pg.page \in Page \cup {0}
              /\ pg.todo \subseteq Slot
    /\ db \in [Page -> Value] /\ dbDisk \in [Page -> SUBSET Value]
    /\ jrnl \in [Slot -> SlotValue] /\ jDisk \in [Slot -> SUBSET SlotValue]
    /\ ghosts \subseteq [Slot -> SlotValue]
    /\ nTxn \in Txn /\ faults \in 0 .. MaxFaults /\ misled \in BOOLEAN

\* Every page in the cache of a client that reads, or of a writer before it
\* has journalled the page, is the page of the committed database: no cache
\* is stale after another client's commit, and no reader sees part of a
\* transaction, before, during or after the rollback of a hot journal.  The
\* code does not keep this: see misled.
ReaderSeesContent ==
    \A c \in Client : \A p \in Page \ pager[c].inJournal :
        InTransaction(c) => pager[c].cache[p] \in {NoPage, Content[p]}

\* The PENDING lock of a refused rollback is the only thing that lets a reader
\* see anything else, whatever interleavings, failed calls, dead clients,
\* restarts and losses of power there are.
OnlyRefusalMisleads == misled \/ ReaderSeesContent

\* From the first page of the database file that a transaction or the rollback
\* of a hot journal may write, until its journal is gone, its client is alone:
\* no other client holds a lock, and none reads.
WritesFile(c) ==
    pager[c].state \in {"WRITER_DBMOD", "WRITER_FINISHED"} \/ pager[c].op = "hot"

WriterAlone ==
    \A c \in Client : \A d \in Client \ {c} :
        WritesFile(c) => held[d] = NO_LOCK /\ ~InTransaction(d)

\* While a transaction writes, its journal has one record of every page in
\* pInJournal and no other that passes its checksum, and behind the header at
\* journalHdr the nRec records that syncJournal will write into it: neither an
\* older journal's records nor another client's calls mix with them.
JournalMatchesPager ==
    \A c \in Client :
        LET pg == pager[c]
            mine == {i \in Slot : jrnl[i].kind = "rec" /\ jrnl[i].key = pg.txn}
        IN  pg.state \in Writing /\ pg.pc # "unlock" =>
                /\ {jrnl[i].pg : i \in mine} = pg.inJournal
                /\ \A i, k \in mine : jrnl[i].pg = jrnl[k].pg => i = k
                /\ pg.hdr < pg.off =>
                      /\ jrnl[pg.hdr] \in {Header(pg.txn, 0), Header(pg.txn, pg.nRec)}
                      /\ {i \in mine : i > pg.hdr} = (pg.hdr + 1) .. (pg.hdr + pg.nRec)

\* The committed database changes in one step, by the whole of one
\* transaction that follows all others, whatever interleavings, failed
\* calls, dead clients and restarts of the server there are; only a loss of
\* power takes the last transaction back, and only as a whole.  The promise is
\* void once a client has read, and may write, without the rollback.
Fallback ==
    IF ghosts = {} THEN Content ELSE Recovered(db, CHOOSE j \in ghosts : TRUE)

Atomic == INSTANCE AtomicDb WITH
    content <- Content, fallback <- Fallback, void <- misled, Txn <- Txn \ {0}

ImplementsAtomicDb == Atomic!Spec
=============================================================================
