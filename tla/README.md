# multi-master-sqlite in TLA+

Many SQLite processes share one database through the VFS `remote_unix`
(`src/os_remote`).  It ships every VFS call by gRPC to one server process, which
runs SQLite's unix VFS for all of them.  This project models how that works in
three layers: how a call is turned into bytes and back; the database lock, from the
clients' pagers through the messages and the server's handler threads to the inode
table, the descriptors and the `fcntl()` locks; and, on top of the lock, the
transactions of the pagers, with the rollback journal and its recovery.

## The system

| Part | State | Operations | Works with |
|---|---|---|---|
| Pager lock layer (`pager.c`) | `Pager.eLock`, `eState` | `pagerLockDb`, `pagerUnlockDb`, `pager_wait_on_lock`, `hasHotJournal`, `pager_unlock`, `sqlite3PagerOpen/Close` | calls the VFS methods, one at a time |
| Pager transactions (`pager.c`) | page cache, change counter, journal position | `sqlite3PagerSharedLock`, `hasHotJournal`, `pager_playback`, `sqlite3PagerBegin`, `pager_write`, `pagerStress`, `syncJournal`, commit phases one and two, rollback | reads, writes, syncs and deletes the files on the server, under the lock |
| Remote VFS client (`os_remote_client.c`, `os_client_wrap.cc`) | the `sqlite3_file`, a copy of the server's `unixFile` | `remoteOpen`, `remoteLock`, ... | encodes, blocks in the gRPC stub, decodes |
| Argument conversion (`os_arg_convert.c`) | none but the list below | `unixXConvert...` | copies handles and arguments to bytes and back |
| RPC service (`os_remote_server.cc`) | the gRPC thread pool | one method per VFS call | calls `WrapX` |
| Server wrappers (`os_server_wrap.c`) | the list `MethodAndFD`, descriptor to methods | `WrapOpen`, `WrapLock`, ... | rebuilds a handle, calls the unix VFS, sends it back |
| Unix VFS (`os_unix.c`) | `unixInodeInfo`, `pUnused`, descriptors, `fcntl()` locks | `unixOpen`, `unixLock`, `posixUnlock`, `unixCheckReservedLock`, `unixClose` | two mutexes: `unixBigLock`, `pLockMutex` |
| VFS registration (`os_remote_init.c`) | method tables | `setClientRemotePMethods`, stubs for shared memory | |

What makes it hard:

* A handle is a value that travels.  The server keeps no handle; the client's copy
  is what the next call works on, while the table it must agree with
  (`unixInodeInfo`) is shared by all the clients.
* Handlers of different clients run in parallel.  `unixLock` and `posixUnlock` are
  one critical section each; `unixOpen` and `unixClose` are several; the
  descriptor table has no mutex at all.
* A failed call is only printed.  The reply buffer, zeroed before, is then decoded:
  result `SQLITE_OK`, empty handle.
* The server has no sessions.  A client that dies leaves its locks, references and
  descriptors behind.
* On a network mount `fcntl()` may fail when a lock is given back.
* A transaction is a dozen calls from another machine.  Other clients, a failed call,
  a death, a restart of the server or a loss of its power may come between any two,
  and whoever opens the database next has to make it whole.
* Nothing but offsets written down four times, once per conversion, makes an argument
  arrive in its place.

What correctness means, per part: a pager that believes in EXCLUSIVE is alone; the
belief is never above what was granted; the table is what the handles add up to;
the kernel's locks are what the table says; no descriptor is lost, shared or closed
twice; every call comes back; a file is closed by the routine that fits it; every
argument and result arrives; a transaction is in the database as a whole or not at
all, and no cache shows anything else.
`PROJECT.json` lists the hazards line by line with the properties that watch them.

## Modules

| Module | Models |
|---|---|
| `LockLevels` | the five levels and `UNKNOWN_LOCK` |
| `VfsLock` | abstract: each connection holds a level, granted if the others' allow it |
| `Rpc` | the handle as a record, a call and its way there and back, handler threads |
| `RemoteClient` | the `remoteX` methods: send a copy, store the copy that returns |
| `PagerLock` | the lock calls of the pager in rollback-journal mode and their results |
| `UnixVfs` | the server: the five WrapX calls down to `os_unix.c` and the kernel |
| `RemoteVfs` | all of these together: `Init`, `Next`, fairness, invariants, refinement |
| `RemoteFault` | `RemoteVfs` with calls that gRPC gives up on and clients that die |
| `FdTable` | the list `MethodAndFD` and the threads that race in it |
| `ArgConvert` | the conversions of every VFS method, on both sides |
| `AtomicDb` | abstract: a database whose content is replaced by whole transactions |
| `PagerCommit` | the transactions of the pagers over database and journal, with faults |
| `PagerRestart` | `PagerCommit` with a restart of the server that the clients survive |
| `RemoteVfsProofs` | theorems: the lock, its table and the refinement of `VfsLock` |
| `DescriptorProofs` | theorems: descriptors, kernel locks, the assertions of `os_unix.c` |
| `RemoteFaultProofs` | theorems: the lock with deaths and lost calls |
| `FdTableProofs` | theorems: the list and its races |
| `ArgConvertProofs` | theorems: which bytes arrive, for all sizes |
| `PagerCommitProofs`, `JournalProofs` | theorems: who writes the database file, what the journal holds |
| `ContentProofs` | theorems: what the database holds, the refinement of `AtomicDb` |
| `MCRemoteVfs`, `MCRemoteFault`, `MCFdTable`, `MCPagerCommit` | symmetry sets for TLC |

### The lock (`RemoteVfs`, `RemoteFault`)

**State.**  `call[c]` is client c's outstanding call (stage, operation, arguments,
the travelling handle, result); `id[c]` the client's handle between calls;
`eLock[c]` and `phase[c]` the pager; `inode` the one `unixInodeInfo`; `fds` the
descriptors the server has open on the database; `klock` the `fcntl()` locks on the
pending byte, the reserved byte and the shared range.  `File(c)` is c's handle
wherever it is.

**Steps.**  A client's method is two steps, the call and its return.  A handler's
steps are the critical sections of the code: `unixLock`, `posixUnlock` and
`unixCheckReservedLock` one each; `unixOpen` two (a descriptor, then
`fillInUnixFile`); `unixClose` three (unlock; decide about the descriptor; release
and close).  `unixBigLock` is held in the last of these.  `unixLock` and
`posixUnlock` are split by outcome: one action per path through the code.

**Abstractions.**  One database file, one connection per client, so one inode.
Other processes on the server's machine appear only as `fcntl()` calls that fail.
Lock errors of `fcntl()` are always possible when taking a lock, and possible when
giving one back if `NetworkMount`.  An `fstat()` of a descriptor that was just
opened succeeds.  Journal mode is rollback (no WAL), `locking_mode` normal; what
the pager does with pages is left to `PagerCommit`, only that it may fail is here
(`WriterFails`).
`flags` keeps of the open flags that they differ: a deferred descriptor is reused
only for the same flags.  A client that dies, or whose call fails, while a handler
works for it does so when the handler replies; whoever takes its place meanwhile is
another member of `Client`.  After an `xOpen` that failed in transit the real client
dies on its next method call; the model also lets it close the empty handle.

`lossy` says whether on this network gRPC may give up on calls.  It is chosen at the
start and never changes, so one run covers both kinds of network and
`CrashesKeepExclusion` can speak of the reliable ones.

### The descriptor table (`FdTable`)

`FdTable` is kept apart from `UnixVfs`: the list only decides which close routine
runs, and its races would multiply the states of the other.  There a file stands for
a database or a journal, and reading the list, searching it in `AddNode` and writing
to it are separate steps.  The search itself is one step.  `threads`, chosen at the
start, is the size of the thread pool.

### Transactions (`PagerCommit`, `PagerRestart`)

**State.**  `held` is the lock of `VfsLock`: the theorem `Refinement` is why the
pagers may be modelled over it.  `pager[c]` is the Pager object, with the call it
makes next (`pc`) and on whose behalf (`op`).  `db` and `jrnl` are what readers of the
files see; `dbDisk` and `jDisk` give, page by page and slot by slot, what a loss of
power may leave; `ghosts` are the deleted journals it may bring back, since xDelete
does not sync the directory (`extraSync` is 0) and the next journal's first xSync does.

**Data.**  A page holds the number of the transaction that wrote it, page 1 the change
counter, which stands for the 16 bytes of `dbFileVers`.  A slot of the journal is a
header, a record, or unreadable.  A header's `key` is its checksum seed, so a record
left over from an earlier journal fails the checksum.  Slots of an earlier journal
stay behind the new header, as `pager_open_journal` leaves them.  The check in
`syncJournal` for a stale header behind the present one is left out; the properties
hold without it.

**Steps.**  Every call that takes, tests or gives back a lock is a step of its own, refused
ones included: an EXCLUSIVE request that stops at PENDING and the `pager_unlock` behind it
(`HotLock`, `HotRefused`) are two.  So is every call that touches a file, except
that runs of calls on one file that nobody can interleave with, since the caller has
EXCLUSIVE (the reads of a playback's journal) or RESERVED, are one.  `Playing` is where a
playback goes next: it syncs the database unless the pager never wrote it.  `Content` is what
the next client to open the database will find, after rolling back a hot journal.

**A client that is let in too early.**  `hasHotJournal` takes a journal for a living
writer's if xCheckReservedLock finds a lock above SHARED.  In one case it is wrong: that
lock may be the PENDING of a client that wanted to roll the journal back and was refused,
because others have SHARED.  The client that asked then reads, and may change, a database
nobody has recovered (`hot_race`).  From there on anything can be in the caches and in the
file, torn pages included, so `misled` remembers it: `OnlyRefusalMisleads` says that nothing
else makes a reader see anything but the committed content, and `AtomicDb` ends its promise
there (`void`).  `misled` is a history variable, no step depends on it.  A client that died
with PENDING counts too, whatever it had it for; so `misled` may be set without harm, never
the other way round.

**Assumptions.**  `journal_mode=DELETE`, `synchronous=FULL`, a device with neither
`SAFE_APPEND` nor `SEQUENTIAL`, a sector at least as large as the 12 bytes of magic and
record count.  The database keeps its size; there are no savepoints and no master
journal.  The b-tree reads page 1 first, and changes the other pages; page 1 is changed
by the change counter only, and is not spilled.

**Faults** are counted and bounded by `MaxFaults`: a call that returns an error, in a
commit, a spill, a rollback or the rollback of a hot journal; a client that dies and
keeps its lock; a restart of the server, with new clients; a loss of power.

`PagerRestart` lets the clients live on when the server stops during a commit.  Their calls
then return 0, which is `SQLITE_OK`, without having been made: the reply buffer was zeroed
before.  The zeros are copied over the handle too (`zeroed`), which then has no `pMethods`;
`sqlite3OsWrite` and `sqlite3OsSync` follow that pointer, so a call lost in the first phase
ends the client (`LostCallKills`).  The exception is the last xSync of the database, if the
server was there for the xFileControl in front of it (`LostSync`).  In the second phase
nothing ends the client: `sqlite3OsClose` and `pagerUnlockDb` skip a file without methods,
and xDelete goes by name.  A server that is back has not issued the handles of the old
process.  xClose of such a journal finds the default methods for its descriptor and no inode,
xUnlock a `pInode` of another process: the new server goes down as well, or, as the memory
has it, nothing happens (`StaleCall`); xDelete works, unless another client has rolled the
journal back by then, which is an error the pager sees (`StaleDelete`).  A client that is not
at the end of a commit opens the database again (`Reopen`); what its old handle would do
before that, such as a write to a descriptor number that means another file now, is left out.

### Argument conversion (`ArgConvert`)

A byte is known by its origin: side, parameter, index.  A conversion is the sequence of
its `memcpy` calls, in the order of the code, into a structure of the declared size; a
later copy covers an earlier one.  `RequestArrives` and `ReplyArrives` say of every byte
whether it arrives, both ways: a byte that is listed as lost and arrived would violate
them as well.  What is lost is data beyond `MAX_SIZE` and the handle after xUnfetch.
Sizes are small and keep the order of the real ones (a pointer is shorter than a handle,
an int than an i64); data may run over the fields behind its buffer, and not past the
structure.  Padding, string arguments of xFileControl and a NULL `pOutFlags` are left
out.

## Runs

| Run | Question | Bounds |
|---|---|---|
| `three_clients` | Table and handles agree, writer excludes readers, beliefs are backed, assertions hold, deferred closes are temporary, kernel locks are lost in a racing `unixClose` only | 3 clients, 4 descriptors, 2 threads |
| `network_mount` | Unlocks that fail: the inductive invariant, the descriptors' accounts, the refinement of `VfsLock` | 2 clients, 3 descriptors, 2 threads |
| `one_thread` | Kernel locks back the table; every call returns | 2 clients, 2 descriptors, 2 flag words, 1 thread |
| `kernel_race` | **violated**: two threads, kernel locks lost in `unixClose` | 2 clients, 3 descriptors, 2 threads |
| `unreliable` | Lost calls and dead clients: the table is never below the handles, the refinement holds, deaths alone do not break exclusion | 2 clients, 3 descriptors, 1 death |
| `crash_leak` | **violated**: a dead writer's RESERVED lock is still reported | 2 clients, 1 death |
| `fd_table` | One node per descriptor, whatever the race; the methods of another file are never picked up, only the default may be wrong; with one thread the close routine fits the file | 3 files, 2 descriptors, 1 to 3 threads |
| `fd_table_race` | **violated**: two threads, a journal is closed with `unixClose` | 2 files, 3 descriptors, 2 threads |
| `commit` | Transactions are atomic (`AtomicDb`) and readers see committed pages only, unless a refused rollback let a client in; a writer of the file is alone, the journal is what its pager counts | 2 clients, 2 pages, 2 transactions, 2 faults |
| `hot_race` | **violated**: a reader takes a hot journal for a living writer's and reads what is to be rolled back | 2 clients, 2 pages, 1 transaction, 1 fault |
| `server_restart` | **violated**: a commit that returned OK while the server was down is rolled back by the next client | 2 clients, 2 pages, 1 transaction, 1 restart |
| `arg_convert` | Which bytes of which argument arrive, for every method | lengths up to 5 bytes, `MAX_SIZE` 3 |

Two clients are enough for a reader and a writer, three for a second reader or a
newcomer while a writer waits at PENDING.  One descriptor more than clients lets a
deferred close and a new open happen together; in `one_thread` there is none to spare,
so that a deferred descriptor with other flags makes the next open fail.  Two threads are enough for a race
between two critical sections; a third adds nothing to `UnixVfs`, whose third client
can have its steps before, between and after.  Nothing in `RemoteVfs` or `FdTable`
grows without bound, so these runs need no other limits.

In `commit`, every transaction writes page 2 and the change counter on page 1, which is
what it takes to see half of one, and a spill of page 2 before the commit gives the
journal two segments.  Two transactions let one client's commit find the other's cache,
journal or leftover records; two faults let a recovery be interrupted itself (a restart,
then a loss of power during the rollback that follows).  Behind a client that was let in too
early no second fault and no second transaction is explored (`MisledBound`): what is still
promised there, `TypeOK`, `WriterAlone` and `JournalMatchesPager`, is proved without that
bound, and a run without it (3.87 million states) finds nothing either, but takes longer.
Deadlock is not checked there and in `hot_race` and `server_restart`: transactions are bounded, and a client that dies with a lock
stops all others, which is what `crash_leak` is about.

Clients, files and descriptors are interchangeable, so the larger runs use symmetry; no
run with symmetry checks a liveness property.

**Fairness** (`one_thread`).  A client's return is weakly fair: the stub wakes when the
reply is there.  A server step is strongly fair: gRPC calls have no deadline and
queue for a thread, mutexes are handed on, so a call that is again and again able to
run is run.  No fairness for the calls themselves: an application may stop.

**What the violated runs say.**

* `kernel_race`.  `unixClose` finds no lock on the inode and leaves `pLockMutex`;
  another handler takes the first SHARED lock; `closeUnixFile` closes the descriptor
  and the kernel drops that lock.  The table says SHARED, other processes see nothing.
  Inside the server the table still protects the clients from each other.
* `crash_leak`.  Nothing on the server notices that a client is gone, so its RESERVED
  lock is reported, and refuses all other writers, for ever.  `CrashesKeepExclusion`
  in `unreliable` shows that it does no more harm than that.
* `fd_table_race`.  Two `AddNode` calls link behind the same node, or two `InitList`
  calls each make a list; a journal's node is lost, its methods default to
  `posixIoMethods`, and `unixClose` dereferences the inode it does not have.
* `hot_race`.  A writer is gone and its journal is hot.  Two clients take SHARED; one asks
  for EXCLUSIVE, to roll the journal back, is refused because of the other and has PENDING
  until its `pager_unlock`.  The other calls xCheckReservedLock in between, is told that
  somebody has a lock above SHARED, and reads the database as it is.
  `OnlyRefusalMisleads` in `commit` shows that this is the only way.
* `server_restart`.  The server stops when a pager is done with the first phase of its commit.
  The xClose of the journal, xDelete and xUnlock that follow fail in gRPC and return 0 or are
  skipped; the application is told that the transaction is committed.  The journal is still on
  the server, and the next client rolls the transaction back.
  `commit` shows that errors the pager is told of do no such harm.

Two refinements are checked, and proved: `RemoteVfs` and `RemoteFault` implement `VfsLock`, with the
levels in the handles as the levels held; `PagerCommit` implements `AtomicDb`, with
`Content` as the content and what a deleted journal would restore as the content a loss
of power may bring back, and `misled` as the end of the promise.

A lock call that is lost is believed as well, so `BeliefIsHeld` is a property of `RemoteVfs`
and not of `RemoteFault`; `server_restart` shows where taking a lost call for a success
costs data.

Each property of a passing run has a faulty variant of some definition (named
`X_...`, placed before `X`) under which TLC finds the property violated.

## Proofs

Every theorem holds for all values of the constants that satisfy the assumptions of the
modules (finite sets of clients and descriptors, a null descriptor outside `Fd`, at least
one thread, at least two pages, an int no longer than an i64), and for `RemoteVfs` with
and without `NetworkMount`, unless stated.

| Module | Theorem | States |
|---|---|---|
| `RemoteVfsProofs` | `Invariance`, `TypeCorrect` | `IInv`, `TypeOK` |
| | `Belief`, `Exclusion` | `BeliefIsHeld`, `WriterExcludesReaders` |
| | `TableExact` | `TableMatchesHandles`, without `NetworkMount` |
| | `Refinement` | `ImplementsVfsLock` |
| `DescriptorProofs` | `NoDescriptorLeaks`, `DeferredClosesEnd` | `DescriptorsAccounted`, `UnusedFdsAreTemporary` |
| | `LocksDroppedByRacingClose` | `OnlyRacingCloseDropsLocks`, without `NetworkMount` |
| | `UnixAssertions` | `AssertionsHold`, without `NetworkMount` |
| `RemoteFaultProofs` | `FaultInvariance`, `FaultTableBounds` | `FInv`, `TableBoundsHandles` |
| | `CrashExclusion`, `FaultRefinement` | `CrashesKeepExclusion`, `ImplementsVfsLock` |
| `FdTableProofs` | `TableTypeCorrect`, `NodesUnique` | `TypeOK`, `OneNodePerFd` |
| | `ClosesWithItsOwnOrTheDefault` | `OnlyDefaultIsWrong` |
| `ArgConvertProofs` | `ArgumentsArrive`, `ResultsArrive` | `RequestArrives`, `ReplyArrives` |
| `PagerCommitProofs` | `WriterIsAlone` | `WriterAlone` |
| `JournalProofs` | `JournalMatches` | `JournalMatchesPager` |
| `ContentProofs` | `ReadersSeeContent`, `Types` | `OnlyRefusalMisleads`, `TypeOK` |
| | `CommitsAreAtomic` | `ImplementsAtomicDb` |

**The lock.**  `IInv` has five parts.  `TypeOK`; `HandleInv` (at each stage of a call the
handle is attached, or not, as the operation says, and the pager's phase agrees);
`BeliefInv` (what the pager believes, and so what it may ask for, is in its handle);
`TableInv` (the counters and level of the table bound the handles', at most one handle is
above SHARED, EXCLUSIVE means one reader); `ExactInv` (without `NetworkMount` the bounds
are equalities).  None is inductive alone.  `Exclusion` needs `TableInv`; a lock request
preserves `TableInv` only if the requester holds what it believes (`BeliefInv`); a belief
is backed only because a reply carries the handle the table granted (`HandleInv`); and a
counter may be decremented only because it counts the decrementer.  Under `NetworkMount`
a failed unlock leaves counts behind, so the table is an upper bound and no more.  The
proof goes by action.  Lemmas say what an action does to `File`, `Held`, `Readers` and
`Attached` (one handle changes at a time, so the sets gain or lose one element and their
cardinality one); then each part of `IInv` is taken in turn.  `Refinement` uses the same
lemmas: a step that grants a level is the abstract step of that level, the others leave
`held` alone.

**Descriptors, kernel locks, assertions.**  All three rest on `IInv`.  `DescriptorInv`
adds to the two properties that no descriptor waits on `pUnused` twice (`UnusedOnce`).
`KernelBacksTable` is no invariant, as `kernel_race` shows, so `LocksDroppedByRacingClose` is about the
steps that break it, for any number of threads: taking and giving back locks keep the two in
step path by path, a deferred close goes through with the last lock only, and the last handle
leaves an inode without locks; what is left is a close in `unixClose` with `nLock` above 0,
which is the one that decided before the lock was taken.  `PhaseInv` bounds the level of
the handle in each phase of its pager, which the assertions of `unixLock` and
`unixCheckReservedLock` are about; those of `posixUnlock` need that the table is exact,
so unlocks that fail are excluded.

**Deaths and lost calls.**  `IInv` does not hold there: a pager may believe in a lock that
was never granted.  `FInv` keeps the bounds of the table, and splits what is known of a
client: `KeptOK` is `HandleInv` where a handle may be empty, `TrustOK` says that a handle
that is there backs what its pager believes, and `IntactOK`, on a network that
loses no call, that the handle is there; `CrashExclusion` follows from the three.

**The descriptor table.**  `ListInv` follows the racing `AddNode` and `InitList` calls: what a
call saw of the list is still so, so that no descriptor is listed twice although nodes get
lost.  `MethodInv` is about what the nodes say.  A node with the methods of a journal under the
descriptor of an open database is one an earlier journal left there, and only until the
`WrapOpen` of the database has written to it (`NodeOK`, `Unwritten`); before that nobody can
close the database, whose descriptor is its own (`FileOK`, `CallOK`).  So a call that carries
`nolockIoMethods` is about a journal, however many threads race: the default is the only
wrong answer.

**Argument conversion.**  `ConvertInv` says at each stage what the bytes in transit are.
A lemma per method (`OpenDelivers`, ...) shows that its offsets place every argument
behind the one before, for all sizes; `PackedLands` and `UnpackedByte` reduce the sequence
of copies to the last one that covers a byte.  The proof needs that an int is no longer
than an i64, which `ArgConvert` therefore assumes.

**Who writes the file** (`WriterIsAlone`).  `LockInv`: the variables have their shapes, the
levels held are compatible (`Excluded`), and `Legal` lists the places a pager can be in,
with the lock it holds in each: RESERVED from the first change of a cached page, EXCLUSIVE
from the second sync of the journal or from the second look at a hot one.  To take a step
of a playback at all, `Playable` has to return slots with records.  It is a recursive
function; that it is well defined, and what it returns, is shown by looking at the least
place at which two candidates differ (`Least`, from the well-foundedness of the numbers),
which is induction over the data without an induction rule.

**What the journal holds** (`JournalMatches`).  `JournalInv` adds to `LockInv`: the seeds in
any journal, present, deleted or on the disk, are those of transactions that were started
(`OldKeys`); `journalHdr`, `journalOff` and `nRec` go together and leave room for every
page (`Counters`); the records of the transaction's seed are those of `pInJournal`, each
once, and those behind the last header are the `nRec` last written (`Contents`); a header
has its count only between `syncJournal`'s two syncs or in a rollback (`Unsealed`); and a
pager that has changed nothing has nothing in `pInJournal` (`Clean`).  Nobody else writes
the journal meanwhile, since that takes RESERVED.  `Counters` also gives the bound of two
slots per page: a new header is only written behind a record.

Two things in `PagerCommit` were changed so that they can be reasoned about: `Outcomes` is
a set of functions, and the three places that decide where a playback goes next share
`Playing`, since their `CASE` had guards that overlap, which leaves the choice open.

**What the database holds** (`ReadersSeeContent`, `CommitsAreAtomic`, `Types`).  The two
properties speak of `Content`, what a recovery would find now.  It is defined by playing a
journal back, so it says nothing about a page in the middle of a commit.  `ContentInv` adds
to `JournalInv` that, as long as no client was misled, there are X, Y and h, where X is the content, Y what a loss of power may
bring back, and h the place up to which the journal is synced, such that

* the journal in front of h is a chain of headers with all their records, each record the
  page of X (`Laid`), the same on the disk; every page on the disk is the one of X or has
  such a record; behind h there may be one more header, and if it has its count on the disk,
  its records are on the disk too (`DiskOK`).  So whatever a loss of power leaves of the
  unsynced part restores X;
* the deleted journals that may come back restore Y, and are forgotten before another
  journal gets a header with its count (`GhostsOK`).  The first sync of `syncJournal` does
  that: a database page is only written after it;
* the cache of a reader has pages of X (`Fresh`); the cache of a pager without a lock may be
  old, but then so is the change counter it was read with (`Rests`);
* a pager that rolls a hot journal back has every page that differs from X still to do
  (`HotOK`); the pager of a transaction has every change either dirty in its cache or in
  the file, and in the file only if its record is in front of h (`Changing`); at the end the
  file is X with the changes, on the disk (`Finished`); in a rollback of its own the pages
  that differ are still to do (`Undoing`);
* whoever reads found the journal not hot, and it stays so while the lock is held (`Cool`);
  a client may hold PENDING on its way out of a refused rollback, and `CheckReserved` is the
  one step that then leads out of all this, into `misled`.

None of these is inductive alone.  X, Y and h are not variables of the model, so they are
quantified: each step keeps them or names new ones.  A sync moves h, the deletion of a
journal at the end of a transaction makes X the file and Y the old X, a sync of the
directory makes Y be X, and a loss of power may make X be Y.
`StepArrives` shows that every step finds its new ones by an abstract step, `AtomicSteps`
that this is one of `AtomicDb`.  `CoreContent` shows that X is `Content`: a playback goes
through the whole chain and restores nothing but pages of X (`ChainPlayed`, `LaidPlayed`),
so a recovery finds X (`LaidRecovers`).  The proof has a lemma per action, and for each the
parts it can disturb.  `Types` must not rest on any of this, since it holds behind a misled client too, where pages
may be torn and journals overwritten.  `TypeInv` says what a page and a slot can hold once n
transactions were started (`Known`, `KnownSlot`), and of a pager what is so whatever the pages
hold (`Sound`): its dirty pages are cached and journalled, and its change counter is unknown
or below the number of its transaction, so that incrementing it passes none.

**Only model-checked.**  `CallsReturn` is liveness under fairness, which is out of the
prover's reach.  `KernelBacksTable` and `OneThreadClosesRightly`, which need a server with one
thread, are left to the runs; the theorems are about any number of threads.  Every other
property of a passing run is stated by a theorem.

## Not modelled

* WAL mode.  The shared-memory methods of the remote VFS are stubs; `remoteShmMap`
  returns 0 and maps nothing, so a connection that enters WAL mode works with NULL pages
  of the wal-index and gets no further.
* Memory mapping.  `remoteFetch` gives its caller an array on its own stack; what is
  read there later is up to the compiler.  The conversion of xFetch and xUnfetch is in
  `ArgConvert`.
* xTruncate and xFileControl as operations on the files (their conversion is modelled);
  master journals, savepoints, the other journal modes.
* Performance recording, logging, scripts, and the JDBC driver.
* The rest of SQLite.  Nearly all of the repository is upstream SQLite 3.28 in several
  copies (source tree, amalgamation, JDBC build): compiler, virtual machine, b-tree,
  extensions, shell, tests.  It is not this program's own logic, and none of it
  interacts with the remote VFS except through the pager.  The share of the
  repository's lines that the map covers is small for that reason; of
  `src/os_remote` it covers most of what changes state.

## Plan

1. Done: the lock, from pager to kernel; lost calls and dead clients; the descriptor
   table; `VfsLock`, the refinement and its proof.
2. Done: argument conversion; transactions, journal and recovery; `AtomicDb`; a restart
   of the server.
3. Done: proofs for descriptors, kernel locks and assertions, for deaths and lost calls,
   the descriptor table and the conversions; for transactions, who writes the file and
   what the journal holds.
4. Done: the contents of caches, file, disk and journal, from which follow
   `OnlyRefusalMisleads` and the refinement of `AtomicDb`; `TypeOK` of the transactions;
   the window a refused rollback opens (`hot_race`), and calls with handles of a server
   process that is gone.
