-------------------------------- MODULE Rpc --------------------------------
(***************************************************************************)
(* The path of one VFS call from a client process to the server and back.  *)
(*                                                                         *)
(* remoteX() copies its sqlite3_file, byte for byte, into the request; the *)
(* server works on the copy and sends it back; the client overwrites its   *)
(* own with the copy that returned.  The server keeps no per-handle state: *)
(* while a call is under way the handle lives in the message, otherwise it *)
(* lives in the client.  gRPC calls are synchronous, so a client has at    *)
(* most one call outstanding.                                              *)
(***************************************************************************)
EXTENDS LockLevels, FiniteSets

CONSTANTS
    Client,            \* client processes, one connection each
    Fd,                \* descriptors the server process can have open
    NoFd,              \* the h of a handle that has none
    Flag,              \* the flag words a database is opened with
    ReadOnly,          \* the flag word of the read-only second attempt
    HandlerThreads     \* threads of the gRPC server

ASSUME ClientAssumption == IsFiniteSet(Client)
ASSUME FdAssumption     == IsFiniteSet(Fd) /\ NoFd \notin Fd
ASSUME FlagAssumption   == ReadOnly \in Flag
ASSUME ThreadAssumption == HandlerThreads \in Nat \ {0}

VARIABLE call          \* call[c]: client c's call, or NoCall

(***************************************************************************)
(* The fields of unixFile that decide anything here.  pInode stands for    *)
(* the two pointers that are set and cleared together for a database file: *)
(* pInode and pMethod.  flags is pPreallocatedUnused->flags.               *)
(***************************************************************************)
UnixFile == [h : Fd \cup {NoFd}, pInode : BOOLEAN, eFileLock : Level, flags : Flag]

ZeroFile == [h |-> NoFd, pInode |-> FALSE, eFileLock |-> NO_LOCK, flags |-> ReadOnly]

NewFile(fd, flags) == [h |-> fd, pInode |-> FALSE, eFileLock |-> NO_LOCK, flags |-> flags]
WithInode(file)     == [file EXCEPT !.pInode = TRUE]
WithLock(file, lvl) == [file EXCEPT !.eFileLock = lvl]
WithoutFd(file)     == [file EXCEPT !.h = NoFd]

Op == {"Open", "Lock", "Unlock", "CheckReservedLock", "Close"}

ResultCode == {"OK", "BUSY", "IOERR", "CANTOPEN", "NOMEM"}

(***************************************************************************)
(* Where a call is: on its way to the server; inside unixOpen with a       *)
(* descriptor but no inode yet; inside unixClose before and after the      *)
(* decision what to do with the descriptor; on its way back.               *)
(***************************************************************************)
Stage == {"idle", "request", "fill", "close", "release", "reply"}

Call == [pc : Stage, op : Op, lvl : Level, flags : Flag,
         file : UnixFile, rc : ResultCode, out : BOOLEAN]

NoCall == [pc |-> "idle", op |-> "Open", lvl |-> NO_LOCK, flags |-> ReadOnly,
           file |-> ZeroFile, rc |-> "OK", out |-> FALSE]

CallInit == call = [c \in Client |-> NoCall]

\* remoteX() and clientX(), up to the moment the stub blocks.
Send(c, op, lvl, flags, file) ==
    /\ call[c].pc = "idle"
    /\ call' = [call EXCEPT ![c] = [pc |-> "request", op |-> op, lvl |-> lvl,
                                    flags |-> flags, file |-> file,
                                    rc |-> "OK", out |-> FALSE]]

\* A thread of the pool is free.
HandlerFree ==
    Cardinality({d \in Client : call[d].pc \in {"fill", "close", "release"}}) < HandlerThreads

\* The server has a thread for c's op call and WrapX() has its arguments.
Requested(c, op) == call[c].pc = "request" /\ call[c].op = op /\ HandlerFree

\* WrapX() reaches a stage with its copy of the handle and its result code.
Proceed(c, stage, file, rc) ==
    call' = [call EXCEPT ![c] = [pc |-> stage, op |-> @.op, lvl |-> @.lvl,
                                 flags |-> @.flags, file |-> file,
                                 rc |-> rc, out |-> FALSE]]

\* WrapX() returns: the handle and the result code go into the reply.
Reply(c, file, rc) == Proceed(c, "reply", file, rc)

\* WrapCheckReservedLock() returns; it has not changed the handle.
Answer(c, rc, out) ==
    call' = [call EXCEPT ![c] = [pc |-> "reply", op |-> @.op, lvl |-> @.lvl,
                                 flags |-> @.flags, file |-> @.file,
                                 rc |-> rc, out |-> out]]

\* The stub of client c returns the reply to an op call.
Returned(c, op) ==
    /\ call[c].pc = "reply"
    /\ call[c].op = op
    /\ call' = [call EXCEPT ![c] = NoCall]
=============================================================================
