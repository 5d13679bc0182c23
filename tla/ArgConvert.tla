----------------------------- MODULE ArgConvert -----------------------------
(***************************************************************************)
(* The conversion of a VFS call to bytes and back, on both sides.          *)
(*                                                                         *)
(* The client copies the arguments of the call into the bytes of an ArgInX *)
(* structure, the server copies them out, calls the Unix VFS, copies what  *)
(* it returned into a ReturnX structure, and the client copies that into   *)
(* the caller's memory.  The four conversions name their offsets one by    *)
(* one: nothing but their agreement makes an argument arrive.              *)
(*                                                                         *)
(* A byte is known by where it comes from, <<side, parameter, index>>, so  *)
(* an argument has arrived when its bytes are those its owner sent.  A     *)
(* later copy overwrites an earlier one where they overlap.  The sizes are *)
(* parameters, smaller than the real ones.  MaxAmt lets the data run over  *)
(* the fields behind pBuf and never past the structure, where the copies   *)
(* would overwrite the stack.  Every request and reply is delivered here:  *)
(* what a lost one does is the subject of RemoteFault and PagerRestart.    *)
(***************************************************************************)
EXTENDS Integers, FiniteSetsExt

CONSTANTS
    Handle,    \* SIZE_UNIXFILE
    MaxSize,   \* MAX_SIZE, the pBuf of a structure
    Path,      \* 512, the path of a structure and the pArg of xFileControl
    SizeInt,   \* sizeof(int)
    SizeI64,   \* sizeof(i64), of a size_t and of a pointer
    MaxAmt     \* bound: the longest pBuf a caller passes

ASSUME ArgConvertAssumption ==
    /\ {Handle, MaxSize, Path, SizeInt, SizeI64, MaxAmt} \subseteq Nat \ {0}
    /\ SizeInt <= SizeI64 /\ SizeI64 < Handle /\ SizeI64 <= Path
    /\ MaxAmt \in MaxSize .. MaxSize + SizeInt

VARIABLES
    call,     \* [op, n]: the method, and the length of its one argument
              \* of variable length
    phase,    \* where the call is
    wire,     \* the bytes of the request or of the reply
    memory    \* memory[p]: the bytes of parameter p where the last conversion
              \* put them, on the server or on the client

vars == <<call, phase, wire, memory>>

\* Bytes nobody wrote: from memset() on the client, from the server's stack.
Zero == <<"zero", "", 0>>
Junk == <<"junk", "", 0>>

-----------------------------------------------------------------------------
(***************************************************************************)
(* The methods and their parameters.                                       *)
(***************************************************************************)
FileOnly == {"SectorSize", "DeviceCharacteristics"}      \* (id), returns an int
WithPath == {"Open", "Delete", "Access", "FullPathname"}
WithData == {"Read", "Write", "Fetch"}

Op == FileOnly \cup WithPath \cup WithData
      \cup {"Init", "GetLastError", "Truncate", "Sync", "FileSize", "FileControl",
            "Close", "Lock", "Unlock", "CheckReservedLock", "Unfetch"}

\* The lengths a call may have; ControlType() knows int, i64 and "other" of
\* the arguments of xFileControl, a path ends within its 512 bytes.
Length(op) ==
    CASE op \in WithData -> 1 .. MaxAmt
      [] op \in WithPath -> 1 .. Path
      [] op = "FileControl" -> {0, SizeInt, SizeI64}
      [] OTHER -> {0}

Call == UNION {[op : {o}, n : Length(o)] : o \in Op}

Size(p, n) ==
    CASE p = "id" -> Handle
      [] p \in {"zPath", "zOut", "pBuf", "pData", "pArg"} -> n
      [] p \in {"offset", "nByte", "pSize", "iOff"} -> SizeI64
      [] OTHER -> SizeInt

\* What the caller hands to the method, and what the method hands back.
In(op) ==
    CASE op \in {"Init", "GetLastError"} -> {}
      [] op = "Open" -> {"zPath", "id", "flags", "pOutFlags"}
      [] op = "Delete" -> {"zPath", "dirSync"}
      [] op = "Access" -> {"zPath", "flags"}
      [] op = "FullPathname" -> {"zPath", "nOut"}
      [] op = "Read" -> {"id", "amt", "offset"}
      [] op = "Write" -> {"id", "pBuf", "amt", "offset"}
      [] op = "Truncate" -> {"id", "nByte"}
      [] op = "FileControl" -> {"id", "op", "pArg"}
      [] op = "Sync" -> {"id", "flags"}
      [] op \in {"Lock", "Unlock"} -> {"id", "eFileLock"}
      [] op = "Fetch" -> {"id", "iOff", "nAmt"}
      [] op = "Unfetch" -> {"id", "iOff", "p_flag"}
      [] OTHER -> {"id"}

Out(op) ==
    CASE op = "Open" -> {"id", "pOutFlags", "rc"}
      [] op \in {"Init", "GetLastError", "Delete"} -> {"rc"}
      [] op = "Access" -> {"pResOut", "rc"}
      [] op = "FullPathname" -> {"zOut", "rc"}
      [] op = "Read" -> {"id", "pBuf", "rc"}
      [] op = "FileSize" -> {"id", "pSize", "rc"}
      [] op = "FileControl" -> {"id", "pArg", "rc"}
      [] op = "CheckReservedLock" -> {"id", "pResOut", "rc"}
      [] op = "Fetch" -> {"id", "pData", "rc"}
      [] OTHER -> {"id", "rc"}

-----------------------------------------------------------------------------
(***************************************************************************)
(* The copies of each method's conversions, in the order of the code:      *)
(*   send   XConvertArgInToChar     client    in   size of ArgInX          *)
(*   recv   XConvertCharToArgIn     server                                 *)
(*   reply  XConvertReturnToChar    server    out  size of ReturnX         *)
(*   back   XConvertCharToReturn    client                                 *)
(* (structure padding left out).                                           *)
(***************************************************************************)
Copy(p, offset, len) == [p |-> p, offset |-> offset, len |-> len]

id == Copy("id", 0, Handle)

\* Both sides copy the same parameters from and to the same offsets.
Agreed(request, in, result, out) ==
    [send |-> request, recv |-> request, in |-> in,
     reply |-> result, back |-> result, out |-> out]

InitConvert == Agreed(<<>>, 0, <<Copy("rc", 0, SizeInt)>>, SizeInt)

OpenConvert(n) ==
    Agreed(<<Copy("zPath", 0, n), Copy("id", Path, Handle),
             Copy("flags", Path + Handle, SizeInt),
             Copy("pOutFlags", Path + Handle + SizeInt, SizeInt)>>,
           Path + Handle + 2 * SizeInt,
           <<id, Copy("pOutFlags", Handle, SizeInt), Copy("rc", Handle + SizeInt, SizeInt)>>,
           Handle + 2 * SizeInt)

DeleteConvert(n) ==
    Agreed(<<Copy("zPath", 0, n), Copy("dirSync", Path, SizeInt)>>, Path + SizeInt,
           <<Copy("rc", 0, SizeInt)>>, SizeInt)

AccessConvert(n) ==
    Agreed(<<Copy("zPath", 0, n), Copy("flags", Path, SizeInt),
             Copy("pResOut", Path + SizeInt, SizeInt)>>,
           Path + 2 * SizeInt,
           <<Copy("pResOut", 0, SizeInt), Copy("rc", SizeInt, SizeInt)>>, 2 * SizeInt)

\* nOut is mxPathname; of the nOut bytes copied only the string is read.
FullPathnameConvert(n) ==
    Agreed(<<Copy("nOut", 0, SizeInt), Copy("zPath", SizeInt, n)>>, SizeInt + Path,
           <<Copy("zOut", 0, n), Copy("rc", Path, SizeInt)>>, Path + SizeInt)

GetLastErrorConvert == Agreed(<<>>, 0, <<Copy("rc", 0, SizeInt)>>, SizeInt)

\* Faulty variant: the data is copied after amt.
WriteConvert_DataLast(n) ==
    Agreed(<<id, Copy("amt", Handle + MaxSize, SizeInt), Copy("pBuf", Handle, n),
             Copy("offset", Handle + MaxSize + SizeInt, SizeI64)>>,
           Handle + MaxSize + SizeInt + SizeI64,
           <<id, Copy("rc", Handle + MaxSize, SizeInt)>>, Handle + MaxSize + SizeInt)

\* The server copies pBuf with the amt it finds behind it.
ReadConvert(n) ==
    Agreed(<<id, Copy("pBuf", Handle, n), Copy("amt", Handle + MaxSize, SizeInt),
             Copy("offset", Handle + MaxSize + SizeInt, SizeI64)>>,
           Handle + MaxSize + SizeInt + SizeI64,
           <<id, Copy("pBuf", Handle, n), Copy("rc", Handle + MaxSize, SizeInt)>>,
           Handle + MaxSize + SizeInt)

\* As for xRead, but no data comes back.
WriteConvert(n) ==
    Agreed(<<id, Copy("pBuf", Handle, n), Copy("amt", Handle + MaxSize, SizeInt),
             Copy("offset", Handle + MaxSize + SizeInt, SizeI64)>>,
           Handle + MaxSize + SizeInt + SizeI64,
           <<id, Copy("rc", Handle + MaxSize, SizeInt)>>, Handle + MaxSize + SizeInt)

TruncateConvert ==
    Agreed(<<id, Copy("nByte", Handle, SizeI64)>>, Handle + SizeI64,
           <<id, Copy("rc", Handle, SizeInt)>>, Handle + SizeInt)

SyncConvert ==
    Agreed(<<id, Copy("flags", Handle, SizeInt)>>, Handle + SizeInt,
           <<id, Copy("rc", Handle, SizeInt)>>, Handle + SizeInt)

FileSizeConvert ==
    Agreed(<<id, Copy("pSize", Handle, SizeI64)>>, Handle + SizeI64,
           <<id, Copy("pSize", Handle, SizeI64), Copy("rc", Handle + SizeI64, SizeInt)>>,
           Handle + SizeI64 + SizeInt)

FileControlConvert(n) ==
    Agreed(<<id, Copy("op", Handle, SizeInt), Copy("pArg", Handle + SizeInt, n),
             Copy("size", Handle + SizeInt + Path, SizeInt)>>,
           Handle + Path + 2 * SizeInt,
           <<Copy("size", Handle + Path + SizeInt, SizeInt), id, Copy("pArg", Handle, n),
             Copy("rc", Handle + Path, SizeInt)>>,
           Handle + Path + 2 * SizeInt)

FileOnlyConvert ==
    Agreed(<<id>>, Handle, <<id, Copy("rc", Handle, SizeInt)>>, Handle + SizeInt)

\* The handle does not come back.
CloseConvert == Agreed(<<id>>, Handle, <<Copy("rc", Handle, SizeInt)>>, Handle + SizeInt)

\* xLock and xUnlock.
LockConvert ==
    Agreed(<<id, Copy("eFileLock", Handle, SizeInt)>>, Handle + SizeInt,
           <<id, Copy("rc", Handle, SizeInt)>>, Handle + SizeInt)

\* Faulty variant: rc goes where pResOut is.
CheckReservedLockConvert_RcOverlaps ==
    Agreed(<<id, Copy("pResOut", Handle, SizeInt)>>, Handle + SizeInt,
           <<id, Copy("pResOut", Handle, SizeInt), Copy("rc", Handle, SizeInt)>>,
           Handle + 2 * SizeInt)

CheckReservedLockConvert ==
    Agreed(<<id, Copy("pResOut", Handle, SizeInt)>>, Handle + SizeInt,
           <<id, Copy("pResOut", Handle, SizeInt), Copy("rc", Handle + SizeInt, SizeInt)>>,
           Handle + 2 * SizeInt)

FetchConvert(n) ==
    Agreed(<<id, Copy("iOff", Handle, SizeI64), Copy("nAmt", Handle + SizeI64, SizeInt)>>,
           Handle + SizeI64 + SizeInt + MaxSize,
           <<id, Copy("pData", Handle, n), Copy("rc", Handle + MaxSize, SizeInt)>>,
           Handle + MaxSize + SizeInt)

\* The client takes sizeof(SIZE_UNIXFILE) bytes, the size of a size_t.
UnfetchConvert ==
    [Agreed(<<id, Copy("iOff", Handle, SizeI64), Copy("p_flag", Handle + SizeI64, SizeInt)>>,
            Handle + SizeI64 + SizeInt,
            <<id, Copy("rc", Handle, SizeInt)>>, Handle + SizeInt)
        EXCEPT !.back = <<Copy("id", 0, SizeI64), Copy("rc", Handle, SizeInt)>>]

Convert(op, n) ==
    CASE op = "Init" -> InitConvert
      [] op = "GetLastError" -> GetLastErrorConvert
      [] op = "Open" -> OpenConvert(n)
      [] op = "Delete" -> DeleteConvert(n)
      [] op = "Access" -> AccessConvert(n)
      [] op = "FullPathname" -> FullPathnameConvert(n)
      [] op = "Read" -> ReadConvert(n)
      [] op = "Write" -> WriteConvert(n)
      [] op = "Truncate" -> TruncateConvert
      [] op = "Sync" -> SyncConvert
      [] op \in {"Lock", "Unlock"} -> LockConvert
      [] op = "FileSize" -> FileSizeConvert
      [] op = "FileControl" -> FileControlConvert(n)
      [] op \in FileOnly -> FileOnlyConvert
      [] op = "Close" -> CloseConvert
      [] op = "CheckReservedLock" -> CheckReservedLockConvert
      [] op = "Fetch" -> FetchConvert(n)
      [] op = "Unfetch" -> UnfetchConvert

-----------------------------------------------------------------------------
\* memcpy() of parameters into a structure, the last copy winning.
Pack(side, copies, size, fill) ==
    LET covers(i) == {c \in DOMAIN copies :
                        i - copies[c].offset \in 0 .. copies[c].len - 1}
    IN  [i \in 0 .. size - 1 |->
            IF covers(i) = {} THEN fill
            ELSE LET last == copies[Max(covers(i))]
                 IN  <<side, last.p, i - last.offset>>]

\* memcpy() out of a structure; what no copy names stays as it was before.
Unpack(before, copies, bytes) ==
    LET from(p, i) == {c \in DOMAIN copies : copies[c].p = p /\ i < copies[c].len}
    IN  [p \in DOMAIN before |-> [i \in DOMAIN before[p] |->
            IF from(p, i) = {} THEN before[p][i]
            ELSE bytes[copies[Max(from(p, i))].offset + i]]]

Owned(side, op, n) ==
    [p \in In(op) \cup Out(op) |-> [i \in 0 .. Size(p, n) - 1 |-> <<side, p, i>>]]

\* The first word of the handle becomes the client's own method table.
setClientRemotePMethods(file) ==
    [p \in DOMAIN file |-> [i \in DOMAIN file[p] |->
        IF p = "id" /\ i < SizeI64 THEN <<"remote", p, i>> ELSE file[p][i]]]

-----------------------------------------------------------------------------
Init ==
    /\ call = [op |-> "Init", n |-> 0] /\ phase = "idle"
    /\ wire = <<>> /\ memory = <<>>

\* remoteX() builds the request in a zeroed structure.
Send(c) ==
    /\ phase = "idle"
    /\ call' = c /\ phase' = "sent"
    /\ LET k == Convert(c.op, c.n) IN wire' = Pack("client", k.send, k.in, Zero)
    /\ memory' = <<>>

\* WrapX() copies the arguments into variables of its own and makes the call.
Receive ==
    /\ phase = "sent"
    /\ memory' = Unpack([p \in In(call.op) |-> Owned("stack", call.op, call.n)[p]],
                        Convert(call.op, call.n).recv, wire)
    /\ phase' = "received"
    /\ UNCHANGED <<call, wire>>

\* The call has returned: WrapX() fills a structure nobody has cleared.
Reply ==
    /\ phase = "received"
    /\ LET k == Convert(call.op, call.n) IN wire' = Pack("server", k.reply, k.out, Junk)
    /\ memory' = <<>> /\ phase' = "replied"
    /\ UNCHANGED call

\* remoteX() copies the reply over the memory its caller passed.
Return ==
    /\ phase = "replied"
    /\ memory' = setClientRemotePMethods(
                    Unpack([p \in Out(call.op) |-> Owned("client", call.op, call.n)[p]],
                           Convert(call.op, call.n).back, wire))
    /\ phase' = "returned"
    /\ UNCHANGED <<call, wire>>

\* The caller goes on to its next call.
Done ==
    /\ phase = "returned" /\ phase' = "idle"
    /\ memory' = <<>> /\ wire' = <<>>
    /\ UNCHANGED call

Next == (\E c \in Call : Send(c)) \/ Receive \/ Reply \/ Return \/ Done

Spec == Init /\ [][Next]_vars

-----------------------------------------------------------------------------
(***************************************************************************)
(* Every byte of every argument is the caller's when the Unix VFS is       *)
(* called, whatever other copies the conversion makes, and only the data   *)
(* of an xWrite beyond MAX_SIZE is not: amt and offset, copied after it,   *)
(* have taken its place.                                                   *)
(***************************************************************************)
RequestArrives ==
    phase = "received" =>
        \A p \in In(call.op) : \A i \in 0 .. Size(p, call.n) - 1 :
            memory[p][i] = <<"client", p, i>> <=> (p = "pBuf" => i < MaxSize)

(***************************************************************************)
(* Every byte of every result is the server's when remoteX() returns, but  *)
(* for the method table, which is the client's own; data beyond MAX_SIZE,  *)
(* where rc lies; and the handle after xClose, which does not need it, and *)
(* after xUnfetch, where nFetchOut and the map counters stay as they were  *)
(* before the call.                                                        *)
(***************************************************************************)
ReplyArrives ==
    phase = "returned" =>
        \A p \in Out(call.op) : \A i \in 0 .. Size(p, call.n) - 1 :
            IF p = "id" /\ i < SizeI64
            THEN memory[p][i] = <<"remote", p, i>>
            ELSE memory[p][i] = <<"server", p, i>> <=>
                    /\ p \in {"pBuf", "pData"} => i < MaxSize
                    /\ p = "id" => call.op \notin {"Close", "Unfetch"}

=============================================================================
