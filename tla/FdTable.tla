------------------------------ MODULE FdTable ------------------------------
(***************************************************************************)
(* The server's table of file descriptors and their I/O methods.           *)
(*                                                                         *)
(* The pMethods pointer of a handle means nothing in the client's process, *)
(* so the server remembers, in a linked list, which methods unixOpen chose *)
(* for a descriptor (posixIoMethods for a database, nolockIoMethods for a  *)
(* journal), and looks them up in every call.  The list has no mutex: each *)
(* read of it and each write to it is a step of its own.                   *)
(*                                                                         *)
(* A new node goes behind the last one and ends the list, so linking it    *)
(* behind a node that is no longer the last cuts off what came after: the  *)
(* list is a sequence, a pointer into it a position, and a pointer to what *)
(* was cut off leads nowhere.  (DeleteNode has no caller.)                 *)
(***************************************************************************)
EXTENDS Naturals, SequencesExt

CONSTANTS
    Handle,            \* files the clients open and close, one call at a time each
    Fd,                \* descriptors unixOpen may return
    ZeroFd,            \* the h of a handle that is all zeros
    HandlerThreads     \* bound: the most threads the gRPC server has

ASSUME FdTableAssumption ==
    ZeroFd \notin Fd /\ HandlerThreads \in Nat \ {0}

VARIABLES
    listHead,  \* TRUE: the head node has been allocated
    list,      \* the nodes behind it
    file,      \* file[h]: the open file, as unixOpen made it
    handler,   \* handler[h]: the WrapX() call about h
    threads    \* threads the gRPC server was started with

vars == <<listHead, list, file, handler, threads>>

Method == {"posix", "nolock", "null"}

MethodAndFD == [fd : Fd \cup {ZeroFd}, method : Method]

NotOpen == [fd |-> ZeroFd, method |-> "null"]

(***************************************************************************)
(* Where a call is: it found listHead NULL; it looks its methods up; it is *)
(* inside xOpen or xClose; AddNode searches; AddNode writes, to the node   *)
(* it found or behind the last node it saw.  That node is at position at   *)
(* (0 is the head) as long as it is linked.                                *)
(***************************************************************************)
Stage == {"idle", "init", "get", "open", "close", "find", "write"}

Handler == [pc : Stage, op : {"Open", "Use", "Close"}, fd : Fd \cup {ZeroFd},
            pMethods : Method, found : BOOLEAN, at : Nat, linked : BOOLEAN]

Idle == [pc |-> "idle", op |-> "Use", fd |-> ZeroFd, pMethods |-> "null",
         found |-> FALSE, at |-> 0, linked |-> FALSE]

Init ==
    /\ listHead = FALSE
    /\ list = <<>>
    /\ file = [h \in Handle |-> NotOpen]
    /\ handler = [h \in Handle |-> Idle]
    /\ threads \in 1 .. HandlerThreads

Go(h, r) == handler' = [handler EXCEPT ![h] = r]

HandlerFree == Cardinality({h \in Handle : handler[h].pc # "idle"}) < threads

\* FindNode: the position of the first node of fd, 0 if there is none.
FindNode(fd) == SelectInSeq(list, LAMBDA n : n.fd = fd)

-----------------------------------------------------------------------------
\* A thread takes a call and looks whether there is a list.
Enter(h, op) ==
    /\ handler[h].pc = "idle" /\ HandlerFree
    /\ op = "Open" <=> file[h] = NotOpen
    /\ Go(h, [Idle EXCEPT !.pc = IF listHead THEN "get" ELSE "init",
                          !.op = op, !.fd = file[h].fd])
    /\ UNCHANGED <<listHead, list, file>>

\* The list starts anew, whoever may have started it meanwhile.
InitList(h) ==
    /\ handler[h].pc = "init"
    /\ listHead' = TRUE
    /\ list' = <<>>
    /\ handler' = [g \in Handle |->
                     IF g = h THEN [handler[g] EXCEPT !.pc = "get"]
                              ELSE [handler[g] EXCEPT !.at = 0, !.linked = FALSE]]
    /\ UNCHANGED file

\* A descriptor the list does not know is taken for a database's.
getServerUnixPMethods(h) ==
    LET i == FindNode(handler[h].fd) IN
    /\ handler[h].pc = "get"
    /\ Go(h, [handler[h] EXCEPT
                !.pc = CASE handler[h].op = "Open"  -> "open"
                         [] handler[h].op = "Close" -> "close"
                         [] handler[h].op = "Use"   -> "find",
                !.pMethods = IF i = 0 THEN "posix"
                             ELSE IF list[i].method = "null" THEN "posix"
                             ELSE list[i].method])
    /\ UNCHANGED <<listHead, list, file>>

\* unixOpen of a database or a journal.  One that fails leaves no methods, and
\* no descriptor or one that is closed again.
xOpen(h) ==
    /\ handler[h].pc = "open"
    /\ \E f \in [fd : Fd \ {file[g].fd : g \in Handle}, method : Method] \cup {NotOpen} :
          /\ file' = [file EXCEPT ![h] = IF f.method = "null" THEN NotOpen ELSE f]
          /\ Go(h, [handler[h] EXCEPT !.pc = "find", !.fd = f.fd, !.pMethods = f.method])
    /\ UNCHANGED <<listHead, list>>

\* WrapClose: the close routine of the methods it found.
xClose(h) ==
    /\ handler[h].pc = "close"
    /\ file' = [file EXCEPT ![h] = NotOpen]
    /\ Go(h, Idle)
    /\ UNCHANGED <<listHead, list>>

\* setServerUnixPMethods: AddNode's search ...
AddNodeFinds(h) ==
    LET i == FindNode(handler[h].fd) IN
    /\ handler[h].pc = "find"
    /\ Go(h, [handler[h] EXCEPT !.pc = "write", !.found = (i # 0), !.linked = TRUE,
                                !.at = IF i # 0 THEN i ELSE Len(list)])
    /\ UNCHANGED <<listHead, list, file>>

\* Faulty variant: a node that exists keeps the methods it has.
AddNodeUpdates_KeepsMethod(h) ==
    /\ handler[h].pc = "write" /\ handler[h].found
    /\ Go(h, Idle)
    /\ UNCHANGED <<listHead, list, file>>

\* ... and what it does with what it found, however long ago.
AddNodeUpdates(h) ==
    /\ handler[h].pc = "write" /\ handler[h].found
    /\ list' = IF handler[h].linked
                 THEN [list EXCEPT ![handler[h].at].method = handler[h].pMethods]
                 ELSE list
    /\ Go(h, Idle)
    /\ UNCHANGED <<listHead, file>>

\* Faulty variant: temp->next = prev->next, as a list that is shared would need.
LinkBehind_Inserts(prev, new) == InsertAt(list, prev + 1, new)

\* prev->next = temp, with temp->next == NULL.
LinkBehind(prev, new) == Append(SubSeq(list, 1, prev), new)

\* Faulty variant: the arguments are swapped.
AddNodeLinks_Swapped(h) ==
    /\ handler[h].pc = "write" /\ ~handler[h].found /\ handler[h].linked
    /\ list' = LinkBehind(handler[h].at, [fd |-> handler[h].pMethods, method |-> handler[h].fd])
    /\ Go(h, Idle)
    /\ UNCHANGED <<listHead, file>>

AddNodeLinks(h) ==
    LET prev  == handler[h].at
        new   == [fd |-> handler[h].fd, method |-> handler[h].pMethods]
        CutOff(r) == IF r.at > prev THEN [r EXCEPT !.at = 0, !.linked = FALSE] ELSE r
    IN  /\ handler[h].pc = "write" /\ ~handler[h].found
        /\ IF handler[h].linked
              THEN /\ list' = LinkBehind(prev, new)
                   /\ handler' = [g \in Handle |-> IF g = h THEN Idle ELSE CutOff(handler[g])]
              ELSE Go(h, Idle) /\ UNCHANGED list
        /\ UNCHANGED <<listHead, file>>

Step(h) ==
    \/ \E op \in {"Open", "Use", "Close"} : Enter(h, op)
    \/ InitList(h) \/ getServerUnixPMethods(h) \/ xOpen(h) \/ xClose(h)
    \/ AddNodeFinds(h) \/ AddNodeUpdates(h) \/ AddNodeLinks(h)

Next == \E h \in Handle : Step(h) /\ UNCHANGED threads

Spec == Init /\ [][Next]_vars

-----------------------------------------------------------------------------
(***************************************************************************)
(* The table, the open files and the running WrapX() calls keep their      *)
(* types: no node without a descriptor or with something else for methods. *)
(***************************************************************************)
TypeOK ==
    /\ listHead \in BOOLEAN
    /\ list \in Seq(MethodAndFD)
    /\ file \in [Handle -> MethodAndFD]
    /\ handler \in [Handle -> Handler]
    /\ threads \in 1 .. HandlerThreads

(***************************************************************************)
(* WrapClose calls unixClose for a handle with an inode, which a database  *)
(* has, and nolockClose for one without (os_unix.c, inside unixClose:      *)
(* "unixFile.pInode is always valid here.  Otherwise, a different close    *)
(* routine (e.g. nolockClose()) would be called instead").                 *)
(***************************************************************************)
CloseRoutineMatchesFile ==
    \A h \in Handle : handler[h].pc = "close" => handler[h].pMethods = file[h].method

(***************************************************************************)
(* So it is when one thread serves every call, however descriptors are     *)
(* reused and however often the list outlives the files it describes.      *)
(***************************************************************************)
OneThreadClosesRightly == threads = 1 => CloseRoutineMatchesFile

(***************************************************************************)
(* However many threads race, they go wrong in one way only: a journal     *)
(* whose node was lost is closed with the default, posixIoMethods.  A      *)
(* database, whose descriptor a journal may have had before, is always     *)
(* closed with unixClose, so its inode and its locks are always released.  *)
(***************************************************************************)
OnlyDefaultIsWrong ==
    \A h \in Handle :
        handler[h].pc = "close" => handler[h].pMethods \in {file[h].method, "posix"}

(***************************************************************************)
(* However the threads race in AddNode, a descriptor has at most one node, *)
(* so FindNode is right to stop at the first, and a list of which nothing  *)
(* is ever deleted is no longer than there are descriptors.                *)
(***************************************************************************)
OneNodePerFd ==
    \A i, j \in DOMAIN list : list[i].fd = list[j].fd => i = j
=============================================================================
