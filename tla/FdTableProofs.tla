--------------------------- MODULE FdTableProofs ---------------------------
(***************************************************************************)
(* Proofs about FdTable, for any files, descriptors and handler threads.   *)
(***************************************************************************)
EXTENDS FdTable, FiniteSetTheorems, SequenceTheorems, TLAPS

-----------------------------------------------------------------------------
(* Records and sequences. *)

\* FindNode returns the one node of a descriptor, or 0.
LEMMA FindNodeFacts ==
  ASSUME list \in Seq(MethodAndFD), OneNodePerFd, NEW fd
  PROVE  /\ FindNode(fd) \in 0 .. Len(list)
         /\ FindNode(fd) # 0 => list[FindNode(fd)].fd = fd
         /\ FindNode(fd) = 0 => \A i \in 1 .. Len(list) : list[i].fd # fd
<1> DEFINE I == {i \in 1 .. Len(list) : list[i].fd = fd}
<1>1. Len(list) \in Nat /\ DOMAIN list = 1 .. Len(list)
  BY LenProperties
<1>2. FindNode(fd) = IF I # {} THEN Min(I) ELSE 0
  BY DEF FindNode, SelectInSeq
<1>3. CASE I = {}
  BY <1>1, <1>2, <1>3
<1>4. CASE I # {}
  <2>1. PICK i \in 1 .. Len(list) : list[i].fd = fd
    BY <1>4
  <2>2. I = {i}
    BY <1>1, <2>1 DEF OneNodePerFd
  <2>3. Min(I) = i
    BY <1>1, <2>2 DEF Min
  <2> QED
    BY <1>1, <1>2, <1>4, <2>1, <2>3
<1> QED
  BY <1>3, <1>4

\* Linking a node behind position prev ends the list with it.
LEMMA LinkBehindFacts ==
  ASSUME list \in Seq(MethodAndFD), NEW prev \in 0 .. Len(list), NEW new \in MethodAndFD
  PROVE  /\ LinkBehind(prev, new) \in Seq(MethodAndFD)
         /\ Len(LinkBehind(prev, new)) = prev + 1
         /\ \A i \in 1 .. prev : LinkBehind(prev, new)[i] = list[i]
         /\ LinkBehind(prev, new)[prev + 1] = new
<1>1. Len(list) \in Nat
  BY LenProperties
<1>2. /\ SubSeq(list, 1, prev) \in Seq(MethodAndFD)
      /\ Len(SubSeq(list, 1, prev)) = prev
      /\ \A i \in 1 .. prev : SubSeq(list, 1, prev)[i] = list[i]
  BY <1>1, SubSeqProperties
<1> QED
  BY <1>1, <1>2, AppendProperties DEF LinkBehind

\* Every stage of a handler has its type, and setting its fields keeps it.
LEMMA HandlerFacts ==
  ASSUME NEW r \in Handler
  PROVE  /\ r.pc \in Stage /\ r.op \in {"Open", "Use", "Close"} /\ r.fd \in Fd \cup {ZeroFd}
         /\ r.pMethods \in Method /\ r.found \in BOOLEAN /\ r.at \in Nat /\ r.linked \in BOOLEAN
         /\ \A pc \in Stage : [r EXCEPT !.pc = pc] \in Handler
         /\ [r EXCEPT !.at = 0, !.linked = FALSE] \in Handler
         /\ \A pc \in Stage, m \in Method : [r EXCEPT !.pc = pc, !.pMethods = m] \in Handler
         /\ \A pc \in Stage, m \in Method, fd \in Fd \cup {ZeroFd} :
               [r EXCEPT !.pc = pc, !.fd = fd, !.pMethods = m] \in Handler
         /\ \A pc \in Stage, b \in BOOLEAN, at \in Nat :
               [r EXCEPT !.pc = pc, !.found = b, !.linked = TRUE, !.at = at] \in Handler
         /\ \A pc \in Stage, op \in {"Open", "Use", "Close"}, fd \in Fd \cup {ZeroFd} :
               [Idle EXCEPT !.pc = pc, !.op = op, !.fd = fd] \in Handler
         /\ Idle \in Handler
BY DEF Handler, Idle, Stage, Method

-----------------------------------------------------------------------------
(* Types and the shape of the list. *)

(***************************************************************************)
(* What AddNode saw is still so as long as the node it saw is linked: the  *)
(* node it found is its descriptor's, and no node up to the last one it    *)
(* saw is.                                                                 *)
(***************************************************************************)
SightOK(h) ==
    LET r == handler[h] IN
    r.pc = "write" /\ r.linked =>
        /\ r.at \in 0 .. Len(list)
        /\ r.found => r.at # 0 /\ list[r.at].fd = r.fd
        /\ ~r.found => \A i \in 1 .. r.at : list[i].fd # r.fd

ListInv == TypeOK /\ OneNodePerFd /\ \A h \in Handle : SightOK(h)

\* There is no list, no file and no call.
LEMMA ListInit == Init => ListInv
<1> SUFFICES ASSUME Init PROVE ListInv
  OBVIOUS
<1>1. <<>> \in Seq(MethodAndFD) /\ Len(<<>>) = 0 /\ DOMAIN list = {}
  BY EmptySeq DEF Init
<1>2. NotOpen \in MethodAndFD /\ Idle \in Handler /\ Idle.pc = "idle"
  BY DEF NotOpen, MethodAndFD, Method, Handler, Idle, Stage
<1> QED
  BY <1>1, <1>2 DEF Init, ListInv, TypeOK, OneNodePerFd, SightOK

\* A step that leaves the list alone, and the other calls, keeps the list's shape.
LEMMA ListKept ==
  ASSUME ListInv, NEW h \in Handle, NEW r \in Handler, Go(h, r),
         UNCHANGED <<list, threads>>, listHead' \in BOOLEAN, file' \in [Handle -> MethodAndFD],
         r.pc # "write" \/
           /\ r.at \in 0 .. Len(list)
           /\ r.found => r.at # 0 /\ list[r.at].fd = r.fd
           /\ ~r.found => \A i \in 1 .. r.at : list[i].fd # r.fd
  PROVE  ListInv'
<1>1. /\ handler' = [handler EXCEPT ![h] = r] /\ handler \in [Handle -> Handler]
  BY DEF Go, ListInv, TypeOK
<1>2. TypeOK' /\ OneNodePerFd'
  BY <1>1 DEF ListInv, TypeOK, OneNodePerFd
<1>3. ASSUME NEW g \in Handle PROVE SightOK(g)'
  BY <1>1 DEF ListInv, SightOK
<1> QED
  BY <1>2, <1>3 DEF ListInv

\* A call h that ends or starts over, and a list that is the same up to position
\* keep: what the other calls saw is as it was, or they saw it cut off.
LEMMA ListCut ==
  ASSUME ListInv, TypeOK', OneNodePerFd', NEW h \in Handle, handler'[h].pc # "write",
         NEW keep \in Nat, keep <= Len(list'),
         \A i \in 1 .. keep : list'[i].fd = list[i].fd,
         \A g \in Handle \ {h} :
            \/ ~handler'[g].linked
            \/ handler'[g] = handler[g] /\ handler[g].at \in 0 .. keep
  PROVE  ListInv'
<1>1. Len(list) \in Nat /\ Len(list') \in Nat
  BY LenProperties DEF ListInv, TypeOK
<1>2. ASSUME NEW g \in Handle PROVE SightOK(g)'
  <2>1. CASE g = h \/ ~handler'[g].linked
    BY <2>1 DEF SightOK
  <2>2. CASE g # h /\ handler'[g].linked
    <3> DEFINE r == handler[g]
    <3>1. handler'[g] = r /\ r.at \in 0 .. keep /\ SightOK(g)
      BY <2>2 DEF ListInv
    <3>2. SUFFICES ASSUME r.pc = "write", r.linked
                   PROVE  /\ r.at \in 0 .. Len(list')
                          /\ r.found => r.at # 0 /\ list'[r.at].fd = r.fd
                          /\ ~r.found => \A i \in 1 .. r.at : list'[i].fd # r.fd
      BY <3>1 DEF SightOK
    <3>3. /\ r.found => r.at # 0 /\ list[r.at].fd = r.fd
          /\ ~r.found => \A i \in 1 .. r.at : list[i].fd # r.fd
      BY <3>1, <3>2 DEF SightOK
    <3> HIDE DEF r
    <3>4. r.at \in 0 .. Len(list') /\ 1 .. r.at \subseteq 1 .. keep /\ (r.at = 0 \/ r.at \in 1 .. keep)
      BY <1>1, <3>1
    <3> QED
      BY <3>3, <3>4
  <2> QED
    BY <2>1, <2>2
<1> QED
  BY <1>2 DEF ListInv

\* Every step of a handler keeps the types and the shape of the list.
LEMMA ListStep ==
  ASSUME ListInv, NEW h \in Handle, Step(h), UNCHANGED threads
  PROVE  ListInv'
<1>1. /\ handler[h] \in Handler /\ file[h] \in MethodAndFD /\ list \in Seq(MethodAndFD)
      /\ listHead \in BOOLEAN /\ file \in [Handle -> MethodAndFD] /\ OneNodePerFd
      /\ SightOK(h) /\ handler \in [Handle -> Handler]
  BY DEF ListInv, TypeOK
<1>2. Len(list) \in Nat /\ DOMAIN list = 1 .. Len(list)
  BY <1>1, LenProperties
<1>3. NotOpen \in MethodAndFD /\ Idle \in Handler /\ Idle.pc = "idle"
  BY DEF NotOpen, MethodAndFD, Method, Handler, Idle, Stage
<1>4. ASSUME NEW op \in {"Open", "Use", "Close"}, Enter(h, op) PROVE ListInv'
  <2>1. PICK pc \in {"get", "init"} :
           /\ Go(h, [Idle EXCEPT !.pc = pc, !.op = op, !.fd = file[h].fd])
           /\ UNCHANGED <<listHead, list, file>>
    BY <1>4 DEF Enter
  <2>2. file[h].fd \in Fd \cup {ZeroFd}
    BY <1>1 DEF MethodAndFD
  <2>3. [Idle EXCEPT !.pc = pc, !.op = op, !.fd = file[h].fd] \in Handler
    BY <1>1, <2>2, HandlerFacts DEF Stage
  <2>4. [Idle EXCEPT !.pc = pc, !.op = op, !.fd = file[h].fd].pc # "write"
    BY DEF Idle
  <2> QED
    BY <1>1, <2>1, <2>3, <2>4, ListKept
<1>5. CASE InitList(h)
  <2>1. /\ list' = <<>> /\ listHead' = TRUE /\ file' = file
        /\ handler' = [g \in Handle |->
                         IF g = h THEN [handler[g] EXCEPT !.pc = "get"]
                                  ELSE [handler[g] EXCEPT !.at = 0, !.linked = FALSE]]
    BY <1>5 DEF InitList
  <2>2. list' \in Seq(MethodAndFD) /\ Len(list') = 0 /\ DOMAIN list' = {}
    <3>1. <<>> \in Seq(MethodAndFD) /\ Len(<<>>) = 0 /\ DOMAIN <<>> = {}
      BY EmptySeq
    <3> QED
      BY <2>1, <3>1
  <2>3. handler' \in [Handle -> Handler]
    BY <1>1, <2>1, HandlerFacts DEF Stage
  <2>4. TypeOK' /\ OneNodePerFd'
    BY <2>1, <2>2, <2>3 DEF ListInv, TypeOK, OneNodePerFd
  <2>5. ASSUME NEW g \in Handle PROVE SightOK(g)'
    <3>1. CASE g = h
      <4>1. handler'[g].pc # "write"
        BY <1>1, <2>1, <3>1 DEF Handler
      <4> QED
        BY <4>1 DEF SightOK
    <3>2. CASE g # h
      <4>1. ~handler'[g].linked
        BY <1>1, <2>1, <3>2 DEF Handler
      <4> QED
        BY <4>1 DEF SightOK
    <3> QED
      BY <3>1, <3>2
  <2> QED
    BY <2>4, <2>5 DEF ListInv
<1>6. CASE getServerUnixPMethods(h)
  <2>1. PICK pc \in Stage \ {"write"}, m \in Method :
           /\ Go(h, [handler[h] EXCEPT !.pc = pc, !.pMethods = m])
           /\ UNCHANGED <<listHead, list, file>>
    <3> DEFINE i == FindNode(handler[h].fd)
    <3> DEFINE pc == CASE handler[h].op = "Open"  -> "open"
                       [] handler[h].op = "Close" -> "close"
                       [] handler[h].op = "Use"   -> "find"
    <3> DEFINE m == IF i = 0 THEN "posix"
                    ELSE IF list[i].method = "null" THEN "posix" ELSE list[i].method
    <3>1. i \in 0 .. Len(list)
      BY <1>1, FindNodeFacts
    <3> HIDE DEF i
    <3>2. m \in Method
      <4>1. CASE i = 0
        BY <4>1 DEF Method
      <4>2. CASE i # 0
        <5>1. i \in 1 .. Len(list)
          BY <1>2, <3>1, <4>2
        <5>2. list[i] \in MethodAndFD
          BY <1>1, <5>1, ElementOfSeq
        <5>3. list[i].method \in Method
          BY <5>2 DEF MethodAndFD
        <5> QED
          BY <4>2, <5>3 DEF Method
      <4> QED
        BY <4>1, <4>2
    <3>3. pc \in Stage \ {"write"}
      BY <1>1, HandlerFacts DEF Stage
    <3> QED
      BY <1>6, <3>2, <3>3 DEF getServerUnixPMethods, i
  <2>2. [handler[h] EXCEPT !.pc = pc, !.pMethods = m] \in Handler
    BY <1>1, HandlerFacts
  <2>3. [handler[h] EXCEPT !.pc = pc, !.pMethods = m].pc # "write"
    BY <1>1 DEF Handler
  <2> QED
    BY <1>1, <2>1, <2>2, <2>3, ListKept
<1>7. CASE xOpen(h)
  <2>1. PICK f \in [fd : Fd, method : Method] \cup {NotOpen} :
           /\ file' = [file EXCEPT ![h] = IF f.method = "null" THEN NotOpen ELSE f]
           /\ Go(h, [handler[h] EXCEPT !.pc = "find", !.fd = f.fd, !.pMethods = f.method])
           /\ UNCHANGED <<listHead, list>>
    <3> DEFINE F == [fd : Fd \ {file[g].fd : g \in Handle}, method : Method]
    <3>1. F \subseteq [fd : Fd, method : Method]
      OBVIOUS
    <3>2. PICK f \in F \cup {NotOpen} :
             /\ file' = [file EXCEPT ![h] = IF f.method = "null" THEN NotOpen ELSE f]
             /\ Go(h, [handler[h] EXCEPT !.pc = "find", !.fd = f.fd, !.pMethods = f.method])
             /\ UNCHANGED <<listHead, list>>
      BY <1>7 DEF xOpen
    <3> HIDE DEF F
    <3> QED
      BY <3>1, <3>2
  <2>2. f \in MethodAndFD /\ f.fd \in Fd \cup {ZeroFd} /\ f.method \in Method
    BY <1>3 DEF MethodAndFD
  <2>3. [handler[h] EXCEPT !.pc = "find", !.fd = f.fd, !.pMethods = f.method] \in Handler
    BY <1>1, <2>2, HandlerFacts DEF Stage
  <2>4. [handler[h] EXCEPT !.pc = "find", !.fd = f.fd, !.pMethods = f.method].pc # "write"
    BY <1>1 DEF Handler
  <2>5. file' \in [Handle -> MethodAndFD]
    BY <1>1, <1>3, <2>1, <2>2
  <2> QED
    BY <1>1, <2>1, <2>3, <2>4, <2>5, ListKept
<1>8. CASE xClose(h)
  <2>1. /\ file' = [file EXCEPT ![h] = NotOpen] /\ Go(h, Idle)
        /\ UNCHANGED <<listHead, list>>
    BY <1>8 DEF xClose
  <2>2. file' \in [Handle -> MethodAndFD]
    BY <1>1, <1>3, <2>1
  <2> QED
    BY <1>1, <1>3, <2>1, <2>2, ListKept
<1>9. CASE AddNodeFinds(h)
  <2> DEFINE i == FindNode(handler[h].fd)
             at == IF i # 0 THEN i ELSE Len(list)
             r == [handler[h] EXCEPT !.pc = "write", !.found = (i # 0), !.linked = TRUE, !.at = at]
  <2>1. Go(h, r) /\ UNCHANGED <<listHead, list, file>>
    BY <1>9 DEF AddNodeFinds
  <2>2. /\ i \in 0 .. Len(list)
        /\ i # 0 => list[i].fd = handler[h].fd
        /\ i = 0 => \A j \in 1 .. Len(list) : list[j].fd # handler[h].fd
    BY <1>1, FindNodeFacts
  <2> HIDE DEF i
  <2>3. r \in Handler
    <3>1. at \in Nat /\ (i # 0) \in BOOLEAN /\ "write" \in Stage
      BY <1>2, <2>2 DEF Stage
    <3> HIDE DEF at
    <3> QED
      BY <1>1, <3>1, HandlerFacts
  <2>4. r.at = at /\ r.found = (i # 0) /\ r.fd = handler[h].fd
    BY <1>1 DEF Handler
  <2>5. /\ r.at \in 0 .. Len(list)
        /\ r.found => r.at # 0 /\ list[r.at].fd = r.fd
        /\ ~r.found => \A j \in 1 .. r.at : list[j].fd # r.fd
    <3> HIDE DEF r
    <3>1. CASE i = 0
      <4>1. r.at = Len(list) /\ ~r.found
        BY <2>4, <3>1
      <4> QED
        BY <1>2, <2>2, <2>4, <3>1, <4>1
    <3>2. CASE i # 0
      <4>1. r.at = i /\ r.found
        BY <2>4, <3>2
      <4> QED
        BY <1>2, <2>2, <2>4, <3>2, <4>1
    <3> QED
      BY <3>1, <3>2
  <2> HIDE DEF r
  <2> QED
    BY <1>1, <2>1, <2>3, <2>5, ListKept
<1>10. CASE AddNodeUpdates(h)
  <2>1. /\ handler[h].pc = "write" /\ handler[h].found /\ Go(h, Idle)
        /\ UNCHANGED <<listHead, file>>
        /\ list' = IF handler[h].linked
                     THEN [list EXCEPT ![handler[h].at].method = handler[h].pMethods] ELSE list
    BY <1>10 DEF AddNodeUpdates
  <2>2. CASE ~handler[h].linked
    BY <1>1, <1>3, <2>1, <2>2, ListKept
  <2>3. CASE handler[h].linked
    <3> DEFINE at == handler[h].at
               new == [list[at] EXCEPT !.method = handler[h].pMethods]
    <3>1. at \in 1 .. Len(list)
      BY <1>1, <1>2, <2>1, <2>3 DEF SightOK
    <3>2. list[at] \in MethodAndFD /\ handler[h].pMethods \in Method
      BY <1>1, <3>1, ElementOfSeq, HandlerFacts
    <3>3. new \in MethodAndFD /\ new.fd = list[at].fd
      BY <3>2 DEF MethodAndFD
    <3>4. list' = [list EXCEPT ![at] = new]
      BY <2>1, <2>3
    <3>5. /\ list' \in Seq(MethodAndFD) /\ Len(list') = Len(list)
          /\ \A i \in 1 .. Len(list) : list'[i] = IF i = at THEN new ELSE list[i]
      BY <1>1, <3>1, <3>3, <3>4, ExceptSeq
    <3>6. \A i \in 1 .. Len(list) : list'[i].fd = list[i].fd
      BY <3>3, <3>5
    <3>7. DOMAIN list' = 1 .. Len(list)
      BY <3>5, LenProperties
    <3>8. OneNodePerFd'
      BY <1>1, <1>2, <3>6, <3>7 DEF OneNodePerFd
    <3>9. handler' = [handler EXCEPT ![h] = Idle]
      BY <2>1 DEF Go
    <3>10. TypeOK'
      BY <1>3, <2>1, <3>5, <3>9 DEF ListInv, TypeOK
    <3>11. ASSUME NEW g \in Handle PROVE SightOK(g)'
      <4>1. CASE g = h
        BY <1>1, <1>3, <3>9, <4>1 DEF SightOK
      <4>2. CASE g # h
        <5>1. handler'[g] = handler[g] /\ SightOK(g) /\ handler[g].at \in Nat
          BY <3>9, <4>2, HandlerFacts DEF ListInv, TypeOK
        <5> QED
          BY <1>2, <3>5, <3>6, <5>1 DEF SightOK
      <4> QED
        BY <4>1, <4>2
    <3> QED
      BY <3>8, <3>10, <3>11 DEF ListInv
  <2> QED
    BY <2>2, <2>3
<1>11. CASE AddNodeLinks(h)
  <2> DEFINE prev == handler[h].at
             new == [fd |-> handler[h].fd, method |-> handler[h].pMethods]
  <2>1. /\ handler[h].pc = "write" /\ ~handler[h].found /\ UNCHANGED <<listHead, file>>
    BY <1>11 DEF AddNodeLinks
  <2>2. CASE ~handler[h].linked
    BY <1>1, <1>3, <1>11, <2>1, <2>2, ListKept DEF AddNodeLinks
  <2>3. CASE handler[h].linked
    <3>1. /\ list' = LinkBehind(prev, new)
          /\ handler' = [g \in Handle |->
                           IF g = h THEN Idle
                           ELSE IF handler[g].at > prev
                                  THEN [handler[g] EXCEPT !.at = 0, !.linked = FALSE]
                                  ELSE handler[g]]
      BY <1>11, <2>3 DEF AddNodeLinks
    <3>2. /\ prev \in 0 .. Len(list) /\ \A i \in 1 .. prev : list[i].fd # new.fd
      BY <1>1, <2>1, <2>3 DEF SightOK
    <3>3. new \in MethodAndFD
      BY <1>1, HandlerFacts DEF MethodAndFD
    <3> HIDE DEF new
    <3>4. /\ list' \in Seq(MethodAndFD) /\ Len(list') = prev + 1
          /\ \A i \in 1 .. prev : list'[i] = list[i]
          /\ list'[prev + 1] = new
      BY <1>1, <3>1, <3>2, <3>3, LinkBehindFacts
    <3>5. DOMAIN list' = 1 .. (prev + 1)
      BY <3>4, LenProperties
    <3>6. OneNodePerFd'
      <4> SUFFICES ASSUME NEW i \in 1 .. (prev + 1), NEW j \in 1 .. (prev + 1),
                          list'[i].fd = list'[j].fd
                   PROVE  i = j
        BY <3>5 DEF OneNodePerFd
      <4>1. prev \in Nat
        BY <1>2, <3>2
      <4>2. i = prev + 1 \/ i \in 1 .. prev
        BY <4>1
      <4>3. j = prev + 1 \/ j \in 1 .. prev
        BY <4>1
      <4> QED
        BY <1>1, <1>2, <3>2, <3>4, <4>1, <4>2, <4>3 DEF OneNodePerFd
    <3>7. prev \in Nat /\ prev <= Len(list')
      BY <1>2, <3>2, <3>4
    <3>8. \A g \in Handle :
             /\ handler[g] \in Handler /\ handler[g].at \in Nat
             /\ [handler[g] EXCEPT !.at = 0, !.linked = FALSE] \in Handler
             /\ [handler[g] EXCEPT !.at = 0, !.linked = FALSE].linked = FALSE
      <4> SUFFICES ASSUME NEW g \in Handle
                   PROVE  /\ handler[g] \in Handler /\ handler[g].at \in Nat
                          /\ [handler[g] EXCEPT !.at = 0, !.linked = FALSE] \in Handler
                          /\ [handler[g] EXCEPT !.at = 0, !.linked = FALSE].linked = FALSE
        OBVIOUS
      <4>1. handler[g] \in Handler
        BY <1>1
      <4>2. [handler[g] EXCEPT !.at = 0, !.linked = FALSE].linked = FALSE
        BY <4>1 DEF Handler
      <4> QED
        BY <4>1, <4>2, HandlerFacts
    <3>9. handler' \in [Handle -> Handler] /\ handler'[h].pc # "write"
      BY <1>3, <3>1, <3>8
    <3>10. TypeOK'
      BY <2>1, <3>4, <3>9 DEF ListInv, TypeOK
    <3>11. ASSUME NEW g \in Handle \ {h}
           PROVE  \/ ~handler'[g].linked
                  \/ handler'[g] = handler[g] /\ handler[g].at \in 0 .. prev
      <4>1. CASE handler[g].at > prev
        BY <3>1, <3>8, <4>1
      <4>2. CASE ~(handler[g].at > prev)
        <5>1. handler'[g] = handler[g]
          BY <3>1, <4>2
        <5>2. handler[g].at \in Nat
          BY <3>8
        <5>3. handler[g].at \in 0 .. prev
          BY <3>7, <4>2, <5>2
        <5> QED
          BY <5>1, <5>3
      <4> QED
        BY <4>1, <4>2
    <3> HIDE DEF prev
    <3> QED
      BY <3>4, <3>6, <3>7, <3>9, <3>10, <3>11, ListCut
  <2> QED
    BY <2>2, <2>3
<1> QED
  BY <1>4, <1>5, <1>6, <1>7, <1>8, <1>9, <1>10, <1>11 DEF Step

\* The list keeps its shape in every behaviour.
LEMMA ListInvariance == Spec => []ListInv
<1>1. ListInv /\ UNCHANGED vars => ListInv'
  BY DEF ListInv, TypeOK, OneNodePerFd, SightOK, vars
<1>2. ListInv /\ [Next]_vars => ListInv'
  BY <1>1, ListStep DEF Next
<1> QED
  BY <1>2, ListInit, PTL DEF Spec

\* Whatever threads race in AddNode and InitList, nodes, files and calls keep
\* their types.
THEOREM TableTypeCorrect == Spec => []TypeOK
<1>1. ListInv => TypeOK
  BY DEF ListInv
<1> QED
  BY <1>1, ListInvariance, PTL

\* However AddNode and InitList race, a descriptor never has two nodes.
THEOREM NodesUnique == Spec => []OneNodePerFd
<1>1. ListInv => OneNodePerFd
  BY DEF ListInv
<1> QED
  BY <1>1, ListInvariance, PTL

-----------------------------------------------------------------------------
(* Which files are closed with which methods. *)

(***************************************************************************)
(* A file that is open has a descriptor of its own and methods; a call     *)
(* about an open file carries its descriptor, and carries nolockIoMethods  *)
(* only for a journal.                                                     *)
(***************************************************************************)
FileOK(h) ==
    /\ file[h] # NotOpen => file[h].fd \in Fd /\ file[h].method # "null"
    /\ \A g \in Handle : file[g].fd = file[h].fd /\ file[h] # NotOpen => g = h

CallOK(h) ==
    LET r == handler[h] IN
    /\ r.pc \in {"init", "get"} => (r.op = "Open" <=> file[h] = NotOpen)
    /\ r.pc = "open" => r.op = "Open" /\ file[h] = NotOpen
    /\ r.pc = "close" => r.pMethods # "null"
    /\ r.pc # "idle" /\ file[h] # NotOpen => r.fd = file[h].fd
    /\ r.pc \in {"close", "find", "write"} /\ r.pMethods = "nolock" =>
          file[h].fd = r.fd /\ file[h].method = "nolock"

(***************************************************************************)
(* The node a journal left behind under the descriptor of a database stays *)
(* only until the call that opened the database has written to it.         *)
(***************************************************************************)
Unwritten(r, i) ==
    r.op = "Open" /\ (r.pc = "find" \/ (r.pc = "write" /\ r.found /\ r.linked /\ r.at = i))

NodeOK(h) ==
    file[h].method = "posix" =>
        \A i \in 1 .. Len(list) :
            list[i].fd = file[h].fd /\ list[i].method = "nolock" => Unwritten(handler[h], i)

MethodInv == \A h \in Handle : FileOK(h) /\ CallOK(h) /\ NodeOK(h)

\* A call whose file, stage and node are as they were.
LEMMA CallKept ==
  ASSUME NEW g \in Handle, CallOK(g), NodeOK(g), file'[g] = file[g],
         handler'[g].pc = handler[g].pc, handler'[g].op = handler[g].op,
         handler'[g].fd = handler[g].fd, handler'[g].pMethods = handler[g].pMethods,
         handler'[g].found = handler[g].found,
         \A i \in 1 .. Len(list') :
            list'[i].fd = file[g].fd /\ list'[i].method = "nolock" /\ file[g].method = "posix" =>
               /\ i \in 1 .. Len(list) /\ list[i] = list'[i]
               /\ handler[g].at = i =>
                     handler'[g].at = i /\ handler'[g].linked = handler[g].linked
  PROVE  CallOK(g)' /\ NodeOK(g)'
<1>1. CallOK(g)'
  BY DEF CallOK
<1>2. NodeOK(g)'
  BY DEF NodeOK, Unwritten
<1> QED
  BY <1>1, <1>2

\* A step of the call h that leaves the list and the other calls alone, and the
\* files but for its own.
LEMMA MethodKept ==
  ASSUME ListInv, MethodInv, NEW h \in Handle, NEW r, Go(h, r), list' = list,
         \A g \in Handle \ {h} : file'[g] = file[g],
         \A g \in Handle : FileOK(g)', CallOK(h)', NodeOK(h)'
  PROVE  MethodInv'
<1>1. \A g \in Handle \ {h} : handler'[g] = handler[g]
  BY DEF Go, ListInv, TypeOK
<1>2. ASSUME NEW g \in Handle \ {h} PROVE CallOK(g)' /\ NodeOK(g)'
  BY <1>1, CallKept DEF MethodInv
<1> QED
  BY <1>2 DEF MethodInv

\* The files stay what they were.
LEMMA FilesKept ==
  ASSUME MethodInv, file' = file
  PROVE  \A g \in Handle : FileOK(g)'
BY DEF MethodInv, FileOK

\* Every step of a handler keeps the methods right.
LEMMA MethodStep ==
  ASSUME ListInv, MethodInv, NEW h \in Handle, Step(h)
  PROVE  MethodInv'
<1>1. /\ handler[h] \in Handler /\ file[h] \in MethodAndFD /\ list \in Seq(MethodAndFD)
      /\ file \in [Handle -> MethodAndFD] /\ OneNodePerFd
      /\ SightOK(h) /\ handler \in [Handle -> Handler]
  BY DEF ListInv, TypeOK
<1>2. Len(list) \in Nat /\ DOMAIN list = 1 .. Len(list)
  BY <1>1, LenProperties
<1>3. Idle.pc = "idle" /\ Idle.op = "Use" /\ NotOpen.fd = ZeroFd /\ NotOpen.method = "null"
  BY DEF Idle, NotOpen
<1>4. FileOK(h) /\ CallOK(h) /\ NodeOK(h)
  BY DEF MethodInv
<1>5. /\ handler[h].op \in {"Open", "Use", "Close"} /\ handler[h].pMethods \in Method
      /\ handler[h].at \in Nat
  BY <1>1, HandlerFacts
<1>6. ASSUME NEW op \in {"Open", "Use", "Close"}, Enter(h, op) PROVE MethodInv'
  <2> DEFINE pc == IF listHead THEN "get" ELSE "init"
             r == [Idle EXCEPT !.pc = pc, !.op = op, !.fd = file[h].fd]
  <2>1. /\ handler[h].pc = "idle" /\ (op = "Open" <=> file[h] = NotOpen) /\ Go(h, r)
        /\ list' = list /\ file' = file
    BY <1>6 DEF Enter
  <2>2. r.pc = pc /\ r.op = op /\ r.fd = file[h].fd /\ pc \in {"init", "get"}
    BY DEF Idle
  <2> HIDE DEF r, pc
  <2>3. handler'[h] = r
    BY <1>1, <2>1 DEF Go
  <2>4. CallOK(h)'
    BY <2>1, <2>2, <2>3 DEF CallOK
  <2>5. NodeOK(h)'
    BY <1>4, <2>1, <2>2, <2>3 DEF NodeOK, Unwritten
  <2> QED
    BY <2>1, <2>4, <2>5, FilesKept, MethodKept
<1>7. CASE InitList(h)
  <2>1. /\ handler[h].pc = "init" /\ list' = <<>> /\ file' = file
        /\ handler' = [g \in Handle |->
                         IF g = h THEN [handler[g] EXCEPT !.pc = "get"]
                                  ELSE [handler[g] EXCEPT !.at = 0, !.linked = FALSE]]
    BY <1>7 DEF InitList
  <2>2. Len(list') = 0
    BY <2>1, EmptySeq
  <2>3. /\ handler'[h].pc = "get" /\ handler'[h].op = handler[h].op
        /\ handler'[h].fd = handler[h].fd
    BY <1>1, <2>1 DEF Handler
  <2>4. CallOK(h)' /\ NodeOK(h)'
    <3>1. CallOK(h)'
      BY <1>4, <2>1, <2>3 DEF CallOK
    <3>2. NodeOK(h)'
      BY <2>2 DEF NodeOK
    <3> QED
      BY <3>1, <3>2
  <2>5. ASSUME NEW g \in Handle \ {h} PROVE CallOK(g)' /\ NodeOK(g)'
    <3>1. handler[g] \in Handler
      BY <1>1
    <3>2. /\ handler'[g].pc = handler[g].pc /\ handler'[g].op = handler[g].op
          /\ handler'[g].fd = handler[g].fd /\ handler'[g].pMethods = handler[g].pMethods
          /\ handler'[g].found = handler[g].found
      BY <2>1, <3>1 DEF Handler
    <3>3. \A i \in 1 .. Len(list') : FALSE
      BY <2>2
    <3>4. CallOK(g) /\ NodeOK(g) /\ file'[g] = file[g]
      BY <2>1 DEF MethodInv
    <3> QED
      BY <3>2, <3>3, <3>4, CallKept
  <2> QED
    BY <2>1, <2>4, <2>5, FilesKept DEF MethodInv
<1>8. CASE getServerUnixPMethods(h)
  <2> DEFINE i == FindNode(handler[h].fd)
             pc == CASE handler[h].op = "Open"  -> "open"
                     [] handler[h].op = "Close" -> "close"
                     [] handler[h].op = "Use"   -> "find"
             m == IF i = 0 THEN "posix"
                  ELSE IF list[i].method = "null" THEN "posix" ELSE list[i].method
             r == [handler[h] EXCEPT !.pc = pc, !.pMethods = m]
  <2>1. handler[h].pc = "get" /\ Go(h, r) /\ list' = list /\ file' = file
    BY <1>8 DEF getServerUnixPMethods
  <2>2. pc \in {"open", "close", "find"} /\ (handler[h].op = "Open" <=> pc = "open")
    BY <1>5
  <2>3. /\ i \in 0 .. Len(list) /\ (i # 0 => list[i].fd = handler[h].fd)
    BY <1>1, FindNodeFacts
  <2> HIDE DEF i
  <2>4. m # "null" /\ (m = "nolock" => i # 0 /\ list[i].method = "nolock")
    OBVIOUS
  <2>5. handler[h].op # "Open" /\ m = "nolock" =>
           file[h].fd = handler[h].fd /\ file[h].method = "nolock"
    <3> SUFFICES ASSUME handler[h].op # "Open", m = "nolock"
                 PROVE  file[h].fd = handler[h].fd /\ file[h].method = "nolock"
      OBVIOUS
    <3>1. file[h] # NotOpen /\ file[h].fd = handler[h].fd
      BY <1>4, <2>1 DEF CallOK
    <3>2. i \in 1 .. Len(list) /\ list[i].fd = file[h].fd /\ list[i].method = "nolock"
      BY <1>2, <2>3, <2>4, <3>1
    <3>3. file[h].method # "posix"
      BY <1>4, <2>1, <3>2 DEF NodeOK, Unwritten
    <3>4. file[h].method \in Method /\ file[h].method # "null"
      BY <1>1, <1>4, <3>1 DEF FileOK, MethodAndFD
    <3> QED
      BY <3>1, <3>3, <3>4 DEF Method
  <2> HIDE DEF m, pc
  <2>6. r.pc = pc /\ r.op = handler[h].op /\ r.fd = handler[h].fd /\ r.pMethods = m
    BY <1>1 DEF Handler
  <2> HIDE DEF r
  <2>7. handler'[h] = r
    BY <1>1, <2>1 DEF Go
  <2>8. CallOK(h)'
    BY <1>4, <2>1, <2>2, <2>4, <2>5, <2>6, <2>7 DEF CallOK
  <2>9. NodeOK(h)'
    BY <1>4, <2>1 DEF NodeOK, Unwritten
  <2> QED
    BY <2>1, <2>8, <2>9, FilesKept, MethodKept
<1>9. CASE xOpen(h)
  <2> DEFINE F == [fd : Fd \ {file[g].fd : g \in Handle}, method : Method]
  <2>1. PICK f \in F \cup {NotOpen} :
           /\ file' = [file EXCEPT ![h] = IF f.method = "null" THEN NotOpen ELSE f]
           /\ Go(h, [handler[h] EXCEPT !.pc = "find", !.fd = f.fd, !.pMethods = f.method])
    BY <1>9 DEF xOpen
  <2>2. handler[h].pc = "open" /\ list' = list
    BY <1>9 DEF xOpen
  <2>3. f = NotOpen \/ (f.fd \in Fd /\ \A g \in Handle : file[g].fd # f.fd)
    OBVIOUS
  <2> HIDE DEF F
  <2>4. handler[h].op = "Open"
    BY <1>4, <2>2 DEF CallOK
  <2>5. /\ file'[h] = (IF f.method = "null" THEN NotOpen ELSE f)
        /\ \A g \in Handle \ {h} : file'[g] = file[g]
    BY <1>1, <2>1
  <2> DEFINE r == [handler[h] EXCEPT !.pc = "find", !.fd = f.fd, !.pMethods = f.method]
  <2>6. r.pc = "find" /\ r.op = "Open" /\ r.fd = f.fd /\ r.pMethods = f.method
    BY <1>1, <2>4 DEF Handler
  <2>7. handler'[h] = r
    BY <1>1, <2>1 DEF Go
  <2>8. Go(h, r)
    BY <2>1
  <2> HIDE DEF r
  <2>9. CallOK(h)'
    <3>1. f.method = "nolock" => file'[h] = f
      BY <2>5
    <3>2. file'[h] # NotOpen => file'[h] = f
      BY <2>5
    <3> QED
      BY <2>6, <2>7, <3>1, <3>2 DEF CallOK
  <2>10. NodeOK(h)'
    BY <2>6, <2>7 DEF NodeOK, Unwritten
  <2>11. ASSUME NEW g \in Handle PROVE FileOK(g)'
    <3>1. CASE g = h
      <4>1. CASE file'[h] = NotOpen
        BY <3>1, <4>1 DEF FileOK
      <4>2. CASE file'[h] # NotOpen
        <5>1. file'[h] = f /\ f # NotOpen /\ f.method # "null"
          BY <2>5, <4>2, <1>3
        <5> QED
          BY <2>3, <2>5, <3>1, <5>1 DEF FileOK
      <4> QED
        BY <4>1, <4>2
    <3>2. CASE g # h
      <4>1. file'[g] = file[g] /\ FileOK(g)
        BY <2>5, <3>2 DEF MethodInv
      <4>2. file[g] # NotOpen => file'[h].fd # file[g].fd
        BY <1>3, <2>3, <2>5, <4>1, FdTableAssumption DEF FileOK
      <4> QED
        BY <2>5, <3>2, <4>1, <4>2 DEF FileOK
    <3> QED
      BY <3>1, <3>2
  <2> QED
    BY <2>2, <2>5, <2>8, <2>9, <2>10, <2>11, MethodKept
<1>10. CASE xClose(h)
  <2>1. file' = [file EXCEPT ![h] = NotOpen] /\ Go(h, Idle) /\ list' = list
    BY <1>10 DEF xClose
  <2>2. /\ file'[h] = NotOpen /\ handler'[h] = Idle
        /\ \A g \in Handle \ {h} : file'[g] = file[g]
    BY <1>1, <2>1 DEF Go
  <2>3. CallOK(h)' /\ NodeOK(h)'
    BY <1>3, <2>2 DEF CallOK, NodeOK
  <2>4. ASSUME NEW g \in Handle PROVE FileOK(g)'
    <3>1. CASE g = h
      BY <2>2, <3>1 DEF FileOK
    <3>2. CASE g # h
      <4>1. file'[g] = file[g] /\ FileOK(g)
        BY <2>2, <3>2 DEF MethodInv
      <4>2. file[g] # NotOpen => file'[h].fd # file[g].fd
        BY <1>3, <2>2, <4>1, FdTableAssumption DEF FileOK
      <4> QED
        BY <2>2, <3>2, <4>1, <4>2 DEF FileOK
    <3> QED
      BY <3>1, <3>2
  <2> QED
    BY <2>1, <2>2, <2>3, <2>4, MethodKept
<1>11. CASE AddNodeFinds(h)
  <2> DEFINE i == FindNode(handler[h].fd)
             at == IF i # 0 THEN i ELSE Len(list)
             r == [handler[h] EXCEPT !.pc = "write", !.found = (i # 0), !.linked = TRUE, !.at = at]
  <2>1. handler[h].pc = "find" /\ Go(h, r) /\ list' = list /\ file' = file
    BY <1>11 DEF AddNodeFinds
  <2>2. /\ i \in 0 .. Len(list)
        /\ i # 0 => list[i].fd = handler[h].fd
        /\ i = 0 => \A j \in 1 .. Len(list) : list[j].fd # handler[h].fd
    BY <1>1, FindNodeFacts
  <2> HIDE DEF i
  <2>3. i # 0 => at = i
    OBVIOUS
  <2> HIDE DEF at
  <2>4. /\ r.pc = "write" /\ r.op = handler[h].op /\ r.fd = handler[h].fd
        /\ r.pMethods = handler[h].pMethods /\ r.found = (i # 0) /\ r.linked = TRUE /\ r.at = at
    BY <1>1 DEF Handler
  <2> HIDE DEF r
  <2>5. handler'[h] = r
    BY <1>1, <2>1 DEF Go
  <2>6. CallOK(h)'
    BY <1>4, <2>1, <2>4, <2>5 DEF CallOK
  <2>7. NodeOK(h)'
    <3> SUFFICES ASSUME file[h].method = "posix", NEW j \in 1 .. Len(list),
                        list[j].fd = file[h].fd, list[j].method = "nolock"
                 PROVE  Unwritten(r, j)
      BY <2>1, <2>5 DEF NodeOK
    <3>1. handler[h].op = "Open"
      BY <1>4 DEF NodeOK, Unwritten
    <3>2. handler[h].fd = file[h].fd
      BY <1>3, <1>4, <2>1 DEF CallOK
    <3>3. i # 0 /\ i \in 1 .. Len(list) /\ list[i].fd = list[j].fd
      BY <1>2, <2>2, <3>2
    <3>4. i = j
      BY <1>1, <1>2, <3>3 DEF OneNodePerFd
    <3> QED
      BY <2>3, <2>4, <3>1, <3>3, <3>4 DEF Unwritten
  <2> QED
    BY <2>1, <2>6, <2>7, FilesKept, MethodKept
<1>12. CASE AddNodeUpdates(h)
  <2> DEFINE at == handler[h].at
             new == [list[at] EXCEPT !.method = handler[h].pMethods]
  <2>1. /\ handler[h].pc = "write" /\ handler[h].found /\ Go(h, Idle) /\ file' = file
        /\ list' = IF handler[h].linked
                     THEN [list EXCEPT ![at].method = handler[h].pMethods] ELSE list
    BY <1>12 DEF AddNodeUpdates
  <2>2. handler'[h] = Idle /\ \A g \in Handle \ {h} : handler'[g] = handler[g]
    BY <1>1, <2>1 DEF Go
  <2>3. CallOK(h)'
    BY <1>3, <2>2 DEF CallOK
  <2>4. CASE ~handler[h].linked
    <3>1. list' = list
      BY <2>1, <2>4
    <3>2. NodeOK(h)'
      BY <1>4, <2>1, <2>4, <3>1 DEF NodeOK, Unwritten
    <3> QED
      BY <2>1, <2>3, <3>1, <3>2, FilesKept, MethodKept
  <2>5. CASE handler[h].linked
    <3>1. at \in 1 .. Len(list) /\ list[at].fd = handler[h].fd
      BY <1>1, <1>2, <2>1, <2>5 DEF SightOK
    <3>2. list[at] \in MethodAndFD
      BY <1>1, <3>1, ElementOfSeq
    <3>3. new \in MethodAndFD /\ new.fd = handler[h].fd /\ new.method = handler[h].pMethods
      BY <1>5, <3>1, <3>2 DEF MethodAndFD
    <3>4. list' = [list EXCEPT ![at] = new]
      BY <2>1, <2>5
    <3> HIDE DEF new, at
    <3>5. /\ Len(list') = Len(list)
          /\ \A i \in 1 .. Len(list) : list'[i] = IF i = at THEN new ELSE list[i]
      BY <1>1, <3>1, <3>3, <3>4, ExceptSeq
    <3>6. \A i \in 1 .. Len(list) : i # at => list'[i] = list[i]
      BY <3>5
    <3>7. list'[at] = new
      BY <3>1, <3>5
    <3>8. handler[h].pMethods = "nolock" =>
             file[h] # NotOpen /\ file[h].fd = handler[h].fd /\ file[h].method = "nolock"
      BY <1>3, <1>4, <2>1 DEF CallOK
    <3>9. ASSUME NEW g \in Handle, file[g].method = "posix",
                 list'[at].fd = file[g].fd, list'[at].method = "nolock"
          PROVE  FALSE
      <4>1. file[h] # NotOpen /\ file[h].fd = file[g].fd /\ file[h].method = "nolock"
        BY <3>3, <3>7, <3>8, <3>9
      <4>2. g = h
        BY <1>4, <4>1 DEF FileOK
      <4> QED
        BY <3>9, <4>1, <4>2
    <3>10. NodeOK(h)'
      <4> SUFFICES ASSUME file[h].method = "posix", NEW i \in 1 .. Len(list),
                          list'[i].fd = file[h].fd, list'[i].method = "nolock"
                   PROVE  FALSE
        BY <2>1, <3>5 DEF NodeOK
      <4>1. i # at
        BY <3>9
      <4>2. list[i] = list'[i]
        BY <3>6, <4>1
      <4> QED
        BY <1>4, <2>1, <4>1, <4>2 DEF NodeOK, Unwritten, at
    <3>11. ASSUME NEW g \in Handle \ {h} PROVE CallOK(g)' /\ NodeOK(g)'
      <4>1. ASSUME NEW i \in 1 .. Len(list'),
                   list'[i].fd = file[g].fd, list'[i].method = "nolock", file[g].method = "posix"
            PROVE  i \in 1 .. Len(list) /\ list[i] = list'[i]
        <5>1. i # at
          BY <3>9, <4>1
        <5> QED
          BY <3>5, <3>6, <5>1
      <4>2. CallOK(g) /\ NodeOK(g) /\ file'[g] = file[g] /\ handler'[g] = handler[g]
        BY <2>1, <2>2 DEF MethodInv
      <4> QED
        BY <4>1, <4>2, CallKept
    <3> QED
      BY <2>1, <2>3, <3>10, <3>11, FilesKept DEF MethodInv
  <2> QED
    BY <2>4, <2>5
<1>13. CASE AddNodeLinks(h)
  <2> DEFINE prev == handler[h].at
             new == [fd |-> handler[h].fd, method |-> handler[h].pMethods]
  <2>1. handler[h].pc = "write" /\ ~handler[h].found /\ file' = file
    BY <1>13 DEF AddNodeLinks
  <2>2. CASE ~handler[h].linked
    <3>1. Go(h, Idle) /\ list' = list
      BY <1>13, <2>2 DEF AddNodeLinks
    <3>2. handler'[h] = Idle
      BY <1>1, <3>1 DEF Go
    <3>3. CallOK(h)'
      BY <1>3, <3>2 DEF CallOK
    <3>4. NodeOK(h)'
      BY <1>4, <2>1, <2>2, <3>1 DEF NodeOK, Unwritten
    <3> QED
      BY <2>1, <3>1, <3>3, <3>4, FilesKept, MethodKept
  <2>3. CASE handler[h].linked
    <3>1. /\ list' = LinkBehind(prev, new)
          /\ handler' = [g \in Handle |->
                           IF g = h THEN Idle
                           ELSE IF handler[g].at > prev
                                  THEN [handler[g] EXCEPT !.at = 0, !.linked = FALSE]
                                  ELSE handler[g]]
      BY <1>13, <2>3 DEF AddNodeLinks
    <3>2. prev \in 0 .. Len(list)
      BY <1>1, <2>1, <2>3 DEF SightOK
    <3>3. /\ new \in MethodAndFD /\ new.fd = handler[h].fd /\ new.method = handler[h].pMethods
      BY <1>1, HandlerFacts DEF MethodAndFD
    <3> HIDE DEF new
    <3>4. /\ Len(list') = prev + 1
          /\ \A i \in 1 .. prev : list'[i] = list[i]
          /\ list'[prev + 1] = new
      BY <1>1, <3>1, <3>2, <3>3, LinkBehindFacts
    <3>5. handler'[h] = Idle
      BY <3>1
    <3>6. CallOK(h)'
      BY <1>3, <3>5 DEF CallOK
    <3>7. ASSUME NEW g \in Handle \ {h}
          PROVE  /\ handler'[g].pc = handler[g].pc /\ handler'[g].op = handler[g].op
                 /\ handler'[g].fd = handler[g].fd /\ handler'[g].pMethods = handler[g].pMethods
                 /\ handler'[g].found = handler[g].found
                 /\ ~(handler[g].at > prev) => handler'[g] = handler[g]
      <4> DEFINE q == [handler[g] EXCEPT !.at = 0, !.linked = FALSE]
      <4>1. handler[g] \in Handler
        BY <1>1
      <4>2. /\ q.pc = handler[g].pc /\ q.op = handler[g].op /\ q.fd = handler[g].fd
            /\ q.pMethods = handler[g].pMethods /\ q.found = handler[g].found
        BY <4>1 DEF Handler
      <4>3. handler'[g] = IF handler[g].at > prev THEN q ELSE handler[g]
        BY <3>1
      <4> HIDE DEF q
      <4> QED
        BY <4>2, <4>3
    <3>8. handler[h].pMethods = "nolock" =>
             file[h] # NotOpen /\ file[h].fd = handler[h].fd /\ file[h].method = "nolock"
      BY <1>3, <1>4, <2>1 DEF CallOK
    <3>9. ASSUME NEW g \in Handle, file[g].method = "posix",
                 new.fd = file[g].fd, new.method = "nolock"
          PROVE  FALSE
      <4>1. file[h] # NotOpen /\ file[h].fd = file[g].fd /\ file[h].method = "nolock"
        BY <3>3, <3>8, <3>9
      <4>2. g = h
        BY <1>4, <4>1 DEF FileOK
      <4> QED
        BY <3>9, <4>1, <4>2
    <3>10. ASSUME NEW g \in Handle, file[g].method = "posix", NEW i \in 1 .. Len(list'),
                  list'[i].fd = file[g].fd, list'[i].method = "nolock"
           PROVE  i \in 1 .. prev /\ i \in 1 .. Len(list) /\ list[i] = list'[i]
      <4>1. i = prev + 1 \/ i \in 1 .. prev
        BY <1>2, <3>2, <3>4
      <4>2. i # prev + 1
        BY <3>4, <3>9, <3>10
      <4>3. i \in 1 .. prev
        BY <4>1, <4>2
      <4> QED
        BY <1>2, <3>2, <3>4, <4>3
    <3> HIDE DEF prev
    <3>11. NodeOK(h)'
      <4> SUFFICES ASSUME file[h].method = "posix", NEW i \in 1 .. Len(list'),
                          list'[i].fd = file[h].fd, list'[i].method = "nolock"
                   PROVE  FALSE
        BY <2>1 DEF NodeOK
      <4>1. i \in 1 .. Len(list) /\ list[i] = list'[i]
        BY <3>10
      <4> QED
        BY <1>4, <2>1, <4>1 DEF NodeOK, Unwritten
    <3>12. ASSUME NEW g \in Handle \ {h} PROVE CallOK(g)' /\ NodeOK(g)'
      <4>1. ASSUME NEW i \in 1 .. Len(list'),
                   list'[i].fd = file[g].fd, list'[i].method = "nolock", file[g].method = "posix"
            PROVE  /\ i \in 1 .. Len(list) /\ list[i] = list'[i]
                   /\ handler[g].at = i =>
                         handler'[g].at = i /\ handler'[g].linked = handler[g].linked
        <5>1. i \in 1 .. prev /\ i \in 1 .. Len(list) /\ list[i] = list'[i]
          BY <3>10, <4>1
        <5>2. handler[g].at = i => ~(handler[g].at > prev)
          BY <1>2, <3>2, <5>1
        <5> QED
          BY <3>7, <5>1, <5>2
      <4>2. CallOK(g) /\ NodeOK(g) /\ file'[g] = file[g]
        BY <2>1 DEF MethodInv
      <4> QED
        BY <3>7, <4>1, <4>2, CallKept
    <3> QED
      BY <2>1, <3>6, <3>11, <3>12, FilesKept DEF MethodInv
  <2> QED
    BY <2>2, <2>3
<1> QED
  BY <1>6, <1>7, <1>8, <1>9, <1>10, <1>11, <1>12, <1>13 DEF Step

\* The methods stay right in every behaviour.
LEMMA MethodInvariance == Spec => [](ListInv /\ MethodInv)
<1>1. Init => MethodInv
  <2> SUFFICES ASSUME Init, NEW h \in Handle PROVE FileOK(h) /\ CallOK(h) /\ NodeOK(h)
    BY DEF MethodInv
  <2>1. /\ handler[h].pc = "idle" /\ file[h] = NotOpen /\ file[h].method = "null"
    BY DEF Init, Idle, NotOpen
  <2> QED
    BY <2>1 DEF FileOK, CallOK, NodeOK
<1>2. MethodInv /\ UNCHANGED vars => MethodInv'
  BY DEF MethodInv, FileOK, CallOK, NodeOK, Unwritten, vars
<1>3. ListInv /\ MethodInv /\ [Next]_vars => MethodInv'
  BY <1>2, MethodStep DEF Next
<1> QED
  BY <1>1, <1>3, ListInvariance, PTL DEF Spec

(***************************************************************************)
(* Any number of threads may race in AddNode and InitList: a database is   *)
(* never closed with nolockClose, whatever journal had its descriptor      *)
(* before, and the only wrong routine a file can meet is the default.      *)
(***************************************************************************)
THEOREM ClosesWithItsOwnOrTheDefault == Spec => []OnlyDefaultIsWrong
<1>1. ListInv /\ MethodInv => OnlyDefaultIsWrong
  <2> SUFFICES ASSUME ListInv, MethodInv, NEW h \in Handle, handler[h].pc = "close"
               PROVE  handler[h].pMethods \in {file[h].method, "posix"}
    BY DEF OnlyDefaultIsWrong
  <2>1. handler[h].pMethods \in Method
    BY HandlerFacts DEF ListInv, TypeOK
  <2>2. CallOK(h)
    BY DEF MethodInv
  <2> QED
    BY <2>1, <2>2 DEF CallOK, Method
<1> QED
  BY <1>1, MethodInvariance, PTL
=============================================================================
