-------------------------- MODULE ArgConvertProofs --------------------------
(***************************************************************************)
(* Proofs about ArgConvert, for every size of the handle, of the buffers,  *)
(* of the path and of the C types, and for every length of an argument.    *)
(***************************************************************************)
EXTENDS ArgConvert, TLAPS

-----------------------------------------------------------------------------
(* The copies of one structure. *)

\* The byte is inside the room the structure has for its parameter.
Fits(p, i) == p \in {"pBuf", "pData"} => i < MaxSize

\* The copies that write byte i of the structure.
Covers(copies, i) == {c \in DOMAIN copies :
                        i - copies[c].offset \in 0 .. copies[c].len - 1}

\* Copy j is the only one of its parameter, lies inside the structure, and a
\* later copy writes over those of its bytes, and only those, that do not fit.
Lands(copies, size, n, j) ==
    /\ copies[j].offset \in Nat /\ copies[j].len \in Nat
    /\ copies[j].len = Size(copies[j].p, n)
    /\ copies[j].offset + copies[j].len <= size
    /\ \A k \in DOMAIN copies : k # j => copies[k].p # copies[j].p
    /\ \A i \in 0 .. copies[j].len - 1 :
          Fits(copies[j].p, i) <=>
             \A k \in Covers(copies, copies[j].offset + i) : k <= j

AllLand(copies, size, n) ==
    /\ DOMAIN copies \subseteq 1 .. 4
    /\ \A j \in DOMAIN copies : Lands(copies, size, n, j)

\* The last of at most four copies.
LEMMA LastCopy ==
  ASSUME NEW S \in SUBSET (1 .. 4), S # {}
  PROVE  Max(S) \in S /\ \A k \in S : k <= Max(S)
<1>1. \A k \in S : k \in {1, 2, 3, 4}
  OBVIOUS
<1>2. \E x \in S : \A y \in S : x >= y
  <2>1. CASE 4 \in S
    BY <1>1, <2>1
  <2>2. CASE 4 \notin S /\ 3 \in S
    BY <1>1, <2>2
  <2>3. CASE 4 \notin S /\ 3 \notin S /\ 2 \in S
    BY <1>1, <2>3
  <2>4. CASE 4 \notin S /\ 3 \notin S /\ 2 \notin S
    <3>1. S = {1}
      BY <1>1, <2>4
    <3> QED
      BY <3>1
  <2> QED
    BY <2>1, <2>2, <2>3, <2>4
<1>3. \A k \in S : Max(S) >= k
  BY <1>2 DEF Max
<1>4. Max(S) \in S
  BY <1>2 DEF Max
<1> QED
  BY <1>1, <1>3, <1>4

\* A byte that some copy writes is the byte of the last copy that writes it.
LEMMA PackedByte ==
  ASSUME NEW side, NEW copies, NEW size \in Nat, NEW fill, NEW i \in 0 .. size - 1,
         Covers(copies, i) # {}
  PROVE  Pack(side, copies, size, fill)[i] =
           <<side, copies[Max(Covers(copies, i))].p, i - copies[Max(Covers(copies, i))].offset>>
BY DEF Pack, Covers

\* A parameter's byte that one copy takes out comes from that copy's place.
LEMMA UnpackedByte ==
  ASSUME NEW before, NEW copies, NEW bytes, DOMAIN copies \subseteq 1 .. 4,
         NEW p \in DOMAIN before, NEW i \in DOMAIN before[p], NEW j \in DOMAIN copies,
         copies[j].p = p, i < copies[j].len,
         \A k \in DOMAIN copies : k # j => copies[k].p # p
  PROVE  Unpack(before, copies, bytes)[p][i] = bytes[copies[j].offset + i]
<1> DEFINE from == {c \in DOMAIN copies : copies[c].p = p /\ i < copies[c].len}
<1>1. from = {j}
  OBVIOUS
<1>2. Max(from) = j
  BY <1>1, LastCopy
<1> QED
  BY <1>1, <1>2 DEF Unpack

\* A parameter's byte that no copy takes out stays as it was.
LEMMA UntouchedByte ==
  ASSUME NEW before, NEW copies, NEW bytes,
         NEW p \in DOMAIN before, NEW i \in DOMAIN before[p],
         \A k \in DOMAIN copies : copies[k].p = p => ~(i < copies[k].len)
  PROVE  Unpack(before, copies, bytes)[p][i] = before[p][i]
BY DEF Unpack

\* Where all copies land, packing and unpacking brings over what fits.
LEMMA PackedLands ==
  ASSUME NEW side, NEW copies, NEW size \in Nat, NEW fill, NEW n,
         AllLand(copies, size, n), NEW j \in DOMAIN copies,
         NEW i \in 0 .. copies[j].len - 1
  PROVE  Pack(side, copies, size, fill)[copies[j].offset + i] = <<side, copies[j].p, i>>
            <=> Fits(copies[j].p, i)
<1> DEFINE at == copies[j].offset + i
           S == Covers(copies, at)
<1>1. /\ DOMAIN copies \subseteq 1 .. 4
      /\ \A k \in DOMAIN copies : /\ copies[k].offset \in Nat /\ copies[k].len \in Nat
                                  /\ copies[k].offset + copies[k].len <= size
      /\ \A k \in DOMAIN copies : k # j => copies[k].p # copies[j].p
      /\ Fits(copies[j].p, i) <=> \A k \in S : k <= j
  BY DEF AllLand, Lands
<1>2. at \in 0 .. size - 1 /\ j \in S /\ S \in SUBSET (1 .. 4)
  BY <1>1 DEF Covers
<1>3. Max(S) \in S /\ \A k \in S : k <= Max(S)
  BY <1>2, LastCopy
<1>4. Pack(side, copies, size, fill)[at] = <<side, copies[Max(S)].p, at - copies[Max(S)].offset>>
  BY <1>2, PackedByte
<1>5. Max(S) \in DOMAIN copies /\ Max(S) \in 1 .. 4 /\ j \in 1 .. 4
  BY <1>1, <1>2, <1>3 DEF Covers
<1>6. Fits(copies[j].p, i) <=> Max(S) = j
  <2> HIDE DEF S
  <2> QED
    BY <1>1, <1>2, <1>3, <1>5
<1>7. Max(S) = j => at - copies[Max(S)].offset = i
  BY <1>1
<1>8. Max(S) # j => copies[Max(S)].p # copies[j].p
  BY <1>1, <1>5
<1> HIDE DEF S, at
<1> QED
  BY <1>4, <1>6, <1>7, <1>8 DEF at

-----------------------------------------------------------------------------
(* The copies of every method. *)

\* Copy j and copy k have no byte of the structure in common.
Apart(copies, j, k) ==
    \/ copies[j].offset + copies[j].len <= copies[k].offset
    \/ copies[k].offset + copies[k].len <= copies[j].offset

\* Copy k is an int right behind the MAX_SIZE bytes of the buffer of copy j.
Behind(copies, j, k) ==
    copies[k].offset = copies[j].offset + MaxSize /\ copies[k].len = SizeInt

Data == {"pBuf", "pData"}

\* Copy j shares no byte with a later one, but for data that runs over the int
\* behind its buffer.
Placed(copies, size, n, j) ==
    /\ copies[j].offset \in Nat /\ copies[j].len \in Nat
    /\ copies[j].len = Size(copies[j].p, n)
    /\ copies[j].offset + copies[j].len <= size
    /\ \A k \in DOMAIN copies : k # j => copies[k].p # copies[j].p
    /\ copies[j].p \in Data =>
          /\ copies[j].len <= MaxSize + SizeInt
          /\ \E k \in DOMAIN copies : k > j /\ Behind(copies, j, k)
    /\ \A k \in DOMAIN copies : k > j =>
          Apart(copies, j, k) \/ (copies[j].p \in Data /\ Behind(copies, j, k))

\* Copies that are placed so land.
LEMMA PlacedLand ==
  ASSUME NEW copies, NEW size \in Nat, NEW n, DOMAIN copies \subseteq 1 .. 4,
         \A j \in DOMAIN copies : Placed(copies, size, n, j)
  PROVE  AllLand(copies, size, n)
<1>1. ASSUME NEW j \in DOMAIN copies, NEW i \in 0 .. copies[j].len - 1
      PROVE  Fits(copies[j].p, i) <=> \A k \in Covers(copies, copies[j].offset + i) : k <= j
  <2>1. /\ \A k \in DOMAIN copies : copies[k].offset \in Nat /\ copies[k].len \in Nat /\ k \in Nat
        /\ MaxSize \in Nat /\ SizeInt \in Nat
    BY <1>1, ArgConvertAssumption DEF Placed
  <2>2. CASE Fits(copies[j].p, i)
    <3>1. \A k \in DOMAIN copies : k > j => k \notin Covers(copies, copies[j].offset + i)
      BY <1>1, <2>1, <2>2 DEF Placed, Apart, Behind, Covers, Fits, Data
    <3>2. \A k \in Covers(copies, copies[j].offset + i) : k \in DOMAIN copies
      BY DEF Covers
    <3> QED
      BY <1>1, <2>1, <2>2, <3>1, <3>2
  <2>3. CASE ~Fits(copies[j].p, i)
    <3>1. copies[j].p \in Data /\ i >= MaxSize
      BY <1>1, <2>1, <2>3 DEF Fits, Data
    <3>2. PICK k \in DOMAIN copies : k > j /\ Behind(copies, j, k)
      BY <1>1, <3>1 DEF Placed
    <3>3. copies[j].len <= MaxSize + SizeInt
      BY <1>1, <3>1 DEF Placed
    <3>4. k \in Covers(copies, copies[j].offset + i)
      BY <1>1, <2>1, <3>1, <3>2, <3>3 DEF Behind, Covers
    <3> QED
      BY <1>1, <2>1, <2>3, <3>2, <3>4
  <2> QED
    BY <2>2, <2>3
<1> QED
  BY <1>1 DEF AllLand, Lands, Placed

-----------------------------------------------------------------------------
(* What the proof needs to know of the four conversions of a method. *)

\* The methods after which the client's handle is not the server's.
KeepsHandle == {"Close", "Unfetch"}

\* The server reads the request as the client wrote it, and every argument is
\* in it; every result has a place in the reply, where the client reads it.
Delivers(op, n) ==
    LET k == Convert(op, n)
    IN  /\ k.in \in Nat /\ k.out \in Nat
        /\ AllLand(k.send, k.in, n) /\ AllLand(k.reply, k.out, n)
        /\ k.recv = k.send
        /\ \A p \in In(op) : \E j \in DOMAIN k.send : k.send[j].p = p
        /\ DOMAIN k.back \subseteq 1 .. 4
        /\ \A p \in Out(op) :
              IF p = "id" /\ op \in KeepsHandle
              THEN \A j \in DOMAIN k.back : k.back[j].p = "id" => k.back[j].len \in 0 .. SizeI64
              ELSE \E j \in DOMAIN k.back \cap DOMAIN k.reply :
                      /\ k.back[j] = k.reply[j] /\ k.back[j].p = p
                      /\ \A m \in DOMAIN k.back : m # j => k.back[m].p # p

\* The request that asks for the server's VFS structure carries nothing.
LEMMA InitDelivers ==
  ASSUME NEW n \in {0}
  PROVE  Delivers("Init", n)
<1> DEFINE k == Convert("Init", n)
           request == k.send
           result == k.reply
           back == k.back
<1>1. k = InitConvert
  BY DEF Convert, FileOnly
<1>2. /\ k.in = 0 /\ k.in \in Nat /\ k.recv = request
      /\ DOMAIN request = {}
  BY <1>1, ArgConvertAssumption DEF InitConvert, Agreed, Copy, id
<1>3. /\ k.out = SizeInt /\ k.out \in Nat
      /\ DOMAIN result = 1 .. 1
      /\ result[1].p = "rc" /\ result[1].offset = 0 /\ result[1].len = SizeInt
  BY <1>1, ArgConvertAssumption DEF InitConvert, Agreed, Copy, id
<1>4. back = result
  BY <1>1 DEF InitConvert, Agreed
<1> HIDE DEF request, result, back, k
<1>5. AllLand(request, k.in, n)
  <2>1. \A j \in DOMAIN request : Placed(request, k.in, n, j)
    BY <1>2, ArgConvertAssumption DEF Placed, Apart, Behind, Size, Data
  <2> QED
    BY <1>2, <2>1, PlacedLand
<1>6. AllLand(result, k.out, n)
  <2>1. \A j \in DOMAIN result : Placed(result, k.out, n, j)
    BY <1>3, ArgConvertAssumption DEF Placed, Apart, Behind, Size, Data
  <2> QED
    BY <1>3, <2>1, PlacedLand
<1>7. \A p \in In("Init") : \E j \in DOMAIN request : request[j].p = p
  BY <1>2 DEF In
<1>8. /\ "Init" \notin KeepsHandle
      /\ \A p \in Out("Init") : \E j \in DOMAIN result :
            result[j].p = p /\ \A m \in DOMAIN result : m # j => result[m].p # p
  BY <1>3 DEF Out, KeepsHandle
<1> QED
  BY <1>2, <1>3, <1>4, <1>5, <1>6, <1>7, <1>8 DEF Delivers, request, result, back, k

\* xGetLastError() carries nothing either.
LEMMA GetLastErrorDelivers ==
  ASSUME NEW n \in {0}
  PROVE  Delivers("GetLastError", n)
<1> DEFINE k == Convert("GetLastError", n)
           request == k.send
           result == k.reply
           back == k.back
<1>1. k = GetLastErrorConvert
  BY DEF Convert, FileOnly
<1>2. /\ k.in = 0 /\ k.in \in Nat /\ k.recv = request
      /\ DOMAIN request = {}
  BY <1>1, ArgConvertAssumption DEF GetLastErrorConvert, Agreed, Copy, id
<1>3. /\ k.out = SizeInt /\ k.out \in Nat
      /\ DOMAIN result = 1 .. 1
      /\ result[1].p = "rc" /\ result[1].offset = 0 /\ result[1].len = SizeInt
  BY <1>1, ArgConvertAssumption DEF GetLastErrorConvert, Agreed, Copy, id
<1>4. back = result
  BY <1>1 DEF GetLastErrorConvert, Agreed
<1> HIDE DEF request, result, back, k
<1>5. AllLand(request, k.in, n)
  <2>1. \A j \in DOMAIN request : Placed(request, k.in, n, j)
    BY <1>2, ArgConvertAssumption DEF Placed, Apart, Behind, Size, Data
  <2> QED
    BY <1>2, <2>1, PlacedLand
<1>6. AllLand(result, k.out, n)
  <2>1. \A j \in DOMAIN result : Placed(result, k.out, n, j)
    BY <1>3, ArgConvertAssumption DEF Placed, Apart, Behind, Size, Data
  <2> QED
    BY <1>3, <2>1, PlacedLand
<1>7. \A p \in In("GetLastError") : \E j \in DOMAIN request : request[j].p = p
  BY <1>2 DEF In
<1>8. /\ "GetLastError" \notin KeepsHandle
      /\ \A p \in Out("GetLastError") : \E j \in DOMAIN result :
            result[j].p = p /\ \A m \in DOMAIN result : m # j => result[m].p # p
  BY <1>3 DEF Out, KeepsHandle
<1> QED
  BY <1>2, <1>3, <1>4, <1>5, <1>6, <1>7, <1>8 DEF Delivers, request, result, back, k

\* xOpen(): the path, the handle and two flags.
LEMMA OpenDelivers ==
  ASSUME NEW n \in 1 .. Path
  PROVE  Delivers("Open", n)
<1> DEFINE k == Convert("Open", n)
           request == k.send
           result == k.reply
           back == k.back
<1>1. k = OpenConvert(n)
  BY DEF Convert, FileOnly
<1>2. /\ k.in = Path + Handle + 2 * SizeInt /\ k.in \in Nat /\ k.recv = request
      /\ DOMAIN request = 1 .. 4
      /\ request[1].p = "zPath" /\ request[1].offset = 0 /\ request[1].len = n
      /\ request[2].p = "id" /\ request[2].offset = Path /\ request[2].len = Handle
      /\ request[3].p = "flags" /\ request[3].offset = Path + Handle /\ request[3].len = SizeInt
      /\ request[4].p = "pOutFlags" /\ request[4].offset = Path + Handle + SizeInt /\ request[4].len = SizeInt
  BY <1>1, ArgConvertAssumption DEF OpenConvert, Agreed, Copy, id
<1>3. /\ k.out = Handle + 2 * SizeInt /\ k.out \in Nat
      /\ DOMAIN result = 1 .. 3
      /\ result[1].p = "id" /\ result[1].offset = 0 /\ result[1].len = Handle
      /\ result[2].p = "pOutFlags" /\ result[2].offset = Handle /\ result[2].len = SizeInt
      /\ result[3].p = "rc" /\ result[3].offset = Handle + SizeInt /\ result[3].len = SizeInt
  BY <1>1, ArgConvertAssumption DEF OpenConvert, Agreed, Copy, id
<1>4. back = result
  BY <1>1 DEF OpenConvert, Agreed
<1> HIDE DEF request, result, back, k
<1>5. AllLand(request, k.in, n)
  <2>1. \A j \in DOMAIN request : Placed(request, k.in, n, j)
    BY <1>2, ArgConvertAssumption DEF Placed, Apart, Behind, Size, Data
  <2> QED
    BY <1>2, <2>1, PlacedLand
<1>6. AllLand(result, k.out, n)
  <2>1. \A j \in DOMAIN result : Placed(result, k.out, n, j)
    BY <1>3, ArgConvertAssumption DEF Placed, Apart, Behind, Size, Data
  <2> QED
    BY <1>3, <2>1, PlacedLand
<1>7. \A p \in In("Open") : \E j \in DOMAIN request : request[j].p = p
  BY <1>2 DEF In
<1>8. /\ "Open" \notin KeepsHandle
      /\ \A p \in Out("Open") : \E j \in DOMAIN result :
            result[j].p = p /\ \A m \in DOMAIN result : m # j => result[m].p # p
  BY <1>3 DEF Out, KeepsHandle
<1> QED
  BY <1>2, <1>3, <1>4, <1>5, <1>6, <1>7, <1>8 DEF Delivers, request, result, back, k

\* xDelete(): the path and dirSync.
LEMMA DeleteDelivers ==
  ASSUME NEW n \in 1 .. Path
  PROVE  Delivers("Delete", n)
<1> DEFINE k == Convert("Delete", n)
           request == k.send
           result == k.reply
           back == k.back
<1>1. k = DeleteConvert(n)
  BY DEF Convert, FileOnly
<1>2. /\ k.in = Path + SizeInt /\ k.in \in Nat /\ k.recv = request
      /\ DOMAIN request = 1 .. 2
      /\ request[1].p = "zPath" /\ request[1].offset = 0 /\ request[1].len = n
      /\ request[2].p = "dirSync" /\ request[2].offset = Path /\ request[2].len = SizeInt
  BY <1>1, ArgConvertAssumption DEF DeleteConvert, Agreed, Copy, id
<1>3. /\ k.out = SizeInt /\ k.out \in Nat
      /\ DOMAIN result = 1 .. 1
      /\ result[1].p = "rc" /\ result[1].offset = 0 /\ result[1].len = SizeInt
  BY <1>1, ArgConvertAssumption DEF DeleteConvert, Agreed, Copy, id
<1>4. back = result
  BY <1>1 DEF DeleteConvert, Agreed
<1> HIDE DEF request, result, back, k
<1>5. AllLand(request, k.in, n)
  <2>1. \A j \in DOMAIN request : Placed(request, k.in, n, j)
    BY <1>2, ArgConvertAssumption DEF Placed, Apart, Behind, Size, Data
  <2> QED
    BY <1>2, <2>1, PlacedLand
<1>6. AllLand(result, k.out, n)
  <2>1. \A j \in DOMAIN result : Placed(result, k.out, n, j)
    BY <1>3, ArgConvertAssumption DEF Placed, Apart, Behind, Size, Data
  <2> QED
    BY <1>3, <2>1, PlacedLand
<1>7. \A p \in In("Delete") : \E j \in DOMAIN request : request[j].p = p
  BY <1>2 DEF In
<1>8. /\ "Delete" \notin KeepsHandle
      /\ \A p \in Out("Delete") : \E j \in DOMAIN result :
            result[j].p = p /\ \A m \in DOMAIN result : m # j => result[m].p # p
  BY <1>3 DEF Out, KeepsHandle
<1> QED
  BY <1>2, <1>3, <1>4, <1>5, <1>6, <1>7, <1>8 DEF Delivers, request, result, back, k

\* xAccess(): the path, the flags and the result, which is also sent.
LEMMA AccessDelivers ==
  ASSUME NEW n \in 1 .. Path
  PROVE  Delivers("Access", n)
<1> DEFINE k == Convert("Access", n)
           request == k.send
           result == k.reply
           back == k.back
<1>1. k = AccessConvert(n)
  BY DEF Convert, FileOnly
<1>2. /\ k.in = Path + 2 * SizeInt /\ k.in \in Nat /\ k.recv = request
      /\ DOMAIN request = 1 .. 3
      /\ request[1].p = "zPath" /\ request[1].offset = 0 /\ request[1].len = n
      /\ request[2].p = "flags" /\ request[2].offset = Path /\ request[2].len = SizeInt
      /\ request[3].p = "pResOut" /\ request[3].offset = Path + SizeInt /\ request[3].len = SizeInt
  BY <1>1, ArgConvertAssumption DEF AccessConvert, Agreed, Copy, id
<1>3. /\ k.out = 2 * SizeInt /\ k.out \in Nat
      /\ DOMAIN result = 1 .. 2
      /\ result[1].p = "pResOut" /\ result[1].offset = 0 /\ result[1].len = SizeInt
      /\ result[2].p = "rc" /\ result[2].offset = SizeInt /\ result[2].len = SizeInt
  BY <1>1, ArgConvertAssumption DEF AccessConvert, Agreed, Copy, id
<1>4. back = result
  BY <1>1 DEF AccessConvert, Agreed
<1> HIDE DEF request, result, back, k
<1>5. AllLand(request, k.in, n)
  <2>1. \A j \in DOMAIN request : Placed(request, k.in, n, j)
    BY <1>2, ArgConvertAssumption DEF Placed, Apart, Behind, Size, Data
  <2> QED
    BY <1>2, <2>1, PlacedLand
<1>6. AllLand(result, k.out, n)
  <2>1. \A j \in DOMAIN result : Placed(result, k.out, n, j)
    BY <1>3, ArgConvertAssumption DEF Placed, Apart, Behind, Size, Data
  <2> QED
    BY <1>3, <2>1, PlacedLand
<1>7. \A p \in In("Access") : \E j \in DOMAIN request : request[j].p = p
  BY <1>2 DEF In
<1>8. /\ "Access" \notin KeepsHandle
      /\ \A p \in Out("Access") : \E j \in DOMAIN result :
            result[j].p = p /\ \A m \in DOMAIN result : m # j => result[m].p # p
  BY <1>3 DEF Out, KeepsHandle
<1> QED
  BY <1>2, <1>3, <1>4, <1>5, <1>6, <1>7, <1>8 DEF Delivers, request, result, back, k

\* xFullPathname(): nOut before the path, the full path before rc.
LEMMA FullPathnameDelivers ==
  ASSUME NEW n \in 1 .. Path
  PROVE  Delivers("FullPathname", n)
<1> DEFINE k == Convert("FullPathname", n)
           request == k.send
           result == k.reply
           back == k.back
<1>1. k = FullPathnameConvert(n)
  BY DEF Convert, FileOnly
<1>2. /\ k.in = SizeInt + Path /\ k.in \in Nat /\ k.recv = request
      /\ DOMAIN request = 1 .. 2
      /\ request[1].p = "nOut" /\ request[1].offset = 0 /\ request[1].len = SizeInt
      /\ request[2].p = "zPath" /\ request[2].offset = SizeInt /\ request[2].len = n
  BY <1>1, ArgConvertAssumption DEF FullPathnameConvert, Agreed, Copy, id
<1>3. /\ k.out = Path + SizeInt /\ k.out \in Nat
      /\ DOMAIN result = 1 .. 2
      /\ result[1].p = "zOut" /\ result[1].offset = 0 /\ result[1].len = n
      /\ result[2].p = "rc" /\ result[2].offset = Path /\ result[2].len = SizeInt
  BY <1>1, ArgConvertAssumption DEF FullPathnameConvert, Agreed, Copy, id
<1>4. back = result
  BY <1>1 DEF FullPathnameConvert, Agreed
<1> HIDE DEF request, result, back, k
<1>5. AllLand(request, k.in, n)
  <2>1. \A j \in DOMAIN request : Placed(request, k.in, n, j)
    BY <1>2, ArgConvertAssumption DEF Placed, Apart, Behind, Size, Data
  <2> QED
    BY <1>2, <2>1, PlacedLand
<1>6. AllLand(result, k.out, n)
  <2>1. \A j \in DOMAIN result : Placed(result, k.out, n, j)
    BY <1>3, ArgConvertAssumption DEF Placed, Apart, Behind, Size, Data
  <2> QED
    BY <1>3, <2>1, PlacedLand
<1>7. \A p \in In("FullPathname") : \E j \in DOMAIN request : request[j].p = p
  BY <1>2 DEF In
<1>8. /\ "FullPathname" \notin KeepsHandle
      /\ \A p \in Out("FullPathname") : \E j \in DOMAIN result :
            result[j].p = p /\ \A m \in DOMAIN result : m # j => result[m].p # p
  BY <1>3 DEF Out, KeepsHandle
<1> QED
  BY <1>2, <1>3, <1>4, <1>5, <1>6, <1>7, <1>8 DEF Delivers, request, result, back, k

\* xRead(): the data runs over rc in the reply when it is longer than MAX_SIZE.
LEMMA ReadDelivers ==
  ASSUME NEW n \in 1 .. MaxAmt
  PROVE  Delivers("Read", n)
<1> DEFINE k == Convert("Read", n)
           request == k.send
           result == k.reply
           back == k.back
<1>1. k = ReadConvert(n)
  BY DEF Convert, FileOnly
<1>2. /\ k.in = Handle + MaxSize + SizeInt + SizeI64 /\ k.in \in Nat /\ k.recv = request
      /\ DOMAIN request = 1 .. 4
      /\ request[1].p = "id" /\ request[1].offset = 0 /\ request[1].len = Handle
      /\ request[2].p = "pBuf" /\ request[2].offset = Handle /\ request[2].len = n
      /\ request[3].p = "amt" /\ request[3].offset = Handle + MaxSize /\ request[3].len = SizeInt
      /\ request[4].p = "offset" /\ request[4].offset = Handle + MaxSize + SizeInt /\ request[4].len = SizeI64
  BY <1>1, ArgConvertAssumption DEF ReadConvert, Agreed, Copy, id
<1>3. /\ k.out = Handle + MaxSize + SizeInt /\ k.out \in Nat
      /\ DOMAIN result = 1 .. 3
      /\ result[1].p = "id" /\ result[1].offset = 0 /\ result[1].len = Handle
      /\ result[2].p = "pBuf" /\ result[2].offset = Handle /\ result[2].len = n
      /\ result[3].p = "rc" /\ result[3].offset = Handle + MaxSize /\ result[3].len = SizeInt
  BY <1>1, ArgConvertAssumption DEF ReadConvert, Agreed, Copy, id
<1>4. back = result
  BY <1>1 DEF ReadConvert, Agreed
<1> HIDE DEF request, result, back, k
<1>5. AllLand(request, k.in, n)
  <2>1. \A j \in DOMAIN request : Placed(request, k.in, n, j)
    BY <1>2, ArgConvertAssumption DEF Placed, Apart, Behind, Size, Data
  <2> QED
    BY <1>2, <2>1, PlacedLand
<1>6. AllLand(result, k.out, n)
  <2>1. \A j \in DOMAIN result : Placed(result, k.out, n, j)
    BY <1>3, ArgConvertAssumption DEF Placed, Apart, Behind, Size, Data
  <2> QED
    BY <1>3, <2>1, PlacedLand
<1>7. \A p \in In("Read") : \E j \in DOMAIN request : request[j].p = p
  BY <1>2 DEF In
<1>8. /\ "Read" \notin KeepsHandle
      /\ \A p \in Out("Read") : \E j \in DOMAIN result :
            result[j].p = p /\ \A m \in DOMAIN result : m # j => result[m].p # p
  BY <1>3 DEF Out, KeepsHandle
<1> QED
  BY <1>2, <1>3, <1>4, <1>5, <1>6, <1>7, <1>8 DEF Delivers, request, result, back, k

\* xWrite(): the data runs over amt in the request.
LEMMA WriteDelivers ==
  ASSUME NEW n \in 1 .. MaxAmt
  PROVE  Delivers("Write", n)
<1> DEFINE k == Convert("Write", n)
           request == k.send
           result == k.reply
           back == k.back
<1>1. k = WriteConvert(n)
  BY DEF Convert, FileOnly
<1>2. /\ k.in = Handle + MaxSize + SizeInt + SizeI64 /\ k.in \in Nat /\ k.recv = request
      /\ DOMAIN request = 1 .. 4
      /\ request[1].p = "id" /\ request[1].offset = 0 /\ request[1].len = Handle
      /\ request[2].p = "pBuf" /\ request[2].offset = Handle /\ request[2].len = n
      /\ request[3].p = "amt" /\ request[3].offset = Handle + MaxSize /\ request[3].len = SizeInt
      /\ request[4].p = "offset" /\ request[4].offset = Handle + MaxSize + SizeInt /\ request[4].len = SizeI64
  BY <1>1, ArgConvertAssumption DEF WriteConvert, Agreed, Copy, id
<1>3. /\ k.out = Handle + MaxSize + SizeInt /\ k.out \in Nat
      /\ DOMAIN result = 1 .. 2
      /\ result[1].p = "id" /\ result[1].offset = 0 /\ result[1].len = Handle
      /\ result[2].p = "rc" /\ result[2].offset = Handle + MaxSize /\ result[2].len = SizeInt
  BY <1>1, ArgConvertAssumption DEF WriteConvert, Agreed, Copy, id
<1>4. back = result
  BY <1>1 DEF WriteConvert, Agreed
<1> HIDE DEF request, result, back, k
<1>5. AllLand(request, k.in, n)
  <2>1. \A j \in DOMAIN request : Placed(request, k.in, n, j)
    BY <1>2, ArgConvertAssumption DEF Placed, Apart, Behind, Size, Data
  <2> QED
    BY <1>2, <2>1, PlacedLand
<1>6. AllLand(result, k.out, n)
  <2>1. \A j \in DOMAIN result : Placed(result, k.out, n, j)
    BY <1>3, ArgConvertAssumption DEF Placed, Apart, Behind, Size, Data
  <2> QED
    BY <1>3, <2>1, PlacedLand
<1>7. \A p \in In("Write") : \E j \in DOMAIN request : request[j].p = p
  BY <1>2 DEF In
<1>8. /\ "Write" \notin KeepsHandle
      /\ \A p \in Out("Write") : \E j \in DOMAIN result :
            result[j].p = p /\ \A m \in DOMAIN result : m # j => result[m].p # p
  BY <1>3 DEF Out, KeepsHandle
<1> QED
  BY <1>2, <1>3, <1>4, <1>5, <1>6, <1>7, <1>8 DEF Delivers, request, result, back, k

\* xTruncate().
LEMMA TruncateDelivers ==
  ASSUME NEW n \in {0}
  PROVE  Delivers("Truncate", n)
<1> DEFINE k == Convert("Truncate", n)
           request == k.send
           result == k.reply
           back == k.back
<1>1. k = TruncateConvert
  BY DEF Convert, FileOnly
<1>2. /\ k.in = Handle + SizeI64 /\ k.in \in Nat /\ k.recv = request
      /\ DOMAIN request = 1 .. 2
      /\ request[1].p = "id" /\ request[1].offset = 0 /\ request[1].len = Handle
      /\ request[2].p = "nByte" /\ request[2].offset = Handle /\ request[2].len = SizeI64
  BY <1>1, ArgConvertAssumption DEF TruncateConvert, Agreed, Copy, id
<1>3. /\ k.out = Handle + SizeInt /\ k.out \in Nat
      /\ DOMAIN result = 1 .. 2
      /\ result[1].p = "id" /\ result[1].offset = 0 /\ result[1].len = Handle
      /\ result[2].p = "rc" /\ result[2].offset = Handle /\ result[2].len = SizeInt
  BY <1>1, ArgConvertAssumption DEF TruncateConvert, Agreed, Copy, id
<1>4. back = result
  BY <1>1 DEF TruncateConvert, Agreed
<1> HIDE DEF request, result, back, k
<1>5. AllLand(request, k.in, n)
  <2>1. \A j \in DOMAIN request : Placed(request, k.in, n, j)
    BY <1>2, ArgConvertAssumption DEF Placed, Apart, Behind, Size, Data
  <2> QED
    BY <1>2, <2>1, PlacedLand
<1>6. AllLand(result, k.out, n)
  <2>1. \A j \in DOMAIN result : Placed(result, k.out, n, j)
    BY <1>3, ArgConvertAssumption DEF Placed, Apart, Behind, Size, Data
  <2> QED
    BY <1>3, <2>1, PlacedLand
<1>7. \A p \in In("Truncate") : \E j \in DOMAIN request : request[j].p = p
  BY <1>2 DEF In
<1>8. /\ "Truncate" \notin KeepsHandle
      /\ \A p \in Out("Truncate") : \E j \in DOMAIN result :
            result[j].p = p /\ \A m \in DOMAIN result : m # j => result[m].p # p
  BY <1>3 DEF Out, KeepsHandle
<1> QED
  BY <1>2, <1>3, <1>4, <1>5, <1>6, <1>7, <1>8 DEF Delivers, request, result, back, k

\* xSync().
LEMMA SyncDelivers ==
  ASSUME NEW n \in {0}
  PROVE  Delivers("Sync", n)
<1> DEFINE k == Convert("Sync", n)
           request == k.send
           result == k.reply
           back == k.back
<1>1. k = SyncConvert
  BY DEF Convert, FileOnly
<1>2. /\ k.in = Handle + SizeInt /\ k.in \in Nat /\ k.recv = request
      /\ DOMAIN request = 1 .. 2
      /\ request[1].p = "id" /\ request[1].offset = 0 /\ request[1].len = Handle
      /\ request[2].p = "flags" /\ request[2].offset = Handle /\ request[2].len = SizeInt
  BY <1>1, ArgConvertAssumption DEF SyncConvert, Agreed, Copy, id
<1>3. /\ k.out = Handle + SizeInt /\ k.out \in Nat
      /\ DOMAIN result = 1 .. 2
      /\ result[1].p = "id" /\ result[1].offset = 0 /\ result[1].len = Handle
      /\ result[2].p = "rc" /\ result[2].offset = Handle /\ result[2].len = SizeInt
  BY <1>1, ArgConvertAssumption DEF SyncConvert, Agreed, Copy, id
<1>4. back = result
  BY <1>1 DEF SyncConvert, Agreed
<1> HIDE DEF request, result, back, k
<1>5. AllLand(request, k.in, n)
  <2>1. \A j \in DOMAIN request : Placed(request, k.in, n, j)
    BY <1>2, ArgConvertAssumption DEF Placed, Apart, Behind, Size, Data
  <2> QED
    BY <1>2, <2>1, PlacedLand
<1>6. AllLand(result, k.out, n)
  <2>1. \A j \in DOMAIN result : Placed(result, k.out, n, j)
    BY <1>3, ArgConvertAssumption DEF Placed, Apart, Behind, Size, Data
  <2> QED
    BY <1>3, <2>1, PlacedLand
<1>7. \A p \in In("Sync") : \E j \in DOMAIN request : request[j].p = p
  BY <1>2 DEF In
<1>8. /\ "Sync" \notin KeepsHandle
      /\ \A p \in Out("Sync") : \E j \in DOMAIN result :
            result[j].p = p /\ \A m \in DOMAIN result : m # j => result[m].p # p
  BY <1>3 DEF Out, KeepsHandle
<1> QED
  BY <1>2, <1>3, <1>4, <1>5, <1>6, <1>7, <1>8 DEF Delivers, request, result, back, k

\* xLock() and xUnlock().
LEMMA LockDelivers ==
  ASSUME NEW op \in {"Lock", "Unlock"}, NEW n \in {0}
  PROVE  Delivers(op, n)
<1> DEFINE k == Convert(op, n)
           request == k.send
           result == k.reply
           back == k.back
<1>1. k = LockConvert
  BY DEF Convert, FileOnly
<1>2. /\ k.in = Handle + SizeInt /\ k.in \in Nat /\ k.recv = request
      /\ DOMAIN request = 1 .. 2
      /\ request[1].p = "id" /\ request[1].offset = 0 /\ request[1].len = Handle
      /\ request[2].p = "eFileLock" /\ request[2].offset = Handle /\ request[2].len = SizeInt
  BY <1>1, ArgConvertAssumption DEF LockConvert, Agreed, Copy, id
<1>3. /\ k.out = Handle + SizeInt /\ k.out \in Nat
      /\ DOMAIN result = 1 .. 2
      /\ result[1].p = "id" /\ result[1].offset = 0 /\ result[1].len = Handle
      /\ result[2].p = "rc" /\ result[2].offset = Handle /\ result[2].len = SizeInt
  BY <1>1, ArgConvertAssumption DEF LockConvert, Agreed, Copy, id
<1>4. back = result
  BY <1>1 DEF LockConvert, Agreed
<1> HIDE DEF request, result, back, k
<1>5. AllLand(request, k.in, n)
  <2>1. \A j \in DOMAIN request : Placed(request, k.in, n, j)
    BY <1>2, ArgConvertAssumption DEF Placed, Apart, Behind, Size, Data
  <2> QED
    BY <1>2, <2>1, PlacedLand
<1>6. AllLand(result, k.out, n)
  <2>1. \A j \in DOMAIN result : Placed(result, k.out, n, j)
    BY <1>3, ArgConvertAssumption DEF Placed, Apart, Behind, Size, Data
  <2> QED
    BY <1>3, <2>1, PlacedLand
<1>7. \A p \in In(op) : \E j \in DOMAIN request : request[j].p = p
  BY <1>2 DEF In, FileOnly
<1>8. /\ op \notin KeepsHandle
      /\ \A p \in Out(op) : \E j \in DOMAIN result :
            result[j].p = p /\ \A m \in DOMAIN result : m # j => result[m].p # p
  BY <1>3 DEF Out, KeepsHandle, FileOnly
<1> QED
  BY <1>2, <1>3, <1>4, <1>5, <1>6, <1>7, <1>8 DEF Delivers, request, result, back, k

\* xFileSize(): the size is sent as well as returned.
LEMMA FileSizeDelivers ==
  ASSUME NEW n \in {0}
  PROVE  Delivers("FileSize", n)
<1> DEFINE k == Convert("FileSize", n)
           request == k.send
           result == k.reply
           back == k.back
<1>1. k = FileSizeConvert
  BY DEF Convert, FileOnly
<1>2. /\ k.in = Handle + SizeI64 /\ k.in \in Nat /\ k.recv = request
      /\ DOMAIN request = 1 .. 2
      /\ request[1].p = "id" /\ request[1].offset = 0 /\ request[1].len = Handle
      /\ request[2].p = "pSize" /\ request[2].offset = Handle /\ request[2].len = SizeI64
  BY <1>1, ArgConvertAssumption DEF FileSizeConvert, Agreed, Copy, id
<1>3. /\ k.out = Handle + SizeI64 + SizeInt /\ k.out \in Nat
      /\ DOMAIN result = 1 .. 3
      /\ result[1].p = "id" /\ result[1].offset = 0 /\ result[1].len = Handle
      /\ result[2].p = "pSize" /\ result[2].offset = Handle /\ result[2].len = SizeI64
      /\ result[3].p = "rc" /\ result[3].offset = Handle + SizeI64 /\ result[3].len = SizeInt
  BY <1>1, ArgConvertAssumption DEF FileSizeConvert, Agreed, Copy, id
<1>4. back = result
  BY <1>1 DEF FileSizeConvert, Agreed
<1> HIDE DEF request, result, back, k
<1>5. AllLand(request, k.in, n)
  <2>1. \A j \in DOMAIN request : Placed(request, k.in, n, j)
    BY <1>2, ArgConvertAssumption DEF Placed, Apart, Behind, Size, Data
  <2> QED
    BY <1>2, <2>1, PlacedLand
<1>6. AllLand(result, k.out, n)
  <2>1. \A j \in DOMAIN result : Placed(result, k.out, n, j)
    BY <1>3, ArgConvertAssumption DEF Placed, Apart, Behind, Size, Data
  <2> QED
    BY <1>3, <2>1, PlacedLand
<1>7. \A p \in In("FileSize") : \E j \in DOMAIN request : request[j].p = p
  BY <1>2 DEF In
<1>8. /\ "FileSize" \notin KeepsHandle
      /\ \A p \in Out("FileSize") : \E j \in DOMAIN result :
            result[j].p = p /\ \A m \in DOMAIN result : m # j => result[m].p # p
  BY <1>3 DEF Out, KeepsHandle
<1> QED
  BY <1>2, <1>3, <1>4, <1>5, <1>6, <1>7, <1>8 DEF Delivers, request, result, back, k

\* xFileControl(): pArg has 512 bytes in both structures.
LEMMA FileControlDelivers ==
  ASSUME NEW n \in {0, SizeInt, SizeI64}
  PROVE  Delivers("FileControl", n)
<1> DEFINE k == Convert("FileControl", n)
           request == k.send
           result == k.reply
           back == k.back
<1>1. k = FileControlConvert(n)
  BY DEF Convert, FileOnly
<1>2. /\ k.in = Handle + Path + 2 * SizeInt /\ k.in \in Nat /\ k.recv = request
      /\ DOMAIN request = 1 .. 4
      /\ request[1].p = "id" /\ request[1].offset = 0 /\ request[1].len = Handle
      /\ request[2].p = "op" /\ request[2].offset = Handle /\ request[2].len = SizeInt
      /\ request[3].p = "pArg" /\ request[3].offset = Handle + SizeInt /\ request[3].len = n
      /\ request[4].p = "size" /\ request[4].offset = Handle + SizeInt + Path /\ request[4].len = SizeInt
  BY <1>1, ArgConvertAssumption DEF FileControlConvert, Agreed, Copy, id
<1>3. /\ k.out = Handle + Path + 2 * SizeInt /\ k.out \in Nat
      /\ DOMAIN result = 1 .. 4
      /\ result[1].p = "size" /\ result[1].offset = Handle + Path + SizeInt /\ result[1].len = SizeInt
      /\ result[2].p = "id" /\ result[2].offset = 0 /\ result[2].len = Handle
      /\ result[3].p = "pArg" /\ result[3].offset = Handle /\ result[3].len = n
      /\ result[4].p = "rc" /\ result[4].offset = Handle + Path /\ result[4].len = SizeInt
  BY <1>1, ArgConvertAssumption DEF FileControlConvert, Agreed, Copy, id
<1>4. back = result
  BY <1>1 DEF FileControlConvert, Agreed
<1> HIDE DEF request, result, back, k
<1>5. AllLand(request, k.in, n)
  <2>1. \A j \in DOMAIN request : Placed(request, k.in, n, j)
    BY <1>2, ArgConvertAssumption DEF Placed, Apart, Behind, Size, Data
  <2> QED
    BY <1>2, <2>1, PlacedLand
<1>6. AllLand(result, k.out, n)
  <2>1. \A j \in DOMAIN result : Placed(result, k.out, n, j)
    BY <1>3, ArgConvertAssumption DEF Placed, Apart, Behind, Size, Data
  <2> QED
    BY <1>3, <2>1, PlacedLand
<1>7. \A p \in In("FileControl") : \E j \in DOMAIN request : request[j].p = p
  BY <1>2 DEF In
<1>8. /\ "FileControl" \notin KeepsHandle
      /\ \A p \in Out("FileControl") : \E j \in DOMAIN result :
            result[j].p = p /\ \A m \in DOMAIN result : m # j => result[m].p # p
  BY <1>3 DEF Out, KeepsHandle
<1> QED
  BY <1>2, <1>3, <1>4, <1>5, <1>6, <1>7, <1>8 DEF Delivers, request, result, back, k

\* xSectorSize() and xDeviceCharacteristics().
LEMMA FileOnlyDelivers ==
  ASSUME NEW op \in FileOnly, NEW n \in {0}
  PROVE  Delivers(op, n)
<1> DEFINE k == Convert(op, n)
           request == k.send
           result == k.reply
           back == k.back
<1>1. k = FileOnlyConvert
  BY DEF Convert, FileOnly
<1>2. /\ k.in = Handle /\ k.in \in Nat /\ k.recv = request
      /\ DOMAIN request = 1 .. 1
      /\ request[1].p = "id" /\ request[1].offset = 0 /\ request[1].len = Handle
  BY <1>1, ArgConvertAssumption DEF FileOnlyConvert, Agreed, Copy, id
<1>3. /\ k.out = Handle + SizeInt /\ k.out \in Nat
      /\ DOMAIN result = 1 .. 2
      /\ result[1].p = "id" /\ result[1].offset = 0 /\ result[1].len = Handle
      /\ result[2].p = "rc" /\ result[2].offset = Handle /\ result[2].len = SizeInt
  BY <1>1, ArgConvertAssumption DEF FileOnlyConvert, Agreed, Copy, id
<1>4. back = result
  BY <1>1 DEF FileOnlyConvert, Agreed
<1> HIDE DEF request, result, back, k
<1>5. AllLand(request, k.in, n)
  <2>1. \A j \in DOMAIN request : Placed(request, k.in, n, j)
    BY <1>2, ArgConvertAssumption DEF Placed, Apart, Behind, Size, Data
  <2> QED
    BY <1>2, <2>1, PlacedLand
<1>6. AllLand(result, k.out, n)
  <2>1. \A j \in DOMAIN result : Placed(result, k.out, n, j)
    BY <1>3, ArgConvertAssumption DEF Placed, Apart, Behind, Size, Data
  <2> QED
    BY <1>3, <2>1, PlacedLand
<1>7. \A p \in In(op) : \E j \in DOMAIN request : request[j].p = p
  BY <1>2 DEF In, FileOnly
<1>8. /\ op \notin KeepsHandle
      /\ \A p \in Out(op) : \E j \in DOMAIN result :
            result[j].p = p /\ \A m \in DOMAIN result : m # j => result[m].p # p
  BY <1>3 DEF Out, KeepsHandle, FileOnly
<1> QED
  BY <1>2, <1>3, <1>4, <1>5, <1>6, <1>7, <1>8 DEF Delivers, request, result, back, k

\* xClose(): only rc comes back.
LEMMA CloseDelivers ==
  ASSUME NEW n \in {0}
  PROVE  Delivers("Close", n)
<1> DEFINE k == Convert("Close", n)
           request == k.send
           result == k.reply
           back == k.back
<1>1. k = CloseConvert
  BY DEF Convert, FileOnly
<1>2. /\ k.in = Handle /\ k.in \in Nat /\ k.recv = request
      /\ DOMAIN request = 1 .. 1
      /\ request[1].p = "id" /\ request[1].offset = 0 /\ request[1].len = Handle
  BY <1>1, ArgConvertAssumption DEF CloseConvert, Agreed, Copy, id
<1>3. /\ k.out = Handle + SizeInt /\ k.out \in Nat
      /\ DOMAIN result = 1 .. 1
      /\ result[1].p = "rc" /\ result[1].offset = Handle /\ result[1].len = SizeInt
  BY <1>1, ArgConvertAssumption DEF CloseConvert, Agreed, Copy, id
<1>4. back = result
  BY <1>1 DEF CloseConvert, Agreed
<1> HIDE DEF request, result, back, k
<1>5. AllLand(request, k.in, n)
  <2>1. \A j \in DOMAIN request : Placed(request, k.in, n, j)
    BY <1>2, ArgConvertAssumption DEF Placed, Apart, Behind, Size, Data
  <2> QED
    BY <1>2, <2>1, PlacedLand
<1>6. AllLand(result, k.out, n)
  <2>1. \A j \in DOMAIN result : Placed(result, k.out, n, j)
    BY <1>3, ArgConvertAssumption DEF Placed, Apart, Behind, Size, Data
  <2> QED
    BY <1>3, <2>1, PlacedLand
<1>7. \A p \in In("Close") : \E j \in DOMAIN request : request[j].p = p
  BY <1>2 DEF In
<1>8. /\ \A p \in Out("Close") : p \in {"id", "rc"}
      /\ "Close" \in KeepsHandle
  BY DEF Out, KeepsHandle
<1>9. \A j \in DOMAIN back : back[j].p = "id" => back[j].len \in 0 .. SizeI64
  BY <1>3, <1>4, ArgConvertAssumption
<1>10. /\ 1 \in DOMAIN back \cap DOMAIN result
       /\ back[1] = result[1] /\ back[1].p = "rc"
       /\ \A m \in DOMAIN back : m # 1 => back[m].p # "rc"
  BY <1>3, <1>4
<1> QED
  BY <1>2, <1>3, <1>4, <1>5, <1>6, <1>7, <1>8, <1>9, <1>10 DEF Delivers, request, result, back, k

\* xCheckReservedLock(): the result before rc.
LEMMA CheckReservedLockDelivers ==
  ASSUME NEW n \in {0}
  PROVE  Delivers("CheckReservedLock", n)
<1> DEFINE k == Convert("CheckReservedLock", n)
           request == k.send
           result == k.reply
           back == k.back
<1>1. k = CheckReservedLockConvert
  BY DEF Convert, FileOnly
<1>2. /\ k.in = Handle + SizeInt /\ k.in \in Nat /\ k.recv = request
      /\ DOMAIN request = 1 .. 2
      /\ request[1].p = "id" /\ request[1].offset = 0 /\ request[1].len = Handle
      /\ request[2].p = "pResOut" /\ request[2].offset = Handle /\ request[2].len = SizeInt
  BY <1>1, ArgConvertAssumption DEF CheckReservedLockConvert, Agreed, Copy, id
<1>3. /\ k.out = Handle + 2 * SizeInt /\ k.out \in Nat
      /\ DOMAIN result = 1 .. 3
      /\ result[1].p = "id" /\ result[1].offset = 0 /\ result[1].len = Handle
      /\ result[2].p = "pResOut" /\ result[2].offset = Handle /\ result[2].len = SizeInt
      /\ result[3].p = "rc" /\ result[3].offset = Handle + SizeInt /\ result[3].len = SizeInt
  BY <1>1, ArgConvertAssumption DEF CheckReservedLockConvert, Agreed, Copy, id
<1>4. back = result
  BY <1>1 DEF CheckReservedLockConvert, Agreed
<1> HIDE DEF request, result, back, k
<1>5. AllLand(request, k.in, n)
  <2>1. \A j \in DOMAIN request : Placed(request, k.in, n, j)
    BY <1>2, ArgConvertAssumption DEF Placed, Apart, Behind, Size, Data
  <2> QED
    BY <1>2, <2>1, PlacedLand
<1>6. AllLand(result, k.out, n)
  <2>1. \A j \in DOMAIN result : Placed(result, k.out, n, j)
    BY <1>3, ArgConvertAssumption DEF Placed, Apart, Behind, Size, Data
  <2> QED
    BY <1>3, <2>1, PlacedLand
<1>7. \A p \in In("CheckReservedLock") : \E j \in DOMAIN request : request[j].p = p
  BY <1>2 DEF In
<1>8. /\ "CheckReservedLock" \notin KeepsHandle
      /\ \A p \in Out("CheckReservedLock") : \E j \in DOMAIN result :
            result[j].p = p /\ \A m \in DOMAIN result : m # j => result[m].p # p
  BY <1>3 DEF Out, KeepsHandle
<1> QED
  BY <1>2, <1>3, <1>4, <1>5, <1>6, <1>7, <1>8 DEF Delivers, request, result, back, k

\* xFetch(): the data runs over rc in the reply.
LEMMA FetchDelivers ==
  ASSUME NEW n \in 1 .. MaxAmt
  PROVE  Delivers("Fetch", n)
<1> DEFINE k == Convert("Fetch", n)
           request == k.send
           result == k.reply
           back == k.back
<1>1. k = FetchConvert(n)
  BY DEF Convert, FileOnly
<1>2. /\ k.in = Handle + SizeI64 + SizeInt + MaxSize /\ k.in \in Nat /\ k.recv = request
      /\ DOMAIN request = 1 .. 3
      /\ request[1].p = "id" /\ request[1].offset = 0 /\ request[1].len = Handle
      /\ request[2].p = "iOff" /\ request[2].offset = Handle /\ request[2].len = SizeI64
      /\ request[3].p = "nAmt" /\ request[3].offset = Handle + SizeI64 /\ request[3].len = SizeInt
  BY <1>1, ArgConvertAssumption DEF FetchConvert, Agreed, Copy, id
<1>3. /\ k.out = Handle + MaxSize + SizeInt /\ k.out \in Nat
      /\ DOMAIN result = 1 .. 3
      /\ result[1].p = "id" /\ result[1].offset = 0 /\ result[1].len = Handle
      /\ result[2].p = "pData" /\ result[2].offset = Handle /\ result[2].len = n
      /\ result[3].p = "rc" /\ result[3].offset = Handle + MaxSize /\ result[3].len = SizeInt
  BY <1>1, ArgConvertAssumption DEF FetchConvert, Agreed, Copy, id
<1>4. back = result
  BY <1>1 DEF FetchConvert, Agreed
<1> HIDE DEF request, result, back, k
<1>5. AllLand(request, k.in, n)
  <2>1. \A j \in DOMAIN request : Placed(request, k.in, n, j)
    BY <1>2, ArgConvertAssumption DEF Placed, Apart, Behind, Size, Data
  <2> QED
    BY <1>2, <2>1, PlacedLand
<1>6. AllLand(result, k.out, n)
  <2>1. \A j \in DOMAIN result : Placed(result, k.out, n, j)
    BY <1>3, ArgConvertAssumption DEF Placed, Apart, Behind, Size, Data
  <2> QED
    BY <1>3, <2>1, PlacedLand
<1>7. \A p \in In("Fetch") : \E j \in DOMAIN request : request[j].p = p
  BY <1>2 DEF In
<1>8. /\ "Fetch" \notin KeepsHandle
      /\ \A p \in Out("Fetch") : \E j \in DOMAIN result :
            result[j].p = p /\ \A m \in DOMAIN result : m # j => result[m].p # p
  BY <1>3 DEF Out, KeepsHandle
<1> QED
  BY <1>2, <1>3, <1>4, <1>5, <1>6, <1>7, <1>8 DEF Delivers, request, result, back, k

\* xUnfetch(): the client takes only the first word of the handle back.
LEMMA UnfetchDelivers ==
  ASSUME NEW n \in {0}
  PROVE  Delivers("Unfetch", n)
<1> DEFINE k == Convert("Unfetch", n)
           request == k.send
           result == k.reply
           back == k.back
<1>1. k = UnfetchConvert
  BY DEF Convert, FileOnly
<1>2. /\ k.in = Handle + SizeI64 + SizeInt /\ k.in \in Nat /\ k.recv = request
      /\ DOMAIN request = 1 .. 3
      /\ request[1].p = "id" /\ request[1].offset = 0 /\ request[1].len = Handle
      /\ request[2].p = "iOff" /\ request[2].offset = Handle /\ request[2].len = SizeI64
      /\ request[3].p = "p_flag" /\ request[3].offset = Handle + SizeI64 /\ request[3].len = SizeInt
  BY <1>1, ArgConvertAssumption DEF UnfetchConvert, Agreed, Copy, id
<1>3. /\ k.out = Handle + SizeInt /\ k.out \in Nat
      /\ DOMAIN result = 1 .. 2
      /\ result[1].p = "id" /\ result[1].offset = 0 /\ result[1].len = Handle
      /\ result[2].p = "rc" /\ result[2].offset = Handle /\ result[2].len = SizeInt
  BY <1>1, ArgConvertAssumption DEF UnfetchConvert, Agreed, Copy, id
<1>4. /\ back[2] = result[2]
      /\ DOMAIN back = 1 .. 2
      /\ back[1].p = "id" /\ back[1].offset = 0 /\ back[1].len = SizeI64
      /\ back[2].p = "rc" /\ back[2].offset = Handle /\ back[2].len = SizeInt
  BY <1>1, ArgConvertAssumption DEF UnfetchConvert, Agreed, Copy, id
<1> HIDE DEF request, result, back, k
<1>5. AllLand(request, k.in, n)
  <2>1. \A j \in DOMAIN request : Placed(request, k.in, n, j)
    BY <1>2, ArgConvertAssumption DEF Placed, Apart, Behind, Size, Data
  <2> QED
    BY <1>2, <2>1, PlacedLand
<1>6. AllLand(result, k.out, n)
  <2>1. \A j \in DOMAIN result : Placed(result, k.out, n, j)
    BY <1>3, ArgConvertAssumption DEF Placed, Apart, Behind, Size, Data
  <2> QED
    BY <1>3, <2>1, PlacedLand
<1>7. \A p \in In("Unfetch") : \E j \in DOMAIN request : request[j].p = p
  BY <1>2 DEF In
<1>8. /\ \A p \in Out("Unfetch") : p \in {"id", "rc"}
      /\ "Unfetch" \in KeepsHandle
  BY DEF Out, KeepsHandle
<1>9. \A j \in DOMAIN back : back[j].p = "id" => back[j].len \in 0 .. SizeI64
  BY <1>3, <1>4, ArgConvertAssumption
<1>10. /\ 2 \in DOMAIN back \cap DOMAIN result
       /\ back[2] = result[2] /\ back[2].p = "rc"
       /\ \A m \in DOMAIN back : m # 2 => back[m].p # "rc"
  BY <1>3, <1>4
<1> QED
  BY <1>2, <1>3, <1>4, <1>5, <1>6, <1>7, <1>8, <1>9, <1>10 DEF Delivers, request, result, back, k

\* Every call there is, of whatever length.
LEMMA CallDelivers ==
  ASSUME NEW c \in Call
  PROVE  Delivers(c.op, c.n) /\ c.op \in Op
<1>1. c.op \in Op /\ c.n \in Length(c.op)
  BY DEF Call
<1>2. ASSUME NEW n \in 1 .. Path, NEW op \in WithPath
      PROVE  Delivers(op, n)
  <2>1. /\ Delivers("Open", n) /\ Delivers("Delete", n)
        /\ Delivers("Access", n) /\ Delivers("FullPathname", n)
    BY OpenDelivers, DeleteDelivers, AccessDelivers, FullPathnameDelivers
  <2> QED
    BY <2>1 DEF WithPath
<1>3. ASSUME NEW n \in 1 .. MaxAmt, NEW op \in WithData
      PROVE  Delivers(op, n)
  <2>1. Delivers("Read", n) /\ Delivers("Write", n) /\ Delivers("Fetch", n)
    BY ReadDelivers, WriteDelivers, FetchDelivers
  <2> QED
    BY <2>1 DEF WithData
<1>4. ASSUME NEW n \in {0}, NEW op \in Op \ (WithPath \cup WithData \cup {"FileControl"})
      PROVE  Delivers(op, n)
  <2>1. /\ Delivers("Init", n) /\ Delivers("GetLastError", n) /\ Delivers("Truncate", n)
        /\ Delivers("Sync", n) /\ Delivers("FileSize", n) /\ Delivers("Close", n)
        /\ Delivers("CheckReservedLock", n) /\ Delivers("Unfetch", n)
    BY InitDelivers, GetLastErrorDelivers, TruncateDelivers, SyncDelivers, FileSizeDelivers,
       CloseDelivers, CheckReservedLockDelivers, UnfetchDelivers
  <2>2. op \in {"Lock", "Unlock"} => Delivers(op, n)
    BY LockDelivers
  <2>3. op \in FileOnly => Delivers(op, n)
    BY FileOnlyDelivers
  <2> QED
    BY <2>1, <2>2, <2>3 DEF Op
<1>5. CASE c.op \in WithPath
  <2>1. c.n \in 1 .. Path
    BY <1>1, <1>5 DEF Length, WithPath, WithData
  <2> QED
    BY <1>1, <1>2, <1>5, <2>1
<1>6. CASE c.op \in WithData
  <2>1. c.n \in 1 .. MaxAmt
    BY <1>1, <1>6 DEF Length, WithPath, WithData
  <2> QED
    BY <1>1, <1>3, <1>6, <2>1
<1>7. CASE c.op = "FileControl"
  <2>1. c.n \in {0, SizeInt, SizeI64}
    BY <1>1, <1>7 DEF Length, WithPath, WithData
  <2>2. Delivers("FileControl", c.n)
    BY <2>1, FileControlDelivers
  <2> QED
    BY <1>1, <1>7, <2>2
<1>8. CASE c.op \notin WithPath \cup WithData \cup {"FileControl"}
  <2>1. c.n \in {0}
    BY <1>1, <1>8 DEF Length
  <2> QED
    BY <1>1, <1>4, <1>8, <2>1
<1> QED
  BY <1>5, <1>6, <1>7, <1>8

-----------------------------------------------------------------------------
(* The call, conversion by conversion. *)

\* What the client wrote into the request, and the server into the reply.
Request(c) ==
    LET k == Convert(c.op, c.n) IN Pack("client", k.send, k.in, Zero)

Result(c) ==
    LET k == Convert(c.op, c.n) IN Pack("server", k.reply, k.out, Junk)

\* The server's variables, and the memory the caller of remoteX() passed.
Variables(c) == [p \in In(c.op) |-> Owned("stack", c.op, c.n)[p]]

Passed(c) == [p \in Out(c.op) |-> Owned("client", c.op, c.n)[p]]

\* At every phase the bytes are those of the conversions made so far.
ConvertInv ==
    /\ call \in Call
    /\ phase = "sent" => wire = Request(call)
    /\ phase = "received" =>
          memory = Unpack(Variables(call), Convert(call.op, call.n).recv, Request(call))
    /\ phase = "replied" => wire = Result(call)
    /\ phase = "returned" =>
          memory = setClientRemotePMethods(
                      Unpack(Passed(call), Convert(call.op, call.n).back, Result(call)))

\* A byte of an argument arrives when the structure has room for it.
LEMMA ArgumentByte ==
  ASSUME NEW c \in Call, NEW p \in In(c.op), NEW i \in 0 .. Size(p, c.n) - 1
  PROVE  Unpack(Variables(c), Convert(c.op, c.n).recv, Request(c))[p][i] = <<"client", p, i>>
            <=> Fits(p, i)
<1> DEFINE k == Convert(c.op, c.n)
           copies == k.send
<1>1. /\ k.in \in Nat /\ AllLand(copies, k.in, c.n) /\ k.recv = copies
      /\ \E j \in DOMAIN copies : copies[j].p = p
  BY CallDelivers DEF Delivers
<1>2. Request(c) = Pack("client", copies, k.in, Zero)
  BY DEF Request
<1>3. p \in DOMAIN Variables(c) /\ i \in DOMAIN Variables(c)[p]
  BY DEF Variables, Owned
<1> HIDE DEF k, copies
<1>4. PICK j \in DOMAIN copies : copies[j].p = p
  BY <1>1
<1>5. /\ DOMAIN copies \subseteq 1 .. 4 /\ copies[j].len \in Nat /\ copies[j].len = Size(p, c.n)
      /\ \A m \in DOMAIN copies : m # j => copies[m].p # p
  BY <1>1, <1>4 DEF AllLand, Lands
<1>6. Unpack(Variables(c), copies, Request(c))[p][i] = Request(c)[copies[j].offset + i]
  BY <1>3, <1>4, <1>5, UnpackedByte
<1>7. i \in 0 .. copies[j].len - 1
  BY <1>5
<1>8. Pack("client", copies, k.in, Zero)[copies[j].offset + i] = <<"client", copies[j].p, i>>
         <=> Fits(copies[j].p, i)
  <2> DEFINE size == k.in
             n == c.n
  <2>1. size \in Nat /\ AllLand(copies, size, n)
    BY <1>1
  <2> HIDE DEF size, n
  <2>2. Pack("client", copies, size, Zero)[copies[j].offset + i] = <<"client", copies[j].p, i>>
           <=> Fits(copies[j].p, i)
    BY <1>4, <1>7, <2>1, PackedLands
  <2> QED
    BY <2>2 DEF size
<1> QED
  BY <1>1, <1>2, <1>4, <1>6, <1>8 DEF k

\* A byte of a result arrives when the structure has room for it and the client
\* takes it over: the handle after xClose() and xUnfetch() is the client's own.
LEMMA ResultByte ==
  ASSUME NEW c \in Call, NEW p \in Out(c.op), NEW i \in 0 .. Size(p, c.n) - 1,
         ~(p = "id" /\ i < SizeI64)
  PROVE  Unpack(Passed(c), Convert(c.op, c.n).back, Result(c))[p][i] = <<"server", p, i>>
            <=> Fits(p, i) /\ (p = "id" => c.op \notin KeepsHandle)
<1> DEFINE k == Convert(c.op, c.n)
           copies == k.reply
           back == k.back
<1>1. /\ k.out \in Nat /\ AllLand(copies, k.out, c.n) /\ DOMAIN back \subseteq 1 .. 4
      /\ IF p = "id" /\ c.op \in KeepsHandle
         THEN \A j \in DOMAIN back : back[j].p = "id" => back[j].len \in 0 .. SizeI64
         ELSE \E j \in DOMAIN back \cap DOMAIN copies :
                 /\ back[j] = copies[j] /\ back[j].p = p
                 /\ \A m \in DOMAIN back : m # j => back[m].p # p
  BY CallDelivers DEF Delivers
<1>2. Result(c) = Pack("server", copies, k.out, Junk)
  BY DEF Result
<1>3. /\ p \in DOMAIN Passed(c) /\ i \in DOMAIN Passed(c)[p]
      /\ Passed(c)[p][i] = <<"client", p, i>>
  BY DEF Passed, Owned
<1> HIDE DEF k, copies, back
<1>4. CASE p = "id" /\ c.op \in KeepsHandle
  <2>1. \A m \in DOMAIN back : back[m].p = p => ~(i < back[m].len)
    <3>1. SizeI64 \in Nat /\ i \in Nat
      BY ArgConvertAssumption
    <3> SUFFICES ASSUME NEW m \in DOMAIN back, back[m].p = p, i < back[m].len
                 PROVE  FALSE
      OBVIOUS
    <3>2. back[m].len \in 0 .. SizeI64
      BY <1>1, <1>4
    <3> QED
      BY <1>4, <3>1, <3>2
  <2>2. Unpack(Passed(c), back, Result(c))[p][i] = <<"client", p, i>>
    BY <1>3, <2>1, UntouchedByte
  <2> QED
    BY <1>4, <2>2 DEF k, back
<1>5. CASE ~(p = "id" /\ c.op \in KeepsHandle)
  <2>1. PICK j \in DOMAIN back \cap DOMAIN copies :
                 /\ back[j] = copies[j] /\ back[j].p = p
                 /\ \A m \in DOMAIN back : m # j => back[m].p # p
    BY <1>1, <1>5
  <2>2. copies[j].len \in Nat /\ copies[j].len = Size(p, c.n)
    BY <1>1, <2>1 DEF AllLand, Lands
  <2>3. Unpack(Passed(c), back, Result(c))[p][i] = Result(c)[copies[j].offset + i]
    BY <1>1, <1>3, <2>1, <2>2, UnpackedByte
  <2>4. i \in 0 .. copies[j].len - 1 /\ j \in DOMAIN copies
    BY <2>1, <2>2
  <2>5. Pack("server", copies, k.out, Junk)[copies[j].offset + i] = <<"server", copies[j].p, i>>
           <=> Fits(copies[j].p, i)
    <3> DEFINE size == k.out
               n == c.n
    <3>1. size \in Nat /\ AllLand(copies, size, n)
      BY <1>1
    <3> HIDE DEF size, n
    <3>2. Pack("server", copies, size, Junk)[copies[j].offset + i] = <<"server", copies[j].p, i>>
             <=> Fits(copies[j].p, i)
      BY <2>4, <3>1, PackedLands
    <3> QED
      BY <3>2 DEF size
  <2> QED
    BY <1>2, <1>5, <2>1, <2>3, <2>5 DEF k, back
<1> QED
  BY <1>4, <1>5

\* The call is the one sent, and each conversion starts from the last one.
LEMMA ConvertInvariance ==
  Spec => []ConvertInv
<1>1. Init => ConvertInv
  <2>1. [op |-> "Init", n |-> 0] \in Call
    BY DEF Call, Op, Length, WithData, WithPath
  <2> QED
    BY <2>1 DEF Init, ConvertInv
<1>2. ConvertInv /\ [Next]_vars => ConvertInv'
  <2> SUFFICES ASSUME ConvertInv, [Next]_vars
               PROVE  ConvertInv'
    OBVIOUS
  <2>1. ASSUME NEW c \in Call, Send(c)
        PROVE  ConvertInv'
    BY <2>1 DEF ConvertInv, Send, Request
  <2>2. CASE Receive
    BY <2>2 DEF ConvertInv, Receive, Variables
  <2>3. CASE Reply
    BY <2>3 DEF ConvertInv, Reply, Result
  <2>4. CASE Return
    BY <2>4 DEF ConvertInv, Return, Passed
  <2>5. CASE Done
    BY <2>5 DEF ConvertInv, Done
  <2>6. CASE UNCHANGED vars
    BY <2>6 DEF ConvertInv, vars
  <2> QED
    BY <2>1, <2>2, <2>3, <2>4, <2>5, <2>6 DEF Next
<1> QED
  BY <1>1, <1>2, PTL DEF Spec

\* Whatever the sizes, every argument of every method reaches the Unix VFS as
\* the caller passed it, but for data beyond MAX_SIZE: the offsets of the XConvertArgInToChar
\* functions agree with those of the XConvertCharToArgIn functions and do not overlap.
THEOREM ArgumentsArrive ==
  Spec => []RequestArrives
<1>1. ConvertInv => RequestArrives
  <2> SUFFICES ASSUME ConvertInv, phase = "received",
                      NEW p \in In(call.op), NEW i \in 0 .. Size(p, call.n) - 1
               PROVE  memory[p][i] = <<"client", p, i>> <=> (p = "pBuf" => i < MaxSize)
    BY DEF RequestArrives
  <2>1. memory[p][i] = <<"client", p, i>> <=> Fits(p, i)
    BY ArgumentByte DEF ConvertInv
  <2>2. p # "pData"
    BY DEF In
  <2> QED
    BY <2>1, <2>2 DEF Fits
<1> QED
  BY <1>1, ConvertInvariance, PTL

\* Whatever the sizes, every result of every method reaches the caller's memory,
\* but for the method table, data beyond MAX_SIZE, and the handle after xClose()
\* and xUnfetch(): the XConvertReturnToChar and XConvertCharToReturn functions agree.
THEOREM ResultsArrive ==
  Spec => []ReplyArrives
<1>1. ConvertInv => ReplyArrives
  <2> SUFFICES ASSUME ConvertInv, phase = "returned",
                      NEW p \in Out(call.op), NEW i \in 0 .. Size(p, call.n) - 1
               PROVE  IF p = "id" /\ i < SizeI64
                      THEN memory[p][i] = <<"remote", p, i>>
                      ELSE memory[p][i] = <<"server", p, i>> <=>
                              /\ p \in {"pBuf", "pData"} => i < MaxSize
                              /\ p = "id" => call.op \notin {"Close", "Unfetch"}
    BY DEF ReplyArrives
  <2> DEFINE file == Unpack(Passed(call), Convert(call.op, call.n).back, Result(call))
  <2>1. memory = setClientRemotePMethods(file)
    BY DEF ConvertInv
  <2>2. p \in DOMAIN file /\ i \in DOMAIN file[p]
    BY DEF Unpack, Passed, Owned
  <2>3. ~(p = "id" /\ i < SizeI64) =>
           (file[p][i] = <<"server", p, i>> <=> Fits(p, i) /\ (p = "id" => call.op \notin KeepsHandle))
    BY ResultByte DEF ConvertInv
  <2> HIDE DEF file
  <2>4. memory[p][i] = IF p = "id" /\ i < SizeI64 THEN <<"remote", p, i>> ELSE file[p][i]
    BY <2>1, <2>2 DEF setClientRemotePMethods
  <2> QED
    BY <2>3, <2>4 DEF Fits, KeepsHandle
<1> QED
  BY <1>1, ConvertInvariance, PTL
=============================================================================
