-------------------------- MODULE WriteMultiProofs --------------------------
(***************************************************************************)
(* What holds of buffered arrays for every number of tasks, variables and  *)
(* decompositions, and that buffering implements a write-back store.       *)
(***************************************************************************)
EXTENDS WriteMulti, WellFoundedInduction, TLAPS

-----------------------------------------------------------------------------
(* Arithmetic *)

(* A set of numbers has a smallest one, a bounded one a largest one.       *)

LEMMA SmallestOf ==
    ASSUME NEW T, T \subseteq Nat, T # {}
    PROVE  \E x \in T : \A y \in T : x <= y
  <1> DEFINE R == OpToRel(<, Nat)
  <1>1. IsWellFoundedOn(R, Nat)
    BY NatLessThanWellFounded
  <1>2. \A x, y \in Nat : x < y => <<x, y>> \in R
    BY DEF OpToRel
  <1> HIDE DEF R
  <1>3. PICK x \in T : \A y \in T : ~(<<y, x>> \in R)
    BY <1>1, WFMin
  <1>4. ASSUME NEW y \in T PROVE x <= y
    <2>1. x \in Nat /\ y \in Nat
      OBVIOUS
    <2>2. ~(y < x)
      BY <1>2, <1>3, <2>1
    <2> QED BY <2>1, <2>2
  <1> QED BY <1>4

LEMMA LargestOf ==
    ASSUME NEW n \in Nat, NEW T, T \subseteq 1 .. n, T # {}
    PROVE  \E x \in T : \A y \in T : y <= x
  <1> DEFINE U == {n - x : x \in T}
  <1>1. \A x \in T : x \in 1 .. n
    OBVIOUS
  <1>2. U \subseteq Nat
    BY <1>1
  <1>3. U # {}
    BY Zenon
  <1>4. PICK u \in U : \A v \in U : u <= v
    BY <1>2, <1>3, SmallestOf
  <1>5. PICK x \in T : u = n - x
    BY <1>4
  <1>6. ASSUME NEW y \in T PROVE y <= x
    <2>1. u <= n - y
      BY <1>4
    <2> QED BY <1>1, <1>5, <2>1
  <1> QED BY <1>6

(* A quotient is below m if the dividend is below m divisors. *)
LEMMA QuotientBelow ==
    ASSUME NEW a \in Nat, NEW b \in Nat \ {0}, NEW m \in Nat, a < m * b
    PROVE  a \div b \in 0 .. m - 1
  <1>1. a \div b \in Int /\ a % b \in 0 .. b - 1
    OBVIOUS
  <1>2. a = b * (a \div b) + (a % b)
    OBVIOUS
  <1>3. PICK q \in Int : q = a \div b
    BY <1>1
  <1>4. PICK r \in 0 .. b - 1 : r = a % b
    BY <1>1
  <1>5. a = b * q + r
    BY <1>2, <1>3, <1>4
  <1>6. q >= 0
    <2> SUFFICES ASSUME q <= -1 PROVE FALSE
      OBVIOUS
    <2>1. b * (q + 1) <= 0 /\ b * (q + 1) = b * q + b
      OBVIOUS
    <2> QED BY <1>5, <2>1
  <1>7. q < m
    <2> SUFFICES ASSUME q >= m PROVE FALSE
      OBVIOUS
    <2>1. b * (q - m) >= 0 /\ b * (q - m) = b * q - b * m /\ b * m = m * b
      OBVIOUS
    <2> QED BY <1>5, <2>1
  <1> QED BY <1>3, <1>6, <1>7

(* The array that the filling of iobuf reaches at the last element of      *)
(* array nv: not a later one, and this one if all tasks have as many       *)
(* elements as the largest.                                                *)
LEMMA FilledIndex ==
    ASSUME NEW nv \in Nat \ {0}, llen \in Nat \ {0}, maxiobuflen \in Nat, llen <= maxiobuflen
    PROVE  /\ 1 + ((nv * llen - 1) \div maxiobuflen) \in 1 .. nv
           /\ llen = maxiobuflen => 1 + ((nv * llen - 1) \div maxiobuflen) = nv
  <1>1. nv * llen - 1 \in Nat /\ nv * llen - 1 < nv * maxiobuflen
    <2>1. nv * llen >= 1
      OBVIOUS
    <2>2. nv * (maxiobuflen - llen) >= 0 /\ nv * (maxiobuflen - llen) = nv * maxiobuflen - nv * llen
      OBVIOUS
    <2> QED BY <2>1, <2>2
  <1>2. (nv * llen - 1) \div maxiobuflen \in 0 .. nv - 1
    <2>1. PICK a \in Nat : a = nv * llen - 1
      BY <1>1
    <2>2. maxiobuflen \in Nat \ {0} /\ a < nv * maxiobuflen
      BY <1>1, <2>1
    <2>3. a \div maxiobuflen \in 0 .. nv - 1
      BY <2>2, QuotientBelow
    <2> QED BY <2>1, <2>3
  <1>3. ASSUME llen = maxiobuflen PROVE (nv * llen - 1) \div maxiobuflen = nv - 1
    <2>1. PICK q \in 0 .. nv - 1 : q = (nv * llen - 1) \div maxiobuflen
      BY <1>2
    <2>2. nv * llen - 1 = llen * q + ((nv * llen - 1) % llen) /\ (nv * llen - 1) % llen \in 0 .. llen - 1
      BY <1>1, <1>3, <2>1
    <2>3. PICK r \in 0 .. llen - 1 : nv * llen - 1 = llen * q + r
      BY <2>2
    <2>4. llen * (nv - 1 - q) < llen
      <3>1. llen * (nv - 1 - q) = nv * llen - llen - llen * q
        OBVIOUS
      <3> QED BY <2>3, <3>1
    <2>5. ~(nv - 1 - q >= 1)
      <3> SUFFICES ASSUME nv - 1 - q >= 1 PROVE FALSE
        OBVIOUS
      <3>1. llen * (nv - 1 - q) >= llen
        OBVIOUS
      <3> QED BY <2>4, <3>1
    <2> QED BY <2>1, <2>5
  <1> QED BY <1>2, <1>3

-----------------------------------------------------------------------------
(* Writing.  G is any set of pairs of a place and an element that is       *)
(* allowed there: first the typed ones, later the right ones.              *)

LEMMA RankType ==
    ASSUME NEW rank \in Rankings
    PROVE  rank \in [1 .. Room -> 1 .. Room]
  BY DEF Rankings, Orders

(* Land puts nothing anywhere that was not there or is not written there. *)
LEMMA LandIn ==
    ASSUME NEW G, NEW f, NEW writes, NEW rank \in [1 .. Room -> 1 .. Room], Room \in Nat,
           \A p \in DOMAIN f : <<p, f[p]>> \in G,
           \A w \in writes : w.nv \in 1 .. Room /\ <<w.place, w.val>> \in G
    PROVE  /\ Land(f, writes, rank) = [p \in DOMAIN f |-> Land(f, writes, rank)[p]]
           /\ \A p \in DOMAIN f : <<p, Land(f, writes, rank)[p]>> \in G
  <1>1. Land(f, writes, rank) = [p \in DOMAIN f |-> Land(f, writes, rank)[p]]
    BY DEF Land
  <1>2. ASSUME NEW p \in DOMAIN f PROVE <<p, Land(f, writes, rank)[p]>> \in G
    <2> DEFINE here == {w \in writes : w.place = p}
               last(w) == \A x \in here : rank[x.nv] <= rank[w.nv]
    <2>1. Land(f, writes, rank)[p] = IF here = {} THEN f[p] ELSE (CHOOSE w \in here : last(w)).val
      BY DEF Land
    <2>2. CASE here = {}
      BY <2>1, <2>2
    <2>3. CASE here # {}
      <3> DEFINE ranks == {rank[w.nv] : w \in here}
      <3>1. ranks \subseteq 1 .. Room /\ ranks # {}
        BY <2>3
      <3>2. PICK m \in ranks : \A r \in ranks : r <= m
        <4> HIDE DEF ranks
        <4> QED BY <3>1, LargestOf
      <3>3. PICK w \in here : m = rank[w.nv]
        OBVIOUS
      <3>4. last(w)
        BY <3>2, <3>3
      <3>5. (CHOOSE x \in here : last(x)) \in here
        <4> HIDE DEF here, last
        <4> QED BY <3>3, <3>4, Zenon
      <3>6. PICK x \in here : Land(f, writes, rank)[p] = x.val
        <4> HIDE DEF here, last
        <4> QED BY <2>1, <2>3, <3>5, Zenon
      <3> QED BY <3>6
    <2> QED BY <2>2, <2>3
  <1> QED BY <1>1, <1>2

(* What is allowed of a set of writes. *)
Within(writes, G) == \A w \in writes : w.nv \in 1 .. Room /\ <<w.place, w.val>> \in G

(* PIOc_write_darray_multi and flush_output_buffer leave the file and the  *)
(* posted requests within G if the writes of the buffer are.               *)
LEMMA FlushIn ==
    ASSUME NEW G, NEW k, NEW flushtodisk \in BOOLEAN, Room \in Nat,
           file = [p \in Places |-> file[p]], iobuf \in BOOLEAN,
           \A p \in Places : <<p, file[p]>> \in G,
           Within(pending, G), Within(DataWrites(k), G), Within(FillWrites(k), G),
           WriteDarrayMulti(k, flushtodisk)
    PROVE  /\ file' = [p \in Places |-> file'[p]]
           /\ \A p \in Places : <<p, file'[p]>> \in G
           /\ Within(pending', G)
           /\ iobuf' \in BOOLEAN /\ aborted' \in BOOLEAN
  <1>1. PICK rank \in Rankings, earlier \in Rankings, over \in BOOLEAN :
            LET base   == IF Reuse THEN Land(file, pending, earlier) ELSE file
                now    == iotype # "pnetcdf" \/ flushtodisk \/ over
                landed == Land(base, DataWrites(k), rank)
            IN  /\ aborted' = (iobuf /\ ~Reuse)
                /\ file' = IF now THEN Land(landed, FillWrites(k), rank)
                           ELSE IF FillsLater(k) THEN landed ELSE base
                /\ pending' = IF now THEN {} ELSE IF FillsLater(k) THEN FillWrites(k) ELSE DataWrites(k)
                /\ iobuf' = ~now
    BY Zenon DEF WriteDarrayMulti
  <1> DEFINE now == iotype # "pnetcdf" \/ flushtodisk \/ over
             Fine(f) == f = [p \in Places |-> f[p]] /\ \A p \in Places : <<p, f[p]>> \in G
  <1>2. PICK base : base = IF Reuse THEN Land(file, pending, earlier) ELSE file
    OBVIOUS
  <1>3. PICK landed : landed = Land(base, DataWrites(k), rank)
    OBVIOUS
  <1>4. PICK filled : filled = Land(landed, FillWrites(k), rank)
    OBVIOUS
  <1>5. ASSUME NEW f, NEW writes, NEW r \in Rankings, Fine(f), Within(writes, G) PROVE Fine(Land(f, writes, r))
    <2>1. r \in [1 .. Room -> 1 .. Room]
      BY RankType
    <2>2. DOMAIN f = Places
      BY <1>5
    <2>3. /\ Land(f, writes, r) = [p \in DOMAIN f |-> Land(f, writes, r)[p]]
          /\ \A p \in DOMAIN f : <<p, Land(f, writes, r)[p]>> \in G
      BY <1>5, <2>1, <2>2, LandIn DEF Within
    <2> QED BY <2>2, <2>3, Zenon
  <1>6. Fine(file)
    OBVIOUS
  <1> HIDE DEF Fine
  <1>7. Fine(base)
    BY <1>2, <1>5, <1>6, Zenon
  <1>8. Fine(landed)
    BY <1>3, <1>5, <1>7, Zenon
  <1>9. Fine(filled)
    BY <1>4, <1>5, <1>8, Zenon
  <1>10. file' \in {base, landed, filled}
    BY <1>1, <1>2, <1>3, <1>4, Zenon
  <1>11. Fine(file')
    BY <1>7, <1>8, <1>9, <1>10
  <1>12. Within(pending', G)
    <2>1. Within({}, G)
      BY DEF Within
    <2>2. pending' \in {{}, FillWrites(k), DataWrites(k)}
      BY <1>1, Zenon
    <2> QED BY <2>1, <2>2, Zenon
  <1>13. iobuf' \in BOOLEAN /\ aborted' \in BOOLEAN
    BY <1>1, Zenon
  <1> QED BY <1>11, <1>12, <1>13, Zenon DEF Fine

-----------------------------------------------------------------------------
(* The inductive invariant.  A buffer never has more arrays than fit into  *)
(* one write; an entry of a buffer is what the program put: its variable   *)
(* and, where it is written to, the frame.                                 *)
Full == \A t \in Tasks, k \in Keys : Len(arrays[t][k]) <= Room

Frame(k, e) == IF fndims[e.vid] > ndims[k[1]] THEN e.frame ELSE 0
EntryOK(all, k, e) ==
    /\ e.put \in DOMAIN all
    /\ all[e.put].vid = e.vid
    /\ all[e.put].frame = Frame(k, e)
Recorded == \A t \in Tasks, k \in Keys : \A nv \in DOMAIN arrays[t][k] : EntryOK(puts, k, arrays[t][k][nv])

Buffers == TypeOK /\ BuffersAgree /\ Full /\ Recorded

Typed == Places \X Elements

LEMMA ConstantTypes ==
    /\ ioroot \in Tasks /\ Hole \notin Tasks
    /\ Room \in Nat \ {0} /\ MaxFrame \in Nat /\ MaxPuts \in Nat
    /\ \A t \in Tasks : ndof[t] \in {0, 1}
    /\ \A v \in Vars : rec_var[v] \in {0, 1} /\ fndims[v] \in Nat
    /\ \A d \in Decomps : ndims[d] \in Nat
  <1>1. ndof \in [Tasks -> {0, 1}] /\ rec_var \in [Vars -> {0, 1}] /\ fndims \in [Vars -> Nat] /\ ndims \in [Decomps -> Nat]
    BY WriteAssumption, Zenon
  <1>2. /\ ioroot \in Tasks /\ Hole \notin Tasks
        /\ Room \in Nat \ {0} /\ MaxFrame \in Nat /\ MaxPuts \in Nat
    BY WriteAssumption, Zenon
  <1> QED BY <1>1, <1>2

LEMMA VariableTypes ==
    ASSUME TypeOK
    PROVE  /\ record \in [Vars -> -1 .. MaxFrame]
           /\ arrays \in [Tasks -> [Keys -> Seq(Entries)]]
           /\ data \in [Tasks -> [Keys -> Seq(Elements)]]
           /\ order \in [Tasks -> Seq(Keys)]
           /\ file \in [Places -> Elements]
           /\ puts \in Seq([vid : Vars, frame : Frames, key : Keys])
           /\ iobuf \in BOOLEAN
  BY Zenon DEF TypeOK

LEMMA EntryType ==
    ASSUME NEW e \in Entries
    PROVE  e.vid \in Vars /\ e.frame \in -1 .. MaxFrame /\ e.put \in 1 .. MaxPuts
  BY DEF Entries

(* Where array nv of a buffer goes. *)
LEMMA PlaceOfEntry ==
    ASSUME Buffers, NEW k \in Keys, NEW nv \in Nvs(k), NEW c \in Cells
    PROVE  /\ nv \in 1 .. Room
           /\ arrays[ioroot][k][nv] \in Entries
           /\ PlaceOf(k, nv, c) \in Places
           /\ PlaceOf(k, nv, c) = <<puts[arrays[ioroot][k][nv].put].vid, puts[arrays[ioroot][k][nv].put].frame, c>>
  <1>1. arrays[ioroot][k] \in Seq(Entries) /\ ioroot \in Tasks
    BY ConstantTypes, VariableTypes DEF Buffers
  <1>2. nv \in 1 .. Room /\ nv \in DOMAIN arrays[ioroot][k]
    <2>1. Len(arrays[ioroot][k]) <= Room
      BY <1>1 DEF Buffers, Full
    <2> QED BY <1>1, <2>1, ConstantTypes DEF Nvs
  <1>3. PICK e \in Entries : e = arrays[ioroot][k][nv]
    BY <1>1, <1>2
  <1>4. EntryOK(puts, k, e)
    BY <1>1, <1>2, <1>3 DEF Buffers, Recorded
  <1>5. puts[e.put].vid \in Vars /\ puts[e.put].frame \in Frames
    <2>1. e.put \in DOMAIN puts
      BY <1>4, Zenon DEF EntryOK
    <2>2. PICK R : R = [vid : Vars, frame : Frames, key : Keys]
      OBVIOUS
    <2>3. puts \in Seq(R)
      BY <2>2, VariableTypes DEF Buffers
    <2>4. puts[e.put] \in R
      BY <2>1, <2>3
    <2> QED BY <2>2, <2>4
  <1>6. PlaceOf(k, nv, c) = <<e.vid, Frame(k, e), c>>
    BY <1>3 DEF PlaceOf, find_start_count, Frame
  <1> QED BY <1>2, <1>3, <1>4, <1>5, <1>6 DEF EntryOK, Places

(* The elements that are sent are elements. *)
LEMMA SentType ==
    ASSUME Buffers, NEW k \in Keys, NEW nv \in Nvs(k), NEW t \in Tasks
    PROVE  Sent(t, k, nv) \in Elements
  <1>1. nv \in Nat \ {0}
    <2>1. nv \in 1 .. Room
      BY PlaceOfEntry DEF Cells
    <2> QED BY <2>1, ConstantTypes
  <1>2. ndof[t] \in {0, 1} /\ data[t][k] \in Seq(Elements)
    BY ConstantTypes, VariableTypes DEF Buffers
  <1>3. Junk \in Elements
    BY DEF Elements
  <1>4. PICK i \in Nat \ {0} : i = (nv - 1) * ndof[t] + 1
    <2>1. CASE ndof[t] = 0
      BY <1>1, <2>1
    <2>2. CASE ndof[t] = 1
      BY <1>1, <2>2
    <2> QED BY <1>2, <2>1, <2>2
  <1> QED BY <1>2, <1>3, <1>4 DEF Sent

LEMMA FillsType ==
    ASSUME Buffers, NEW k \in Keys
    PROVE  Within(Fills(k), Typed)
  <1> SUFFICES ASSUME NEW nv \in Nvs(k), NEW v,
                      v = IF rearranger[k[1]] = "box" THEN FilledFor(k, nv) ELSE arrays[ioroot][k][nv].vid
               PROVE  nv \in 1 .. Room /\ <<PlaceOf(k, nv, Hole), FillOf(v)>> \in Typed
    BY DEF Fills, Within, Write
  <1>1. nv \in 1 .. Room /\ PlaceOf(k, nv, Hole) \in Places /\ arrays[ioroot][k][nv] \in Entries
    BY PlaceOfEntry DEF Cells
  <1>2. FilledFor(k, nv) \in Vars
    <2>1. PICK m : m = 1 + ((nv * llen - 1) \div maxiobuflen)
      OBVIOUS
    <2>2. m \in 1 .. nv
      <3>1. llen \in Nat \ {0} /\ maxiobuflen \in Nat /\ llen <= maxiobuflen
        BY WriteAssumption, Zenon
      <3>2. nv \in Nat \ {0}
        BY <1>1, ConstantTypes
      <3> QED BY <2>1, <3>1, <3>2, FilledIndex
    <2>3. ioroot \in Tasks /\ arrays[ioroot][k] \in Seq(Entries)
      BY ConstantTypes, VariableTypes DEF Buffers
    <2>4. nv \in 1 .. Len(arrays[ioroot][k])
      BY <2>3 DEF Nvs
    <2>5. m \in Nvs(k)
      BY <2>2, <2>3, <2>4 DEF Nvs
    <2>6. arrays[ioroot][k][m] \in Entries
      BY <2>5, PlaceOfEntry DEF Cells
    <2> QED BY <2>1, <2>6, EntryType DEF FilledFor
  <1>3. v \in Vars
    BY <1>1, <1>2, EntryType
  <1> QED BY <1>1, <1>3 DEF Typed, Elements

LEMMA WritesType ==
    ASSUME Buffers, NEW k \in Keys
    PROVE  Within(DataWrites(k), Typed) /\ Within(FillWrites(k), Typed)
  <1>1. Within(Fills(k), Typed)
    BY FillsType
  <1>2. ASSUME NEW nv \in Nvs(k), NEW t \in Tasks
        PROVE  nv \in 1 .. Room /\ <<PlaceOf(k, nv, t), Sent(t, k, nv)>> \in Typed
    BY PlaceOfEntry, SentType DEF Cells, Typed
  <1>3. Within({Write(k, x[1], x[2], Sent(x[2], k, x[1])) : x \in Nvs(k) \X {t \in Tasks : ndof[t] > 0}}, Typed)
    BY <1>2 DEF Within, Write
  <1> QED BY <1>1, <1>3 DEF DataWrites, FillWrites, Within

-----------------------------------------------------------------------------
(* The parts of the invariant that an action changes together. *)
Lists ==
    /\ arrays \in [Tasks -> [Keys -> Seq(Entries)]]
    /\ data \in [Tasks -> [Keys -> Seq(Elements)]]
    /\ order \in [Tasks -> Seq(Keys)]
    /\ puts \in Seq([vid : Vars, frame : Frames, key : Keys])
    /\ BuffersAgree /\ Full /\ Recorded
Disk ==
    /\ file \in [Places -> Elements]
    /\ Within(pending, Typed)
    /\ iobuf \in BOOLEAN /\ aborted \in BOOLEAN
Rest ==
    /\ iotype \in Iotypes
    /\ record \in [Vars -> -1 .. MaxFrame]
    /\ live \subseteq Decomps
    /\ open \in BOOLEAN
    /\ doing \in {"calls", "sync", "close"}
    /\ told \subseteq 1 .. MaxPuts /\ nomem \subseteq Tasks

LEMMA Parts == Buffers <=> Lists /\ Disk /\ Rest
  <1>1. Within(pending, Typed) <=> \A w \in pending : w.place \in Places /\ w.val \in Elements /\ w.nv \in 1 .. Room
    BY DEF Within, Typed
  <1> QED BY <1>1, Zenon DEF Buffers, TypeOK, Lists, Disk, Rest

LEMMA PartsNext == Buffers' <=> Lists' /\ Disk' /\ Rest'
  <1>1. Within(pending, Typed)' <=> (\A w \in pending : w.place \in Places /\ w.val \in Elements /\ w.nv \in 1 .. Room)'
    BY DEF Within, Typed
  <1> QED BY <1>1, Zenon DEF Buffers, TypeOK, Lists, Disk, Rest

(* As long as calls go on all tasks agree. *)
LEMMA AllAgree ==
    ASSUME Buffers, nomem = {}, NEW t \in Tasks, NEW u \in Tasks
    PROVE  arrays[t] = arrays[u] /\ order[t] = order[u]
  BY DEF Buffers, BuffersAgree

(* flush_buffer *)
LEMMA FlushDisk ==
    ASSUME Buffers, NEW k \in Keys, NEW flushtodisk \in BOOLEAN, FlushBuffer(k, flushtodisk)
    PROVE  Disk'
  <1>1. Disk /\ Room \in Nat
    BY Parts, ConstantTypes
  <1>2. CASE UNCHANGED <<file, pending, iobuf, aborted>>
    BY <1>1, <1>2 DEF Disk, Within
  <1>3. CASE WriteDarrayMulti(k, flushtodisk)
    <2>1. PICK G : G = Typed
      OBVIOUS
    <2>2. file = [p \in Places |-> file[p]] /\ iobuf \in BOOLEAN /\ Within(pending, G)
      BY <1>1, <2>1 DEF Disk
    <2>3. \A p \in Places : <<p, file[p]>> \in G
      BY <1>1, <2>1 DEF Disk, Typed
    <2>4. Within(DataWrites(k), G) /\ Within(FillWrites(k), G)
      BY WritesType, <2>1
    <2>5. /\ file' = [p \in Places |-> file'[p]]
          /\ \A p \in Places : <<p, file'[p]>> \in G
          /\ Within(pending', G)
          /\ iobuf' \in BOOLEAN /\ aborted' \in BOOLEAN
      BY <1>1, <1>3, <2>2, <2>3, <2>4, FlushIn
    <2>6. file' \in [Places -> Elements]
      <3>1. \A p \in Places : file'[p] \in Elements
        BY <2>1, <2>5 DEF Typed
      <3> QED BY <2>5, <3>1
    <2> QED BY <2>1, <2>5, <2>6 DEF Disk, Typed
  <1> QED BY <1>2, <1>3 DEF FlushBuffer

(* The result of the MPI_Allreduce is one value for all tasks, and it is   *)
(* not 0 if one of them has a full buffer.                                 *)
LEMMA NeedOfAll ==
    ASSUME Buffers, NEW k \in Keys, NEW refused
    PROVE  \E m \in {0, 1, 2} :
               /\ needsflush(k, refused) = [t \in Tasks |-> m]
               /\ \A t \in Tasks : 1 + Len(arrays[t][k]) > Room => m = 2
  <1> DEFINE needs == {OwnNeed(t, k, refused) : t \in Tasks}
             most(m) == \A n \in needs : n <= m
  <1>1. needs \subseteq {0, 1, 2} /\ needs # {}
    BY ConstantTypes DEF OwnNeed
  <1>2. \E m \in needs : most(m)
    <2> HIDE DEF needs
    <2>1. CASE 2 \in needs
      BY <1>1, <2>1
    <2>2. CASE 2 \notin needs /\ 1 \in needs
      BY <1>1, <2>2
    <2>3. CASE 2 \notin needs /\ 1 \notin needs
      <3>1. PICK m \in needs : TRUE
        BY <1>1
      <3>2. \A n \in needs : n = 0
        BY <1>1, <2>3
      <3> QED BY <3>1, <3>2
    <2> QED BY <2>1, <2>2, <2>3
  <1>3. PICK m : m = CHOOSE x \in needs : most(x)
    OBVIOUS
  <1>4. m \in needs /\ most(m)
    <2> HIDE DEF needs, most
    <2> QED BY <1>2, <1>3, Zenon
  <1>5. needsflush(k, refused) = [t \in Tasks |-> m]
    <2>1. needsflush(k, refused) = [t \in Tasks |-> CHOOSE x \in needs : most(x)]
      BY DEF needsflush
    <2> HIDE DEF needs, most
    <2> QED BY <1>3, <2>1, Zenon
  <1>6. ASSUME NEW t \in Tasks, 1 + Len(arrays[t][k]) > Room PROVE m = 2
    <2>1. 2 \in needs
      BY <1>6 DEF OwnNeed
    <2>2. m \in {0, 1, 2}
      BY <1>1, <1>4
    <2>3. 2 <= m
      BY <1>4, <2>1
    <2> QED BY <2>2, <2>3
  <1>7. m \in {0, 1, 2}
    BY <1>1, <1>4
  <1> QED BY <1>5, <1>6, <1>7

LEMMA GrownType ==
    ASSUME NEW old \in Seq(Elements), NEW num \in Nat, NEW t \in Tasks, NEW excess \in Nat, NEW n \in 1 .. MaxPuts
    PROVE  Grown(old, num, t, excess, n) \in Seq(Elements)
  <1>1. PICK len \in Nat : len = ndof[t] + excess
    BY ConstantTypes
  <1>2. PICK size \in Nat : size = (num + 1) * len
    BY <1>1
  <1> DEFINE E(i) == IF i > num * len THEN IF i <= num * len + ndof[t] THEN PutOf(n) ELSE Junk
                     ELSE IF i <= Len(old) THEN old[i] ELSE Junk
  <1>3. Grown(old, num, t, excess, n) = [i \in 1 .. size |-> E(i)]
    BY <1>1, <1>2, Zenon DEF Grown
  <1>4. PutOf(n) \in Elements /\ Junk \in Elements
    BY DEF Elements
  <1>5. ASSUME NEW i \in 1 .. size PROVE E(i) \in Elements
    <2>1. i <= Len(old) => old[i] \in Elements
      BY <1>2
    <2> QED BY <1>4, <2>1, Zenon
  <1> HIDE DEF E
  <1>6. [i \in 1 .. size |-> E(i)] \in Seq(Elements)
    BY <1>2, <1>5
  <1> QED BY <1>3, <1>6

(* PIOc_write_darray: the array is appended to the buffers of all tasks    *)
(* that have memory for it.                                                *)
LEMMA StoreLists ==
    ASSUME Buffers, NEW d \in Decomps, NEW v \in Vars, NEW excess \in Nat, NEW refused, NEW short \in SUBSET Tasks,
           Putting(d, v, excess, refused), Store(d, v, excess, needsflush(Key(d, v), refused), short)
    PROVE  Lists'
  <1> DEFINE k == Key(d, v)
             n == Len(puts) + 1
             entry == [vid |-> v, frame |-> record[v], put |-> n]
             new == [vid |-> v, frame |-> IF record[v] >= 0 THEN record[v] ELSE 0, key |-> k]
             need == needsflush(k, refused)
             old(t) == IF need[t] > 0 THEN <<>> ELSE arrays[t][k]
             olddata(t) == IF need[t] > 0 THEN <<>> ELSE data[t][k]
             R == [vid : Vars, frame : Frames, key : Keys]
             stored(t) == IF t \in short THEN old(t) ELSE Append(old(t), entry)
             grown(t) == IF t \in short THEN olddata(t) ELSE Grown(olddata(t), Len(old(t)), t, excess, n)
  <1>1. k \in Keys
    BY ConstantTypes DEF Key, Keys
  <1>2. /\ arrays \in [Tasks -> [Keys -> Seq(Entries)]]
        /\ data \in [Tasks -> [Keys -> Seq(Elements)]]
        /\ order \in [Tasks -> Seq(Keys)]
        /\ puts \in Seq(R)
        /\ record[v] \in -1 .. MaxFrame
    BY VariableTypes DEF Buffers
  <1>3. n \in 1 .. MaxPuts
    BY <1>2, ConstantTypes DEF Putting
  <1>4. entry \in Entries
    BY <1>2, <1>3 DEF Entries
  <1>5. new \in R
    BY <1>1, <1>2, ConstantTypes DEF Frames
  <1>6. PICK m \in {0, 1, 2} : need = [t \in Tasks |-> m] /\ \A t \in Tasks : 1 + Len(arrays[t][k]) > Room => m = 2
    BY <1>1, NeedOfAll
  <1>7. /\ arrays' = [t \in Tasks |-> [arrays[t] EXCEPT ![k] = stored(t)]]
        /\ data' = [t \in Tasks |-> [data[t] EXCEPT ![k] = grown(t)]]
        /\ order' = [t \in Tasks |->
                        IF \E i \in DOMAIN order[t] : order[t][i] = k THEN order[t] ELSE Append(order[t], k)]
        /\ puts' = Append(puts, new)
        /\ nomem' = short
    BY DEF Store
  <1>8. \A t \in Tasks : old(t) = IF m > 0 THEN <<>> ELSE arrays[t][k]
    BY <1>6, Zenon
  <1>9. \A t \in Tasks : olddata(t) = IF m > 0 THEN <<>> ELSE data[t][k]
    BY <1>6, Zenon
  <1> HIDE DEF k, n, entry, new, need, old, olddata, R, stored, grown
  <1>10. \A t \in Tasks : old(t) \in Seq(Entries) /\ olddata(t) \in Seq(Elements)
    <2> TAKE t \in Tasks
    <2>1. arrays[t][k] \in Seq(Entries) /\ data[t][k] \in Seq(Elements)
      BY <1>1, <1>2
    <2>2. <<>> \in Seq(Entries) /\ <<>> \in Seq(Elements)
      OBVIOUS
    <2> QED BY <1>8, <1>9, <2>1, <2>2, Zenon
  <1>11. arrays' \in [Tasks -> [Keys -> Seq(Entries)]]
    <2>1. \A t \in Tasks : stored(t) \in Seq(Entries)
      BY <1>4, <1>10 DEF stored
    <2> QED BY <1>2, <1>7, <2>1
  <1>12. data' \in [Tasks -> [Keys -> Seq(Elements)]]
    <2>1. ASSUME NEW t \in Tasks PROVE grown(t) \in Seq(Elements)
      <3>1. Len(old(t)) \in Nat
        BY <1>10
      <3>2. Grown(olddata(t), Len(old(t)), t, excess, n) \in Seq(Elements)
        BY <1>3, <1>10, <3>1, GrownType
      <3> QED BY <1>10, <3>2, Zenon DEF grown
    <2> QED BY <1>2, <1>7, <2>1
  <1>13. order' \in [Tasks -> Seq(Keys)]
    <2>1. \A t \in Tasks : Append(order[t], k) \in Seq(Keys) /\ order[t] \in Seq(Keys)
      BY <1>1, <1>2
    <2> QED BY <1>7, <2>1
  <1>14. puts' \in Seq(R)
    BY <1>2, <1>5, <1>7
  <1>15. BuffersAgree'
    <2> SUFFICES ASSUME NEW t \in Tasks, NEW u \in Tasks, t \notin short, u \notin short
                 PROVE  arrays'[t] = arrays'[u] /\ order'[t] = order'[u]
      BY <1>7, Zenon DEF BuffersAgree
    <2>1. arrays[t] = arrays[u] /\ order[t] = order[u]
      BY AllAgree DEF Putting, Ready, Going
    <2>2. old(t) = old(u)
      BY <1>8, <2>1
    <2>3. arrays'[t] = [arrays[t] EXCEPT ![k] = Append(old(t), entry)] /\ arrays'[u] = [arrays[u] EXCEPT ![k] = Append(old(u), entry)]
      BY <1>7, Zenon DEF stored
    <2>4. order'[t] = order'[u]
      BY <1>7, <2>1, Zenon
    <2> QED BY <2>1, <2>2, <2>3, <2>4, Zenon
  <1>16. \A t \in Tasks, j \in Keys : arrays'[t][j] = IF j = k THEN stored(t) ELSE arrays[t][j]
    <2> TAKE t \in Tasks, j \in Keys
    <2>1. arrays'[t] = [arrays[t] EXCEPT ![k] = stored(t)]
      BY <1>7, Zenon
    <2>2. arrays[t] \in [Keys -> Seq(Entries)]
      BY <1>2
    <2> QED BY <1>1, <2>1, <2>2
  <1>17. Full'
    <2> SUFFICES ASSUME NEW t \in Tasks, NEW j \in Keys PROVE Len(arrays'[t][j]) <= Room
      BY DEF Full
    <2>1. CASE j # k
      BY <1>16, <2>1 DEF Buffers, Full
    <2>2. CASE j = k
      <3>1. Len(arrays'[t][j]) \in {Len(old(t)), Len(old(t)) + 1} /\ Len(old(t)) \in Nat
        <4>1. PICK s \in Seq(Entries) : s = old(t)
          BY <1>10
        <4>2. arrays'[t][j] \in {s, Append(s, entry)}
          BY <1>16, <2>2, <4>1 DEF stored
        <4> QED BY <1>4, <4>1, <4>2
      <3>2. CASE m > 0
        <4>1. Len(old(t)) = 0
          <5>1. old(t) = <<>>
            BY <1>8, <3>2, Zenon
          <5> QED BY <5>1
        <4>2. PICK length \in {0, 1} : length = Len(arrays'[t][j])
          BY <3>1, <4>1
        <4>3. Room \in Nat /\ 1 <= Room
          BY ConstantTypes
        <4>4. length <= Room
          BY <4>3
        <4> QED BY <4>2, <4>4
      <3>3. CASE ~(m > 0)
        <4>1. old(t) = arrays[t][k] /\ Len(arrays[t][k]) \in Nat
          BY <1>1, <1>2, <1>8, <3>3
        <4>2. ~(1 + Len(arrays[t][k]) > Room)
          BY <1>6, <3>3
        <4> QED BY <3>1, <4>1, <4>2, ConstantTypes
      <3> QED BY <3>2, <3>3
    <2> QED BY <2>1, <2>2
  <1>18. EntryOK(puts', k, entry)
    <2>1. puts'[n] = new /\ n \in DOMAIN puts'
      BY <1>2, <1>5, <1>7 DEF n
    <2>2. (fndims[v] > ndims[d]) = (record[v] >= 0) /\ k[1] = d
      BY DEF Putting, HasFrame, k, Key
    <2> QED BY <2>1, <2>2 DEF EntryOK, Frame, entry, new
  <1>19. Recorded'
    <2> SUFFICES ASSUME NEW t \in Tasks, NEW j \in Keys, NEW nv \in DOMAIN arrays'[t][j]
                 PROVE  EntryOK(puts', j, arrays'[t][j][nv])
      BY Zenon DEF Recorded
    <2>1. ASSUME NEW e, EntryOK(puts, j, e) PROVE EntryOK(puts', j, e)
      <3>1. e.put \in DOMAIN puts' /\ puts'[e.put] = puts[e.put]
        <4>1. PICK i : i = e.put
          OBVIOUS
        <4>2. i \in DOMAIN puts
          BY <2>1, <4>1, Zenon DEF EntryOK
        <4>3. i \in DOMAIN puts' /\ puts'[i] = puts[i]
          BY <1>2, <1>5, <1>7, <4>2
        <4> QED BY <4>1, <4>3
      <3> QED BY <2>1, <3>1 DEF EntryOK
    <2>2. ASSUME NEW i \in DOMAIN arrays[t][j] PROVE EntryOK(puts', j, arrays[t][j][i])
      BY <2>1, Zenon DEF Buffers, Recorded
    <2>3. CASE j # k
      BY <1>16, <2>2, <2>3
    <2>4. CASE j = k
      <3>1. arrays'[t][j] \in {old(t), Append(old(t), entry)} /\ old(t) \in Seq(Entries)
        BY <1>10, <1>16, <2>4 DEF stored
      <3>2. nv \in DOMAIN old(t) \/ nv = Len(old(t)) + 1
        BY <1>4, <3>1
      <3>3. CASE nv = Len(old(t)) + 1
        <4>1. arrays'[t][j][nv] = entry
          BY <1>4, <3>1, <3>3
        <4> QED BY <1>18, <2>4, <4>1
      <3>4. CASE nv \in DOMAIN old(t)
        <4>1. arrays'[t][j][nv] = old(t)[nv]
          BY <1>4, <3>1, <3>4
        <4>2. old(t) = arrays[t][k]
          BY <1>8, <3>4
        <4> QED BY <2>2, <2>4, <3>4, <4>1, <4>2
      <3> QED BY <3>2, <3>3, <3>4
    <2> QED BY <2>3, <2>4
  <1> QED BY <1>11, <1>12, <1>13, <1>14, <1>15, <1>17, <1>19 DEF Lists, R

(* A buffer is emptied on all tasks. *)
LEMMA EmptiedLists ==
    ASSUME Buffers, nomem = {}, UNCHANGED nomem, NEW k \in Keys,
           arrays' = [t \in Tasks |-> [arrays[t] EXCEPT ![k] = <<>>]],
           data' = [t \in Tasks |-> [data[t] EXCEPT ![k] = <<>>]],
           order' \in [Tasks -> Seq(Keys)],
           \A t, u \in Tasks : order'[t] = order'[u],
           UNCHANGED puts
    PROVE  Lists'
  <1>1. /\ arrays \in [Tasks -> [Keys -> Seq(Entries)]]
        /\ data \in [Tasks -> [Keys -> Seq(Elements)]]
        /\ puts \in Seq([vid : Vars, frame : Frames, key : Keys])
    BY VariableTypes DEF Buffers
  <1>2. <<>> \in Seq(Entries) /\ <<>> \in Seq(Elements)
    OBVIOUS
  <1>3. arrays' \in [Tasks -> [Keys -> Seq(Entries)]]
    BY <1>1, <1>2
  <1>4. data' \in [Tasks -> [Keys -> Seq(Elements)]]
    BY <1>1, <1>2
  <1>5. \A t \in Tasks, j \in Keys : arrays'[t][j] = IF j = k THEN <<>> ELSE arrays[t][j]
    <2> TAKE t \in Tasks, j \in Keys
    <2>1. arrays'[t] = [arrays[t] EXCEPT ![k] = <<>>]
      BY Zenon
    <2>2. arrays[t] \in [Keys -> Seq(Entries)]
      BY <1>1
    <2> QED BY <2>1, <2>2
  <1>6. BuffersAgree'
    <2> SUFFICES ASSUME NEW t \in Tasks, NEW u \in Tasks PROVE arrays'[t] = arrays'[u]
      BY Zenon DEF BuffersAgree
    <2>1. arrays[t] = arrays[u]
      BY AllAgree
    <2>2. arrays'[t] = [arrays[t] EXCEPT ![k] = <<>>] /\ arrays'[u] = [arrays[u] EXCEPT ![k] = <<>>]
      BY Zenon
    <2> QED BY <2>1, <2>2, Zenon
  <1>7. Full'
    <2> SUFFICES ASSUME NEW t \in Tasks, NEW j \in Keys PROVE Len(arrays'[t][j]) <= Room
      BY DEF Full
    <2>1. Len(arrays[t][j]) <= Room
      BY Zenon DEF Buffers, Full
    <2>2. CASE j # k
      BY <1>5, <2>1, <2>2
    <2>3. CASE j = k
      <3>1. arrays'[t][j] = <<>>
        BY <1>5, <2>3
      <3> QED BY <3>1, ConstantTypes
    <2> QED BY <2>2, <2>3
  <1>8. Recorded'
    <2> SUFFICES ASSUME NEW t \in Tasks, NEW j \in Keys, NEW nv \in DOMAIN arrays'[t][j]
                 PROVE  EntryOK(puts, j, arrays'[t][j][nv])
      BY Zenon DEF Recorded
    <2>1. j # k
      <3> SUFFICES ASSUME j = k PROVE FALSE
        OBVIOUS
      <3>1. arrays'[t][j] = <<>>
        BY <1>5
      <3> QED BY <3>1
    <2>2. arrays'[t][j] = arrays[t][j]
      BY <1>5, <2>1
    <2> QED BY <2>2, Zenon DEF Buffers, Recorded
  <1> QED BY <1>1, <1>3, <1>4, <1>6, <1>7, <1>8 DEF Lists

LEMMA BuffersInit == Init => Buffers
  <1> SUFFICES ASSUME Init PROVE Buffers
    OBVIOUS
  <1>1. <<>> \in Seq(Entries) /\ <<>> \in Seq(Elements) /\ <<>> \in Seq(Keys)
        /\ <<>> \in Seq([vid : Vars, frame : Frames, key : Keys])
    OBVIOUS
  <1>2. arrays = [t \in Tasks |-> Empty] /\ data = [t \in Tasks |-> Empty]
        /\ order = [t \in Tasks |-> <<>>] /\ puts = <<>>
    BY Zenon DEF Init
  <1>3. \A t \in Tasks, k \in Keys : arrays[t][k] = <<>>
    BY <1>2 DEF Empty
  <1>4. arrays \in [Tasks -> [Keys -> Seq(Entries)]] /\ data \in [Tasks -> [Keys -> Seq(Elements)]]
    BY <1>1, <1>2 DEF Empty
  <1>5. BuffersAgree
    BY <1>2 DEF BuffersAgree
  <1>6. Full
    BY <1>3, ConstantTypes DEF Full
  <1>7. Recorded
    BY <1>3 DEF Recorded
  <1>8. Lists
    BY <1>1, <1>2, <1>4, <1>5, <1>6, <1>7 DEF Lists
  <1>9. Disk
    <2>1. None \in Elements
      BY DEF Elements
    <2> QED BY <2>1 DEF Init, Disk, Within
  <1>10. Rest
    BY ConstantTypes DEF Init, Rest
  <1> QED BY <1>8, <1>9, <1>10, Parts

(* The arrays, the file and the other variables, left alone. *)
LEMMA ListsStay ==
    ASSUME Lists, UNCHANGED <<arrays, data, order, puts, nomem>>
    PROVE  Lists'
  BY Zenon DEF Lists, BuffersAgree, Full, Recorded
LEMMA DiskStays ==
    ASSUME Disk, UNCHANGED <<file, pending, iobuf, aborted>>
    PROVE  Disk'
  BY Zenon DEF Disk

(* flush_output_buffer *)
LEMMA WaitDisk ==
    ASSUME Buffers, flush_output_buffer, UNCHANGED aborted
    PROVE  Disk'
  <1>1. Disk /\ Room \in Nat
    BY Parts, ConstantTypes
  <1>2. PICK rank \in Rankings : file' = Land(file, pending, rank)
    BY Zenon DEF flush_output_buffer
  <1>3. PICK G : G = Typed
    OBVIOUS
  <1>4. file \in [Places -> Elements] /\ Within(pending, G)
    BY <1>1, <1>3 DEF Disk
  <1>5. DOMAIN file = Places /\ \A p \in DOMAIN file : <<p, file[p]>> \in G
    BY <1>3, <1>4 DEF Typed
  <1>6. rank \in [1 .. Room -> 1 .. Room]
    BY RankType
  <1>7. /\ Land(file, pending, rank) = [p \in DOMAIN file |-> Land(file, pending, rank)[p]]
        /\ \A p \in DOMAIN file : <<p, Land(file, pending, rank)[p]>> \in G
    BY <1>1, <1>4, <1>5, <1>6, LandIn DEF Within
  <1>8. file' = [p \in Places |-> file'[p]] /\ \A p \in Places : <<p, file'[p]>> \in G
    BY <1>2, <1>5, <1>7, Zenon
  <1>9. \A p \in Places : file'[p] \in Elements
    BY <1>3, <1>8 DEF Typed
  <1>10. file' \in [Places -> Elements]
    BY <1>8, <1>9
  <1>11. Within({}, Typed)
    BY DEF Within
  <1> QED BY <1>1, <1>10, <1>11 DEF flush_output_buffer, Disk

LEMMA KeyType ==
    ASSUME NEW d \in Decomps, NEW v \in Vars
    PROVE  Key(d, v) \in Keys
  BY ConstantTypes DEF Key, Keys

LEMMA BuffersNext == Buffers /\ [Next]_vars => Buffers'
  <1> SUFFICES ASSUME Buffers, [Next]_vars PROVE Buffers'
    OBVIOUS
  <1>1. Lists /\ Disk /\ Rest
    BY Parts
  <1>2. record \in [Vars -> -1 .. MaxFrame] /\ MaxFrame \in Nat
    BY VariableTypes, ConstantTypes DEF Buffers
  <1>3. ASSUME NEW v \in Vars, NEW frame \in Frames, PIOc_setframe(v, frame) PROVE Buffers'
    <2>1. record' \in [Vars -> -1 .. MaxFrame]
      BY <1>2, <1>3 DEF PIOc_setframe, Frames
    <2>2. Rest'
      BY <1>1, <1>3, <2>1 DEF PIOc_setframe, Rest
    <2>3. Lists' /\ Disk'
      BY <1>1, <1>3, ListsStay, DiskStays DEF PIOc_setframe
    <2> QED BY <2>2, <2>3, PartsNext
  <1>4. ASSUME NEW v \in Vars, PIOc_advanceframe(v) PROVE Buffers'
    <2>1. record' \in [Vars -> -1 .. MaxFrame]
      BY <1>2, <1>4 DEF PIOc_advanceframe
    <2>2. Rest'
      BY <1>1, <1>4, <2>1 DEF PIOc_advanceframe, Rest
    <2>3. Lists' /\ Disk'
      BY <1>1, <1>4, ListsStay, DiskStays DEF PIOc_advanceframe
    <2> QED BY <2>2, <2>3, PartsNext
  <1>5. ASSUME NEW d \in Decomps, NEW v \in Vars, NEW excess \in 0 .. Excess, NEW refused \in SUBSET Tasks,
               NEW short \in SUBSET Tasks, PIOc_write_darray(d, v, excess, refused, short)
        PROVE  Buffers'
    <2>1. /\ Putting(d, v, excess, refused)
          /\ Store(d, v, excess, needsflush(Key(d, v), refused), short)
          /\ UNCHANGED <<iotype, record, live, doing, open>>
          /\ \/ FlushBuffer(Key(d, v), needsflush(Key(d, v), refused)[ioroot] = 2)
             \/ UNCHANGED <<file, pending, iobuf, aborted>>
      BY <1>5, Zenon DEF PIOc_write_darray
    <2>2. Lists'
      <3>1. excess \in Nat
        <4>1. Excess \in Nat
          BY WriteAssumption, Zenon
        <4> QED BY <4>1
      <3> QED BY <2>1, <3>1, StoreLists
    <2>3. Disk'
      <3>1. CASE UNCHANGED <<file, pending, iobuf, aborted>>
        BY <1>1, <3>1, DiskStays
      <3>2. CASE FlushBuffer(Key(d, v), needsflush(Key(d, v), refused)[ioroot] = 2)
        BY <3>2, KeyType, FlushDisk
      <3> QED BY <2>1, <3>1, <3>2
    <2>4. Rest'
      <3>1. Len(puts) + 1 \in 1 .. MaxPuts
        BY <2>1, VariableTypes, ConstantTypes DEF Putting, Buffers
      <3>2. nomem' = short /\ told' \subseteq told \cup {Len(puts) + 1}
        BY <2>1 DEF Store
      <3> QED BY <1>1, <2>1, <3>1, <3>2 DEF Rest
    <2> QED BY <2>2, <2>3, <2>4, PartsNext
  <1>6. ASSUME NEW d \in Decomps, NEW v \in Vars, NEW excess \in 0 .. Excess, NEW refused \in SUBSET Tasks,
               WriteDarrayFails(d, v, excess, refused)
        PROVE  Buffers'
    <2>1. PICK k \in Keys : k = Key(d, v)
      BY KeyType
    <2>2. /\ arrays' = [t \in Tasks |-> [arrays[t] EXCEPT ![k] = <<>>]]
          /\ data' = [t \in Tasks |-> [data[t] EXCEPT ![k] = <<>>]]
          /\ told' = told \cup {arrays[ioroot][k][nv].put : nv \in Nvs(k)}
          /\ UNCHANGED <<iotype, record, live, order, file, pending, iobuf, doing, open, puts, nomem, aborted>>
          /\ nomem = {}
      BY <1>6, <2>1, Zenon DEF WriteDarrayFails, Putting, Ready, Going
    <2>3. Lists'
      <3>1. order' \in [Tasks -> Seq(Keys)] /\ \A t, u \in Tasks : order'[t] = order'[u]
        BY <2>2, AllAgree, Zenon DEF Buffers, TypeOK
      <3> QED BY <2>2, <3>1, EmptiedLists
    <2>4. Disk'
      BY <1>1, <2>2, DiskStays
    <2>5. Rest'
      <3>1. \A nv \in Nvs(k) : arrays[ioroot][k][nv].put \in 1 .. MaxPuts
        BY PlaceOfEntry, EntryType DEF Cells
      <3> QED BY <1>1, <2>2, <3>1 DEF Rest
    <2> QED BY <2>3, <2>4, <2>5, PartsNext
  <1>7. ASSUME NEW d \in Decomps, PIOc_freedecomp(d) PROVE Buffers'
    <2>1. Rest'
      BY <1>1, <1>7 DEF PIOc_freedecomp, Rest
    <2>2. Lists' /\ Disk'
      BY <1>1, <1>7, ListsStay, DiskStays DEF PIOc_freedecomp
    <2> QED BY <2>1, <2>2, PartsNext
  <1>8. ASSUME NEW call \in {"sync", "close"}, Begin(call) PROVE Buffers'
    <2>1. Rest'
      BY <1>1, <1>8 DEF Begin, Rest
    <2>2. Lists' /\ Disk'
      BY <1>1, <1>8, ListsStay, DiskStays DEF Begin
    <2> QED BY <2>1, <2>2, PartsNext
  <1>9. ASSUME SyncBuffer PROVE Buffers'
    <2>1. PICK k : k = Head(order[ioroot])
      OBVIOUS
    <2>2. /\ order[ioroot] # <<>>
          /\ FlushBuffer(k, TRUE)
          /\ arrays' = [t \in Tasks |-> [arrays[t] EXCEPT ![k] = <<>>]]
          /\ data' = [t \in Tasks |-> [data[t] EXCEPT ![k] = <<>>]]
          /\ order' = [t \in Tasks |-> Tail(order[t])]
          /\ UNCHANGED <<iotype, record, live, doing, open, puts, told, nomem>>
          /\ nomem = {}
      BY <1>9, <2>1, Zenon DEF SyncBuffer, Going
    <2>3. order \in [Tasks -> Seq(Keys)] /\ ioroot \in Tasks /\ \A t \in Tasks : order[t] = order[ioroot]
      BY <2>2, VariableTypes, ConstantTypes, AllAgree, Zenon DEF Buffers
    <2>4. k \in Keys
      BY <2>1, <2>2, <2>3
    <2>5. order' \in [Tasks -> Seq(Keys)]
      <3>1. Tail(order[ioroot]) \in Seq(Keys)
        BY <2>2, <2>3
      <3>2. \A t \in Tasks : Tail(order[t]) = Tail(order[ioroot])
        BY <2>3, Zenon
      <3> QED BY <2>2, <3>1, <3>2
    <2>6. \A t, u \in Tasks : order'[t] = order'[u]
      BY <2>2, <2>3, Zenon
    <2>7. Lists'
      BY <2>2, <2>4, <2>5, <2>6, EmptiedLists
    <2>8. Disk'
      BY <2>2, <2>4, FlushDisk
    <2>9. Rest'
      BY <1>1, <2>2 DEF Rest
    <2> QED BY <2>7, <2>8, <2>9, PartsNext
  <1>10. ASSUME EndSync PROVE Buffers'
    <2>1. Rest'
      BY <1>1, <1>10 DEF EndSync, Rest
    <2>2. Lists'
      BY <1>1, <1>10, ListsStay DEF EndSync
    <2>3. Disk'
      BY <1>10, WaitDisk DEF EndSync
    <2> QED BY <2>1, <2>2, <2>3, PartsNext
  <1>11. CASE UNCHANGED vars
    <2>1. Rest'
      BY <1>1, <1>11 DEF vars, Rest
    <2>2. Lists' /\ Disk'
      BY <1>1, <1>11, ListsStay, DiskStays DEF vars
    <2> QED BY <2>1, <2>2, PartsNext
  <1>12. ASSUME NEW d \in Decomps, NEW v \in Vars, NEW short \in SUBSET Tasks, WriteDarrayUnbuffered(d, v, short)
         PROVE  Buffers'
    <2>1. PICK k \in Keys : k = Key(d, v)
      BY KeyType
    <2>2. /\ nomem = {} /\ nomem' = short
          /\ order' = [t \in Tasks |-> IF t \in short THEN order[t] ELSE Append(order[t], k)]
          /\ UNCHANGED <<iotype, record, live, arrays, data, file, pending, iobuf, doing, open,
                         puts, told, aborted>>
      BY <1>12, <2>1, Zenon DEF WriteDarrayUnbuffered, Putting, Ready, Going
    <2>3. order' \in [Tasks -> Seq(Keys)]
      <3>1. \A t \in Tasks : order[t] \in Seq(Keys) /\ Append(order[t], k) \in Seq(Keys)
        BY VariableTypes DEF Buffers
      <3> QED BY <2>2, <3>1
    <2>4. BuffersAgree'
      <3> SUFFICES ASSUME NEW t \in Tasks, NEW u \in Tasks, t \notin short, u \notin short
                   PROVE  arrays[t] = arrays[u] /\ order'[t] = order'[u]
        BY <2>2, Zenon DEF BuffersAgree
      <3>1. arrays[t] = arrays[u] /\ order[t] = order[u]
        BY <2>2, AllAgree
      <3> QED BY <2>2, <3>1, Zenon
    <2>5. Lists'
      BY <1>1, <2>2, <2>3, <2>4, Zenon DEF Lists, Full, Recorded
    <2>6. Disk'
      BY <1>1, <2>2, DiskStays
    <2>7. Rest'
      BY <1>1, <2>2 DEF Rest
    <2> QED BY <2>5, <2>6, <2>7, PartsNext
  <1> QED BY <1>3, <1>4, <1>5, <1>6, <1>7, <1>8, <1>9, <1>10, <1>11, <1>12, Zenon DEF Next

(* The buffers, the file and the counters stay well typed, for any number  *)
(* of tasks, variables and decompositions.                                 *)
THEOREM TypeCorrect == Spec => []TypeOK
  <1>1. Buffers => TypeOK
    BY DEF Buffers
  <1> QED BY <1>1, BuffersInit, BuffersNext, PTL DEF Spec

(* The tasks hold the same arrays in the same buffers, whichever of them   *)
(* run out of memory and when (MPI_Allreduce in PIOc_write_darray); only a *)
(* task that has no memory after the flush either falls behind the others. *)
THEOREM TasksAgree == Spec => []BuffersAgree
  <1>1. Buffers => BuffersAgree
    BY DEF Buffers
  <1> QED BY <1>1, BuffersInit, BuffersNext, PTL DEF Spec

-----------------------------------------------------------------------------
(* The buffer on the I/O tasks.  It is in use after a call only with       *)
(* pnetcdf, so that the next write finds it free or waits for it.          *)
Held == IobufHeld /\ iobuf \in BOOLEAN /\ (iobuf => iotype = "pnetcdf")

LEMMA FlushHeld ==
    ASSUME Held, NEW k, NEW flushtodisk \in BOOLEAN, FlushBuffer(k, flushtodisk), UNCHANGED iotype
    PROVE  Held'
  <1>1. CASE UNCHANGED <<file, pending, iobuf, aborted>>
    BY <1>1, Zenon DEF Held, IobufHeld
  <1>2. CASE WriteDarrayMulti(k, flushtodisk)
    <2>1. PICK over \in BOOLEAN :
              LET now == iotype # "pnetcdf" \/ flushtodisk \/ over
              IN  /\ aborted' = (iobuf /\ ~Reuse)
                  /\ pending' = IF now THEN {} ELSE IF FillsLater(k) THEN FillWrites(k) ELSE DataWrites(k)
                  /\ iobuf' = ~now
      BY <1>2, Zenon DEF WriteDarrayMulti
    <2>2. ~aborted'
      BY <2>1, Zenon DEF Held, Reuse
    <2>3. iobuf' \in BOOLEAN /\ (iobuf' => iotype = "pnetcdf") /\ (pending' # {} => iobuf')
      BY <2>1, Zenon
    <2> QED BY <2>2, <2>3, Zenon DEF Held, IobufHeld
  <1> QED BY <1>1, <1>2 DEF FlushBuffer

LEMMA HeldInit == Init => Held
  BY Zenon DEF Init, Held, IobufHeld

LEMMA HeldNext == Held /\ [Next]_vars => Held'
  <1> SUFFICES ASSUME Held, [Next]_vars PROVE Held'
    OBVIOUS
  <1>1. ASSUME UNCHANGED <<iotype, pending, iobuf, aborted>> PROVE Held'
    BY <1>1, Zenon DEF Held, IobufHeld
  <1>2. ASSUME NEW d, NEW v, NEW excess, NEW refused, NEW short, PIOc_write_darray(d, v, excess, refused, short) PROVE Held'
    <2>1. CASE UNCHANGED <<file, pending, iobuf, aborted>>
      BY <1>1, <1>2, <2>1, Zenon DEF PIOc_write_darray
    <2>2. CASE FlushBuffer(Key(d, v), needsflush(Key(d, v), refused)[ioroot] = 2)
      <3>1. UNCHANGED iotype
        BY <1>2, Zenon DEF PIOc_write_darray
      <3> QED BY <2>2, <3>1, FlushHeld
    <2> QED BY <1>2, <2>1, <2>2, Zenon DEF PIOc_write_darray
  <1>3. ASSUME SyncBuffer PROVE Held'
    <2>1. FlushBuffer(Head(order[ioroot]), TRUE) /\ UNCHANGED iotype
      BY <1>3, Zenon DEF SyncBuffer
    <2> QED BY <2>1, FlushHeld
  <1>4. ASSUME EndSync PROVE Held'
    BY <1>4, Zenon DEF EndSync, flush_output_buffer, Held, IobufHeld
  <1>5. ASSUME NEW v, NEW d, NEW short, WriteDarrayUnbuffered(d, v, short) PROVE Held'
    BY <1>1, <1>5, Zenon DEF WriteDarrayUnbuffered
  <1>6. ASSUME NEW d, NEW v, NEW excess, NEW refused, WriteDarrayFails(d, v, excess, refused) PROVE Held'
    BY <1>1, <1>6, Zenon DEF WriteDarrayFails
  <1>7. CASE \/ \E v \in Vars, frame \in Frames : PIOc_setframe(v, frame)
             \/ \E v \in Vars : PIOc_advanceframe(v)
             \/ \E d \in Decomps : PIOc_freedecomp(d)
             \/ \E call \in {"sync", "close"} : Begin(call)
             \/ UNCHANGED vars
    BY <1>1, <1>7, Zenon DEF vars, PIOc_setframe, PIOc_advanceframe, PIOc_freedecomp, Begin
  <1> QED BY <1>2, <1>3, <1>4, <1>5, <1>6, <1>7, Zenon DEF Next

(* No assertion about iobuf fails and no posted request loses its memory   *)
(* ("buffer overwrite" in PIOc_write_darray_multi), for any program.       *)
THEOREM IobufIsHeld == Spec => []IobufHeld
  <1>1. Held => IobufHeld
    BY DEF Held
  <1> QED BY <1>1, HeldInit, HeldNext, PTL DEF Spec

-----------------------------------------------------------------------------
(* Every element in its place.  The arrays of a task lie ndof elements     *)
(* apart if the program's arrays are as long as the decomposition says;    *)
(* the fill values of a box lie with the arrays they are for if the I/O    *)
(* tasks have equally many elements.                                       *)
Exact ==
    /\ Excess = 0
    /\ \A d \in Decomps : needsfill[d] /\ rearranger[d] = "box" => llen = maxiobuflen

Right(all, place, e) ==
    \/ e = None
    \/ place[3] = Hole /\ e = FillOf(place[1])
    \/ /\ place[3] # Hole
       /\ \E n \in DOMAIN all : all[n].vid = place[1] /\ all[n].frame = place[2] /\ e = PutOf(n)
Rights(all) == {g \in Places \X Elements : Right(all, g[1], g[2])}

(* The data in a buffer are those of its arrays. *)
Aligned ==
    \A t \in Tasks, k \in Keys : ndof[t] = 1 =>
        /\ Len(data[t][k]) = Len(arrays[t][k])
        /\ \A i \in DOMAIN arrays[t][k] : data[t][k][i] = PutOf(arrays[t][k][i].put)

InPlace ==
    /\ Aligned
    /\ \A p \in Places : <<p, file[p]>> \in Rights(puts)
    /\ Within(pending, Rights(puts))

(* The fill value of an array is that of its variable. *)
LEMMA FilledExact ==
    ASSUME Exact, NEW k, k[1] \in Decomps, needsfill[k[1]], rearranger[k[1]] = "box", NEW nv \in Nat \ {0}
    PROVE  FilledFor(k, nv) = arrays[ioroot][k][nv].vid
  <1>1. llen = maxiobuflen
    BY Zenon DEF Exact
  <1>2. llen \in Nat \ {0} /\ maxiobuflen \in Nat
    BY WriteAssumption, Zenon
  <1>3. 1 + ((nv * llen - 1) \div maxiobuflen) = nv
    BY <1>1, <1>2, FilledIndex
  <1> QED BY <1>3 DEF FilledFor

LEMMA FillsRight ==
    ASSUME Exact, Buffers, NEW k \in Keys, needsfill[k[1]]
    PROVE  Within(Fills(k), Rights(puts))
  <1> SUFFICES ASSUME NEW nv \in Nvs(k), NEW v,
                      v = IF rearranger[k[1]] = "box" THEN FilledFor(k, nv) ELSE arrays[ioroot][k][nv].vid
               PROVE  nv \in 1 .. Room /\ <<PlaceOf(k, nv, Hole), FillOf(v)>> \in Rights(puts)
    BY DEF Fills, Within, Write
  <1>1. PICK e : e = arrays[ioroot][k][nv]
    OBVIOUS
  <1>2. nv \in 1 .. Room /\ PlaceOf(k, nv, Hole) \in Places /\ e \in Entries
    BY <1>1, PlaceOfEntry DEF Cells
  <1>3. v = e.vid
    <2>1. k[1] \in Decomps /\ nv \in Nat \ {0}
      BY <1>2, ConstantTypes DEF Keys
    <2> QED BY <1>1, <2>1, FilledExact
  <1>4. FillOf(v) \in Elements
    BY <1>2, <1>3, EntryType DEF Elements
  <1>5. PlaceOf(k, nv, Hole) = <<e.vid, find_start_count(k, nv), Hole>>
    BY <1>1, Zenon DEF PlaceOf
  <1>6. Right(puts, PlaceOf(k, nv, Hole), FillOf(v))
    BY <1>3, <1>5 DEF Right
  <1> QED BY <1>2, <1>4, <1>6 DEF Rights

(* A task sends the element that it put. *)
LEMMA SentExact ==
    ASSUME Buffers, nomem = {}, Aligned, NEW k \in Keys, NEW nv \in Nvs(k), NEW t \in Tasks, ndof[t] > 0
    PROVE  /\ arrays[ioroot][k][nv].put \in DOMAIN puts
           /\ Sent(t, k, nv) = PutOf(arrays[ioroot][k][nv].put)
  <1>1. PICK e : e = arrays[ioroot][k][nv]
    OBVIOUS
  <1>2. nv \in 1 .. Room
    BY PlaceOfEntry DEF Cells
  <1>3. arrays[t] = arrays[ioroot] /\ ioroot \in Tasks
    BY ConstantTypes, AllAgree, Zenon
  <1>4. nv \in DOMAIN arrays[t][k] /\ arrays[t][k][nv] = e
    BY <1>1, <1>3 DEF Nvs
  <1>5. e.put \in DOMAIN puts
    BY <1>4, Zenon DEF Buffers, Recorded, EntryOK
  <1>6. ndof[t] = 1
    BY ConstantTypes
  <1>7. Len(data[t][k]) = Len(arrays[t][k]) /\ data[t][k][nv] = PutOf(e.put)
    BY <1>4, <1>6, Zenon DEF Aligned
  <1>8. nv \in 1 .. Len(data[t][k])
    <2>1. arrays[t][k] \in Seq(Entries)
      BY VariableTypes DEF Buffers
    <2> QED BY <1>4, <1>7, <2>1
  <1>9. (nv - 1) * ndof[t] + 1 = nv
    BY <1>2, <1>6, ConstantTypes
  <1>10. Sent(t, k, nv) = PutOf(e.put)
    BY <1>7, <1>8, <1>9 DEF Sent
  <1> QED BY <1>1, <1>5, <1>10

LEMMA WritesRight ==
    ASSUME Exact, Buffers, nomem = {}, InPlace, NEW k \in Keys
    PROVE  Within(DataWrites(k), Rights(puts)) /\ Within(FillWrites(k), Rights(puts))
  <1>1. needsfill[k[1]] => Within(Fills(k), Rights(puts))
    BY FillsRight
  <1>2. ASSUME NEW nv \in Nvs(k), NEW t \in Tasks, ndof[t] > 0
        PROVE  nv \in 1 .. Room /\ <<PlaceOf(k, nv, t), Sent(t, k, nv)>> \in Rights(puts)
    <2>1. PICK e : e = arrays[ioroot][k][nv]
      OBVIOUS
    <2>2. /\ nv \in 1 .. Room /\ PlaceOf(k, nv, t) \in Places /\ Sent(t, k, nv) \in Elements
          /\ PlaceOf(k, nv, t) = <<puts[e.put].vid, puts[e.put].frame, t>>
      BY <2>1, PlaceOfEntry, SentType DEF Cells
    <2>3. e.put \in DOMAIN puts /\ Sent(t, k, nv) = PutOf(e.put) /\ t # Hole
      BY <1>2, <2>1, SentExact, ConstantTypes, Zenon DEF InPlace
    <2>4. Right(puts, PlaceOf(k, nv, t), Sent(t, k, nv))
      BY <2>2, <2>3 DEF Right
    <2> QED BY <2>2, <2>4 DEF Rights
  <1>3. Within({Write(k, x[1], x[2], Sent(x[2], k, x[1])) : x \in Nvs(k) \X {t \in Tasks : ndof[t] > 0}}, Rights(puts))
    BY <1>2 DEF Within, Write
  <1> QED BY <1>1, <1>3 DEF DataWrites, FillWrites, FillsLater, Within

(* What is right stays right when arrays are put. *)
LEMMA RightsGrow ==
    ASSUME NEW R, NEW all \in Seq(R), NEW new \in R
    PROVE  Rights(all) \subseteq Rights(Append(all, new))
  <1> SUFFICES ASSUME NEW g \in Places \X Elements, Right(all, g[1], g[2]) PROVE Right(Append(all, new), g[1], g[2])
    BY DEF Rights
  <1>1. \A n \in DOMAIN all : n \in DOMAIN Append(all, new) /\ Append(all, new)[n] = all[n]
    OBVIOUS
  <1> QED BY <1>1, Zenon DEF Right

(* The file after a flush, by the rights of before. *)
LEMMA FlushRight ==
    ASSUME Exact, Buffers, nomem = {}, InPlace, NEW k \in Keys, NEW flushtodisk \in BOOLEAN, FlushBuffer(k, flushtodisk)
    PROVE  (\A p \in Places : <<p, file'[p]>> \in Rights(puts)) /\ Within(pending', Rights(puts))
  <1>1. PICK G : G = Rights(puts)
    OBVIOUS
  <1>2. (\A p \in Places : <<p, file[p]>> \in G) /\ Within(pending, G)
    BY <1>1, Zenon DEF InPlace
  <1>3. CASE UNCHANGED <<file, pending, iobuf, aborted>>
    BY <1>1, <1>2, <1>3, Zenon
  <1>4. CASE WriteDarrayMulti(k, flushtodisk)
    <2>1. Within(DataWrites(k), G) /\ Within(FillWrites(k), G)
      BY <1>1, WritesRight
    <2>2. file = [p \in Places |-> file[p]] /\ iobuf \in BOOLEAN
      BY VariableTypes DEF Buffers
    <2>3. (\A p \in Places : <<p, file'[p]>> \in G) /\ Within(pending', G)
      BY <1>2, <1>4, <2>1, <2>2, ConstantTypes, FlushIn
    <2> QED BY <1>1, <2>3
  <1> QED BY <1>3, <1>4 DEF FlushBuffer

(* The data of a buffer after an array of exactly ndof elements. *)
LEMMA GrownExact ==
    ASSUME NEW old \in Seq(Elements), NEW t \in Tasks, ndof[t] = 1, NEW n \in 1 .. MaxPuts
    PROVE  Grown(old, Len(old), t, 0, n) = Append(old, PutOf(n))
  <1>1. Len(old) \in Nat
    OBVIOUS
  <1>2. PICK num \in Nat : num = Len(old)
    BY <1>1
  <1> DEFINE E(i) == IF i > num * 1 THEN IF i <= num * 1 + 1 THEN PutOf(n) ELSE Junk
                     ELSE IF i <= num THEN old[i] ELSE Junk
  <1>3. ndof[t] + 0 = 1 /\ (num + 1) * 1 = num + 1
    OBVIOUS
  <1>4. Grown(old, num, t, 0, n) = [i \in 1 .. num + 1 |-> E(i)]
    <2>1. Grown(old, num, t, 0, n) =
              [i \in 1 .. (num + 1) * (ndof[t] + 0) |->
                  IF i > num * (ndof[t] + 0) THEN IF i <= num * (ndof[t] + 0) + ndof[t] THEN PutOf(n) ELSE Junk
                  ELSE IF i <= Len(old) THEN old[i] ELSE Junk]
      BY Zenon DEF Grown
    <2>2. PICK l : l = ndof[t] + 0 /\ l = 1
      BY <1>3
    <2>3. Grown(old, num, t, 0, n) =
              [i \in 1 .. (num + 1) * l |->
                  IF i > num * l THEN IF i <= num * l + ndof[t] THEN PutOf(n) ELSE Junk
                  ELSE IF i <= Len(old) THEN old[i] ELSE Junk]
      BY <2>1, <2>2, Zenon
    <2> QED BY <1>2, <1>3, <2>2, <2>3, Zenon
  <1>5. \A i \in 1 .. num + 1 : E(i) = IF i = num + 1 THEN PutOf(n) ELSE old[i]
    OBVIOUS
  <1>6. PICK x \in Elements : x = PutOf(n)
    BY DEF Elements
  <1>7. Append(old, x) = [i \in 1 .. num + 1 |-> IF i = num + 1 THEN x ELSE old[i]]
    <2>1. PICK a : a = Append(old, x)
      OBVIOUS
    <2>2. a \in Seq(Elements) /\ Len(a) = num + 1
      BY <1>2, <1>6, <2>1
    <2>3. a = [i \in 1 .. num + 1 |-> a[i]]
      BY <2>2
    <2>4. \A i \in 1 .. num + 1 : a[i] = IF i = num + 1 THEN x ELSE old[i]
      BY <1>2, <1>6, <2>1
    <2> QED BY <2>1, <2>3, <2>4, Zenon
  <1> HIDE DEF E
  <1>8. [i \in 1 .. num + 1 |-> E(i)] = [i \in 1 .. num + 1 |-> IF i = num + 1 THEN PutOf(n) ELSE old[i]]
    BY <1>5, Zenon
  <1> QED BY <1>2, <1>4, <1>6, <1>7, <1>8, Zenon

LEMMA StoreAligned ==
    ASSUME Exact, Buffers, Aligned, NEW d \in Decomps, NEW v \in Vars, NEW excess \in 0 .. Excess, NEW refused, NEW short,
           Putting(d, v, excess, refused), Store(d, v, excess, needsflush(Key(d, v), refused), short)
    PROVE  Aligned'
  <1> DEFINE k == Key(d, v)
             n == Len(puts) + 1
             entry == [vid |-> v, frame |-> record[v], put |-> n]
             need == needsflush(k, refused)
             old(t) == IF need[t] > 0 THEN <<>> ELSE arrays[t][k]
             olddata(t) == IF need[t] > 0 THEN <<>> ELSE data[t][k]
             stored(t) == IF t \in short THEN old(t) ELSE Append(old(t), entry)
             grown(t) == IF t \in short THEN olddata(t) ELSE Grown(olddata(t), Len(old(t)), t, excess, n)
  <1>1. k \in Keys
    BY KeyType
  <1>2. /\ arrays' = [t \in Tasks |-> [arrays[t] EXCEPT ![k] = stored(t)]]
        /\ data' = [t \in Tasks |-> [data[t] EXCEPT ![k] = grown(t)]]
    BY DEF Store
  <1>3. \A t \in Tasks : (old(t) = <<>> /\ olddata(t) = <<>>) \/ (old(t) = arrays[t][k] /\ olddata(t) = data[t][k])
    BY Zenon
  <1>4. excess = 0
    BY DEF Exact
  <1>5. entry.put = n
    OBVIOUS
  <1> HIDE DEF k, n, entry, need, old, olddata, stored, grown
  <1> SUFFICES ASSUME NEW t \in Tasks, NEW j \in Keys, ndof[t] = 1
               PROVE  /\ Len(data'[t][j]) = Len(arrays'[t][j])
                      /\ \A i \in DOMAIN arrays'[t][j] : data'[t][j][i] = PutOf(arrays'[t][j][i].put)
    BY Zenon DEF Aligned
  <1>6. arrays[t] \in [Keys -> Seq(Entries)] /\ data[t] \in [Keys -> Seq(Elements)]
    BY VariableTypes DEF Buffers
  <1>7. \A i \in Keys : /\ Len(data[t][i]) = Len(arrays[t][i])
                         /\ \A x \in DOMAIN arrays[t][i] : data[t][i][x] = PutOf(arrays[t][i][x].put)
    BY Zenon DEF Aligned
  <1>8. arrays'[t] = [arrays[t] EXCEPT ![k] = stored(t)] /\ data'[t] = [data[t] EXCEPT ![k] = grown(t)]
    BY <1>2, Zenon
  <1>9. CASE j # k
    <2>1. arrays'[t][j] = arrays[t][j] /\ data'[t][j] = data[t][j]
      BY <1>6, <1>8, <1>9
    <2> QED BY <1>7, <2>1, Zenon
  <1>10. CASE j = k
    <2>1. PICK a \in Seq(Entries) : a = old(t)
      <3>1. <<>> \in Seq(Entries) /\ arrays[t][k] \in Seq(Entries)
        BY <1>1, <1>6
      <3> QED BY <1>3, <3>1, Zenon
    <2>2. PICK b \in Seq(Elements) : b = olddata(t)
      <3>1. <<>> \in Seq(Elements) /\ data[t][k] \in Seq(Elements)
        BY <1>1, <1>6
      <3> QED BY <1>3, <3>1, Zenon
    <2>3. Len(b) = Len(a)
      BY <1>1, <1>3, <1>7, <2>1, <2>2, Zenon
    <2>4. \A x \in DOMAIN a : b[x] = PutOf(a[x].put)
      <3>1. CASE a = <<>>
        BY <3>1
      <3>2. CASE a = arrays[t][k] /\ b = data[t][k]
        BY <1>1, <1>7, <3>2, Zenon
      <3> QED BY <1>3, <2>1, <2>2, <3>1, <3>2, Zenon
    <2>5. arrays'[t][j] = stored(t) /\ data'[t][j] = grown(t)
      BY <1>1, <1>6, <1>8, <1>10
    <2>6. CASE t \in short
      <3>1. arrays'[t][j] = a /\ data'[t][j] = b
        BY <2>1, <2>2, <2>5, <2>6, Zenon DEF stored, grown
      <3> QED BY <2>3, <2>4, <3>1, Zenon
    <2>7. CASE t \notin short
      <3>1. arrays'[t][j] = Append(a, entry)
        BY <2>1, <2>5, <2>7, Zenon DEF stored
      <3>2. data'[t][j] = Append(b, PutOf(n))
        <4>1. Grown(b, Len(b), t, 0, n) = Append(b, PutOf(n))
          <5>1. n \in 1 .. MaxPuts
            BY VariableTypes, ConstantTypes DEF Buffers, Putting, n
          <5> QED BY <5>1, GrownExact
        <4>2. data'[t][j] = Grown(olddata(t), Len(old(t)), t, 0, n)
          BY <1>4, <2>5, <2>7, Zenon DEF grown
        <4> QED BY <2>1, <2>2, <2>3, <4>1, <4>2, Zenon
      <3>3. PICK x : x = PutOf(n)
        OBVIOUS
      <3>4. Len(data'[t][j]) = Len(arrays'[t][j])
        BY <2>3, <3>1, <3>2
      <3>5. ASSUME NEW i \in DOMAIN arrays'[t][j] PROVE data'[t][j][i] = PutOf(arrays'[t][j][i].put)
        <4>1. i \in DOMAIN a \/ i = Len(a) + 1
          BY <3>1, <3>5
        <4>2. CASE i \in DOMAIN a
          <5>1. arrays'[t][j][i] = a[i]
            BY <3>1, <4>2
          <5>2. data'[t][j][i] = b[i]
            BY <2>3, <3>2, <4>2
          <5> QED BY <2>4, <4>2, <5>1, <5>2, Zenon
        <4>3. CASE i = Len(a) + 1
          <5>1. arrays'[t][j][i] = entry
            BY <3>1, <4>3
          <5>2. data'[t][j][i] = PutOf(n)
            BY <2>3, <3>2, <4>3
          <5> QED BY <1>5, <5>1, <5>2, Zenon
        <4> QED BY <4>1, <4>2, <4>3
      <3> QED BY <3>4, <3>5
    <2> QED BY <2>6, <2>7
  <1> QED BY <1>9, <1>10

LEMMA EmptiedAligned ==
    ASSUME Buffers, Aligned, NEW k \in Keys,
           arrays' = [t \in Tasks |-> [arrays[t] EXCEPT ![k] = <<>>]],
           data' = [t \in Tasks |-> [data[t] EXCEPT ![k] = <<>>]]
    PROVE  Aligned'
  <1> SUFFICES ASSUME NEW t \in Tasks, NEW j \in Keys, ndof[t] = 1
               PROVE  /\ Len(data'[t][j]) = Len(arrays'[t][j])
                      /\ \A i \in DOMAIN arrays'[t][j] : data'[t][j][i] = PutOf(arrays'[t][j][i].put)
    BY Zenon DEF Aligned
  <1>1. arrays[t] \in [Keys -> Seq(Entries)] /\ data[t] \in [Keys -> Seq(Elements)]
    BY VariableTypes DEF Buffers
  <1>2. arrays'[t] = [arrays[t] EXCEPT ![k] = <<>>] /\ data'[t] = [data[t] EXCEPT ![k] = <<>>]
    BY Zenon
  <1>3. CASE j = k
    <2>1. arrays'[t][j] = <<>> /\ data'[t][j] = <<>>
      BY <1>1, <1>2, <1>3
    <2>2. Len(data'[t][j]) = Len(arrays'[t][j])
      BY <2>1, Zenon
    <2>3. DOMAIN arrays'[t][j] = {}
      BY <2>1
    <2> QED BY <2>2, <2>3, Zenon
  <1>4. CASE j # k
    <2>1. arrays'[t][j] = arrays[t][j] /\ data'[t][j] = data[t][j]
      BY <1>1, <1>2, <1>4
    <2>2. /\ Len(data[t][j]) = Len(arrays[t][j])
          /\ \A i \in DOMAIN arrays[t][j] : data[t][j][i] = PutOf(arrays[t][j][i].put)
      BY Zenon DEF Aligned
    <2> QED BY <2>1, <2>2, Zenon
  <1> QED BY <1>3, <1>4

LEMMA InPlaceInit == Init => InPlace
  <1> SUFFICES ASSUME Init PROVE InPlace
    OBVIOUS
  <1>1. \A t \in Tasks, k \in Keys : arrays[t][k] = <<>> /\ data[t][k] = <<>>
    BY DEF Init, Empty
  <1>2. Aligned
    BY <1>1 DEF Aligned
  <1>3. file = [p \in Places |-> None] /\ pending = {}
    BY Zenon DEF Init
  <1>4. None \in Elements
    BY DEF Elements
  <1> QED BY <1>2, <1>3, <1>4 DEF InPlace, Rights, Right, Within

LEMMA InPlaceNext ==
    ASSUME Exact
    PROVE  Buffers /\ InPlace /\ [Next]_vars => InPlace'
  <1> SUFFICES ASSUME Buffers, InPlace, [Next]_vars PROVE InPlace'
    OBVIOUS
  <1>1. ASSUME UNCHANGED <<arrays, data, file, pending, puts>> PROVE InPlace'
    BY <1>1, Zenon DEF InPlace, Aligned
  <1>2. ASSUME NEW d \in Decomps, NEW v \in Vars, NEW excess \in 0 .. Excess, NEW refused \in SUBSET Tasks,
               NEW short \in SUBSET Tasks, PIOc_write_darray(d, v, excess, refused, short)
        PROVE  InPlace'
    <2>1. /\ Putting(d, v, excess, refused)
          /\ Store(d, v, excess, needsflush(Key(d, v), refused), short)
          /\ \/ FlushBuffer(Key(d, v), needsflush(Key(d, v), refused)[ioroot] = 2)
             \/ UNCHANGED <<file, pending, iobuf, aborted>>
      BY <1>2, Zenon DEF PIOc_write_darray
    <2>2. Aligned'
      BY <2>1, StoreAligned DEF InPlace
    <2>3. (\A p \in Places : <<p, file'[p]>> \in Rights(puts)) /\ Within(pending', Rights(puts))
      <3>1. CASE UNCHANGED <<file, pending, iobuf, aborted>>
        BY <3>1, Zenon DEF InPlace
      <3>2. CASE FlushBuffer(Key(d, v), needsflush(Key(d, v), refused)[ioroot] = 2)
        BY <2>1, <3>2, KeyType, FlushRight DEF Putting, Ready, Going
      <3> QED BY <2>1, <3>1, <3>2
    <2>4. Rights(puts) \subseteq Rights(puts')
      <3>1. PICK R : R = [vid : Vars, frame : Frames, key : Keys]
        OBVIOUS
      <3>2. puts \in Seq(R) /\ record[v] \in -1 .. MaxFrame
        BY <3>1, VariableTypes DEF Buffers
      <3>3. PICK new : puts' = Append(puts, new) /\ new = [vid |-> v, frame |-> IF record[v] >= 0 THEN record[v] ELSE 0, key |-> Key(d, v)]
        BY <2>1, Zenon DEF Store
      <3>4. new \in R
        BY <3>1, <3>2, <3>3, KeyType, ConstantTypes DEF Frames
      <3> QED BY <3>2, <3>3, <3>4, RightsGrow
    <2>5. (\A p \in Places : <<p, file'[p]>> \in Rights(puts')) /\ Within(pending', Rights(puts'))
      BY <2>3, <2>4 DEF Within
    <2> QED BY <2>2, <2>5, Zenon DEF InPlace
  <1>3. ASSUME NEW d \in Decomps, NEW v \in Vars, NEW excess \in 0 .. Excess, NEW refused \in SUBSET Tasks,
               WriteDarrayFails(d, v, excess, refused)
        PROVE  InPlace'
    <2>1. Aligned'
      BY <1>3, KeyType, EmptiedAligned DEF WriteDarrayFails, InPlace
    <2>2. UNCHANGED <<file, pending, puts>>
      BY <1>3, Zenon DEF WriteDarrayFails
    <2> QED BY <2>1, <2>2, Zenon DEF InPlace
  <1>4. ASSUME SyncBuffer PROVE InPlace'
    <2>1. PICK k : k = Head(order[ioroot])
      OBVIOUS
    <2>2. /\ order[ioroot] # <<>>
          /\ FlushBuffer(k, TRUE)
          /\ arrays' = [t \in Tasks |-> [arrays[t] EXCEPT ![k] = <<>>]]
          /\ data' = [t \in Tasks |-> [data[t] EXCEPT ![k] = <<>>]]
          /\ UNCHANGED puts
          /\ nomem = {}
      BY <1>4, <2>1, Zenon DEF SyncBuffer, Going
    <2>3. k \in Keys
      <3>1. order[ioroot] \in Seq(Keys)
        BY VariableTypes, ConstantTypes DEF Buffers
      <3> QED BY <2>1, <2>2, <3>1
    <2>4. Aligned'
      BY <2>2, <2>3, EmptiedAligned DEF InPlace
    <2>5. (\A p \in Places : <<p, file'[p]>> \in Rights(puts)) /\ Within(pending', Rights(puts))
      BY <2>2, <2>3, FlushRight
    <2> QED BY <2>2, <2>4, <2>5, Zenon DEF InPlace
  <1>5. ASSUME EndSync PROVE InPlace'
    <2>1. PICK rank \in Rankings : file' = Land(file, pending, rank)
      BY <1>5, Zenon DEF EndSync, flush_output_buffer
    <2>2. PICK G : G = Rights(puts)
      OBVIOUS
    <2>3. DOMAIN file = Places
      BY VariableTypes DEF Buffers
    <2>4. (\A p \in Places : <<p, file[p]>> \in G) /\ Within(pending, G)
      BY <2>2, Zenon DEF InPlace
    <2>5. rank \in [1 .. Room -> 1 .. Room] /\ Room \in Nat
      BY RankType, ConstantTypes
    <2>6. \A p \in DOMAIN file : <<p, Land(file, pending, rank)[p]>> \in G
      BY <2>3, <2>4, <2>5, LandIn DEF Within
    <2>7. \A p \in Places : <<p, file'[p]>> \in G
      BY <2>1, <2>3, <2>6, Zenon
    <2>8. pending' = {} /\ UNCHANGED <<arrays, data, puts>>
      BY <1>5, Zenon DEF EndSync, flush_output_buffer
    <2>9. Within({}, G)
      BY DEF Within
    <2>10. Aligned'
      BY <2>8, Zenon DEF InPlace, Aligned
    <2> QED BY <2>2, <2>7, <2>8, <2>9, <2>10, Zenon DEF InPlace
  <1> QED BY <1>1, <1>2, <1>3, <1>4, <1>5, Zenon
          DEF Next, vars, PIOc_setframe, PIOc_advanceframe, WriteDarrayUnbuffered, PIOc_freedecomp, Begin

(* Whatever the file holds is where it belongs: an element of an array is  *)
(* at the variable and the frame it was put for, though the program moves  *)
(* the frame on while the array waits in its buffer, though arrays of many *)
(* variables share a buffer, and in whatever order the tasks run out of    *)
(* memory and the posted requests complete; a hole has the fill value of   *)
(* its own variable.  For every number of tasks, variables, decompositions *)
(* and puts, if Exact holds.                                               *)
THEOREM EverythingInPlace ==
    ASSUME Exact
    PROVE  Spec => []RightPlace
  <1>1. Buffers /\ InPlace => RightPlace
    <2> SUFFICES ASSUME InPlace, NEW v \in Vars, NEW frame \in Frames, NEW c \in Cells
                 PROVE  file[<<v, frame, c>>] \in
                            {None} \cup IF c = Hole THEN {FillOf(v)}
                                        ELSE {PutOf(n) : n \in {m \in DOMAIN puts :
                                                    puts[m].vid = v /\ puts[m].frame = frame}}
      BY DEF RightPlace
    <2>1. <<v, frame, c>> \in Places
      BY DEF Places
    <2>2. PICK e : e = file[<<v, frame, c>>]
      OBVIOUS
    <2>3. <<<<v, frame, c>>, e>> \in Rights(puts)
      BY <2>1, <2>2, Zenon DEF InPlace
    <2>4. Right(puts, <<v, frame, c>>, e)
      BY <2>3 DEF Rights
    <2> QED BY <2>2, <2>4 DEF Right
  <1>2. Buffers /\ InPlace /\ [Next]_vars => InPlace'
    BY InPlaceNext
  <1> QED BY <1>1, <1>2, InPlaceInit, BuffersInit, BuffersNext, PTL DEF Spec

-----------------------------------------------------------------------------
(***************************************************************************)
(* Buffering distributed arrays implements the write-back store of module  *)
(* WriteBack, for every number of tasks, variables, decompositions and     *)
(* puts: no array is lost, none lands over a later one, and a closed file  *)
(* has nothing left in its buffers.                                        *)
(***************************************************************************)

(* The program frees a decomposition only when nothing is buffered for it, *)
(* and syncs no buffer with variables of different ranks.                  *)
Cautious == Liberties = {}

-----------------------------------------------------------------------------
(* The inductive invariant: where an array is on its way.                  *)

PutsOf(k) == {arrays[ioroot][k][nv].put : nv \in Nvs(k)}
PutsIn(buffer) == {buffer[nv].put : nv \in DOMAIN buffer}

(* A write of a buffer or a posted request, as a write of the store. *)
Stored(x) == [n |-> x.put, key |-> puts[x.put].key, val |-> x.val, place |-> x.place]
StoredAll(writes) == {Stored(x) : x \in writes}

(* Of an array that waits in a buffer no caller was told that it is lost,  *)
(* until a task has no memory for one that others store; a buffer has its  *)
(* own arrays, in the order in which they were put.                        *)
InQueue(all, lost, k, buffer) ==
    \A nv \in DOMAIN buffer :
        /\ all[buffer[nv].put].key = k
        /\ buffer[nv].put \notin lost
        /\ \A i \in DOMAIN buffer : i < nv => buffer[i].put < buffer[nv].put
Dropped == IF nomem = {} THEN told ELSE {}
Queued ==
    /\ told \subseteq DOMAIN puts
    /\ \A k \in Keys : InQueue(puts, Dropped, k, arrays[ioroot][k])

(* A posted request is for an array that is in no buffer any more. *)
Issued ==
    /\ iotype # "pnetcdf" => pending = {}
    /\ \A x \in pending :
          /\ x.put \in DOMAIN puts /\ x.put \notin told /\ x.put \notin Buffered
          /\ Stored(x) \in Array(x.put)

(* A sync or close comes to every buffer with arrays, and can write it. *)
Hashed(k) == \E i \in DOMAIN order[ioroot] : order[ioroot][i] = k
Flushable ==
    /\ \A k \in Keys : Nvs(k) # {} => k[1] \in live /\ Hashed(k)
    /\ doing # "calls" => \A k \in Keys : SameRank(k)

Tracked == Queued /\ Issued /\ Flushable

-----------------------------------------------------------------------------
(* The writes of an array of the store, cell by cell. *)

Piece(n, c) ==
    [n |-> n, key |-> puts[n].key, val |-> IF c = Hole THEN FillOf(puts[n].vid) ELSE PutOf(n),
     place |-> <<puts[n].vid, puts[n].frame, c>>]
CellsWritten(k) == {t \in Tasks : ndof[t] > 0} \cup (IF needsfill[k[1]] THEN {Hole} ELSE {})

LEMMA ArrayIs ==
    ASSUME NEW n
    PROVE  Array(n) = {Piece(n, c) : c \in CellsWritten(puts[n].key)}
  <1> DEFINE writes(c, val) == [n |-> n, key |-> puts[n].key, val |-> val,
                                place |-> <<puts[n].vid, puts[n].frame, c>>]
  <1>1. Array(n) = {writes(t, PutOf(n)) : t \in {t \in Tasks : ndof[t] > 0}}
                   \cup (IF needsfill[puts[n].key[1]] THEN {writes(Hole, FillOf(puts[n].vid))} ELSE {})
    BY Zenon DEF Array
  <1>2. \A t \in Tasks : writes(t, PutOf(n)) = Piece(n, t)
    BY ConstantTypes DEF Piece
  <1>3. writes(Hole, FillOf(puts[n].vid)) = Piece(n, Hole)
    BY DEF Piece
  <1> HIDE DEF writes
  <1> QED BY <1>1, <1>2, <1>3 DEF CellsWritten

(* An array has one write for a place. *)
LEMMA ArrayPlaces ==
    ASSUME NEW n, NEW w \in Array(n)
    PROVE  /\ w.n = n /\ w.key = puts[n].key
           /\ \A m : \A x \in Array(m) : x.n = w.n /\ x.place = w.place => x = w
  <1>1. PICK c \in CellsWritten(puts[n].key) : w = Piece(n, c)
    BY ArrayIs
  <1>2. w.n = n /\ w.key = puts[n].key /\ w.place[3] = c
    BY <1>1 DEF Piece
  <1>3. ASSUME NEW m, NEW x \in Array(m), x.n = w.n, x.place = w.place PROVE x = w
    <2>1. PICK b \in CellsWritten(puts[m].key) : x = Piece(m, b)
      BY ArrayIs
    <2>2. x.n = m /\ x.place[3] = b
      BY <2>1 DEF Piece
    <2> QED BY <1>1, <1>2, <1>3, <2>1, <2>2, Zenon
  <1> QED BY <1>2, <1>3

Keyed ==
    /\ \A n : \A w \in Array(n) : w.n = n /\ w.key = puts[n].key
    /\ \A n : \A c \in CellsWritten(puts[n].key) : Piece(n, c) \in Array(n)

LEMMA ArrayKeys == Keyed
  BY ArrayPlaces, ArrayIs DEF Keyed
LEMMA ArrayKeysNext == Keyed'
  BY ArrayKeys, PTL

-----------------------------------------------------------------------------
(* The writes of a buffer. *)

Element(k, nv, c) ==
    Write(k, nv, c, IF c = Hole THEN FillOf(arrays[ioroot][k][nv].vid) ELSE PutOf(arrays[ioroot][k][nv].put))
FillCells(k) == IF FillsLater(k) THEN {Hole} ELSE {}
DataCells(k) == CellsWritten(k) \ FillCells(k)

LEMMA WritesAre ==
    ASSUME Exact, Buffers, nomem = {}, Aligned, NEW k \in Keys
    PROVE  /\ \A w : w \in DataWrites(k) <=> \E nv \in Nvs(k), c \in DataCells(k) : w = Element(k, nv, c)
           /\ \A w : w \in FillWrites(k) <=> \E nv \in Nvs(k), c \in FillCells(k) : w = Element(k, nv, c)
  <1>1. PICK shares : shares = {t \in Tasks : ndof[t] > 0}
    OBVIOUS
  <1>2. PICK sent : sent = {Write(k, x[1], x[2], Sent(x[2], k, x[1])) : x \in Nvs(k) \X shares}
    OBVIOUS
  <1>3. \A w : w \in sent <=> \E nv \in Nvs(k), c \in shares : w = Element(k, nv, c)
    <2>1. ASSUME NEW nv \in Nvs(k), NEW t \in shares
          PROVE  Write(k, nv, t, Sent(t, k, nv)) = Element(k, nv, t)
      <3>1. Sent(t, k, nv) = PutOf(arrays[ioroot][k][nv].put) /\ t # Hole
        BY <1>1, SentExact, ConstantTypes
      <3> QED BY <3>1, Zenon DEF Element
    <2>2. ASSUME NEW w \in sent PROVE \E nv \in Nvs(k), c \in shares : w = Element(k, nv, c)
      <3>1. PICK x \in Nvs(k) \X shares : w = Write(k, x[1], x[2], Sent(x[2], k, x[1]))
        BY <1>2
      <3>2. x[1] \in Nvs(k) /\ x[2] \in shares
        OBVIOUS
      <3>3. w = Element(k, x[1], x[2])
        BY <2>1, <3>1, <3>2
      <3> QED BY <3>2, <3>3
    <2>3. ASSUME NEW nv \in Nvs(k), NEW c \in shares PROVE Element(k, nv, c) \in sent
      <3>1. PICK x \in Nvs(k) \X shares : x = <<nv, c>>
        OBVIOUS
      <3>2. Write(k, x[1], x[2], Sent(x[2], k, x[1])) = Element(k, nv, c)
        BY <2>1, <3>1
      <3> QED BY <1>2, <3>2
    <2> QED BY <2>2, <2>3
  <1>4. needsfill[k[1]] => \A w : w \in Fills(k) <=> \E nv \in Nvs(k) : w = Element(k, nv, Hole)
    <2> SUFFICES ASSUME needsfill[k[1]] PROVE \A w : w \in Fills(k) <=> \E nv \in Nvs(k) : w = Element(k, nv, Hole)
      OBVIOUS
    <2> DEFINE vid(nv) == IF rearranger[k[1]] = "box" THEN FilledFor(k, nv) ELSE arrays[ioroot][k][nv].vid
    <2>1. ASSUME NEW nv \in Nvs(k) PROVE Write(k, nv, Hole, FillOf(vid(nv))) = Element(k, nv, Hole)
      <3>1. k[1] \in Decomps /\ nv \in Nat \ {0}
        <4>1. nv \in 1 .. Room
          BY PlaceOfEntry DEF Cells
        <4> QED BY <4>1, ConstantTypes DEF Keys
      <3>2. vid(nv) = arrays[ioroot][k][nv].vid
        BY <3>1, FilledExact
      <3> HIDE DEF vid
      <3> QED BY <3>2, Zenon DEF Element
    <2>2. Fills(k) = {Write(k, nv, Hole, FillOf(vid(nv))) : nv \in Nvs(k)}
      BY Zenon DEF Fills
    <2> HIDE DEF vid
    <2> QED BY <2>1, <2>2
  <1>5. Hole \notin shares /\ CellsWritten(k) = shares \cup (IF needsfill[k[1]] THEN {Hole} ELSE {})
    BY <1>1, ConstantTypes DEF CellsWritten
  <1>6. DataWrites(k) = sent \cup (IF needsfill[k[1]] /\ ~FillsLater(k) THEN Fills(k) ELSE {})
    BY <1>1, <1>2, Zenon DEF DataWrites
  <1>7. FillsLater(k) => needsfill[k[1]]
    BY DEF FillsLater
  <1>8. FillWrites(k) = IF FillsLater(k) THEN Fills(k) ELSE {}
    BY Zenon DEF FillWrites
  <1>9. /\ \A c : c \in DataCells(k) <=> c \in shares \/ (c = Hole /\ needsfill[k[1]] /\ ~FillsLater(k))
        /\ \A c : c \in FillCells(k) <=> c = Hole /\ FillsLater(k)
    BY <1>5 DEF DataCells, FillCells
  <1> QED BY <1>3, <1>4, <1>6, <1>7, <1>8, <1>9

LEMMA StoredElement ==
    ASSUME Buffers, Queued, NEW k \in Keys, NEW nv \in Nvs(k), NEW c \in CellsWritten(k)
    PROVE  /\ Stored(Element(k, nv, c)) = Piece(arrays[ioroot][k][nv].put, c)
           /\ Element(k, nv, c).nv = nv /\ Element(k, nv, c).put = arrays[ioroot][k][nv].put
           /\ Element(k, nv, c).place[3] = c
           /\ arrays[ioroot][k][nv].put \in DOMAIN puts
           /\ puts[arrays[ioroot][k][nv].put].key = k
  <1>1. PICK e : e = arrays[ioroot][k][nv]
    OBVIOUS
  <1>2. c \in Cells
    BY DEF CellsWritten, Cells
  <1>3. PlaceOf(k, nv, c) = <<puts[e.put].vid, puts[e.put].frame, c>>
    BY <1>1, <1>2, PlaceOfEntry
  <1>4. EntryOK(puts, k, e)
    <2>1. ioroot \in Tasks
      BY ConstantTypes
    <2> QED BY <1>1, <2>1, Zenon DEF Buffers, Recorded, Nvs
  <1>5. puts[e.put].vid = e.vid /\ e.put \in DOMAIN puts
    BY <1>4, Zenon DEF EntryOK
  <1>6. Element(k, nv, c) = [place |-> PlaceOf(k, nv, c), val |-> IF c = Hole THEN FillOf(e.vid) ELSE PutOf(e.put),
                             nv |-> nv, put |-> e.put]
    BY <1>1, Zenon DEF Element, Write
  <1>7. puts[e.put].key = k
    BY <1>1, Zenon DEF Queued, InQueue, Nvs
  <1> QED BY <1>1, <1>3, <1>5, <1>6, <1>7 DEF Stored, Piece

(* The writes of a buffer are its arrays. *)
LEMMA BufferIs ==
    ASSUME Exact, Buffers, nomem = {}, Aligned, Queued, NEW k \in Keys
    PROVE  StoredAll(DataWrites(k) \cup FillWrites(k)) = UNION {Array(n) : n \in PutsOf(k)}
  <1>1. \A w : w \in DataWrites(k) \cup FillWrites(k) <=> \E nv \in Nvs(k), c \in CellsWritten(k) : w = Element(k, nv, c)
    <2>1. CellsWritten(k) = DataCells(k) \cup FillCells(k)
      BY DEF DataCells, FillCells, CellsWritten, FillsLater
    <2> QED BY <2>1, WritesAre
  <1>2. ASSUME NEW nv \in Nvs(k)
        PROVE  Array(arrays[ioroot][k][nv].put) = {Stored(Element(k, nv, c)) : c \in CellsWritten(k)}
    <2>1. PICK n : n = arrays[ioroot][k][nv].put
      OBVIOUS
    <2>2. puts[n].key = k
      BY <2>1, Zenon DEF Queued, InQueue, Nvs
    <2>3. Array(n) = {Piece(n, c) : c \in CellsWritten(k)}
      BY <2>2, ArrayIs
    <2>4. \A c \in CellsWritten(k) : Stored(Element(k, nv, c)) = Piece(n, c)
      BY <2>1, StoredElement
    <2> QED BY <2>1, <2>3, <2>4
  <1>3. \A w : w \in StoredAll(DataWrites(k) \cup FillWrites(k)) <=>
                  \E nv \in Nvs(k), c \in CellsWritten(k) : w = Stored(Element(k, nv, c))
    <2>1. PICK writes : writes = DataWrites(k) \cup FillWrites(k)
      OBVIOUS
    <2>2. StoredAll(writes) = {Stored(x) : x \in writes}
      BY DEF StoredAll
    <2>3. \A x : x \in writes <=> \E nv \in Nvs(k), c \in CellsWritten(k) : x = Element(k, nv, c)
      BY <1>1, <2>1, Zenon
    <2>4. ASSUME NEW w \in StoredAll(writes)
          PROVE  \E nv \in Nvs(k), c \in CellsWritten(k) : w = Stored(Element(k, nv, c))
      <3>1. PICK x \in writes : w = Stored(x)
        BY <2>2
      <3>2. PICK nv \in Nvs(k), c \in CellsWritten(k) : x = Element(k, nv, c)
        BY <2>3
      <3> QED BY <3>1, <3>2
    <2>5. ASSUME NEW nv \in Nvs(k), NEW c \in CellsWritten(k)
          PROVE  Stored(Element(k, nv, c)) \in StoredAll(writes)
      BY <2>2, <2>3
    <2> QED BY <2>1, <2>4, <2>5
  <1>4. \A w : w \in UNION {Array(n) : n \in PutsOf(k)} <=>
                  \E nv \in Nvs(k) : w \in Array(arrays[ioroot][k][nv].put)
    BY DEF PutsOf
  <1>5. \A w : w \in UNION {Array(n) : n \in PutsOf(k)} <=>
                  \E nv \in Nvs(k), c \in CellsWritten(k) : w = Stored(Element(k, nv, c))
    <2>1. ASSUME NEW nv \in Nvs(k), NEW w
          PROVE  w \in Array(arrays[ioroot][k][nv].put) <=> \E c \in CellsWritten(k) : w = Stored(Element(k, nv, c))
      BY <1>2, Zenon
    <2>2. ASSUME NEW w, NEW nv \in Nvs(k), w \in Array(arrays[ioroot][k][nv].put)
          PROVE  \E m \in Nvs(k), c \in CellsWritten(k) : w = Stored(Element(k, m, c))
      BY <2>1, <2>2, Zenon
    <2>3. ASSUME NEW w, NEW nv \in Nvs(k), NEW c \in CellsWritten(k), w = Stored(Element(k, nv, c))
          PROVE  \E m \in Nvs(k) : w \in Array(arrays[ioroot][k][m].put)
      BY <2>1, <2>3, Zenon
    <2> QED BY <1>4, <2>2, <2>3, Zenon
  <1> QED BY <1>3, <1>5

-----------------------------------------------------------------------------
(* What Land leaves in the file: at every place what was there or, if the  *)
(* place is written, one of the writes, the last one unless the library    *)
(* may reorder them.                                                       *)
Latest(f, writes, g) ==
    \A p \in Places :
        \/ g[p] = f[p] /\ \A w \in writes : w.place # p
        \/ \E w \in writes :
              /\ w.place = p /\ g[p] = w.val
              /\ iotype # "pnetcdf" => \A x \in writes : x.place = p => x.nv <= w.nv

LEMMA LandLatest ==
    ASSUME NEW f, DOMAIN f = Places, NEW writes, NEW rank \in Rankings,
           \A w \in writes : w.nv \in 1 .. Room
    PROVE  DOMAIN Land(f, writes, rank) = Places /\ Latest(f, writes, Land(f, writes, rank))
  <1>1. DOMAIN Land(f, writes, rank) = Places
    BY DEF Land
  <1>2. rank \in [1 .. Room -> 1 .. Room] /\ Room \in Nat
    BY RankType, ConstantTypes
  <1>3. iotype # "pnetcdf" => \A i \in 1 .. Room : rank[i] = i
    BY DEF Rankings
  <1> SUFFICES ASSUME NEW p \in Places
               PROVE  \/ Land(f, writes, rank)[p] = f[p] /\ \A w \in writes : w.place # p
                      \/ \E w \in writes :
                            /\ w.place = p /\ Land(f, writes, rank)[p] = w.val
                            /\ iotype # "pnetcdf" => \A x \in writes : x.place = p => x.nv <= w.nv
    BY <1>1 DEF Latest
  <1> DEFINE here == {w \in writes : w.place = p}
             last(w) == \A x \in here : rank[x.nv] <= rank[w.nv]
  <1>4. Land(f, writes, rank)[p] = IF here = {} THEN f[p] ELSE (CHOOSE w \in here : last(w)).val
    BY DEF Land
  <1>5. CASE here = {}
    BY <1>4, <1>5
  <1>6. CASE here # {}
    <2> DEFINE ranks == {rank[w.nv] : w \in here}
    <2>1. ranks \subseteq 1 .. Room /\ ranks # {}
      BY <1>2, <1>6
    <2>2. PICK m \in ranks : \A r \in ranks : r <= m
      <3> HIDE DEF ranks
      <3> QED BY <1>2, <2>1, LargestOf
    <2>3. PICK w \in here : m = rank[w.nv]
      OBVIOUS
    <2>4. last(w)
      BY <2>2, <2>3
    <2>5. PICK x \in here : last(x) /\ Land(f, writes, rank)[p] = x.val
      <3> HIDE DEF here, last
      <3>1. (CHOOSE y \in here : last(y)) \in here /\ last(CHOOSE y \in here : last(y))
        BY <2>3, <2>4, Zenon
      <3> QED BY <1>4, <1>6, <3>1, Zenon
    <2>6. iotype # "pnetcdf" => \A y \in writes : y.place = p => y.nv <= x.nv
      BY <1>3, <2>5
    <2> QED BY <2>5, <2>6
  <1> QED BY <1>5, <1>6

LEMMA LatestBoth ==
    ASSUME NEW f, NEW g, NEW h, NEW V, NEW W, Latest(f, V, g), Latest(g, W, h),
           iotype # "pnetcdf" => \A v \in V, w \in W : v.place # w.place
    PROVE  Latest(f, V \cup W, h)
  <1> SUFFICES ASSUME NEW p \in Places
               PROVE  \/ h[p] = f[p] /\ \A w \in V \cup W : w.place # p
                      \/ \E w \in V \cup W :
                            /\ w.place = p /\ h[p] = w.val
                            /\ iotype # "pnetcdf" => \A x \in V \cup W : x.place = p => x.nv <= w.nv
    BY Zenon DEF Latest
  <1>1. CASE h[p] = g[p] /\ \A w \in W : w.place # p
    BY <1>1 DEF Latest
  <1>2. CASE \E w \in W :
               /\ w.place = p /\ h[p] = w.val
               /\ iotype # "pnetcdf" => \A x \in W : x.place = p => x.nv <= w.nv
    <2>1. PICK w \in W :
              /\ w.place = p /\ h[p] = w.val
              /\ iotype # "pnetcdf" => \A x \in W : x.place = p => x.nv <= w.nv
      BY <1>2
    <2>2. ASSUME iotype # "pnetcdf", NEW x \in V \cup W, x.place = p PROVE x.nv <= w.nv
      <3>1. x \in W
        BY <2>1, <2>2
      <3> QED BY <2>1, <2>2, <3>1
    <2>3. w \in V \cup W /\ w.place = p /\ h[p] = w.val
      BY <2>1
    <2> QED BY <2>2, <2>3
  <1> QED BY <1>1, <1>2, Zenon DEF Latest

LEMMA LatestNone ==
    ASSUME NEW f
    PROVE  Latest(f, {}, f)
  BY DEF Latest

(* One write call: what moves to the file (moved), and what is left posted *)
(* afterwards.                                                             *)
LEMMA WriteMoves ==
    ASSUME Exact, Buffers, nomem = {}, InPlace, Held, Tracked, NEW k \in Keys, NEW flushtodisk \in BOOLEAN,
           WriteDarrayMulti(k, flushtodisk)
    PROVE  \E moved :
              /\ moved \cup pending' = pending \cup DataWrites(k) \cup FillWrites(k)
              /\ moved \cap pending' = {}
              /\ pending' \subseteq DataWrites(k) \cup FillWrites(k)
              /\ iotype # "pnetcdf" => pending' = {}
              /\ DOMAIN file' = Places
              /\ Latest(file, moved, file')
  <1>1. PICK D, F : D = DataWrites(k) /\ F = FillWrites(k)
    OBVIOUS
  <1>2. /\ \A w : w \in D <=> \E nv \in Nvs(k), c \in DataCells(k) : w = Element(k, nv, c)
        /\ \A w : w \in F <=> \E nv \in Nvs(k), c \in FillCells(k) : w = Element(k, nv, c)
    BY <1>1, WritesAre DEF InPlace
  <1>3. /\ \A w \in D : w.put \in PutsOf(k) /\ w.place[3] \in DataCells(k)
        /\ \A w \in F : w.put \in PutsOf(k) /\ w.place[3] \in FillCells(k)
    <2>1. ASSUME NEW nv \in Nvs(k), NEW c \in CellsWritten(k)
          PROVE  Element(k, nv, c).put \in PutsOf(k) /\ Element(k, nv, c).place[3] = c
      BY StoredElement DEF PutsOf, Tracked
    <2>2. DataCells(k) \subseteq CellsWritten(k) /\ FillCells(k) \subseteq CellsWritten(k)
      BY DEF DataCells, FillCells, CellsWritten, FillsLater
    <2> QED BY <1>2, <2>1, <2>2
  <1>4. \A v \in D, w \in F : v.place # w.place
    BY <1>3 DEF DataCells
  <1>5. \A v \in pending : v \notin D /\ v \notin F
    <2>1. \A v \in pending : v.put \notin PutsOf(k)
      BY DEF Tracked, Issued, Buffered, PutsOf
    <2> QED BY <1>3, <2>1
  <1>6. \A w \in pending \cup D \cup F : w.nv \in 1 .. Room
    BY <1>1, WritesType DEF Within, Buffers, TypeOK
  <1>7. iotype # "pnetcdf" => pending = {}
    BY DEF Tracked, Issued
  <1>8. ~Reuse => pending = {}
    BY DEF Held, IobufHeld, Reuse
  <1>9. PICK rank \in Rankings, earlier \in Rankings, over \in BOOLEAN :
            LET base   == IF Reuse THEN Land(file, pending, earlier) ELSE file
                now    == iotype # "pnetcdf" \/ flushtodisk \/ over
                landed == Land(base, D, rank)
            IN  /\ file' = IF now THEN Land(landed, F, rank) ELSE IF FillsLater(k) THEN landed ELSE base
                /\ pending' = IF now THEN {} ELSE IF FillsLater(k) THEN F ELSE D
    BY <1>1, Zenon DEF WriteDarrayMulti
  <1>10. PICK base : base = IF Reuse THEN Land(file, pending, earlier) ELSE file
    OBVIOUS
  <1>11. PICK landed : landed = Land(base, D, rank)
    OBVIOUS
  <1>12. PICK filled : filled = Land(landed, F, rank)
    OBVIOUS
  <1>13. PICK now \in BOOLEAN : now <=> iotype # "pnetcdf" \/ flushtodisk \/ over
    OBVIOUS
  <1>14. /\ file' = IF now THEN filled ELSE IF FillsLater(k) THEN landed ELSE base
         /\ pending' = IF now THEN {} ELSE IF FillsLater(k) THEN F ELSE D
    BY <1>9, <1>10, <1>11, <1>12, <1>13, Zenon
  <1>15. DOMAIN base = Places /\ Latest(file, pending, base)
    <2>1. DOMAIN file = Places
      BY VariableTypes DEF Buffers
    <2>2. CASE Reuse
      <3>1. base = Land(file, pending, earlier)
        BY <1>10, <2>2, Zenon
      <3>2. \A w \in pending : w.nv \in 1 .. Room
        BY <1>6
      <3> QED BY <2>1, <3>1, <3>2, LandLatest
    <2>3. CASE ~Reuse
      <3>1. base = file /\ pending = {}
        BY <1>8, <1>10, <2>3, Zenon
      <3> QED BY <2>1, <3>1, LatestNone
    <2> QED BY <2>2, <2>3
  <1>16. DOMAIN landed = Places /\ Latest(base, D, landed)
    BY <1>6, <1>11, <1>15, LandLatest
  <1>17. DOMAIN filled = Places /\ Latest(landed, F, filled)
    BY <1>6, <1>12, <1>16, LandLatest
  <1>18. Latest(file, pending \cup D, landed)
    BY <1>7, <1>15, <1>16, LatestBoth
  <1>19. Latest(file, pending \cup D \cup F, filled)
    <2>1. iotype # "pnetcdf" => \A v \in pending \cup D, w \in F : v.place # w.place
      BY <1>4, <1>7
    <2>2. Latest(file, (pending \cup D) \cup F, filled)
      BY <1>17, <1>18, <2>1, LatestBoth
    <2> QED BY <2>2
  <1>20. CASE now
    <2>1. file' = filled /\ pending' = {}
      BY <1>14, <1>20
    <2> QED BY <1>1, <1>17, <1>19, <2>1
  <1>21. CASE ~now /\ FillsLater(k)
    <2>1. file' = landed /\ pending' = F /\ iotype = "pnetcdf"
      BY <1>13, <1>14, <1>21
    <2>2. (pending \cup D) \cap F = {}
      BY <1>4, <1>5
    <2> QED BY <1>1, <1>16, <1>18, <2>1, <2>2
  <1>22. CASE ~now /\ ~FillsLater(k)
    <2>1. file' = base /\ pending' = D /\ iotype = "pnetcdf"
      BY <1>13, <1>14, <1>22
    <2>2. F = {}
      BY <1>1, <1>22 DEF FillWrites
    <2>3. pending \cap D = {}
      BY <1>5
    <2> QED BY <1>1, <1>15, <2>1, <2>2, <2>3
  <1> QED BY <1>20, <1>21, <1>22

-----------------------------------------------------------------------------
(* flush_buffer, seen by the store. *)

(* The writes S reach the disk. *)
Reached(S) ==
    \A p \in Places :
        \/ file'[p] = file[p] /\ \A w \in S : w.place # p
        \/ \E w \in S : w.place = p /\ file'[p] = w.val /\ \A x \in S : ~WB!Supersedes(x, w)

WritesOf(S) == UNION {Array(n) : n \in S}

(* The writes of one buffer that come later in the buffer are later puts. *)
LEMMA OrderOfPuts ==
    ASSUME Exact, Buffers, nomem = {}, InPlace, Tracked, NEW k \in Keys,
           NEW w \in DataWrites(k) \cup FillWrites(k), NEW x \in DataWrites(k) \cup FillWrites(k),
           x.nv <= w.nv
    PROVE  ~(Stored(x).n > Stored(w).n)
  <1>1. ASSUME NEW y \in DataWrites(k) \cup FillWrites(k)
        PROVE  \E nv \in Nvs(k) : y.nv = nv /\ y.put = arrays[ioroot][k][nv].put
    <2>1. DataCells(k) \subseteq CellsWritten(k) /\ FillCells(k) \subseteq CellsWritten(k)
      BY DEF DataCells, FillCells, CellsWritten, FillsLater
    <2>2. PICK nv \in Nvs(k), c \in CellsWritten(k) : y = Element(k, nv, c)
      BY <2>1, WritesAre DEF InPlace
    <2> QED BY <2>2, StoredElement DEF Tracked
  <1>2. PICK i \in Nvs(k) : w.nv = i /\ w.put = arrays[ioroot][k][i].put
    BY <1>1
  <1>3. PICK j \in Nvs(k) : x.nv = j /\ x.put = arrays[ioroot][k][j].put
    BY <1>1
  <1>4. i \in 1 .. Room /\ j \in 1 .. Room /\ arrays[ioroot][k][i] \in Entries /\ arrays[ioroot][k][j] \in Entries
    BY PlaceOfEntry DEF Cells
  <1>5. j < i => x.put < w.put
    BY <1>2, <1>3, Zenon DEF Tracked, Queued, InQueue, Nvs
  <1>6. w.put \in Nat /\ x.put \in Nat
    BY <1>2, <1>3, <1>4, EntryType, ConstantTypes
  <1>7. j < i \/ x.put = w.put
    BY <1>2, <1>3, <1>4, ConstantTypes
  <1>8. Stored(x).n = x.put /\ Stored(w).n = w.put
    BY DEF Stored
  <1> QED BY <1>5, <1>6, <1>7, <1>8

(* The arrays of gone leave their buffer: S moves to the file with what    *)
(* was posted before, or the arrays are posted.                            *)
Transfer(S, gone) ==
    /\ S \cup StoredAll(pending') = StoredAll(pending) \cup WritesOf(gone)
    /\ S \cap StoredAll(pending') = {}
    /\ iotype # "pnetcdf" => pending' = {} /\ S = WritesOf(gone)
    /\ \A x \in pending' : x \in pending \/ (x.put \in gone /\ Stored(x) \in Array(x.put))
    /\ DOMAIN file' = Places
    /\ Reached(S)

LEMMA FlushMoves ==
    ASSUME Exact, Buffers, nomem = {}, InPlace, Held, Tracked, NEW k \in Keys, NEW flushtodisk \in BOOLEAN,
           Nvs(k) = {} \/ Writable(k), FlushBuffer(k, flushtodisk)
    PROVE  \E S : Transfer(S, PutsOf(k))
  <1>1. CASE Nvs(k) = {}
    <2>1. UNCHANGED <<file, pending, iobuf, aborted>>
      BY <1>1, Zenon DEF FlushBuffer
    <2>2. PutsOf(k) = {} /\ WritesOf(PutsOf(k)) = {}
      BY <1>1 DEF PutsOf, WritesOf
    <2>3. DOMAIN file' = Places
      BY <2>1, VariableTypes DEF Buffers
    <2>4. Reached({})
      BY <2>1 DEF Reached
    <2>5. iotype # "pnetcdf" => pending' = {}
      BY <2>1 DEF Tracked, Issued
    <2>6. Transfer({}, PutsOf(k))
      BY <2>1, <2>2, <2>3, <2>4, <2>5 DEF Transfer
    <2> QED BY <2>6
  <1>2. CASE Nvs(k) # {}
    <2>1. WriteDarrayMulti(k, flushtodisk)
      BY <1>2, Zenon DEF FlushBuffer
    <2>2. PICK all : all = DataWrites(k) \cup FillWrites(k)
      OBVIOUS
    <2>3. PICK moved :
              /\ moved \cup pending' = pending \cup all
              /\ moved \cap pending' = {}
              /\ pending' \subseteq all
              /\ iotype # "pnetcdf" => pending' = {}
              /\ DOMAIN file' = Places
              /\ Latest(file, moved, file')
      BY <2>1, <2>2, WriteMoves
    <2>4. StoredAll(all) = WritesOf(PutsOf(k))
      BY <2>2, BufferIs DEF InPlace, Tracked, WritesOf
    <2>5. \A X, Y : StoredAll(X \cup Y) = StoredAll(X) \cup StoredAll(Y)
      BY DEF StoredAll
    <2>6. StoredAll(moved) \cup StoredAll(pending') = StoredAll(pending) \cup WritesOf(PutsOf(k))
      <3>1. PICK left : left = pending'
        OBVIOUS
      <3>2. StoredAll(moved \cup left) = StoredAll(pending \cup all)
        BY <2>3, <3>1, Zenon
      <3>3. StoredAll(moved \cup left) = StoredAll(moved) \cup StoredAll(left)
        BY <2>5, Zenon
      <3>4. StoredAll(pending \cup all) = StoredAll(pending) \cup StoredAll(all)
        BY <2>5, Zenon
      <3> QED BY <2>4, <3>1, <3>2, <3>3, <3>4, Zenon
    <2>7. ASSUME NEW x \in all
          PROVE  /\ x.put \in PutsOf(k) /\ Stored(x) \in Array(x.put)
                 /\ \A y \in all : Stored(y) = Stored(x) => y = x
      <3>1. ASSUME NEW y \in all
            PROVE  \E nv \in Nvs(k), c \in CellsWritten(k) : y = Element(k, nv, c)
        <4>1. DataCells(k) \subseteq CellsWritten(k) /\ FillCells(k) \subseteq CellsWritten(k)
          BY DEF DataCells, FillCells, CellsWritten, FillsLater
        <4> QED BY <2>2, <4>1, WritesAre DEF InPlace
      <3>2. PICK nv \in Nvs(k), c \in CellsWritten(k) : x = Element(k, nv, c)
        BY <3>1
      <3>3. PICK n : n = arrays[ioroot][k][nv].put
        OBVIOUS
      <3>4. /\ Stored(x) = Piece(n, c) /\ x.put = n
            /\ puts[n].key = k
        BY <3>2, <3>3, StoredElement DEF Tracked
      <3>5. Piece(n, c) \in Array(n)
        BY <3>4, ArrayIs
      <3>6. ASSUME NEW y \in all, Stored(y) = Stored(x) PROVE y = x
        <4>1. PICK m \in Nvs(k), d \in CellsWritten(k) : y = Element(k, m, d)
          BY <3>1
        <4>2. Stored(y) = Piece(arrays[ioroot][k][m].put, d)
          BY <4>1, StoredElement DEF Tracked
        <4>3. arrays[ioroot][k][m].put = n /\ d = c
          BY <3>4, <3>6, <4>2 DEF Piece
        <4>4. m \in 1 .. Room /\ nv \in 1 .. Room /\ n \in Nat
          <5>1. arrays[ioroot][k][nv] \in Entries /\ m \in 1 .. Room /\ nv \in 1 .. Room
            BY PlaceOfEntry DEF Cells
          <5> QED BY <3>3, <5>1, EntryType, ConstantTypes
        <4>5. m = nv
          <5>1. m < nv => arrays[ioroot][k][m].put < arrays[ioroot][k][nv].put
            BY Zenon DEF Tracked, Queued, InQueue, Nvs
          <5>2. nv < m => arrays[ioroot][k][nv].put < arrays[ioroot][k][m].put
            BY Zenon DEF Tracked, Queued, InQueue, Nvs
          <5> QED BY <3>3, <4>3, <4>4, <5>1, <5>2, ConstantTypes
        <4> QED BY <3>2, <4>1, <4>3, <4>5
      <3> QED BY <3>3, <3>4, <3>5, <3>6, Zenon DEF PutsOf
    <2>8. StoredAll(moved) \cap StoredAll(pending') = {}
      <3> SUFFICES ASSUME NEW x \in moved, NEW y \in pending', Stored(x) = Stored(y) PROVE FALSE
        BY DEF StoredAll
      <3>1. y \in all /\ (x \in pending \/ x \in all) /\ x # y
        BY <2>3
      <3>2. CASE x \in all
        BY <2>7, <3>1, <3>2
      <3>3. CASE x \in pending
        <4>1. x.put = y.put
          BY DEF Stored
        <4>2. y.put \in Buffered
          BY <2>7, <3>1 DEF Buffered, PutsOf
        <4> QED BY <3>3, <4>1, <4>2 DEF Tracked, Issued
      <3> QED BY <3>1, <3>2, <3>3
    <2>9. iotype # "pnetcdf" => pending' = {} /\ StoredAll(moved) = WritesOf(PutsOf(k)) /\ moved = all
      <3>1. iotype # "pnetcdf" => moved = all
        BY <2>3 DEF Tracked, Issued
      <3> QED BY <2>3, <2>4, <3>1
    <2>10. Reached(StoredAll(moved))
      <3> SUFFICES ASSUME NEW p \in Places
                   PROVE  \/ file'[p] = file[p] /\ \A w \in StoredAll(moved) : w.place # p
                          \/ \E w \in StoredAll(moved) :
                                w.place = p /\ file'[p] = w.val /\ \A x \in StoredAll(moved) : ~WB!Supersedes(x, w)
        BY DEF Reached
      <3>1. \A w : Stored(w).place = w.place /\ Stored(w).val = w.val
        BY DEF Stored
      <3>2. CASE file'[p] = file[p] /\ \A w \in moved : w.place # p
        BY <3>1, <3>2 DEF StoredAll
      <3>3. CASE \E w \in moved :
                    /\ w.place = p /\ file'[p] = w.val
                    /\ iotype # "pnetcdf" => \A x \in moved : x.place = p => x.nv <= w.nv
        <4>1. PICK w \in moved :
                    /\ w.place = p /\ file'[p] = w.val
                    /\ iotype # "pnetcdf" => \A x \in moved : x.place = p => x.nv <= w.nv
          BY <3>3
        <4>2. ASSUME NEW x \in moved, WB!Supersedes(Stored(x), Stored(w)) PROVE FALSE
          <5>1. iotype # "pnetcdf" /\ Stored(x).n > Stored(w).n /\ x.place = p
            BY <3>1, <4>1, <4>2 DEF WB!Supersedes
          <5>2. x.nv <= w.nv /\ x \in all /\ w \in all
            BY <2>9, <4>1, <5>1
          <5> QED BY <2>2, <5>1, <5>2, OrderOfPuts
        <4>3. Stored(w) \in StoredAll(moved) /\ \A x \in StoredAll(moved) : ~WB!Supersedes(x, Stored(w))
          BY <4>2 DEF StoredAll
        <4> QED BY <3>1, <4>1, <4>3
      <3> QED BY <2>3, <3>2, <3>3 DEF Latest
    <2>11. \A x \in pending' : x.put \in PutsOf(k) /\ Stored(x) \in Array(x.put)
      BY <2>3, <2>7
    <2>12. Transfer(StoredAll(moved), PutsOf(k))
      BY <2>3, <2>6, <2>8, <2>9, <2>10, <2>11 DEF Transfer
    <2> QED BY <2>12
  <1> QED BY <1>1, <1>2

-----------------------------------------------------------------------------
(* A step of the store. *)

(* What is cached: the arrays in the buffers and the posted requests. *)
LEMMA CacheIs == Issued => Cache = WritesOf(Buffered) \cup StoredAll(pending)
  <1> SUFFICES ASSUME Issued PROVE Cache = WritesOf(Buffered) \cup StoredAll(pending)
    OBVIOUS
  <1>1. ASSUME NEW w \in Posted PROVE w \in StoredAll(pending)
    <2>1. PICK n \in DOMAIN puts \ Buffered : w \in Array(n)
      BY DEF Posted
    <2>2. PICK x \in pending : x.put = w.n /\ x.place = w.place
      BY DEF Posted
    <2>3. w.n = n
      BY <2>1, ArrayPlaces
    <2>4. Stored(x) \in Array(n) /\ Stored(x).n = w.n /\ Stored(x).place = w.place
      BY <2>2, <2>3 DEF Issued, Stored
    <2>5. Stored(x) = w
      BY <2>1, <2>4, ArrayPlaces
    <2> QED BY <2>5 DEF StoredAll
  <1>2. ASSUME NEW x \in pending PROVE Stored(x) \in Posted
    <2>1. x.put \in DOMAIN puts \ Buffered /\ Stored(x) \in Array(x.put)
      BY DEF Issued
    <2>2. x.put = Stored(x).n /\ x.place = Stored(x).place
      BY DEF Stored
    <2> QED BY <2>1, <2>2 DEF Posted
  <1>3. Posted = StoredAll(pending)
    BY <1>1, <1>2 DEF StoredAll
  <1> QED BY <1>3 DEF Cache, WritesOf

LEMMA CacheIsNext == Issued' => (Cache = WritesOf(Buffered) \cup StoredAll(pending))'
  BY CacheIs, PTL

(* What a step of the store is: S moves to the disk, the array new may     *)
(* arrive.                                                                 *)
LEMMA StepIs ==
    ASSUME NEW S, open,
           \A w \in Cache' \ Cache : \A x \in Cache' \ Cache : x.n = w.n /\ x.key = w.key,
           \A w \in Cache' \ Cache : \A x \in Cache : x.n < w.n,
           told \subseteq told', iotype' = iotype,
           S = {w \in Cache \ Cache' : w.n \notin told'},
           \A w \in S : \A x \in Cache \ S : ~WB!Supersedes(w, x),
           Reached(S), DOMAIN file' = Places,
           open' \in BOOLEAN, ~open' => Cache' = {}
    PROVE  WB!Step
  <1>1. WB!Arrive(Cache' \ Cache)
    BY DEF WB!Arrive
  <1>2. WB!Move(S)
    BY DEF WB!Move, Reached
  <1> QED BY <1>1, <1>2, Zenon DEF WB!Step

(* Arrays that were put before are the same writes after another put. *)
LEMMA ArrayKept ==
    ASSUME NEW n, puts'[n] = puts[n]
    PROVE  /\ Array(n)' = Array(n)
           /\ \A x : x.put = n => Stored(x)' = Stored(x)
  <1>1. Array(n)' = Array(n)
    BY Zenon DEF Array
  <1>2. \A x : x.put = n => Stored(x)' = Stored(x)
    BY Zenon DEF Stored
  <1> QED BY <1>1, <1>2

(* The buffers lose the arrays of gone, which are written or posted, and   *)
(* may get the next put.                                                   *)
LEMMA Flow ==
    ASSUME Issued, Queued, open, NEW gone, NEW S, NEW new \in SUBSET {Len(puts) + 1},
           DOMAIN puts = 1 .. Len(puts), Len(puts) \in Nat,
           Buffered \subseteq DOMAIN puts, gone \subseteq Buffered, told \cap Buffered = {},
           DOMAIN puts \subseteq DOMAIN puts', \A n \in DOMAIN puts : puts'[n] = puts[n],
           \A n \in gone, m \in Buffered \ gone : puts[n].key # puts[m].key,
           Buffered' = (Buffered \ gone) \cup new, UNCHANGED iotype,
           told \subseteq told', told' \subseteq told \cup {Len(puts) + 1},
           Transfer(S, gone),
           open' \in BOOLEAN, ~open' => Buffered' = {} /\ pending' = {}
    PROVE  Issued' /\ WB!Step
  <1> USE DEF Transfer
  <1> DEFINE keep == WritesOf(Buffered \ gone)
             left == StoredAll(pending')
             N == UNION {Array(n)' : n \in new}
  <1>1. \A n \in new : n = Len(puts) + 1 /\ n \notin DOMAIN puts
    OBVIOUS
  <1>2. ASSUME NEW x \in pending'
        PROVE  /\ x.put \in DOMAIN puts /\ x.put \notin told' /\ x.put \notin Buffered'
               /\ Stored(x) \in Array(x.put)
    <2>1. CASE x \in pending
      BY <1>1, <2>1 DEF Issued
    <2>2. CASE x.put \in gone /\ Stored(x) \in Array(x.put)
      BY <1>1, <2>2
    <2> QED BY <2>1, <2>2
  <1>3. ASSUME NEW x \in pending' PROVE Stored(x)' = Stored(x) /\ Array(x.put)' = Array(x.put)
    <2>1. puts'[x.put] = puts[x.put]
      BY <1>2
    <2> QED BY <2>1, ArrayKept
  <1>4. Issued'
    BY <1>2, <1>3, Zenon DEF Issued
  <1>5. StoredAll(pending)' = left
    BY <1>3 DEF StoredAll
  <1>6. WritesOf(Buffered)' = keep \cup N
    <2>1. \A n \in Buffered \ gone : Array(n)' = Array(n)
      BY ArrayKept
    <2>2. WritesOf(Buffered)' = UNION {Array(n)' : n \in Buffered'}
      BY DEF WritesOf
    <2>3. ASSUME NEW w \in UNION {Array(n)' : n \in Buffered'} PROVE w \in keep \/ w \in N
      <3>1. PICK n \in Buffered' : w \in Array(n)'
        OBVIOUS
      <3>2. CASE n \in new
        BY <3>1, <3>2
      <3>3. CASE n \in Buffered \ gone
        <4>1. w \in Array(n)
          BY <2>1, <3>1, <3>3, Zenon
        <4> QED BY <3>3, <4>1 DEF WritesOf
      <3> QED BY <3>2, <3>3
    <2>4. ASSUME NEW w \in keep PROVE w \in UNION {Array(n)' : n \in Buffered'}
      <3>1. PICK n \in Buffered \ gone : w \in Array(n)
        BY DEF WritesOf
      <3>2. n \in Buffered' /\ w \in Array(n)'
        BY <2>1, <3>1
      <3> QED BY <3>2
    <2>5. ASSUME NEW w \in N PROVE w \in UNION {Array(n)' : n \in Buffered'}
      OBVIOUS
    <2>6. PICK W : W = UNION {Array(n)' : n \in Buffered'}
      OBVIOUS
    <2> HIDE DEF keep, N
    <2> QED BY <2>2, <2>3, <2>4, <2>5, <2>6
  <1>7. WritesOf(Buffered) = keep \cup WritesOf(gone)
    BY DEF WritesOf
  <1>8. Cache = keep \cup S \cup left
    BY <1>7, CacheIs
  <1>9. Cache' = keep \cup left \cup N
    BY <1>4, <1>5, <1>6, CacheIsNext
  <1>10. \A w \in keep : w.n \in Buffered \ gone
    BY ArrayPlaces DEF WritesOf
  <1>11. \A w \in WritesOf(gone) : w.n \in gone
    BY ArrayPlaces DEF WritesOf
  <1>12. \A w \in StoredAll(pending) : w.n \in DOMAIN puts /\ w.n \notin told /\ w.n \notin Buffered
    BY DEF StoredAll, Stored, Issued
  <1>13. \A w \in left : w.n \in DOMAIN puts
    BY <1>2 DEF StoredAll, Stored
  <1>14. ASSUME NEW w \in N PROVE w.n = Len(puts) + 1 /\ w.key = puts'[Len(puts) + 1].key
    <2>1. PICK n \in new : w \in Array(n)'
      OBVIOUS
    <2>2. w.n = n /\ w.key = puts'[n].key
      BY <2>1, ArrayKeysNext DEF Keyed
    <2> QED BY <1>1, <2>1, <2>2
  <1> HIDE DEF keep, left, N
  <1>15. \A w \in S : w \in StoredAll(pending) \/ w \in WritesOf(gone)
    OBVIOUS
  <1>16. \A w \in S : w \notin keep /\ w.n \in DOMAIN puts /\ w.n \notin told'
    BY <1>10, <1>11, <1>12, <1>15
  <1>17. S \cap N = {} /\ S \cap left = {}
    BY <1>14, <1>16 DEF left
  <1>18. Cache \ Cache' = S
    BY <1>8, <1>9, <1>16, <1>17
  <1>19. Cache' \ Cache \subseteq N
    BY <1>8, <1>9
  <1>20. \A x \in Cache : x.n \in DOMAIN puts
    BY <1>8, <1>10, <1>13, <1>16
  <1>21. \A w \in S : \A x \in Cache \ S : ~WB!Supersedes(w, x)
    <2> SUFFICES ASSUME iotype # "pnetcdf", NEW w \in S, NEW x \in Cache \ S PROVE x.key # w.key
      BY DEF WB!Supersedes
    <2>1. x \in keep /\ w \in WritesOf(gone)
      BY <1>8 DEF left, StoredAll
    <2>2. PICK m \in Buffered \ gone : x \in Array(m)
      BY <2>1 DEF keep, WritesOf
    <2>3. PICK n \in gone : w \in Array(n)
      BY <2>1 DEF WritesOf
    <2> QED BY <2>2, <2>3, ArrayPlaces
  <1>22. ~open' => Cache' = {}
    <2> SUFFICES ASSUME ~open' PROVE Cache' = {}
      OBVIOUS
    <2>1. keep = {} /\ left = {} /\ new = {}
      BY DEF keep, left, WritesOf, StoredAll
    <2> QED BY <1>9, <2>1 DEF N
  <1>23. S = {w \in Cache \ Cache' : w.n \notin told'}
    BY <1>16, <1>18
  <1>24. \A w \in Cache' \ Cache : \A x \in Cache : x.n < w.n
    BY <1>14, <1>19, <1>20
  <1>25. \A w \in Cache' \ Cache : \A x \in Cache' \ Cache : x.n = w.n /\ x.key = w.key
    BY <1>14, <1>19
  <1>26. WB!Step
    BY <1>21, <1>22, <1>23, <1>24, <1>25, StepIs
  <1> QED BY <1>4, <1>26

-----------------------------------------------------------------------------
(* How the buffers change. *)

LEMMA BufferedPuts ==
    ASSUME Buffers, nomem = {}, Queued
    PROVE  /\ \A k \in Keys : \A n \in PutsOf(k) : n \in DOMAIN puts /\ n \notin told /\ puts[n].key = k
           /\ \A n : n \in Buffered <=> \E k \in Keys : n \in PutsOf(k)
           /\ Buffered \subseteq DOMAIN puts /\ told \cap Buffered = {}
  <1>1. ASSUME NEW k \in Keys, NEW nv \in Nvs(k)
        PROVE  /\ arrays[ioroot][k][nv].put \in DOMAIN puts
               /\ arrays[ioroot][k][nv].put \notin told
               /\ puts[arrays[ioroot][k][nv].put].key = k
    <2>1. ioroot \in Tasks
      BY ConstantTypes
    <2>2. EntryOK(puts, k, arrays[ioroot][k][nv])
      BY <2>1, Zenon DEF Buffers, Recorded, Nvs
    <2> QED BY <2>2, Zenon DEF EntryOK, Queued, InQueue, Nvs, Dropped
  <1>2. \A k \in Keys : \A n \in PutsOf(k) : n \in DOMAIN puts /\ n \notin told /\ puts[n].key = k
    BY <1>1 DEF PutsOf
  <1>3. \A n : n \in Buffered <=> \E k \in Keys : n \in PutsOf(k)
    BY DEF Buffered, PutsOf
  <1> QED BY <1>2, <1>3

(* One buffer changes: it loses all of its arrays or none, and may get one. *)
LEMMA BufferedMoves ==
    ASSUME Buffers, nomem = {}, Queued, NEW k \in Keys, NEW buffer, NEW gone \in {{}, PutsOf(k)}, NEW new,
           \A j \in Keys : arrays'[ioroot][j] = IF j = k THEN buffer ELSE arrays[ioroot][j],
           PutsIn(buffer) = (PutsOf(k) \ gone) \cup new
    PROVE  /\ Buffered' = (Buffered \ gone) \cup new
           /\ gone \subseteq Buffered
           /\ \A n \in gone, m \in Buffered \ gone : puts[n].key # puts[m].key
  <1>1. \A n : n \in Buffered' <=> \E j \in Keys : n \in PutsOf(j)'
    BY DEF Buffered, PutsOf
  <1>2. PutsOf(k)' = (PutsOf(k) \ gone) \cup new
    BY DEF PutsOf, PutsIn, Nvs
  <1>3. \A j \in Keys \ {k} : PutsOf(j)' = PutsOf(j)
    BY DEF PutsOf, Nvs
  <1>4. \A j \in Keys \ {k} : \A n \in PutsOf(j) : n \notin PutsOf(k)
    BY BufferedPuts
  <1>5. \A n : n \in Buffered <=> \E j \in Keys : n \in PutsOf(j)
    BY BufferedPuts
  <1>6. ASSUME NEW n \in Buffered' PROVE n \in (Buffered \ gone) \cup new
    <2>1. PICK j \in Keys : n \in PutsOf(j)'
      BY <1>1
    <2> QED BY <1>2, <1>3, <1>4, <1>5, <2>1
  <1>7. ASSUME NEW n \in Buffered \ gone PROVE n \in Buffered'
    <2>1. PICK j \in Keys : n \in PutsOf(j)
      BY <1>5
    <2>2. n \in PutsOf(j)'
      BY <1>2, <1>3, <2>1
    <2> QED BY <1>1, <2>2
  <1>8. new \subseteq Buffered'
    BY <1>1, <1>2
  <1>9. gone \subseteq Buffered
    BY <1>5
  <1>10. \A n \in gone, m \in Buffered \ gone : puts[n].key # puts[m].key
    BY <1>5, BufferedPuts
  <1> QED BY <1>6, <1>7, <1>8, <1>9, <1>10

(* A buffer after a put: flushed before or not, the array kept in it or    *)
(* not.                                                                    *)
After(flushed, kept, buffer, entry) ==
    LET old == IF flushed THEN <<>> ELSE buffer
    IN  IF kept THEN Append(old, entry) ELSE old

(* PIOc_write_darray appends one array to the buffer of its key, which is  *)
(* emptied before if it was flushed, or leaves it so without memory.       *)
LEMMA StoreIs ==
    ASSUME Buffers, NEW d \in Decomps, NEW v \in Vars, NEW excess \in Nat, NEW refused, NEW short \in SUBSET Tasks,
           Putting(d, v, excess, refused), Store(d, v, excess, needsflush(Key(d, v), refused), short),
           NEW kept \in BOOLEAN, kept <=> ioroot \notin short, NEW flushed \in BOOLEAN, flushed <=> needsflush(Key(d, v), refused)[ioroot] > 0
    PROVE  /\ \A j \in Keys : arrays'[ioroot][j] =
                  IF j = Key(d, v)
                  THEN After(flushed, kept, arrays[ioroot][j],
                             [vid |-> v, frame |-> record[v], put |-> Len(puts) + 1])
                  ELSE arrays[ioroot][j]
           /\ Hashed(Key(d, v))' /\ \A j \in Keys : Hashed(j) => Hashed(j)'
           /\ Len(puts) \in Nat /\ DOMAIN puts = 1 .. Len(puts) /\ DOMAIN puts' = 1 .. Len(puts) + 1
           /\ puts'[Len(puts) + 1].key = Key(d, v)
           /\ \A n \in DOMAIN puts : puts'[n] = puts[n]
  <1> DEFINE k == Key(d, v)
             entry == [vid |-> v, frame |-> record[v], put |-> Len(puts) + 1]
             new == [vid |-> v, frame |-> IF record[v] >= 0 THEN record[v] ELSE 0, key |-> k]
             need == needsflush(k, refused)
             R == [vid : Vars, frame : Frames, key : Keys]
  <1>1. k \in Keys /\ ioroot \in Tasks
    BY KeyType, ConstantTypes
  <1>2. /\ arrays[ioroot] \in [Keys -> Seq(Entries)]
        /\ order[ioroot] \in Seq(Keys)
        /\ puts \in Seq(R)
    BY <1>1, VariableTypes DEF Buffers
  <1>3. /\ arrays' = [t \in Tasks |-> [arrays[t] EXCEPT ![k] =
                        IF t \in short THEN IF need[t] > 0 THEN <<>> ELSE arrays[t][k]
                        ELSE Append(IF need[t] > 0 THEN <<>> ELSE arrays[t][k], entry)]]
        /\ order' = [t \in Tasks |->
                        IF \E i \in DOMAIN order[t] : order[t][i] = k THEN order[t] ELSE Append(order[t], k)]
        /\ puts' = Append(puts, new)
    BY DEF Store
  <1>4. new.key = k
    OBVIOUS
  <1>5. flushed <=> need[ioroot] > 0
    OBVIOUS
  <1> HIDE DEF k, entry, new, need, R
  <1>6. arrays'[ioroot] = [arrays[ioroot] EXCEPT ![k] = After(flushed, kept, arrays[ioroot][k], entry)]
    <2>1. arrays'[ioroot] = [arrays[ioroot] EXCEPT ![k] =
                                IF ioroot \in short THEN IF need[ioroot] > 0 THEN <<>> ELSE arrays[ioroot][k]
                                ELSE Append(IF need[ioroot] > 0 THEN <<>> ELSE arrays[ioroot][k], entry)]
      BY <1>1, <1>3, Zenon
    <2> QED BY <1>5, <2>1 DEF After
  <1>7. \A j \in Keys : arrays'[ioroot][j] =
            IF j = k THEN After(flushed, kept, arrays[ioroot][j], entry) ELSE arrays[ioroot][j]
    BY <1>1, <1>2, <1>6
  <1>8. order'[ioroot] = IF \E i \in DOMAIN order[ioroot] : order[ioroot][i] = k THEN order[ioroot] ELSE Append(order[ioroot], k)
    BY <1>1, <1>3
  <1>9. Hashed(k)' /\ \A j \in Keys : Hashed(j) => Hashed(j)'
    <2>1. CASE Hashed(k)
      BY <1>8, <2>1 DEF Hashed
    <2>2. CASE ~Hashed(k)
      <3>1. PICK old \in Seq(Keys) : old = order[ioroot]
        BY <1>2
      <3>2. order'[ioroot] = Append(old, k)
        BY <1>8, <2>2, <3>1 DEF Hashed
      <3>3. /\ Len(old) + 1 \in DOMAIN Append(old, k) /\ Append(old, k)[Len(old) + 1] = k
            /\ \A i \in DOMAIN old : i \in DOMAIN Append(old, k) /\ Append(old, k)[i] = old[i]
        BY <1>1
      <3> QED BY <3>1, <3>2, <3>3 DEF Hashed
    <2> QED BY <2>1, <2>2
  <1>10. /\ Len(puts) \in Nat /\ DOMAIN puts = 1 .. Len(puts) /\ DOMAIN puts' = 1 .. Len(puts) + 1
         /\ puts'[Len(puts) + 1] = new
         /\ \A n \in DOMAIN puts : puts'[n] = puts[n]
    <2>1. new \in R
      <3>1. puts' \in Seq(R)
        BY StoreLists, Zenon DEF Lists, R
      <3>2. DOMAIN puts' = 1 .. Len(puts) + 1 /\ puts'[Len(puts) + 1] = new
        BY <1>2, <1>3
      <3> QED BY <1>2, <3>1, <3>2
    <2> QED BY <1>2, <1>3, <2>1
  <1> QED BY <1>4, <1>7, <1>9, <1>10 DEF k, entry

-----------------------------------------------------------------------------
(* The actions.  Flushing a buffer is a step of the store that moves its   *)
(* arrays, storing an array is one that lets it arrive.                    *)

(* The arrays of a buffer after it was emptied or kept, and one more. *)
LEMMA PutsStored ==
    ASSUME NEW old \in Seq(Entries), NEW entry \in Entries
    PROVE  PutsIn(Append(old, entry)) = PutsIn(old) \cup {entry.put}
  <1> SUFFICES ASSUME NEW app, app = Append(old, entry)
               PROVE  PutsIn(app) = PutsIn(old) \cup {entry.put}
    OBVIOUS
  <1>1. PICK n \in Nat : n = Len(old)
    OBVIOUS
  <1>2. /\ DOMAIN old = 1 .. n /\ DOMAIN Append(old, entry) = 1 .. n + 1
        /\ Append(old, entry)[n + 1] = entry
        /\ \A i \in 1 .. n : Append(old, entry)[i] = old[i]
    BY <1>1
  <1>3. \A i \in DOMAIN app : i \in 1 .. n \/ i = n + 1
    BY <1>2
  <1> QED BY <1>2, <1>3 DEF PutsIn

(* The queues after a put; flushed says if the buffer was emptied first,   *)
(* kept if the array is in it.                                             *)
LEMMA QueuedAfterPut ==
    ASSUME Buffers, nomem = {}, Queued, NEW k \in Keys, NEW entry,
           NEW flushed \in BOOLEAN, NEW kept \in BOOLEAN, entry \in Entries,
           \A j \in Keys : arrays'[ioroot][j] =
               IF j = k THEN After(flushed, kept, arrays[ioroot][j], entry) ELSE arrays[ioroot][j],
           Len(puts) \in Nat, DOMAIN puts = 1 .. Len(puts), DOMAIN puts' = 1 .. Len(puts) + 1,
           entry.put = Len(puts) + 1, puts'[Len(puts) + 1].key = k,
           \A n \in DOMAIN puts : puts'[n] = puts[n],
           told' \subseteq told \cup {Len(puts) + 1}, nomem' = {} => told' = told
    PROVE  /\ Queued'
           /\ PutsIn(arrays'[ioroot][k]) = (PutsOf(k) \ (IF flushed THEN PutsOf(k) ELSE {}))
                                           \cup (IF kept THEN {Len(puts) + 1} ELSE {})
  <1>1. ioroot \in Tasks /\ arrays[ioroot] \in [Keys -> Seq(Entries)]
    BY ConstantTypes, VariableTypes DEF Buffers
  <1>2. PICK old \in Seq(Entries) : old = IF flushed THEN <<>> ELSE arrays[ioroot][k]
    <2>1. arrays[ioroot][k] \in Seq(Entries) /\ <<>> \in Seq(Entries)
      BY <1>1
    <2> QED BY <2>1, Zenon
  <1>3. arrays'[ioroot][k] = IF kept THEN Append(old, entry) ELSE old
    BY <1>2 DEF After
  <1>4. PutsIn(old) = PutsOf(k) \ (IF flushed THEN PutsOf(k) ELSE {})
    <2>1. CASE flushed
      BY <1>2, <2>1 DEF PutsIn
    <2>2. CASE ~flushed
      BY <1>2, <2>2 DEF PutsIn, PutsOf, Nvs
    <2> QED BY <2>1, <2>2
  <1>5. PutsIn(Append(old, entry)) = PutsIn(old) \cup {entry.put}
    BY PutsStored
  <1>6. PutsIn(arrays'[ioroot][k]) = (PutsOf(k) \ (IF flushed THEN PutsOf(k) ELSE {}))
                                     \cup (IF kept THEN {Len(puts) + 1} ELSE {})
    <2>1. CASE kept
      BY <1>3, <1>4, <1>5, <2>1
    <2>2. CASE ~kept
      BY <1>3, <1>4, <2>2
    <2> QED BY <2>1, <2>2
  <1>7. \A j \in Keys : \A nv \in DOMAIN arrays[ioroot][j] : arrays[ioroot][j][nv].put \in DOMAIN puts
    BY BufferedPuts DEF PutsOf, Nvs
  <1>8. \A j \in Keys : InQueue(puts', Dropped', j, arrays[ioroot][j])
    <2>1. Dropped' \subseteq Dropped
      BY DEF Dropped
    <2> QED BY <1>7, <2>1 DEF Queued, InQueue
  <1>9. InQueue(puts', Dropped', k, old) /\ \A nv \in DOMAIN old : old[nv].put \in DOMAIN puts
    <2>1. CASE flushed
      BY <1>2, <2>1 DEF InQueue
    <2>2. CASE ~flushed
      BY <1>2, <1>7, <1>8, <2>2
    <2> QED BY <2>1, <2>2
  <1>10. InQueue(puts', Dropped', k, Append(old, entry))
    <2>1. PICK n \in Nat : n = Len(old)
      BY <1>2
    <2>2. PICK app : app = Append(old, entry)
      OBVIOUS
    <2>3. /\ DOMAIN old = 1 .. n /\ DOMAIN app = 1 .. n + 1
          /\ app[n + 1] = entry
          /\ \A i \in 1 .. n : app[i] = old[i]
      BY <1>2, <2>1, <2>2
    <2>4. entry.put \notin Dropped'
      BY DEF Queued, Dropped
    <2> SUFFICES ASSUME NEW nv \in DOMAIN app
                 PROVE  /\ puts'[app[nv].put].key = k /\ app[nv].put \notin Dropped'
                        /\ \A i \in DOMAIN app : i < nv => app[i].put < app[nv].put
      BY <2>2, Zenon DEF InQueue
    <2>5. CASE nv = n + 1
      <3>1. app[nv] = entry /\ \A i \in DOMAIN app : i < nv => i \in 1 .. n /\ app[i] = old[i]
        BY <2>3, <2>5
      <3>2. \A i \in 1 .. n : old[i].put \in 1 .. Len(puts)
        BY <1>9, <2>3
      <3>3. \A i \in DOMAIN app : i < nv => app[i].put < app[nv].put
        BY <3>1, <3>2
      <3> QED BY <2>4, <3>1, <3>3
    <2>6. CASE nv \in 1 .. n
      <3>1. \A i \in DOMAIN app : i < nv => i \in 1 .. n
        BY <2>3, <2>6
      <3> QED BY <1>9, <2>3, <2>6, <3>1 DEF InQueue
    <2> QED BY <2>3, <2>5, <2>6
  <1>11. told' \subseteq DOMAIN puts'
    BY DEF Queued
  <1>12. \A j \in Keys : InQueue(puts', Dropped', j, arrays'[ioroot][j])
    BY <1>3, <1>8, <1>9, <1>10
  <1> QED BY <1>6, <1>11, <1>12 DEF Queued

Sound == Buffers /\ InPlace /\ Held /\ Tracked

(* What flush_buffer moves, or that nothing moves without it. *)
LEMMA MovesForPut ==
    ASSUME Exact, Sound, nomem = {}, NEW k \in Keys, NEW need \in {0, 1, 2}, need > 0 => Writable(k),
           IF need > 0 THEN FlushBuffer(k, need = 2) ELSE UNCHANGED <<file, pending, iobuf, aborted>>
    PROVE  \E S : Transfer(S, IF need > 0 THEN PutsOf(k) ELSE {})
  <1>1. CASE need > 0
    <2>1. Writable(k) /\ FlushBuffer(k, need = 2)
      BY <1>1
    <2> QED BY <1>1, <2>1, FlushMoves DEF Sound
  <1>2. CASE ~(need > 0)
    <2>1. WritesOf({}) = {} /\ UNCHANGED <<file, pending>>
      BY <1>2 DEF WritesOf
    <2>2. DOMAIN file' = Places /\ Reached({})
      BY <2>1, VariableTypes DEF Sound, Buffers, Reached
    <2>3. iotype # "pnetcdf" => pending' = {}
      BY <2>1 DEF Sound, Tracked, Issued
    <2>4. Transfer({}, {})
      BY <2>1, <2>2, <2>3 DEF Transfer
    <2> QED BY <1>2, <2>4
  <1> QED BY <1>1, <1>2

(* PIOc_write_darray: the arrays that were flushed move, the put arrives   *)
(* or, without memory for it, does not; then a caller is told.             *)
LEMMA PutMoves ==
    ASSUME Exact, Sound, NEW d \in Decomps, NEW v \in Vars, NEW excess \in 0 .. Excess, NEW refused, NEW short \in SUBSET Tasks,
           PIOc_write_darray(d, v, excess, refused, short)
    PROVE  /\ Tracked' /\ WB!Step
           /\ \A m \in DOMAIN puts' : (m \in DOMAIN puts /\ puts'[m] = puts[m]) \/ m \in Buffered' \/ m \in told'
  <1> DEFINE k == Key(d, v)
             n == Len(puts) + 1
             entry == [vid |-> v, frame |-> record[v], put |-> n]
  <1>1. PICK need \in {0, 1, 2} : need = needsflush(k, refused)[ioroot]
    <2>1. PICK m \in {0, 1, 2} : needsflush(k, refused) = [t \in Tasks |-> m]
      BY KeyType, NeedOfAll DEF Sound
    <2> QED BY <2>1, ConstantTypes
  <1>2. PICK flushed \in BOOLEAN : flushed <=> need > 0
    OBVIOUS
  <1>3. /\ Putting(d, v, excess, refused)
        /\ need > 0 => Writable(k)
        /\ IF need > 0 THEN FlushBuffer(k, need = 2) ELSE UNCHANGED <<file, pending, iobuf, aborted>>
        /\ Store(d, v, excess, needsflush(k, refused), short)
        /\ UNCHANGED <<iotype, record, live, doing, open>>
        /\ nomem = {}
    BY <1>1, Zenon DEF PIOc_write_darray, Putting, Ready, Going
  <1>4. excess \in Nat /\ k \in Keys /\ k[1] = d
    <2>1. Excess \in Nat
      BY WriteAssumption, Zenon
    <2>2. k[1] = d
      BY DEF Key
    <2> QED BY <2>1, <2>2, KeyType
  <1>5. PICK kept \in BOOLEAN : kept <=> ioroot \notin short
    OBVIOUS
  <1>6. /\ told \subseteq told' /\ told' \subseteq told \cup {n}
        /\ nomem' = {} => told' = told
        /\ ~kept => n \in told'
    <2>1. told' = told \cup (IF short = {} THEN {} ELSE {n}) /\ nomem' = short
      BY <1>3, Zenon DEF Store
    <2>2. CASE short = {}
      BY <1>5, <2>1, <2>2, ConstantTypes
    <2>3. CASE short # {}
      BY <2>1, <2>3
    <2> QED BY <2>2, <2>3
  <1>7. PICK new : new \in SUBSET {n} /\ new = IF kept THEN {n} ELSE {}
    OBVIOUS
  <1>8. /\ \A j \in Keys : arrays'[ioroot][j] =
              IF j = k THEN After(flushed, kept, arrays[ioroot][j], entry) ELSE arrays[ioroot][j]
        /\ Hashed(k)' /\ \A j \in Keys : Hashed(j) => Hashed(j)'
        /\ Len(puts) \in Nat /\ DOMAIN puts = 1 .. Len(puts) /\ DOMAIN puts' = 1 .. Len(puts) + 1
        /\ puts'[n].key = k
        /\ \A i \in DOMAIN puts : puts'[i] = puts[i]
    BY <1>1, <1>2, <1>3, <1>4, <1>5, StoreIs DEF Sound
  <1>9. entry \in Entries /\ entry.put = n
    <2>1. record[v] \in -1 .. MaxFrame
      BY VariableTypes DEF Sound, Buffers
    <2>2. n \in 1 .. MaxPuts
      BY <1>3, <1>8, ConstantTypes DEF Putting
    <2> QED BY <2>1, <2>2 DEF Entries
  <1>10. PICK gone \in {{}, PutsOf(k)} : gone = IF flushed THEN PutsOf(k) ELSE {}
    OBVIOUS
  <1> HIDE DEF k, n, entry
  <1>11. PICK S : Transfer(S, gone)
    <2>1. gone = IF need > 0 THEN PutsOf(k) ELSE {}
      BY <1>2, <1>10
    <2> QED BY <1>3, <1>4, <2>1, MovesForPut
  <1>12. Queued' /\ PutsIn(arrays'[ioroot][k]) = (PutsOf(k) \ gone) \cup new
    <2>1. told' \subseteq told \cup {Len(puts) + 1} /\ (nomem' = {} => told' = told)
      BY <1>6 DEF n
    <2>2. /\ Queued'
          /\ PutsIn(arrays'[ioroot][k]) = (PutsOf(k) \ (IF flushed THEN PutsOf(k) ELSE {}))
                                          \cup (IF kept THEN {Len(puts) + 1} ELSE {})
      BY <1>3, <1>4, <1>8, <1>9, <2>1, QueuedAfterPut DEF Sound, Tracked, n
    <2> QED BY <1>10, <1>7, <2>2 DEF n
  <1>13. /\ Buffered' = (Buffered \ gone) \cup new
         /\ gone \subseteq Buffered
         /\ \A i \in gone, m \in Buffered \ gone : puts[i].key # puts[m].key
    <2>1. PICK buffer : buffer = arrays'[ioroot][k]
      OBVIOUS
    <2>2. \A j \in Keys : arrays'[ioroot][j] = IF j = k THEN buffer ELSE arrays[ioroot][j]
      BY <1>8, <2>1
    <2>3. nomem = {} /\ Buffers /\ Queued
      BY <1>3 DEF Sound, Tracked
    <2>4. PutsIn(buffer) = (PutsOf(k) \ gone) \cup new
      BY <1>12, <2>1
    <2> QED BY <1>4, <2>2, <2>3, <2>4, BufferedMoves, SMTT(60)
  <1>14. Issued' /\ WB!Step
    <2>1. open /\ open' = open
      BY <1>3 DEF Putting, Ready, Going
    <2>2. Buffered \subseteq DOMAIN puts /\ told \cap Buffered = {}
      BY <1>3, BufferedPuts DEF Sound, Tracked
    <2>3. DOMAIN puts \subseteq DOMAIN puts' /\ new \in SUBSET {Len(puts) + 1}
      BY <1>8, <1>7 DEF n
    <2>4. open' \in BOOLEAN /\ (~open' => Buffered' = {} /\ pending' = {})
      BY <2>1, Parts DEF Sound, Rest
    <2>5. told \subseteq told' /\ told' \subseteq told \cup {Len(puts) + 1}
      BY <1>6 DEF n
    <2> QED BY <1>3, <1>8, <1>11, <1>13, <2>1, <2>2, <2>3, <2>4, <2>5, Flow DEF Sound, Tracked
  <1>15. Flushable'
    <2>1. doing' = "calls" /\ live' = live /\ d \in live
      BY <1>3 DEF Putting, Ready
    <2>2. ASSUME NEW j \in Keys, j # k, Nvs(j)' # {} PROVE j[1] \in live /\ Hashed(j)'
      <3>1. Nvs(j) # {}
        BY <1>8, <2>2 DEF Nvs
      <3> QED BY <1>8, <3>1 DEF Sound, Tracked, Flushable
    <2> QED BY <1>4, <1>8, <2>1, <2>2 DEF Flushable
  <1>16. \A m \in DOMAIN puts' : (m \in DOMAIN puts /\ puts'[m] = puts[m]) \/ m \in Buffered' \/ m \in told'
    <2>1. n \in Buffered' \/ n \in told'
      BY <1>6, <1>7, <1>13
    <2>2. \A m \in DOMAIN puts' : m \in DOMAIN puts \/ m = n
      BY <1>8 DEF n
    <2> QED BY <1>8, <2>1, <2>2
  <1> QED BY <1>12, <1>14, <1>15, <1>16 DEF Tracked

(* A buffer that is emptied leaves the others alone. *)
LEMMA Emptied ==
    ASSUME Buffers, nomem = {}, UNCHANGED nomem, Tracked, NEW k \in Keys,
           arrays' = [t \in Tasks |-> [arrays[t] EXCEPT ![k] = <<>>]],
           told \subseteq told', told' \subseteq told \cup PutsOf(k), UNCHANGED puts
    PROVE  /\ \A j \in Keys : arrays'[ioroot][j] = IF j = k THEN <<>> ELSE arrays[ioroot][j]
           /\ Queued'
           /\ Buffered' = Buffered \ PutsOf(k) /\ PutsOf(k) \subseteq Buffered
           /\ \A n \in PutsOf(k), m \in Buffered \ PutsOf(k) : puts[n].key # puts[m].key
  <1>1. ioroot \in Tasks /\ arrays[ioroot] \in [Keys -> Seq(Entries)]
    BY ConstantTypes, VariableTypes DEF Buffers
  <1>2. \A j \in Keys : arrays'[ioroot][j] = IF j = k THEN <<>> ELSE arrays[ioroot][j]
    BY <1>1
  <1>3. PutsIn(<<>>) = (PutsOf(k) \ PutsOf(k)) \cup {}
    BY DEF PutsIn
  <1>4. /\ Buffered' = (Buffered \ PutsOf(k)) \cup {}
        /\ PutsOf(k) \subseteq Buffered
        /\ \A n \in PutsOf(k), m \in Buffered \ PutsOf(k) : puts[n].key # puts[m].key
    BY <1>2, <1>3, BufferedMoves DEF Tracked
  <1>5. Queued'
    <2>1. told' \subseteq DOMAIN puts
      BY BufferedPuts DEF Tracked, Queued
    <2>2. ASSUME NEW j \in Keys PROVE InQueue(puts, Dropped', j, arrays'[ioroot][j])
      <3>1. CASE j = k
        <4>1. arrays'[ioroot][j] = <<>>
          BY <1>2, <3>1
        <4>2. InQueue(puts, Dropped', j, <<>>)
          BY DEF InQueue
        <4> QED BY <4>1, <4>2
      <3>2. CASE j # k
        <4>1. arrays'[ioroot][j] = arrays[ioroot][j]
          BY <1>2, <3>2
        <4>2. \A nv \in DOMAIN arrays[ioroot][j] : arrays[ioroot][j][nv].put \in PutsOf(j)
          BY DEF PutsOf, Nvs
        <4>3. \A n \in PutsOf(j) : n \notin PutsOf(k)
          BY <3>2, BufferedPuts DEF Tracked
        <4>4. InQueue(puts, told, j, arrays[ioroot][j]) /\ Dropped' = told'
          BY DEF Tracked, Queued, Dropped
        <4> QED BY <4>1, <4>2, <4>3, <4>4 DEF InQueue
      <3> QED BY <3>1, <3>2
    <2> QED BY <2>1, <2>2 DEF Queued
  <1> QED BY <1>2, <1>4, <1>5

(* The flush of a put fails: the arrays of the buffer are dropped, and the *)
(* caller is told.                                                         *)
LEMMA FailMoves ==
    ASSUME Sound, NEW d \in Decomps, NEW v \in Vars, NEW excess, NEW refused,
           WriteDarrayFails(d, v, excess, refused)
    PROVE  Tracked' /\ WB!Step
  <1>1. PICK k \in Keys : k = Key(d, v)
    BY KeyType
  <1>2. /\ arrays' = [t \in Tasks |-> [arrays[t] EXCEPT ![k] = <<>>]]
        /\ told' = told \cup PutsOf(k)
        /\ UNCHANGED <<iotype, record, live, order, file, pending, iobuf, doing, open, puts, nomem, aborted>>
        /\ open /\ doing = "calls" /\ nomem = {}
    BY <1>1, Zenon DEF WriteDarrayFails, Putting, PutsOf, Ready, Going
  <1>3. /\ \A j \in Keys : arrays'[ioroot][j] = IF j = k THEN <<>> ELSE arrays[ioroot][j]
        /\ Queued'
        /\ Buffered' = Buffered \ PutsOf(k) /\ PutsOf(k) \subseteq Buffered
    BY <1>2, Emptied DEF Sound
  <1>4. \A n : Array(n)' = Array(n) /\ \A x : Stored(x)' = Stored(x)
    BY <1>2 DEF Array, Stored
  <1>5. \A x \in pending : x.put \notin PutsOf(k)
    BY <1>3 DEF Sound, Tracked, Issued
  <1>6. Issued'
    BY <1>2, <1>3, <1>4, <1>5 DEF Sound, Tracked, Issued
  <1>7. Flushable'
    <2>1. doing' = "calls"
      BY <1>2
    <2> QED BY <1>2, <1>3, <2>1 DEF Sound, Tracked, Flushable, Nvs, Hashed
  <1>8. Cache = WritesOf(Buffered) \cup StoredAll(pending)
    BY CacheIs DEF Sound, Tracked
  <1>9. Cache' = WritesOf(Buffered \ PutsOf(k)) \cup StoredAll(pending)
    <2>1. WritesOf(Buffered)' = WritesOf(Buffered \ PutsOf(k))
      BY <1>3, <1>4 DEF WritesOf
    <2>2. StoredAll(pending)' = StoredAll(pending)
      BY <1>2, <1>4 DEF StoredAll
    <2> QED BY <1>6, <2>1, <2>2, CacheIsNext
  <1>10. Cache' \ Cache = {}
    BY <1>8, <1>9 DEF WritesOf
  <1>11. \A w \in Cache \ Cache' : w.n \in told'
    <2> SUFFICES ASSUME NEW w \in Cache, w \notin Cache' PROVE w.n \in told'
      OBVIOUS
    <2>1. PICK n \in Buffered : w \in Array(n)
      BY <1>8, <1>9 DEF WritesOf
    <2>2. n \in PutsOf(k)
      BY <1>9, <2>1 DEF WritesOf
    <2> QED BY <1>2, <2>1, <2>2, ArrayPlaces
  <1>12. Reached({}) /\ DOMAIN file' = Places
    BY <1>2, VariableTypes DEF Sound, Buffers, Reached
  <1>13. open /\ open' = TRUE /\ told \subseteq told' /\ iotype' = iotype
    <2>1. open \in BOOLEAN
      BY Parts DEF Sound, Rest
    <2> QED BY <1>2, <2>1
  <1>14. {} = {w \in Cache \ Cache' : w.n \notin told'}
    BY <1>11
  <1>15. WB!Step
    BY <1>10, <1>12, <1>13, <1>14, StepIs
  <1> QED BY <1>3, <1>6, <1>7, <1>15 DEF Tracked

(* The steps that the store does not see. *)
LEMMA Stutters ==
    ASSUME UNCHANGED <<iotype, arrays, file, pending, open, puts, told>>
    PROVE  UNCHANGED WB!vars
  <1>1. Cache' = Cache
    BY DEF Cache, Posted, Buffered, Array, Nvs
  <1> QED BY <1>1 DEF WB!vars

LEMMA Unseen ==
    ASSUME Cautious, Sound,
           \/ \E v \in Vars, frame \in Frames : PIOc_setframe(v, frame)
           \/ \E v \in Vars : PIOc_advanceframe(v)
           \/ \E d \in Decomps : PIOc_freedecomp(d)
           \/ \E call \in {"sync", "close"} : Begin(call)
           \/ UNCHANGED vars
    PROVE  Tracked' /\ UNCHANGED WB!vars
  <1>1. UNCHANGED <<iotype, arrays, order, file, pending, open, puts, told, nomem>>
    BY DEF PIOc_setframe, PIOc_advanceframe, PIOc_freedecomp, Begin, vars
  <1>2. Queued'
    BY <1>1 DEF Sound, Tracked, Queued, Dropped
  <1>3. Issued'
    <2>1. Buffered' = Buffered
      BY <1>1 DEF Buffered, Nvs
    <2>2. \A n : Array(n)' = Array(n) /\ \A x : Stored(x)' = Stored(x)
      BY <1>1 DEF Array, Stored
    <2> QED BY <1>1, <2>1, <2>2 DEF Sound, Tracked, Issued
  <1>4. \A k \in Keys : Nvs(k)' = Nvs(k) /\ SameRank(k)' = SameRank(k) /\ Hashed(k)' = Hashed(k)
    BY <1>1 DEF Nvs, SameRank, Hashed
  <1>5. \A k \in Keys : Nvs(k) # {} => k[1] \in live'
    BY DEF Cautious, Sound, Tracked, Flushable, PIOc_setframe, PIOc_advanceframe, PIOc_freedecomp, Begin, vars
  <1>6. doing' # "calls" => \A k \in Keys : SameRank(k)
    BY DEF Cautious, Sound, Tracked, Flushable, PIOc_setframe, PIOc_advanceframe, PIOc_freedecomp, Begin, vars
  <1>7. Flushable'
    BY <1>4, <1>5, <1>6 DEF Sound, Tracked, Flushable
  <1> QED BY <1>1, <1>2, <1>3, <1>7, Stutters DEF Tracked

(* Some tasks return before the others wait for them: the buffer is in     *)
(* the hash of those, empty.                                               *)
LEMMA UnbufferedUnseen ==
    ASSUME Sound, NEW d \in Decomps, NEW v \in Vars, NEW short \in SUBSET Tasks,
           WriteDarrayUnbuffered(d, v, short)
    PROVE  Tracked' /\ UNCHANGED WB!vars
  <1>1. PICK key \in Keys : key = Key(d, v)
    BY KeyType
  <1>2. /\ order' = [t \in Tasks |-> IF t \in short THEN order[t] ELSE Append(order[t], key)]
        /\ nomem' # {} /\ doing = "calls"
        /\ UNCHANGED <<iotype, live, arrays, file, pending, doing, open, puts, told>>
    BY <1>1, Zenon DEF WriteDarrayUnbuffered, Putting, Ready
  <1>3. Queued'
    BY <1>2 DEF Sound, Tracked, Queued, InQueue, Dropped
  <1>4. Issued'
    <2>1. Buffered' = Buffered
      BY <1>2 DEF Buffered, Nvs
    <2>2. \A n : Array(n)' = Array(n) /\ \A x : Stored(x)' = Stored(x)
      BY <1>2 DEF Array, Stored
    <2> QED BY <1>2, <2>1, <2>2 DEF Sound, Tracked, Issued
  <1>5. \A k \in Keys : Hashed(k) => Hashed(k)'
    <2>1. PICK q \in Seq(Keys) : q = order[ioroot]
      BY ConstantTypes, VariableTypes DEF Sound, Buffers
    <2>2. order'[ioroot] \in {q, Append(q, key)}
      BY <1>2, <2>1, ConstantTypes
    <2>3. \A i \in DOMAIN q : i \in DOMAIN Append(q, key) /\ Append(q, key)[i] = q[i]
      BY <1>1
    <2> QED BY <2>1, <2>2, <2>3 DEF Hashed
  <1>6. Flushable'
    BY <1>2, <1>5 DEF Sound, Tracked, Flushable, Nvs
  <1> QED BY <1>2, <1>3, <1>4, <1>6, Stutters DEF Tracked

(* A sync flushes the next buffer, whatever flush_buffer returns. *)
LEMMA SyncMoves ==
    ASSUME Exact, Sound, SyncBuffer
    PROVE  Tracked' /\ WB!Step
  <1>1. PICK k : k = Head(order[ioroot])
    OBVIOUS
  <1>2. /\ open /\ doing # "calls" /\ order[ioroot] # <<>>
        /\ FlushBuffer(k, TRUE)
        /\ arrays' = [t \in Tasks |-> [arrays[t] EXCEPT ![k] = <<>>]]
        /\ order' = [t \in Tasks |-> Tail(order[t])]
        /\ UNCHANGED <<iotype, live, doing, open, puts, told, nomem>>
        /\ nomem = {}
    BY <1>1, Zenon DEF SyncBuffer, Going
  <1>3. ioroot \in Tasks /\ order[ioroot] \in Seq(Keys)
    BY ConstantTypes, VariableTypes DEF Sound, Buffers
  <1>4. k \in Keys
    BY <1>1, <1>2, <1>3
  <1>5. Nvs(k) = {} \/ Writable(k)
    BY <1>2, <1>4 DEF Sound, Tracked, Flushable, Writable
  <1>6. PICK S : Transfer(S, PutsOf(k))
    BY <1>2, <1>4, <1>5, FlushMoves DEF Sound
  <1>7. /\ \A j \in Keys : arrays'[ioroot][j] = IF j = k THEN <<>> ELSE arrays[ioroot][j]
        /\ Queued'
        /\ Buffered' = Buffered \ PutsOf(k) /\ PutsOf(k) \subseteq Buffered
        /\ \A n \in PutsOf(k), m \in Buffered \ PutsOf(k) : puts[n].key # puts[m].key
    BY <1>2, <1>4, Emptied DEF Sound
  <1>8. Issued' /\ WB!Step
    <2>1. DOMAIN puts = 1 .. Len(puts) /\ Len(puts) \in Nat
      <3>1. PICK R : R = [vid : Vars, frame : Frames, key : Keys]
        OBVIOUS
      <3>2. puts \in Seq(R)
        BY <3>1, VariableTypes DEF Sound, Buffers
      <3> QED BY <3>2
    <2>2. Buffered \subseteq DOMAIN puts /\ told \cap Buffered = {}
      BY <1>2, BufferedPuts DEF Sound, Tracked
    <2>3. open' \in BOOLEAN /\ (~open' => Buffered' = {} /\ pending' = {})
      BY <1>2, Parts DEF Sound, Rest
    <2>4. {} \in SUBSET {Len(puts) + 1} /\ Buffered' = (Buffered \ PutsOf(k)) \cup {}
      BY <1>7
    <2> QED BY <1>2, <1>6, <1>7, <2>1, <2>2, <2>3, <2>4, Flow DEF Sound, Tracked
  <1>9. \A j \in Keys \ {k} : Hashed(j) => Hashed(j)'
    <2> SUFFICES ASSUME NEW j \in Keys \ {k}, Hashed(j) PROVE Hashed(j)'
      OBVIOUS
    <2>1. PICK q \in Seq(Keys) : q = order[ioroot]
      BY <1>3
    <2>2. order'[ioroot] = Tail(q)
      BY <1>2, <1>3, <2>1
    <2>3. PICK i \in DOMAIN q : q[i] = j
      BY <2>1 DEF Hashed
    <2>4. i # 1 /\ i \in 1 .. Len(q) /\ Len(q) \in Nat
      BY <1>1, <1>2, <2>1, <2>3
    <2>5. i - 1 \in DOMAIN Tail(q) /\ Tail(q)[i - 1] = j
      BY <1>2, <2>1, <2>3, <2>4
    <2> QED BY <2>2, <2>5 DEF Hashed
  <1>10. Flushable'
    <2>1. \A j \in Keys : Nvs(j)' = IF j = k THEN {} ELSE Nvs(j)
      BY <1>7 DEF Nvs
    <2>2. ASSUME NEW j \in Keys PROVE SameRank(j)'
      <3>1. CASE j = k
        BY <2>1, <3>1 DEF SameRank
      <3>2. CASE j # k
        <4>1. SameRank(j)
          BY <1>2 DEF Sound, Tracked, Flushable
        <4>2. arrays'[ioroot][j] = arrays[ioroot][j]
          BY <1>7, <3>2
        <4> QED BY <4>1, <4>2 DEF SameRank, Nvs
      <3> QED BY <3>1, <3>2
    <2>3. ASSUME NEW j \in Keys, Nvs(j)' # {} PROVE j[1] \in live' /\ Hashed(j)'
      BY <1>2, <1>9, <2>1, <2>3 DEF Sound, Tracked, Flushable
    <2> QED BY <2>2, <2>3 DEF Flushable
  <1> QED BY <1>7, <1>8, <1>10 DEF Tracked

(* At the end of a sync nothing is buffered, and what was posted lands. *)
LEMMA EndMoves ==
    ASSUME Sound, EndSync
    PROVE  Tracked' /\ WB!Step
  <1>1. /\ open /\ doing # "calls" /\ order[ioroot] = <<>>
        /\ pending' = {}
        /\ doing' = "calls" /\ open' = (doing # "close")
        /\ UNCHANGED <<iotype, live, arrays, order, puts, told, nomem>>
    BY Zenon DEF EndSync, Going, flush_output_buffer
  <1>2. PICK rank \in Rankings : file' = Land(file, pending, rank)
    BY Zenon DEF EndSync, flush_output_buffer
  <1>3. \A k \in Keys : Nvs(k) = {}
    BY <1>1 DEF Sound, Tracked, Flushable, Hashed
  <1>4. Buffered = {} /\ Buffered' = {}
    BY <1>1, <1>3 DEF Buffered, Nvs
  <1>5. DOMAIN file' = Places /\ Latest(file, pending, file')
    <2>1. DOMAIN file = Places
      BY VariableTypes DEF Sound, Buffers
    <2>2. \A w \in pending : w.nv \in 1 .. Room
      BY DEF Sound, Buffers, TypeOK
    <2> QED BY <1>2, <2>1, <2>2, LandLatest
  <1>6. PICK S : S = StoredAll(pending)
    OBVIOUS
  <1>7. iotype # "pnetcdf" => pending = {} /\ S = {}
    BY <1>6 DEF Sound, Tracked, Issued, StoredAll
  <1>8. Reached(S)
    <2> SUFFICES ASSUME NEW p \in Places
                 PROVE  \/ file'[p] = file[p] /\ \A w \in S : w.place # p
                        \/ \E w \in S : w.place = p /\ file'[p] = w.val /\ \A x \in S : ~WB!Supersedes(x, w)
      BY DEF Reached
    <2>1. \A w : Stored(w).place = w.place /\ Stored(w).val = w.val
      BY DEF Stored
    <2>2. CASE file'[p] = file[p] /\ \A w \in pending : w.place # p
      BY <1>6, <2>1, <2>2 DEF StoredAll
    <2>3. CASE \E w \in pending : w.place = p /\ file'[p] = w.val
      <3>1. PICK w \in pending : w.place = p /\ file'[p] = w.val
        BY <2>3
      <3>2. Stored(w) \in S
        BY <1>6 DEF StoredAll
      <3>3. \A x \in S : ~WB!Supersedes(x, Stored(w))
        BY <1>7, <3>1 DEF WB!Supersedes
      <3> QED BY <2>1, <3>1, <3>2, <3>3
    <2> QED BY <1>5, <2>2, <2>3 DEF Latest
  <1>9. Issued' /\ WB!Step
    <2>1. WritesOf({}) = {} /\ StoredAll({}) = {}
      BY DEF WritesOf, StoredAll
    <2>2. Transfer(S, {})
      BY <1>1, <1>5, <1>6, <1>7, <1>8, <2>1 DEF Transfer
    <2>3. DOMAIN puts = 1 .. Len(puts) /\ Len(puts) \in Nat
      <3>1. PICK R : R = [vid : Vars, frame : Frames, key : Keys]
        OBVIOUS
      <3>2. puts \in Seq(R)
        BY <3>1, VariableTypes DEF Sound, Buffers
      <3> QED BY <3>2
    <2>4. open' \in BOOLEAN /\ {} \in SUBSET {Len(puts) + 1} /\ Buffered' = (Buffered \ {}) \cup {}
      BY <1>1, <1>4
    <2> QED BY <1>1, <1>4, <2>2, <2>3, <2>4, Flow DEF Sound, Tracked
  <1>10. Queued'
    BY <1>1 DEF Sound, Tracked, Queued, Dropped
  <1>11. Flushable'
    <2>1. \A k \in Keys : Nvs(k)' = {}
      BY <1>1, <1>3 DEF Nvs
    <2> QED BY <1>1, <2>1 DEF Flushable
  <1> QED BY <1>9, <1>10, <1>11 DEF Tracked

-----------------------------------------------------------------------------
(* The refinement. *)

LEMMA SoundInit == Init => Sound /\ WB!Init
  <1> SUFFICES ASSUME Init PROVE Sound /\ WB!Init
    OBVIOUS
  <1>1. /\ \A k \in Keys : arrays[ioroot][k] = <<>>
        /\ pending = {} /\ told = {} /\ nomem = {} /\ doing = "calls" /\ open = TRUE
        /\ file = [p \in Places |-> None]
    BY ConstantTypes DEF Init, Empty
  <1>2. \A k \in Keys : Nvs(k) = {}
    BY <1>1 DEF Nvs
  <1>3. Buffered = {}
    BY <1>2 DEF Buffered
  <1>4. Queued /\ Issued /\ Flushable
    BY <1>1, <1>2 DEF Queued, InQueue, Nvs, Issued, Flushable
  <1>5. Cache = {}
    BY <1>1, <1>3 DEF Cache, Posted
  <1>6. WB!Init
    BY <1>1, <1>5 DEF WB!Init
  <1> QED BY <1>4, <1>6, BuffersInit, InPlaceInit, HeldInit DEF Sound, Tracked

LEMMA SoundNext ==
    ASSUME Exact, Cautious
    PROVE  Sound /\ [Next]_vars => Sound' /\ [WB!Step]_WB!vars
  <1> SUFFICES ASSUME Sound, [Next]_vars PROVE Tracked' /\ [WB!Step]_WB!vars
    BY BuffersNext, InPlaceNext, HeldNext DEF Sound
  <1>1. ASSUME NEW d \in Decomps, NEW v \in Vars, NEW excess \in 0 .. Excess, NEW refused \in SUBSET Tasks,
               NEW short \in SUBSET Tasks, PIOc_write_darray(d, v, excess, refused, short)
        PROVE  Tracked' /\ WB!Step
    BY <1>1, PutMoves
  <1>2. ASSUME NEW d \in Decomps, NEW v \in Vars, NEW excess \in 0 .. Excess, NEW refused \in SUBSET Tasks,
               WriteDarrayFails(d, v, excess, refused)
        PROVE  Tracked' /\ WB!Step
    BY <1>2, FailMoves
  <1>3. CASE \/ \E v \in Vars, frame \in Frames : PIOc_setframe(v, frame)
             \/ \E v \in Vars : PIOc_advanceframe(v)
             \/ \E d \in Decomps : PIOc_freedecomp(d)
             \/ \E call \in {"sync", "close"} : Begin(call)
             \/ UNCHANGED vars
    BY <1>3, Unseen
  <1>4. CASE SyncBuffer
    BY <1>4, SyncMoves
  <1>5. CASE EndSync
    BY <1>5, EndMoves
  <1>6. ASSUME NEW d \in Decomps, NEW v \in Vars, NEW short \in SUBSET Tasks, WriteDarrayUnbuffered(d, v, short)
        PROVE  Tracked' /\ UNCHANGED WB!vars
    BY <1>6, UnbufferedUnseen
  <1> QED BY <1>1, <1>2, <1>3, <1>4, <1>5, <1>6, Zenon DEF Next

(* Buffered writes are a write-back store, whatever the order of the calls *)
(* of PIOc_write_darray, PIOc_setframe, PIOc_sync and PIOc_closefile, the  *)
(* memory the tasks have and the order in which pnetcdf completes its      *)
(* requests: an accepted array is written once, not over a later one of    *)
(* its buffer, or dropped with an error, and a closed file has nothing     *)
(* left in its buffers.  For every number of tasks, variables,             *)
(* decompositions and puts, if Exact and Cautious hold.                    *)
THEOREM BuffersAreWriteBack ==
    ASSUME Exact, Cautious
    PROVE  Spec => IsWriteBack
  <1>1. Init => Sound /\ WB!Init
    BY SoundInit
  <1>2. Sound /\ [Next]_vars => Sound' /\ [WB!Step]_WB!vars
    BY SoundNext
  <1> QED BY <1>1, <1>2, PTL DEF Spec, IsWriteBack, WB!Spec

-----------------------------------------------------------------------------
(* What becomes of an accepted array, cell by cell. *)
Kept ==
    /\ \A n \in DOMAIN puts : \A c \in CellsWritten(puts[n].key) :
          n \in told \/ Piece(n, c) \in Cache \/ file[Piece(n, c).place] # None
    /\ ~open => Cache = {}

LEMMA ArrivalsCached ==
    ASSUME Exact, Sound, Sound', [Next]_vars
    PROVE  \A n \in DOMAIN puts' :
              \/ n \in told'
              \/ n \in DOMAIN puts /\ puts'[n] = puts[n]
              \/ \A c \in CellsWritten(puts'[n].key) : Piece(n, c)' \in Cache'
  <1>1. ASSUME NEW n \in Buffered', NEW c \in CellsWritten(puts'[n].key) PROVE Piece(n, c)' \in Cache'
    <2>1. Cache' = WritesOf(Buffered)' \cup StoredAll(pending)'
      BY CacheIsNext DEF Sound, Tracked
    <2>2. Piece(n, c)' \in Array(n)'
      BY ArrayKeysNext DEF Keyed
    <2> QED BY <2>1, <2>2 DEF WritesOf
  <1>2. CASE UNCHANGED puts
    BY <1>2
  <1>3. ASSUME NEW d \in Decomps, NEW v \in Vars, NEW excess \in 0 .. Excess, NEW refused \in SUBSET Tasks,
               NEW short \in SUBSET Tasks, PIOc_write_darray(d, v, excess, refused, short)
        PROVE  \A m \in DOMAIN puts' : (m \in DOMAIN puts /\ puts'[m] = puts[m]) \/ m \in Buffered' \/ m \in told'
    BY <1>3, PutMoves
  <1>4. CASE \/ \E v \in Vars, frame \in Frames : PIOc_setframe(v, frame)
             \/ \E v \in Vars : PIOc_advanceframe(v)
             \/ \E d \in Decomps, v \in Vars, excess \in 0 .. Excess, refused \in SUBSET Tasks :
                    WriteDarrayFails(d, v, excess, refused)
             \/ \E d \in Decomps, v \in Vars, short \in SUBSET Tasks : WriteDarrayUnbuffered(d, v, short)
             \/ \E d \in Decomps : PIOc_freedecomp(d)
             \/ Begin("sync") \/ Begin("close") \/ SyncBuffer \/ EndSync \/ UNCHANGED vars
    <2>1. UNCHANGED puts
      BY <1>4, Zenon DEF vars, PIOc_setframe, PIOc_advanceframe, WriteDarrayFails, WriteDarrayUnbuffered,
                         PIOc_freedecomp, Begin, SyncBuffer, EndSync
    <2> QED BY <1>2, <2>1
  <1>5. ASSUME NEW d \in Decomps, NEW v \in Vars, NEW excess \in 0 .. Excess, NEW refused \in SUBSET Tasks,
               NEW short \in SUBSET Tasks, PIOc_write_darray(d, v, excess, refused, short),
               NEW n \in DOMAIN puts'
        PROVE  \/ n \in told'
               \/ n \in DOMAIN puts /\ puts'[n] = puts[n]
               \/ \A c \in CellsWritten(puts'[n].key) : Piece(n, c)' \in Cache'
    BY <1>1, <1>3, <1>5
  <1> QED BY <1>2, <1>4, <1>5, Zenon DEF Next

LEMMA KeptNext ==
    ASSUME Exact, Cautious
    PROVE  Sound /\ Kept /\ [Next]_vars => Kept'
  <1> SUFFICES ASSUME Sound, Kept, [Next]_vars PROVE Kept'
    OBVIOUS
  <1>1. Sound' /\ [WB!Step]_WB!vars
    BY SoundNext
  <1>2. \A w \in Cache : w.val # None
    <2> SUFFICES ASSUME NEW w \in Cache PROVE w.val # None
      OBVIOUS
    <2>1. PICK n : w \in Array(n)
      BY DEF Cache, Posted
    <2>2. PICK c : w = Piece(n, c)
      BY <2>1, ArrayIs
    <2> QED BY <2>2 DEF Piece, PutOf, FillOf, None
  <1>3. ASSUME NEW p \in Places, file[p] # None PROVE file'[p] # None
    <2>1. CASE UNCHANGED WB!vars
      BY <1>3, <2>1 DEF WB!vars
    <2>2. CASE WB!Step
      <3>1. WB!Move({w \in Cache \ Cache' : w.n \notin told'})
        BY <2>2 DEF WB!Step
      <3>2. file'[p] = file[p] \/ \E w \in Cache : file'[p] = w.val
        BY <3>1 DEF WB!Move
      <3> QED BY <1>2, <1>3, <3>2
    <2> QED BY <1>1, <2>1, <2>2
  <1>4. ASSUME NEW w \in Cache, w.place \in Places
        PROVE  w.n \in told' \/ w \in Cache' \/ file'[w.place] # None
    <2>1. CASE UNCHANGED WB!vars
      BY <1>4, <2>1 DEF WB!vars
    <2>2. CASE WB!Step
      <3> DEFINE S == {x \in Cache \ Cache' : x.n \notin told'}
      <3>1. WB!Move(S)
        BY <2>2 DEF WB!Step
      <3>2. w \in S => \E x \in S : file'[w.place] = x.val
        BY <1>4, <3>1 DEF WB!Move
      <3> QED BY <1>2, <1>4, <3>2
    <2> QED BY <1>1, <2>1, <2>2
  <1>5. told \subseteq told' /\ (~open' => Cache' = {})
    BY <1>1 DEF Kept, WB!Step, WB!vars
  <1>6. ASSUME NEW n \in DOMAIN puts', NEW c \in CellsWritten(puts'[n].key)
        PROVE  n \in told' \/ Piece(n, c)' \in Cache' \/ file'[Piece(n, c)'.place] # None
    <2>1. CASE n \in DOMAIN puts /\ puts'[n] = puts[n]
      <3>1. Piece(n, c)' = Piece(n, c)
        BY <2>1 DEF Piece
      <3>2. Piece(n, c).n = n /\ Piece(n, c).place \in Places
        <4>1. PICK R : R = [vid : Vars, frame : Frames, key : Keys]
          OBVIOUS
        <4>2. puts \in Seq(R)
          BY <4>1, VariableTypes DEF Sound, Buffers
        <4>3. puts[n] \in R
          BY <2>1, <4>2
        <4>4. c \in Cells
          BY DEF CellsWritten, Cells
        <4> QED BY <4>1, <4>3, <4>4 DEF Piece, Places
      <3>3. n \in told \/ Piece(n, c) \in Cache \/ file[Piece(n, c).place] # None
        BY <2>1 DEF Kept
      <3> QED BY <1>3, <1>4, <1>5, <3>1, <3>2, <3>3
    <2>2. CASE \A b \in CellsWritten(puts'[n].key) : Piece(n, b)' \in Cache'
      BY <2>2
    <2> QED BY <1>1, <2>1, <2>2, ArrivalsCached
  <1> QED BY <1>5, <1>6 DEF Kept

(* No silent loss: when the file is closed, every element of every array   *)
(* that PIOc_write_darray accepted is in the file, or a caller got the     *)
(* error of the flush that dropped it.  For every number of tasks,         *)
(* variables, decompositions and puts, if Exact and Cautious hold; run     *)
(* write_lost shows what happens without Cautious.                         *)
THEOREM NoSilentLoss ==
    ASSUME Exact, Cautious
    PROVE  Spec => []LossReported
  <1>1. Init => Sound /\ Kept
    <2> SUFFICES ASSUME Init PROVE Kept
      BY SoundInit
    <2> QED BY DEF Init, Kept
  <1>2. Sound /\ Kept /\ [Next]_vars => Sound' /\ Kept'
    BY SoundNext, KeptNext
  <1>3. Kept => LossReported
    <2> SUFFICES ASSUME Kept, ~open, NEW n \in DOMAIN puts, NEW t \in Tasks, n \notin told, ~(ndof[t] = 0)
                 PROVE  file[<<puts[n].vid, puts[n].frame, t>>] # None
      BY DEF LossReported
    <2>1. t \in CellsWritten(puts[n].key)
      BY ConstantTypes DEF CellsWritten
    <2>2. Piece(n, t).place = <<puts[n].vid, puts[n].frame, t>>
      BY DEF Piece
    <2> QED BY <2>1, <2>2 DEF Kept
  <1> QED BY <1>1, <1>2, <1>3, PTL DEF Spec
=============================================================================
