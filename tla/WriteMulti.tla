----------------------------- MODULE WriteMulti -----------------------------
(***************************************************************************)
(* Distributed arrays on their way to a file (pio_darray.c,                *)
(* pio_darray_int.c).  PIOc_write_darray keeps a task's share of an array  *)
(* in a buffer of the task, one buffer for each decomposition and kind of  *)
(* variable; flush_buffer hands all arrays of a buffer to                  *)
(* PIOc_write_darray_multi, which moves them to the I/O tasks and writes   *)
(* them.  With pnetcdf the write is only posted, and the buffer on the I/O *)
(* tasks (iobuf) stays in use until the requests are waited for.           *)
(*                                                                         *)
(* The calls are collective, so that one call at a time is made; what a    *)
(* task decides alone (is there memory left?) is chosen for each task.     *)
(* The share of a task is ndof[t] elements, at most one, and goes to cell  *)
(* t of the variable and frame; Hole is a cell that no task has an element *)
(* for and that gets the fill value.  The library's own calls succeed.     *)
(***************************************************************************)
EXTENDS Integers, Sequences, FiniteSets

CONSTANTS
    Tasks,       \* of comp_comm
    ioroot,      \* the task whose view of the arrays is written
    Hole,
    Vars,
    Decomps,
    rec_var,     \* [Vars -> {0, 1}]
    fndims,      \* [Vars -> Nat], dimensions in the file
    ndims,       \* [Decomps -> Nat], dimensions of the decomposition
    needsfill,   \* [Decomps -> BOOLEAN]
    rearranger,  \* [Decomps -> {"box", "subset"}]
    llen, maxiobuflen,   \* elements of the I/O task with the hole, its last
                 \* element, and the largest number of an I/O task
    ndof,        \* [Tasks -> {0, 1}]
    Iotypes,     \* the iotypes the file may have
    Room,        \* arrays of one buffer that are not more than INT_MAX bytes
                 \* on an I/O task
    Excess,      \* values beyond ndof that an array may have
    Liberties,   \* what the program may do besides: free a decomposition that
                 \* arrays are buffered for, sync buffers of mixed ranks
    MaxFrame, MaxPuts

ASSUME WriteAssumption ==
    /\ ioroot \in Tasks /\ Hole \notin Tasks
    /\ rec_var \in [Vars -> {0, 1}]
    /\ fndims \in [Vars -> Nat]
    /\ ndims \in [Decomps -> Nat]
    /\ needsfill \in [Decomps -> BOOLEAN]
    /\ rearranger \in [Decomps -> {"box", "subset"}]
    /\ llen \in Nat \ {0} /\ maxiobuflen \in Nat /\ llen <= maxiobuflen
    /\ ndof \in [Tasks -> {0, 1}]
    /\ Iotypes \subseteq {"netcdf", "netcdf4p", "pnetcdf"}
    /\ Room \in Nat \ {0}
    /\ Excess \in Nat /\ Liberties \subseteq {"free early", "mix ranks"}
    /\ MaxFrame \in Nat /\ MaxPuts \in Nat

VARIABLES
    iotype,    \* of the file
    record,    \* [Vars -> vdesc->record]
    live,      \* the decompositions that exist
    arrays,    \* [Tasks -> [Keys -> Seq of [vid, frame, put]]], the wmb lists
    data,      \* [Tasks -> [Keys -> Seq of elements]], wmb->data
    order,     \* [Tasks -> Seq of keys], the hash file->buffer in its order
    file,      \* [Places -> element]
    pending,   \* posted pnetcdf requests, a set of [place, val, nv, put]
    iobuf,     \* is file->iobuf in use on the I/O tasks?
    doing,     \* "calls", or "sync" or "close" while the buffers are flushed
    open,
    puts,      \* Seq of the arrays accepted, history
    told,      \* puts whose loss a caller has heard of, history
    nomem,     \* the tasks that PIOc_write_darray left with PIO_ENOMEM
    aborted    \* an assertion has failed

vars == <<iotype, record, live, arrays, data, order, file, pending, iobuf, doing, open,
          puts, told, nomem, aborted>>

Keys   == Decomps \X {0, 1}
Frames == 0 .. MaxFrame
Cells  == Tasks \cup {Hole}
Places == Vars \X Frames \X Cells

(* Elements.  Junk is what lies beyond the share of a task or was never    *)
(* written.                                                                *)
None     == <<"none", 0>>
Junk     == <<"junk", 0>>
PutOf(n) == <<"put", n>>
FillOf(v) == <<"fill", v>>

Empty == [k \in Keys |-> <<>>]

Init ==
    /\ iotype \in Iotypes
    /\ record = [v \in Vars |-> -1]
    /\ live = Decomps
    /\ arrays = [t \in Tasks |-> Empty]
    /\ data = [t \in Tasks |-> Empty]
    /\ order = [t \in Tasks |-> <<>>]
    /\ file = [p \in Places |-> None]
    /\ pending = {} /\ iobuf = FALSE
    /\ doing = "calls" /\ open = TRUE
    /\ puts = <<>> /\ told = {} /\ nomem = {} /\ aborted = FALSE

(* A task that has left a call with PIO_ENOMEM while others went on no     *)
(* longer has their buffers, or does not meet them in MPI_Allreduce: the   *)
(* flushes after that are not collective, and the model ends.              *)
Going == open /\ ~aborted /\ nomem = {}
Ready == Going /\ doing = "calls"

-----------------------------------------------------------------------------
(* Frames *)
PIOc_setframe(v, frame) ==
    /\ Ready
    /\ record' = [record EXCEPT ![v] = frame]
    /\ UNCHANGED <<iotype, live, arrays, data, order, file, pending, iobuf, doing, open,
                   puts, told, nomem, aborted>>

PIOc_advanceframe(v) ==
    /\ Ready
    /\ record[v] < MaxFrame
    /\ record' = [record EXCEPT ![v] = @ + 1]
    /\ UNCHANGED <<iotype, live, arrays, data, order, file, pending, iobuf, doing, open,
                   puts, told, nomem, aborted>>

-----------------------------------------------------------------------------
(* Writing the arrays of a buffer.  Requests complete in the order of the  *)
(* arrays, or in any order if they were posted together.                   *)
Orders   == {r \in [1 .. Room -> 1 .. Room] : \A i, j \in 1 .. Room : r[i] = r[j] => i = j}
Rankings == IF iotype = "pnetcdf" THEN Orders ELSE {[i \in 1 .. Room |-> i]}

Land(f, writes, rank) ==
    [p \in DOMAIN f |->
        LET here == {w \in writes : w.place = p}
        IN  IF here = {} THEN f[p]
            ELSE (CHOOSE w \in here : \A x \in here : rank[x.nv] <= rank[w.nv]).val]

(* Fault: the frame of the array also for a variable without one. *)
FrameAlways(k, nv) == arrays[ioroot][k][nv].frame
(* find_start_count: where an array starts on the record dimension. *)
find_start_count(k, nv) ==
    IF fndims[arrays[ioroot][k][nv].vid] > ndims[k[1]] THEN arrays[ioroot][k][nv].frame ELSE 0

(* The element that rearrange_comp2io sends for array nv of a buffer: the  *)
(* arrays of a task are ndof elements apart.                               *)
Sent(t, k, nv) ==
    LET i == (nv - 1) * ndof[t] + 1
    IN  IF i <= Len(data[t][k]) THEN data[t][k][i] ELSE Junk

Nvs(k) == DOMAIN arrays[ioroot][k]
PlaceOf(k, nv, c) == <<arrays[ioroot][k][nv].vid, find_start_count(k, nv), c>>
Write(k, nv, c, val) ==
    [place |-> PlaceOf(k, nv, c), val |-> val, nv |-> nv, put |-> arrays[ioroot][k][nv].put]

(* With the box rearranger iobuf is filled before the data arrive, array   *)
(* by array maxiobuflen elements apart; the arrays are llen apart.         *)
FilledFor(k, nv) == arrays[ioroot][k][1 + ((nv * llen - 1) \div maxiobuflen)].vid

(* Fault: the fill value of the buffer's first variable. *)
FillsOfFirst(k) == {Write(k, nv, Hole, FillOf(arrays[ioroot][k][1].vid)) : nv \in Nvs(k)}
Fills(k) ==
    {Write(k, nv, Hole, FillOf(IF rearranger[k[1]] = "box" THEN FilledFor(k, nv)
                               ELSE arrays[ioroot][k][nv].vid)) : nv \in Nvs(k)}

(* With the subset rearranger the fill values are a write of their own.    *)
FillsLater(k) == needsfill[k[1]] /\ rearranger[k[1]] = "subset"
DataWrites(k) ==
    {Write(k, x[1], x[2], Sent(x[2], k, x[1])) : x \in Nvs(k) \X {t \in Tasks : ndof[t] > 0}}
    \cup (IF needsfill[k[1]] /\ ~FillsLater(k) THEN Fills(k) ELSE {})
FillWrites(k) == IF FillsLater(k) THEN Fills(k) ELSE {}

(* Fault: a used buffer is not waited for. *)
ReuseUnwaited == FALSE
(* "if the buffer is already in use in pnetcdf we need to flush first" *)
Reuse == iotype = "pnetcdf" /\ iobuf

(* PIOc_write_darray_multi with the arrays of buffer k, ending in          *)
(* flush_output_buffer: with pnetcdf the requests are waited for if that   *)
(* is forced or much memory is in use.  A second write waits for the first. *)
WriteDarrayMulti(k, flushtodisk) ==
    \E rank, earlier \in Rankings, over \in BOOLEAN :
        LET base   == IF Reuse THEN Land(file, pending, earlier) ELSE file
            now    == iotype # "pnetcdf" \/ flushtodisk \/ over
            landed == Land(base, DataWrites(k), rank)
        IN  /\ aborted' = (iobuf /\ ~Reuse)
            /\ file' = IF now THEN Land(landed, FillWrites(k), rank)
                       ELSE IF FillsLater(k) THEN landed ELSE base
            /\ pending' = IF now THEN {} ELSE IF FillsLater(k) THEN FillWrites(k) ELSE DataWrites(k)
            /\ iobuf' = ~now

(* The buffer cannot be written if its decomposition is gone, or if its    *)
(* variables have different numbers of dimensions.                         *)
SameRank(k) ==
    \A i, j \in Nvs(k) : fndims[arrays[ioroot][k][i].vid] = fndims[arrays[ioroot][k][j].vid]
Writable(k) == k[1] \in live /\ SameRank(k)

(* Fault: a buffer with one array is taken for an empty one. *)
FlushBufferOfSeveral(k, flushtodisk) ==
    IF Cardinality(Nvs(k)) > 1 /\ Writable(k) THEN WriteDarrayMulti(k, flushtodisk)
    ELSE UNCHANGED <<file, pending, iobuf, aborted>>
(* flush_buffer: the buffer is empty afterwards, written or not.           *)
FlushBuffer(k, flushtodisk) ==
    IF Nvs(k) # {} /\ Writable(k) THEN WriteDarrayMulti(k, flushtodisk)
    ELSE UNCHANGED <<file, pending, iobuf, aborted>>

-----------------------------------------------------------------------------
(* PIOc_write_darray *)
Key(d, v) == <<d, rec_var[v]>>

(* Variables with a dimension more than the decomposition have a frame,    *)
(* the others do not use one.                                              *)
HasFrame(d, v) == (fndims[v] > ndims[d]) = (record[v] >= 0)

(* What a task concludes by itself: 2 for too many arrays for one write, 1 *)
(* if it has no memory for another one.                                    *)
OwnNeed(t, k, refused) ==
    IF 1 + Len(arrays[t][k]) > Room THEN 2 ELSE IF t \in refused THEN 1 ELSE 0

(* Fault: a task follows its own conclusion. *)
OwnNeedsflush(k, refused) == [t \in Tasks |-> OwnNeed(t, k, refused)]
(* The largest value, by MPI_Allreduce. *)
needsflush(k, refused) ==
    LET needs == {OwnNeed(t, k, refused) : t \in Tasks}
    IN  [t \in Tasks |-> CHOOSE m \in needs : \A n \in needs : n <= m]

(* The data of a buffer after one more array of ndof + excess elements. *)
Grown(old, num, t, excess, n) ==
    LET len == ndof[t] + excess
    IN  [i \in 1 .. (num + 1) * len |->
            IF i > num * len THEN IF i <= num * len + ndof[t] THEN PutOf(n) ELSE Junk
            ELSE IF i <= Len(old) THEN old[i] ELSE Junk]

(* Store the array of put n in a buffer that the tasks with need[t] > 0    *)
(* have flushed.  The tasks of short get no memory for its data, variable, *)
(* frame or fill value and return PIO_ENOMEM, with the buffer in the hash. *)
Store(d, v, excess, need, short) ==
    LET k     == Key(d, v)
        n     == Len(puts) + 1
        entry == [vid |-> v, frame |-> record[v], put |-> n]
        old(t)     == IF need[t] > 0 THEN <<>> ELSE arrays[t][k]
        olddata(t) == IF need[t] > 0 THEN <<>> ELSE data[t][k]
    IN  /\ arrays' = [t \in Tasks |-> [arrays[t] EXCEPT ![k] =
                        IF t \in short THEN old(t) ELSE Append(old(t), entry)]]
        /\ data' = [t \in Tasks |-> [data[t] EXCEPT ![k] =
                        IF t \in short THEN olddata(t)
                        ELSE Grown(olddata(t), Len(old(t)), t, excess, n)]]
        /\ order' = [t \in Tasks |->
                        IF \E i \in DOMAIN order[t] : order[t][i] = k THEN order[t]
                        ELSE Append(order[t], k)]
        /\ puts' = Append(puts, [vid |-> v, frame |-> IF record[v] >= 0 THEN record[v] ELSE 0,
                                 key |-> k])
        /\ told' = told \cup (IF short = {} THEN {} ELSE {n})
        /\ nomem' = short

Putting(d, v, excess, refused) ==
    /\ Ready
    /\ Len(puts) < MaxPuts
    /\ d \in live /\ fndims[v] >= ndims[d] /\ HasFrame(d, v)
    /\ \A t \in refused : ndof[t] + excess > 0

(* The array is stored, after a flush if one of the tasks needs it. *)
PIOc_write_darray(d, v, excess, refused, short) ==
    LET k    == Key(d, v)
        need == needsflush(k, refused)
    IN  /\ Putting(d, v, excess, refused)
        /\ need[ioroot] > 0 => Writable(k)
        /\ IF need[ioroot] > 0 THEN FlushBuffer(k, need[ioroot] = 2)
           ELSE UNCHANGED <<file, pending, iobuf, aborted>>
        /\ Store(d, v, excess, need, short)
        /\ UNCHANGED <<iotype, record, live, doing, open>>

(* No memory for a buffer: these tasks return before the MPI_Allreduce in  *)
(* which the others wait.                                                  *)
WriteDarrayUnbuffered(d, v, short) ==
    LET k == Key(d, v)
    IN  /\ Putting(d, v, 0, {})
        /\ short # {}
        /\ \A i \in DOMAIN order[ioroot] : order[ioroot][i] # k
        /\ order' = [t \in Tasks |-> IF t \in short THEN order[t] ELSE Append(order[t], k)]
        /\ nomem' = short
        /\ UNCHANGED <<iotype, record, live, arrays, data, file, pending, iobuf, doing, open,
                       puts, told, aborted>>

(* The flush fails: the caller gets its error, the arrays are gone. *)
WriteDarrayFails(d, v, excess, refused) ==
    LET k    == Key(d, v)
        need == needsflush(k, refused)
    IN  /\ Putting(d, v, excess, refused)
        /\ need[ioroot] > 0 /\ Nvs(k) # {} /\ ~Writable(k)
        /\ arrays' = [t \in Tasks |-> [arrays[t] EXCEPT ![k] = <<>>]]
        /\ data' = [t \in Tasks |-> [data[t] EXCEPT ![k] = <<>>]]
        /\ told' = told \cup {arrays[ioroot][k][nv].put : nv \in Nvs(k)}
        /\ UNCHANGED <<iotype, record, live, order, file, pending, iobuf, doing, open, puts, nomem, aborted>>

(* Nothing here looks for arrays of the decomposition that are buffered. *)
PIOc_freedecomp(d) ==
    /\ Ready /\ d \in live
    /\ "free early" \in Liberties \/ \A k \in Keys : k[1] = d => Nvs(k) = {}
    /\ live' = live \ {d}
    /\ UNCHANGED <<iotype, record, arrays, data, order, file, pending, iobuf, doing, open,
                   puts, told, nomem, aborted>>

-----------------------------------------------------------------------------
(* PIOc_sync and PIOc_closefile, which begins with it *)
Begin(call) ==
    /\ Ready
    /\ "mix ranks" \in Liberties \/ \A k \in Keys : SameRank(k)
    /\ doing' = call
    /\ UNCHANGED <<iotype, record, live, arrays, data, order, file, pending, iobuf, open,
                   puts, told, nomem, aborted>>

(* The next buffer of the hash; what flush_buffer returns is not looked at. *)
SyncBuffer ==
    LET k == Head(order[ioroot])
    IN  /\ Going /\ doing # "calls"
        /\ order[ioroot] # <<>>
        /\ FlushBuffer(k, TRUE)
        /\ arrays' = [t \in Tasks |-> [arrays[t] EXCEPT ![k] = <<>>]]
        /\ data' = [t \in Tasks |-> [data[t] EXCEPT ![k] = <<>>]]
        /\ order' = [t \in Tasks |-> Tail(order[t])]
        /\ UNCHANGED <<iotype, record, live, doing, open, puts, told, nomem>>

(* flush_output_buffer, forced; with the other iotypes there is nothing to *)
(* wait for.                                                               *)
flush_output_buffer ==
    /\ \E rank \in Rankings : file' = Land(file, pending, rank)
    /\ pending' = {}
    /\ iobuf' = FALSE

EndSync ==
    /\ Going /\ doing # "calls"
    /\ order[ioroot] = <<>>
    /\ flush_output_buffer
    /\ doing' = "calls"
    /\ open' = (doing # "close")
    /\ UNCHANGED <<iotype, record, live, arrays, data, order, puts, told, nomem, aborted>>

-----------------------------------------------------------------------------
Next ==
    \/ \E v \in Vars :
          \/ \E frame \in Frames : (\E d \in Decomps : fndims[v] > ndims[d]) /\ PIOc_setframe(v, frame)
          \/ (\E d \in Decomps : fndims[v] > ndims[d]) /\ PIOc_advanceframe(v)
          \/ \E d \in Decomps, excess \in 0 .. Excess, refused \in SUBSET Tasks :
                \/ \E short \in SUBSET Tasks : PIOc_write_darray(d, v, excess, refused, short)
                \/ WriteDarrayFails(d, v, excess, refused)
          \/ \E d \in Decomps, short \in SUBSET Tasks : WriteDarrayUnbuffered(d, v, short)
    \/ \E d \in Decomps : PIOc_freedecomp(d)
    \/ Begin("sync")
    \/ Begin("close")
    \/ SyncBuffer
    \/ EndSync

Spec == Init /\ [][Next]_vars

-----------------------------------------------------------------------------
Elements == {None, Junk} \cup {PutOf(n) : n \in 1 .. MaxPuts} \cup {FillOf(v) : v \in Vars}
Entries  == [vid : Vars, frame : -1 .. MaxFrame, put : 1 .. MaxPuts]

(* Type correctness of the buffers, of iobuf and of the file.              *)
TypeOK ==
    /\ iotype \in Iotypes
    /\ record \in [Vars -> -1 .. MaxFrame]
    /\ live \subseteq Decomps
    /\ arrays \in [Tasks -> [Keys -> Seq(Entries)]]
    /\ data \in [Tasks -> [Keys -> Seq(Elements)]]
    /\ order \in [Tasks -> Seq(Keys)]
    /\ file \in [Places -> Elements]
    /\ \A w \in pending : w.place \in Places /\ w.val \in Elements /\ w.nv \in 1 .. Room
    /\ iobuf \in BOOLEAN /\ open \in BOOLEAN /\ aborted \in BOOLEAN
    /\ doing \in {"calls", "sync", "close"}
    /\ puts \in Seq([vid : Vars, frame : Frames, key : Keys])
    /\ told \subseteq 1 .. MaxPuts /\ nomem \subseteq Tasks

(* The tasks have the same arrays in the same buffers, though each finds   *)
(* out for itself that it has no memory for another array and a flush may  *)
(* help: every flush is collective.  Left out are the tasks that have no   *)
(* memory even after it and have returned PIO_ENOMEM.                      *)
BuffersAgree ==
    \A t, u \in Tasks \ nomem : arrays[t] = arrays[u] /\ order[t] = order[u]

(* Whatever is in the file is where it belongs: in the cell of a task an   *)
(* element of an array that was put for this variable in this frame, in    *)
(* the hole the variable's own fill value.                                 *)
RightPlace ==
    \A v \in Vars, frame \in Frames, c \in Cells :
        file[<<v, frame, c>>] \in
            {None} \cup IF c = Hole THEN {FillOf(v)}
                        ELSE {PutOf(n) : n \in {m \in DOMAIN puts :
                                                    puts[m].vid = v /\ puts[m].frame = frame}}

(* No assertion fails ("buffer overwrite"), and the memory of a posted     *)
(* request is there until the request has been waited for.                 *)
IobufHeld == ~aborted /\ (pending # {} => iobuf)

(* When the file is closed, an array that was accepted is in the file, or  *)
(* a caller has been told that it is lost.                                 *)
LossReported ==
    ~open => \A n \in DOMAIN puts : \A t \in Tasks :
                n \in told \/ ndof[t] = 0 \/ file[<<puts[n].vid, puts[n].frame, t>>] # None

-----------------------------------------------------------------------------
(* The refinement mapping: cached is what the buffers hold and what has    *)
(* been posted.                                                            *)
Array(n) ==
    LET writes(c, val) == [n |-> n, key |-> puts[n].key, val |-> val,
                           place |-> <<puts[n].vid, puts[n].frame, c>>]
    IN  {writes(t, PutOf(n)) : t \in {t \in Tasks : ndof[t] > 0}}
        \cup (IF needsfill[puts[n].key[1]] THEN {writes(Hole, FillOf(puts[n].vid))} ELSE {})

Buffered == UNION {{arrays[ioroot][k][nv].put : nv \in Nvs(k)} : k \in Keys}
Posted   == {w \in UNION {Array(n) : n \in DOMAIN puts \ Buffered} :
                \E x \in pending : x.put = w.n /\ x.place = w.place}

Cache == (UNION {Array(n) : n \in Buffered}) \cup Posted

WB == INSTANCE WriteBack WITH
    cache   <- Cache,
    disk    <- file,
    Ordered <- iotype # "pnetcdf"

(* Buffering implements a write-back store: no array is lost, none is      *)
(* written twice over a later one, and close leaves nothing behind.        *)
IsWriteBack == WB!Spec
=============================================================================
