------------------------------ MODULE Rearrange ------------------------------
(***************************************************************************)
(* Decompositions and the movement of a distributed array (pioc.c,         *)
(* pio_rearrange.c, pio_darray.c).  A decomposition is created from the    *)
(* maps of the compute tasks: element k of a task's array is element       *)
(* map[k] - 1 of the array in the file, and 0 means that it is not         *)
(* transferred.  The box rearranger gives every I/O task a box of the      *)
(* array; with the subset rearranger every compute task has one I/O task,  *)
(* which writes the regions of what its tasks have.                        *)
(*                                                                         *)
(* The exchanges between tasks are those of pio_swapm, see Swapm, and of   *)
(* MPI; a call is one step.  Tasks are the ranks of union_comm, I/O tasks  *)
(* are numbered by their rank in io_comm.  Lists are sequences, the        *)
(* indices in them 0-based as in the code.                                 *)
(***************************************************************************)
EXTENDS Integers, Sequences, FiniteSets, TLC, Regions

CONSTANTS
    Layouts,       \* a set of [ntasks, ioranks, async]
    Shapes,        \* a set of sequences of dimension lengths
    MapLens,       \* the lengths of the maps of the compute tasks
    Rearrangers,   \* a subset of {"box", "subset"}
    basesize,      \* bytes of an element
    blocksize      \* of PIOc_set_blocksize

ASSUME RearrangeAssumption ==
    /\ \A l \in Layouts : l.ntasks \in Nat /\ l.ioranks # <<>> /\ l.async \in BOOLEAN
    /\ Rearrangers \subseteq {"box", "subset"}
    /\ basesize \in Nat \ {0}
    /\ blocksize \in Nat /\ blocksize >= 256 + basesize

VARIABLES
    ios,       \* the layout of the tasks
    gdimlen,   \* the shape of the array
    compmap,   \* [compute ranks -> map], what the program passes
    iodesc,    \* the decomposition
    file,      \* [elements of the array -> value]
    array      \* [compute ranks -> Seq of values], what a read has returned

vars == <<ios, gdimlen, compmap, iodesc, file, array>>

Fill    == <<"fill", 0, 0>>
Junk    == <<"junk", 0, 0>>
Old     == <<"old", 0, 0>>
Zero    == <<"zero", 0, 0>>
Stored(g)  == <<"stored", g, 0>>
Elem(t, k) == <<"elem", t, k>>

Grid(shape)  == 0 .. Product(shape) - 1
Tasks        == 0 .. ios.ntasks - 1
Io           == DOMAIN ios.ioranks
IoTasks      == {ios.ioranks[i] : i \in Io}
compranks    == IF ios.async THEN Tasks \ IoTasks ELSE Tasks
(* With async the I/O tasks come first, and hold the map of the first      *)
(* compute task.                                                           *)
CompRank(t)  == IF ios.async THEN t - Len(ios.ioranks) ELSE t
MapOf(t)     == compmap[IF t \in compranks THEN CompRank(t) ELSE 0]

(* All maps of given lengths. *)
MapsOf(shape, lens) ==
    {m \in [0 .. Len(lens) - 1 -> UNION {[1 .. lens[i] -> 0 .. Product(shape)] : i \in DOMAIN lens}] :
        \A r \in DOMAIN m : Len(m[r]) = lens[r + 1]}

Distinct(maps) ==
    \A r, q \in DOMAIN maps : \A k \in DOMAIN maps[r], l \in DOMAIN maps[q] :
        maps[r][k] > 0 /\ maps[r][k] = maps[q][l] => r = q /\ k = l

NoDesc == [rearranger |-> "none"]
Unread == [r \in DOMAIN compmap |-> <<>>]

Init ==
    /\ ios \in Layouts
    /\ gdimlen \in Shapes
    /\ compmap \in MapsOf(gdimlen, MapLens)
    /\ iodesc = NoDesc
    /\ file = [g \in Grid(gdimlen) |-> Stored(g)]
    /\ array = Unread

-----------------------------------------------------------------------------
(* PIOc_InitDecomp: the sorted map.  remap[m] is the place of element m of *)
(* the sorted map in the array.                                            *)
needssort(map) == \E m \in 2 .. Len(map) : map[m] > 0 /\ map[m] < map[m - 1]

Remap(map) ==
    IF needssort(map)
    THEN SortSeq([m \in DOMAIN map |-> m],
                 LAMBDA a, b : map[a] < map[b] \/ (map[a] = map[b] /\ a < b))
    ELSE [m \in DOMAIN map |-> m]

SortedMap(t) ==
    LET map == MapOf(t)
        remap == Remap(map)
    IN  [m \in DOMAIN map |-> map[remap[m]]]
SortedMaps == [t \in Tasks |-> SortedMap(t)]

(* The places, 0-based, of the elements that pass a test. *)
Places(map, Test(_)) == SelectSeq([k \in DOMAIN map |-> k - 1], LAMBDA k : Test(k + 1))

Total(lens) ==
    LET sum[i \in 0 .. Len(lens)] == IF i = 0 THEN 0 ELSE sum[i - 1] + lens[i]
    IN  sum[Len(lens)]
(* Fault: one element too many is counted. *)
DetermineFillAllButOne(lens) == Total(lens) + 1 < Product(gdimlen)
(* determine_fill: are there fewer values than elements?                   *)
determine_fill(lens) == Total(lens) < Product(gdimlen)

-----------------------------------------------------------------------------
(* The box rearranger *)
Boxes ==
    LET empty == [j \in DOMAIN gdimlen |-> [start |-> 0, count |-> 0]]
        extended(boxes) == [i \in Io |-> IF i <= Len(boxes) THEN boxes[i] ELSE empty]
    IN  extended(CalcStartandCount(gdimlen, Len(ios.ioranks), basesize, blocksize))

start(box) == [j \in DOMAIN box |-> box[j].start]
count(box) == [j \in DOMAIN box |-> box[j].count]

InBox(gcoord, box) ==
    \A j \in DOMAIN box : gcoord[j] >= box[j].start /\ gcoord[j] < box[j].start + box[j].count

(* The I/O task of an index of a map, 0 if there is none, and its place    *)
(* there.                                                                  *)
dest_ioproc(boxes, index) ==
    LET gcoord == idx_to_dim_list(gdimlen, index - 1)
        found  == {i \in Io : Volume(boxes[i]) > 0 /\ InBox(gcoord, boxes[i])}
    IN  IF found = {} THEN 0 ELSE CHOOSE i \in found : \A j \in found : i <= j

(* Fault: the place in the whole array. *)
DestInGrid(box, index) == index - 1
dest_ioindex(box, index) ==
    LET gcoord == idx_to_dim_list(gdimlen, index - 1)
    IN  coord_to_lindex([j \in DOMAIN box |-> gcoord[j] - box[j].start], count(box))

(* compute_counts: sindex are the places of the elements that a task sends *)
(* to an I/O task, rindex their places there.                              *)
compute_counts(boxes) ==
    LET map  == SortedMaps
        sent == [t \in Tasks |-> [i \in Io |->
                    IF t \notin compranks THEN <<>>
                    ELSE Places(map[t], LAMBDA k : dest_ioproc(boxes, map[t][k]) = i)]]
    IN  [sindex |-> sent,
         rindex |-> [i \in Io |-> [t \in Tasks |->
                        [n \in DOMAIN sent[t][i] |-> dest_ioindex(boxes[i], map[t][sent[t][i][n] + 1])]]]]

(* The descriptor of a decomposition into boxes. *)
BoxDesc(boxes) ==
    LET lens  == [n \in 1 .. ios.ntasks |->
                    Len(SelectSeq(MapOf(n - 1), LAMBDA index : index > 0))]
    IN  [rearranger |-> "box",
         llen       |-> [i \in Io |-> Volume(boxes[i])],
         needsfill  |-> determine_fill(lens),
         regions    |-> [i \in Io |-> IF Volume(boxes[i]) = 0 THEN <<>>
                            ELSE <<[start |-> start(boxes[i]), count |-> count(boxes[i]), loffset |-> 0]>>],
         fillregions |-> [i \in Io |-> <<>>]]
        @@ compute_counts(boxes)
box_rearrange_create == BoxDesc(Boxes)

-----------------------------------------------------------------------------
(* The subset rearranger *)
taskratio == Larger(1, Cardinality(compranks) \div Len(ios.ioranks))

(* default_subset_partition: the I/O task of a task, and the order of the  *)
(* tasks of one I/O task, the I/O task first.                              *)
color(t) ==
    IF t \in IoTasks THEN CHOOSE i \in Io : ios.ioranks[i] = t
    ELSE 1 + Smaller(Len(ios.ioranks) - 1, CompRank(t) \div taskratio)
key(t) == IF t \in IoTasks THEN 0 ELSE Larger(1, (CompRank(t) % taskratio) + 1)

subset_comm(i) ==
    SortSeq(SelectSeq([n \in 1 .. ios.ntasks |-> n - 1], LAMBDA t : color(t) = i),
            LAMBDA t, u : key(t) < key(u) \/ (key(t) = key(u) /\ t < u))

(* The elements of an I/O task's compute tasks: from which task, from      *)
(* which place, and which index; sorted by index.                          *)
Gathered(i) ==
    LET map  == SortedMaps
        of(t) == LET from == IF t \in compranks THEN Places(map[t], LAMBDA k : map[t][k] > 0) ELSE <<>>
                 IN  [n \in DOMAIN from |->
                        [rfrom |-> t, soffset |-> from[n], iomap |-> map[t][from[n] + 1]]]
        comm == subset_comm(i)
        all[n \in 0 .. Len(comm)] == IF n = 0 THEN <<>> ELSE all[n - 1] \o of(comm[n])
    IN  all[Len(comm)]

SortedMapping(entries) == SortSeq(entries, LAMBDA x, y : x.iomap < y.iomap)

(* Fault: one element of the buffer for each. *)
RindexOfEach(mapping, n) == n - 1
(* rindex: an element that several tasks have is one element of the I/O    *)
(* task's buffer.                                                          *)
RindexAt(mapping, n) == Cardinality({mapping[m].iomap : m \in 1 .. n}) - 1
Iomap(mapping) ==
    LET last == SelectSeq([n \in DOMAIN mapping |-> n],
                          LAMBDA n : n = Len(mapping) \/ mapping[n].iomap < mapping[n + 1].iomap)
    IN  [n \in DOMAIN last |-> mapping[last[n]].iomap]

(* The part of the array that I/O task i looks for holes in: the last      *)
(* tasks have one element more.                                            *)
thisgridsize(i) ==
    LET num  == Len(ios.ioranks)
        even == Product(gdimlen) \div num
    IN  IF i - 1 >= num - (Product(gdimlen) - even * num) THEN even + 1 ELSE even
thisgridmin(i) == 1 + Total([j \in 1 .. i - 1 |-> thisgridsize(j)])

(* myfillgrid: the indices of the part that no I/O task has. *)
myfillgrid(i, iomaps) ==
    SelectSeq([n \in 1 .. thisgridsize(i) |-> thisgridmin(i) + n - 1],
              LAMBDA g : \A j \in Io : \A n \in DOMAIN iomaps[j] : iomaps[j][n] # g)

(* The descriptor for the sorted elements of each I/O task and its map. *)
SubsetDesc(mapping, iomaps, readonly) ==
    LET from    == [i \in Io |-> [t \in Tasks |->
                        SelectSeq([n \in DOMAIN mapping[i] |-> n], LAMBDA n : mapping[i][n].rfrom = t)]]
        llen    == [i \in Io |-> Len(mapping[i])]
        fill    == ~readonly /\ determine_fill(llen)
    IN  [rearranger  |-> "subset",
         llen        |-> llen,
         needsfill   |-> fill,
         regions     |-> [i \in Io |-> get_regions(gdimlen, iomaps[i])],
         fillregions |-> [i \in Io |-> IF fill THEN get_regions(gdimlen, myfillgrid(i, iomaps)) ELSE <<>>],
         sindex |-> [t \in Tasks |-> [i \in Io |->
                        [n \in DOMAIN from[i][t] |-> mapping[i][from[i][t][n]].soffset]]],
         rindex |-> [i \in Io |-> [t \in Tasks |->
                        [n \in DOMAIN from[i][t] |-> RindexAt(mapping[i], from[i][t][n])]]]]
subset_rearrange_create(readonly) ==
    LET mapping == [i \in Io |-> SortedMapping(Gathered(i))]
    IN  SubsetDesc(mapping, [i \in Io |-> Iomap(mapping[i])], readonly)

-----------------------------------------------------------------------------
(* PIOc_InitDecomp, and PIOc_InitDecomp_ReadOnly for maps that may name an *)
(* element twice and are not written with.                                 *)
PIOc_InitDecomp(rearranger) ==
    /\ Distinct(compmap)
    /\ iodesc' = [readonly |-> FALSE]
                 @@ (IF rearranger = "box" THEN box_rearrange_create ELSE subset_rearrange_create(FALSE))
    /\ array' = Unread
    /\ UNCHANGED <<ios, gdimlen, compmap, file>>

PIOc_InitDecomp_ReadOnly ==
    /\ "subset" \in Rearrangers
    /\ iodesc' = [readonly |-> TRUE] @@ subset_rearrange_create(TRUE)
    /\ array' = Unread
    /\ UNCHANGED <<ios, gdimlen, compmap, file>>

-----------------------------------------------------------------------------
(* Moving the data *)

(* The elements of a datatype of blocks of one size (MPI). *)
Elements(displace, size) ==
    [e \in 1 .. Len(displace) * size |-> displace[((e - 1) \div size) + 1] + ((e - 1) % size)]

(* create_mpi_datatypes: one datatype for each message, all with blocks of *)
(* one size; for the receiving side of the subset rearranger the size is 1. *)
create_mpi_datatypes(messages, single) ==
    LET full == SelectSeq(messages, LAMBDA m : m # <<>>)
        size == IF single THEN 1
                ELSE lgcd_array([n \in DOMAIN full |-> GCDblocksize(full[n])])
        displace(m) == [j \in 1 .. Len(m) \div size |-> m[(j - 1) * size + 1]]
    IN  [n \in DOMAIN messages |->
            IF messages[n] = <<>> THEN <<>> ELSE Elements(displace(messages[n]), size)]

(* define_iodesc_datatypes *)
stype(t) == create_mpi_datatypes(iodesc.sindex[t], FALSE)
rtype(i) ==
    create_mpi_datatypes([n \in 1 .. ios.ntasks |-> iodesc.rindex[i][n - 1]],
                         iodesc.rearranger = "subset")

(* Element k of task t travels to, or from, place p of I/O task i. *)
Moves ==
    LET sends == [t \in compranks |-> stype(t)]
        recvs == [i \in Io |-> rtype(i)]
    IN  UNION {{[t |-> t, k |-> sends[t][i][n] + 1, i |-> i, p |-> recvs[i][t + 1][n]] :
                    n \in DOMAIN sends[t][i]} : t \in compranks, i \in Io}

rearrange_comp2io(sbuf, rbuf) ==
    LET moves == Moves
        to(i, p) == {m \in moves : m.i = i /\ m.p = p}
        from(m)  == sbuf[m.t][m.k]
    IN  [i \in Io |-> [p \in DOMAIN rbuf[i] |->
            IF to(i, p) = {} THEN rbuf[i][p] ELSE from(CHOOSE m \in to(i, p) : TRUE)]]

rearrange_io2comp(sbuf, rbuf) ==
    LET moves == Moves
        to(t, k) == {m \in moves : m.t = t /\ m.k = k}
        from(m)  == sbuf[m.i][m.p]
    IN  [t \in compranks |-> [k \in DOMAIN rbuf[t] |->
            IF to(t, k) = {} THEN rbuf[t][k] ELSE from(CHOOSE m \in to(t, k) : TRUE)]]

(* The places of the buffer of I/O task i, each with the element of the    *)
(* array that the regions say it is.                                       *)
InRegions(regions) ==
    UNION {LET elements == RegionElements(gdimlen, regions[n].start, regions[n].count)
           IN  {<<regions[n].loffset + j - 1, elements[j]>> : j \in DOMAIN elements} :
               n \in DOMAIN regions}

(* PIOc_write_darray and PIOc_write_darray_multi with one array: sort the  *)
(* array (pio_sorted_copy), fill the buffers of the box rearranger, move   *)
(* the data, write the regions and then the fill regions.                  *)
PIOc_write_darray ==
    LET sbuf  == [t \in compranks |-> [m \in DOMAIN MapOf(t) |-> Elem(CompRank(t), Remap(MapOf(t))[m])]]
        blank == IF iodesc.rearranger = "box" /\ iodesc.needsfill THEN Fill ELSE Junk
        iobuf == rearrange_comp2io(sbuf, [i \in Io |-> [p \in 0 .. iodesc.llen[i] - 1 |-> blank]])
        writes(i) == {<<x[2], iobuf[i][x[1]]>> : x \in InRegions(iodesc.regions[i])}
        fills(i)  == {<<x[2], Fill>> : x \in InRegions(iodesc.fillregions[i])}
        after(f, all) == [g \in DOMAIN f |-> IF \E w \in all : w[1] = g
                                              THEN (CHOOSE w \in all : w[1] = g)[2] ELSE f[g]]
    IN  /\ iodesc # NoDesc /\ ~iodesc.readonly
        /\ file' = after(after(file, UNION {writes(i) : i \in Io}), UNION {fills(i) : i \in Io})
        /\ array' = Unread
        /\ UNCHANGED <<ios, gdimlen, compmap, iodesc>>

(* PIOc_read_darray: an array that is to be sorted is read into memory     *)
(* that holds zeros, and all of it is copied.                              *)
PIOc_read_darray ==
    LET at(i, p) == {x \in InRegions(iodesc.regions[i]) : x[1] = p}
        iobuf == [i \in Io |-> [p \in 0 .. iodesc.llen[i] - 1 |->
                    IF at(i, p) = {} THEN Junk ELSE file[(CHOOSE x \in at(i, p) : TRUE)[2]]]]
        tmparray == rearrange_io2comp(iobuf,
                        [t \in compranks |-> [m \in DOMAIN MapOf(t) |->
                            IF needssort(MapOf(t)) THEN Zero ELSE Old]])
        place(t, k) == CHOOSE m \in DOMAIN MapOf(t) : Remap(MapOf(t))[m] = k
    IN  /\ iodesc # NoDesc
        /\ array' = [r \in DOMAIN compmap |->
                        LET t == CHOOSE u \in compranks : CompRank(u) = r
                        IN  [k \in DOMAIN compmap[r] |-> tmparray[t][place(t, k)]]]
        /\ UNCHANGED <<ios, gdimlen, compmap, iodesc, file>>

-----------------------------------------------------------------------------
Next ==
    \/ \E rearranger \in Rearrangers : PIOc_InitDecomp(rearranger)
    \/ PIOc_InitDecomp_ReadOnly
    \/ PIOc_write_darray
    \/ PIOc_read_darray

Spec == Init /\ [][Next]_vars

-----------------------------------------------------------------------------
(* After a write every element of the array in the file is the one whose   *)
(* task and place the maps name for it, and the fill value if the maps do  *)
(* not name it, whichever way the data went.                               *)
WrittenRight ==
    \/ \A g \in DOMAIN file : file[g] = Stored(g)
    \/ \A g \in DOMAIN file :
          LET named == UNION {{Elem(r, k) : k \in {k \in DOMAIN compmap[r] : compmap[r][k] = g + 1}} :
                                r \in DOMAIN compmap}
          IN  file[g] \in IF named = {} THEN {Fill} ELSE named

(* A read returns on every task what the file has for each element of its  *)
(* map, also if several places or tasks ask for the same element.          *)
ReadRight ==
    \A r \in DOMAIN compmap : \A k \in DOMAIN array[r] :
        compmap[r][k] > 0 => array[r][k] = file[compmap[r][k] - 1]

(* The indices that an I/O task receives for its buffer fit into the       *)
(* memory that has room for llen of them, and are indices of the buffer.   *)
RindexFits ==
    iodesc # NoDesc =>
        \A i \in Io :
            /\ Total([n \in 1 .. ios.ntasks |-> Len(iodesc.rindex[i][n - 1])]) <= iodesc.llen[i]
            /\ \A t \in Tasks : \A n \in DOMAIN iodesc.rindex[i][t] :
                  iodesc.rindex[i][t][n] \in 0 .. iodesc.llen[i] - 1
=============================================================================
