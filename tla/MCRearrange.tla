---------------------------- MODULE MCRearrange ----------------------------
(***************************************************************************)
(* Small systems: two I/O tasks among three tasks, next to each other and  *)
(* apart, and for async one I/O task and two compute tasks.                *)
(***************************************************************************)
EXTENDS Rearrange

TwoOfThree == {[ntasks |-> 3, ioranks |-> <<0, 1>>, async |-> FALSE],
               [ntasks |-> 3, ioranks |-> <<0, 2>>, async |-> FALSE]}
OneApart   == {[ntasks |-> 3, ioranks |-> <<0>>, async |-> TRUE]}

FourElements == {<<4>>, <<2, 2>>}
ThreeOneOne  == <<3, 1, 1>>
TwoOne       == <<2, 1>>

CONSTANTS MaxDim, MaxProcs
(* The shapes of up to three dimensions. *)
AllShapes == UNION {[1 .. n -> 1 .. MaxDim] : n \in 1 .. 3}
(* With four or more I/O tasks at first, and two in the end, a task has    *)
(* more bytes than it may have, and LastDim is not the innermost dimension. *)
LargeShapes == {<<9, 29>>, <<2, 11, 12>>}

RegionShapes == {<<3, 3>>, <<2, 2, 2>>}

(* What does not depend on the layout, the array and the maps is looked at *)
(* for one of each, with nothing to be transferred, before there is a      *)
(* decomposition.                                                          *)
NothingYet ==
    /\ iodesc = NoDesc
    /\ ios = CHOOSE l \in Layouts : TRUE
    /\ gdimlen = CHOOSE s \in Shapes : TRUE
    /\ \A r \in DOMAIN compmap : \A k \in DOMAIN compmap[r] : compmap[r][k] = 0

(* Boxes inside the array, and every element in exactly one of them.      *)
Partition(shape, boxes) ==
    LET elements(n) == RegionElements(shape, start(boxes[n]), count(boxes[n]))
        all == {p \in (DOMAIN boxes) \X Grid(shape) :
                    \E j \in DOMAIN elements(p[1]) : elements(p[1])[j] = p[2]}
    IN  /\ \A n \in DOMAIN boxes : \A d \in DOMAIN shape :
              boxes[n][d].start + boxes[n][d].count <= shape[d]
        /\ \A g \in Grid(shape) : \E n \in DOMAIN boxes :
              {m \in DOMAIN boxes : <<m, g>> \in all} = {n}

(* The boxes of CalcStartandCount are disjoint and cover the array, for    *)
(* every shape and number of I/O tasks, though only the sum of their sizes *)
(* is compared with the size of the array.                                 *)
BoxesPartition ==
    NothingYet => \A shape \in AllShapes \cup LargeShapes, num \in 1 .. MaxProcs :
        Partition(shape, CalcStartandCount(shape, num, basesize, blocksize))

(* Regions inside the array, and their elements are those of the map.      *)
Cover(shape, map, regions) ==
    LET elements(n) == RegionElements(shape, regions[n].start, regions[n].count)
    IN  /\ \A n \in DOMAIN regions : \A d \in DOMAIN shape :
              regions[n].start[d] + regions[n].count[d] <= shape[d]
        /\ \A n \in DOMAIN regions : \A j \in DOMAIN elements(n) :
              map[regions[n].loffset + j] = elements(n)[j] + 1
        /\ Total([n \in DOMAIN regions |-> Product(regions[n].count)]) = Len(map)

(* The members of S up to n, in their order. *)
Ascending(S, n) ==
    LET list[k \in 0 .. n] == IF k = 0 THEN <<>>
                              ELSE IF k \in S THEN Append(list[k - 1], k) ELSE list[k - 1]
    IN  list[n]

(* The regions of every ascending map are inside the array and hold, one   *)
(* after the other, exactly the elements of the map in their order.        *)
RegionsExact ==
    NothingYet => \A shape \in RegionShapes : \A S \in (SUBSET (1 .. Product(shape))) \ {{}} :
        LET map == Ascending(S, Product(shape))
        IN  Cover(shape, map, get_regions(shape, map))
=============================================================================
