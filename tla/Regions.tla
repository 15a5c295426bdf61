------------------------------ MODULE Regions ------------------------------
(***************************************************************************)
(* Regions of an array (pio_rearrange.c): boxes [start, count] that the    *)
(* library reads or writes with one call, found in a list of 1-based       *)
(* indices (a map).  Coordinates and offsets are 0-based.                  *)
(***************************************************************************)
EXTENDS Integers, Sequences, StartCount

(* Division of C, which truncates. *)
Quot(a, b) == IF a >= 0 THEN a \div b ELSE -((-a) \div b)

idx_to_dim_list(gdims, idx) ==
    LET n == Len(gdims)
        left[i \in 1 .. n] == IF i = n THEN idx ELSE Quot(left[i + 1], gdims[i + 1])
    IN  [i \in 1 .. n |-> left[i] - Quot(left[i], gdims[i]) * gdims[i]]

coord_to_lindex(lcoord, count) ==
    LET n == Len(count)
        sum[i \in 1 .. n + 1] ==
            IF i = n + 1 THEN 0
            ELSE sum[i + 1] + lcoord[i] * Product(SubSeq(count, i + 1, n))
    IN  sum[1]

(* The elements of a region in the order of the library, 0-based. *)
RegionElements(gdims, start, count) ==
    [j \in 1 .. Product(count) |->
        LET lcoord == idx_to_dim_list(count, j - 1)
        IN  coord_to_lindex([i \in DOMAIN gdims |-> start[i] + lcoord[i]], gdims)]

(* Fault: only the first element is compared. *)
ContinuesAtFirst(map, region_size, region_stride, i) ==
    (i + 1) * region_size <= Len(map) /\ map[i * region_size + 1] = map[1] + i * region_stride
(* Do the region_size elements after i times as many continue the first    *)
(* ones, i strides further?                                                *)
Continues(map, region_size, region_stride, i) ==
    \A j \in 1 .. region_size :
        i * region_size + j <= Len(map) /\ map[i * region_size + j] = map[j] + i * region_stride

(* expand_region, from the innermost dimension outwards.  It goes on to    *)
(* the next dimension only if the map continues beyond the largest size.   *)
expand_region(gdims, map, max_size) ==
    LET n == Len(gdims)
        expand[d \in 1 .. n + 1] ==
            IF d = n + 1 THEN [size |-> 1, stride |-> 1, count |-> [i \in 1 .. n |-> 1], done |-> FALSE]
            ELSE LET s     == expand[d + 1]
                     stops == {i \in 1 .. max_size[d] : ~Continues(map, s.size, s.stride, i)}
                     c     == IF stops = {} THEN max_size[d]
                              ELSE CHOOSE i \in stops : \A j \in stops : i <= j
                 IN  IF s.done THEN s
                     ELSE [size |-> s.size * c, stride |-> s.stride * gdims[d],
                           count |-> [s.count EXCEPT ![d] = c], done |-> stops # {}]
    IN  expand[1].count

find_region(gdims, map) ==
    LET start == idx_to_dim_list(gdims, map[1] - 1)
    IN  [start |-> start,
         count |-> expand_region(gdims, map, [i \in DOMAIN gdims |-> gdims[i] - start[i]])]

(* get_regions: the regions of a map of positive indices, one after the    *)
(* other.                                                                  *)
get_regions(gdims, map) ==
    LET regions[n \in 0 .. Len(map)] ==
            IF n = Len(map) THEN <<>>
            ELSE LET r == find_region(gdims, SubSeq(map, n + 1, Len(map)))
                 IN  <<[start |-> r.start, count |-> r.count, loffset |-> n]>>
                     \o regions[n + Product(r.count)]
    IN  regions[0]
=============================================================================
