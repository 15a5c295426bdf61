----------------------------- MODULE StartCount -----------------------------
(***************************************************************************)
(* The boxes of the I/O tasks (pioc_sc.c).  CalcStartandCount divides an   *)
(* array into one box for each I/O task it uses.  It lowers the number of  *)
(* tasks until the sizes of the boxes add up to the size of the array;     *)
(* that the boxes are then disjoint is not tested.  Dimensions count from  *)
(* 1 here, ranks and indices from 0.                                       *)
(***************************************************************************)
EXTENDS Integers, Sequences

Smaller(a, b) == IF a <= b THEN a ELSE b
Larger(a, b)  == IF a >= b THEN a ELSE b

(* The product of a sequence. *)
Product(s) ==
    LET prod[i \in 0 .. Len(s)] == IF i = 0 THEN 1 ELSE prod[i - 1] * s[i]
    IN  prod[Len(s)]

(* Fault: a start that does not follow the shares before it. *)
ShareUnmoved(gdim, ioprocs, rank) ==
    LET irank == rank % ioprocs
        rest  == gdim % ioprocs
    IN  [start |-> (gdim \div ioprocs) * irank,
         count |-> (gdim \div ioprocs) + IF rest >= ioprocs - irank THEN 1 ELSE 0]
(* compute_one_dim: a task's share of one dimension; the last tasks have   *)
(* one more of what is left over.                                          *)
compute_one_dim(gdim, ioprocs, rank) ==
    LET irank     == rank % ioprocs
        lcount    == gdim \div ioprocs
        remainder == gdim - lcount * ioprocs
        adds      == irank + remainder - ioprocs
    IN  [start |-> lcount * irank + IF adds > 0 THEN adds ELSE 0,
         count |-> lcount + IF adds >= 0 THEN 1 ELSE 0]

(* How many tasks have at least minblocksize elements each, rounded, and   *)
(* how many bytes a task may have.                                         *)
UseAtFirst(pgdims, minblocksize, num_io_procs) ==
    Larger(1, Smaller((2 * pgdims + minblocksize) \div (2 * minblocksize), num_io_procs))
MaxBytes(pgdims, basesize, blocksize, use) ==
    Larger(blocksize, (pgdims * basesize) \div use) + 256

(* The last dimension to divide: the innermost with more bytes per task    *)
(* than a task may have.                                                   *)
LastDim(gdims, use, basesize, maxbytes) ==
    LET n     == Len(gdims)
        big   == {i \in 1 .. n : (basesize * Product(SubSeq(gdims, i, n))) \div use > maxbytes}
    IN  IF big = {} THEN n ELSE CHOOSE i \in big : \A j \in big : j <= i

(* Dimension ldims and the number of tasks for it: if there are fewer      *)
(* indices than tasks, the next dimension or fewer tasks.                  *)
DimAndUse(gdims, use, l) ==
    IF gdims[l] >= use THEN <<l, use>>
    ELSE IF l > 1 /\ gdims[l - 1] > use THEN <<l - 1, use>>
    ELSE <<l, use - (use % gdims[l])>>

(* The box of one task, dimension by dimension: a dimension with fewer     *)
(* indices than tasks is divided into single indices, and the tasks into   *)
(* as many groups.                                                         *)
BoxOf(gdims, ldims, use, iorank) ==
    LET whole(i) == [start |-> 0, count |-> gdims[i]]
        split[i \in 0 .. ldims] ==
            IF i = 0 THEN [ioprocs |-> use, tiorank |-> iorank, box |-> [j \in DOMAIN gdims |-> whole(j)]]
            ELSE LET s == split[i - 1]
                 IN  IF gdims[i] >= s.ioprocs
                     THEN [s EXCEPT !.box[i] = compute_one_dim(gdims[i], s.ioprocs, s.tiorank)]
                     ELSE IF gdims[i] > 1
                     THEN [ioprocs |-> s.ioprocs \div gdims[i],
                           tiorank |-> iorank % (s.ioprocs \div gdims[i]),
                           box     |-> [s.box EXCEPT ![i] =
                                            compute_one_dim(gdims[i], gdims[i],
                                                            (iorank * gdims[i]) \div s.ioprocs)]]
                     ELSE s
    IN  split[ldims].box

Volume(box) == Product([i \in DOMAIN box |-> box[i].count])

(* The next task has its box, and the sizes of the boxes are compared with *)
(* the size of the array.                                                  *)
Given(s, box, use, pgdims) ==
    LET boxes  == Append(s.boxes, box)
        tpsize == s.tpsize + Volume(box)
    IN  [use |-> use, tpsize |-> tpsize, boxes |-> boxes,
         end |-> IF tpsize = pgdims /\ use = Len(boxes) THEN "converged"
                 ELSE IF tpsize >= pgdims THEN "break" ELSE "no"]

(* One pass over the tasks. *)
Pass(gdims, use0, basesize, maxbytes) ==
    LET divide(s, n, du) == Given(s, BoxOf(gdims, du[1], du[2], n - 1), du[2], Product(gdims))
        pass[n \in 0 .. use0] ==
            IF n = 0 THEN [use |-> use0, tpsize |-> 0, boxes |-> <<>>, end |-> "no"]
            ELSE LET s == pass[n - 1]
                 IN  IF s.end # "no" \/ n > s.use THEN s
                     ELSE divide(s, n, DimAndUse(gdims, s.use, LastDim(gdims, s.use, basesize, maxbytes)))
    IN  pass[use0]

(* CalcStartandCount: the boxes of the tasks that are used. *)
CalcStartandCount(gdims, num_io_procs, basesize, blocksize) ==
    LET pgdims   == Product(gdims)
        first    == UseAtFirst(pgdims, (blocksize - 256) \div basesize, num_io_procs)
        maxbytes == MaxBytes(pgdims, basesize, blocksize, first)
        boxes[use \in 1 .. first] ==
            LET p == Pass(gdims, use, basesize, maxbytes)
            IN  IF p.end = "converged" THEN p.boxes ELSE boxes[p.use - 1]
    IN  boxes[first]

-----------------------------------------------------------------------------
(* Greatest common divisors *)
lgcd(x, y) ==
    LET g[n \in Nat, m \in Nat] == IF n = 0 THEN m ELSE g[m % n, n]
    IN  g[x, y]

(* GCDblocksize: the size of the blocks of consecutive values that the     *)
(* sequence can be cut into; <<bsize, blk_len>> after each element.        *)
GCDblocksize(arr) ==
    LET scan[i \in 0 .. Len(arr) - 1] ==
            IF i = 0 THEN <<Len(arr), 1>>
            ELSE IF arr[i + 1] - arr[i] = 1 THEN <<scan[i - 1][1], scan[i - 1][2] + 1>>
            ELSE <<lgcd(scan[i - 1][1], scan[i - 1][2]), 1>>
    IN  lgcd(scan[Len(arr) - 1][1], scan[Len(arr) - 1][2])

lgcd_array(ain) ==
    LET fold[i \in 1 .. Len(ain)] == IF i = 1 THEN ain[1] ELSE lgcd(fold[i - 1], ain[i])
    IN  IF ain = <<>> THEN 0 ELSE IF \E i \in DOMAIN ain : ain[i] <= 1 THEN 1 ELSE fold[Len(ain)]
=============================================================================
