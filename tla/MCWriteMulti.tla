---------------------------- MODULE MCWriteMulti ----------------------------
(***************************************************************************)
(* Two tasks; a decomposition for the box and one for the subset           *)
(* rearranger, both with a hole.  Variables f and g have the dimensions of *)
(* the decompositions, s has one more and is written one frame at a time;  *)
(* none of them has a record dimension, so that they share a buffer.       *)
(***************************************************************************)
EXTENDS WriteMulti, TLC

CONSTANTS s, f, g, box, subset, t0, t1

NoneIsRecord == [v \in Vars |-> 0]
fndimsOf     == [v \in Vars |-> IF v = s THEN 2 ELSE 1]
ndimsOf      == [d \in Decomps |-> 1]
BothNeedFill == [d \in Decomps |-> TRUE]
rearrangerOf == [d \in Decomps |-> IF d = box THEN "box" ELSE "subset"]
OneEach      == [t \in Tasks |-> 1]

(* Variables f and g have the same dimensions and decompositions. *)
Interchangeable == Permutations({f, g})

=============================================================================
