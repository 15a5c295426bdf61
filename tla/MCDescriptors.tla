--------------------------- MODULE MCDescriptors ----------------------------
(* Topologies for Descriptors. *)
EXTENDS Descriptors, TLC

CONSTANTS c1, c2, i1, w1, w2,          \* processes
          a1, a2, m1, m2               \* I/O systems

(* Two asynchronous systems that share the I/O task i1, and two systems    *)
(* that are not, m1 on w1 and w2 and m2 on w1 alone.                       *)
SepMembers  == (a1 :> {c1, i1}) @@ (a2 :> {c2, i1}) @@ (m1 :> {w1, w2}) @@ (m2 :> {w1})
SepIOTasks  == (a1 :> {i1}) @@ (a2 :> {i1}) @@ (m1 :> {w1}) @@ (m2 :> {w1})
SepIORoot   == (a1 :> i1) @@ (a2 :> i1) @@ (m1 :> w1) @@ (m2 :> w1)
SepCompRoot == (a1 :> c1) @@ (a2 :> c2) @@ (m1 :> w1) @@ (m2 :> w1)

(* The two asynchronous systems are alike. *)
Swap     == (c1 :> c2) @@ (c2 :> c1) @@ (a1 :> a2) @@ (a2 :> a1)
Same     == (c1 :> c1) @@ (c2 :> c2) @@ (a1 :> a1) @@ (a2 :> a2)
Symmetry == {Same, Swap}

(* A process of an asynchronous system that has a system of its own too. *)
MixMembers  == (a1 :> {c1, i1}) @@ (m1 :> {c1})
MixIOTasks  == (a1 :> {i1}) @@ (m1 :> {c1})
MixIORoot   == (a1 :> i1) @@ (m1 :> c1)
MixCompRoot == (a1 :> c1) @@ (m1 :> c1)
=============================================================================
