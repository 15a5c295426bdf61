------------------------------ MODULE Alltoallw ------------------------------
(***************************************************************************)
(* What a generalised all-to-all exchange promises to the tasks that call  *)
(* it (pio_spmd.c: "Provides the functionality of MPI_Alltoallw with flow  *)
(* control options").  A pair <<s, d>> of wanted is a block that s sends   *)
(* to d.  Blocks arrive in any order and in any grouping; a task returns   *)
(* only once every block addressed to it is in its receive buffer, and in  *)
(* the end all blocks arrive and all tasks return.                         *)
(***************************************************************************)
CONSTANT Tasks          \* the ranks of the communicator

VARIABLES
  wanted,               \* the set of blocks <<sender, receiver>>, fixed
  received,             \* the blocks that are in their receive buffers
  returned              \* the tasks that have returned

vars == <<wanted, received, returned>>

Init ==
  /\ wanted \in SUBSET (Tasks \X Tasks)
  /\ received = {}
  /\ returned = {}

\* Some blocks arrive, possibly several at once.
Deliver ==
  /\ received' \in SUBSET wanted
  /\ received \subseteq received'
  /\ UNCHANGED <<wanted, returned>>

DeliverOne ==
  /\ \E b \in wanted \ received : received' = received \cup {b}
  /\ UNCHANGED <<wanted, returned>>

Return(t) ==
  /\ t \notin returned
  /\ \A b \in wanted : b[2] = t => b \in received
  /\ returned' = returned \cup {t}
  /\ UNCHANGED <<wanted, received>>

Next == Deliver \/ \E t \in Tasks : Return(t)

Spec ==
  /\ Init
  /\ [][Next]_vars
  /\ WF_vars(DeliverOne)
  /\ \A t \in Tasks : WF_vars(Return(t))

=============================================================================
