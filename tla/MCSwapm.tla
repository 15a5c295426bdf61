------------------------------- MODULE MCSwapm -------------------------------
(***************************************************************************)
(* Instances of Swapm for TLC: which blocks are sent, under which options. *)
(***************************************************************************)
EXTENDS Swapm

\* The options that differ between three tasks (at most two steps each).
FlowControls3 ==
  {[hs |-> TRUE, isend |-> FALSE, max_pend_req |-> 1],
   [hs |-> FALSE, isend |-> FALSE, max_pend_req |-> 1],
   [hs |-> TRUE, isend |-> TRUE, max_pend_req |-> Unlimited],
   [hs |-> FALSE, isend |-> FALSE, max_pend_req |-> 0]}

\* Four tasks have up to three steps: two pending receives are a throttle.
Handshaking4 == [hs : {TRUE}, isend : {TRUE}, max_pend_req : {2}]
FlowControls4 == Handshaking4 \cup [hs : BOOLEAN, isend : {FALSE}, max_pend_req : {2}]

\* Every traffic matrix among the tasks; task 0 also sends itself a block.
Others == {b \in Tasks \X Tasks : b[1] # b[2]}
AllTraffics == {T \cup {<<0, 0>>} : T \in SUBSET Others}

\* A gather to task 0, a ring, and a full exchange but for one pair that has
\* nothing to exchange.
Gather == {b \in Others : b[2] = 0}
Ring == {b \in Others : b[2] = (b[1] + 1) % NTasks}
AllButOnePair == Others \ {<<0, 2>>, <<2, 0>>}
SparseTraffics == {Gather, Ring, AllButOnePair}

-----------------------------------------------------------------------------
\* The sizes of communicators for which the schedule of rounds is checked.
MaxTasks == 17

\* It is looked at once for a call, before any task has begun.
NotBegun == \A t \in Tasks : pc[t] = "start"

Mutual(n) ==
  \A k \in 0 .. Ceil2(n) - 2 : \A t \in 0 .. n - 1 :
    LET p == Pair(n, k, t)
    IN  p >= 0 => p \in (0 .. n - 1) \ {t} /\ Pair(n, k, p) = t

MeetsOnce(n) ==
  \A t \in 0 .. n - 1 : \A u \in (0 .. n - 1) \ {t} :
    Cardinality({k \in 0 .. Ceil2(n) - 2 : Pair(n, k, t) = u}) = 1

\* A round pairs tasks up: nobody is its own partner, and the partner of a
\* task has that task as its partner (pair() of pio_spmd.c), whatever the
\* size of the communicator.
PairingIsMutual == NotBegun => \A n \in 1 .. MaxTasks : Mutual(n)

\* The ceil2(ntasks) - 1 rounds of a call bring every task together with
\* every other task, and once only.
MeetsAllOnce == NotBegun => \A n \in 1 .. MaxTasks : MeetsOnce(n)

=============================================================================
