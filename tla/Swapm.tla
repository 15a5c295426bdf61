-------------------------------- MODULE Swapm --------------------------------
(***************************************************************************)
(* pio_swapm() of pio_spmd.c: the all-to-all exchange under flow control   *)
(* that carries all data between compute and IO tasks in the rearrangers.  *)
(*                                                                         *)
(* One call, made by every task of the communicator.  Every MPI message of *)
(* a call has its own envelope (source, destination, tag): a block sent by *)
(* s to d carries the tag of s, and the handshake by which d tells s that  *)
(* its receive is posted travels from d to s under the tag of s too.  A    *)
(* message is matched when it has been sent and its receive was posted,    *)
(* in whatever order.                                                      *)
(*                                                                         *)
(* MPI may finish a send before it is matched (the message is buffered) or *)
(* make it wait (a rendezvous).  SyncKinds names the kinds of messages for *)
(* which it has that choice; messages of other kinds are always buffered.  *)
(* Errors returned by MPI are not modelled.                                *)
(***************************************************************************)
EXTENDS Integers, FiniteSets, SwapSchedule

CONSTANTS
  NTasks,         \* ntasks, the size of the communicator
  Traffics,       \* the possible sets of pairs <<s, d>> with sendcounts > 0
  FlowControls,   \* the possible rearr_comm_fc_opt_t values
  SyncKinds       \* kinds of messages ("data", "handshake") MPI may not buffer

Tasks == 0 .. NTasks - 1

\* PIO_REARR_COMM_UNLIMITED_PEND_REQ
Unlimited == -1

FlowControl == [hs : BOOLEAN, isend : BOOLEAN, max_pend_req : Int]

ASSUME SwapmAssumption ==
  /\ NTasks \in Nat \ {0}
  /\ Traffics \subseteq SUBSET (Tasks \X Tasks)
  /\ FlowControls \subseteq FlowControl
  /\ SyncKinds \subseteq {"data", "handshake"}

VARIABLES
  traffic,    \* the pairs <<s, d>> with a block to send; the same everywhere
  fc,         \* the flow control options; the same everywhere
  pc,         \* where each task is
  istep,      \* the step of the send loop each task is at
  rstep,      \* the next step whose receive each task posts
  sent,       \* the envelopes of the messages that have been sent
  posted,     \* the envelopes whose receive has been posted
  rcvids,     \* per task, the steps whose data receive is not waited for yet
  sndids,     \* per task, the envelopes of its MPI_Isends in rendezvous
  blocked     \* per task, the envelope its last MPI_Send is in rendezvous for

vars == <<traffic, fc, pc, istep, rstep, sent, posted, rcvids, sndids, blocked>>

-----------------------------------------------------------------------------
(* Envelopes *)

Envelope == [src : Tasks, dst : Tasks, tag : Tasks]

Data(s, d) == [src |-> s, dst |-> d, tag |-> s]
\* Fault: the tag of the handshake is one too high.
HandshakeTagOffByOne(d, s) == [src |-> d, dst |-> s, tag |-> s + 1]
Handshake(d, s) == [src |-> d, dst |-> s, tag |-> s]

Matched(e) == e \in sent /\ e \in posted

-----------------------------------------------------------------------------
(* Who meets whom, and how many receives may be pending *)

Sends(s, d) == <<s, d>> \in traffic

\* pair() of every task in every round; ceil2(n) < 2 * n.
PairTable == [t \in Tasks |-> [k \in 0 .. 2 * NTasks |-> Pair(NTasks, k, t)]]
\* Fault: as many rounds as other tasks.
LoopEndPerTask == NTasks - 1
LoopEnd == Ceil2(NTasks) - 1

\* Fault: only the tasks to send to are partners.
PartnerRoundsSendOnly(t) ==
  {k \in 0 .. 2 * NTasks : k < LoopEnd /\ PairTable[t][k] >= 0 /\ Sends(t, PairTable[t][k])}

PartnerRounds(t) ==
  {k \in 0 .. 2 * NTasks :
     /\ k < LoopEnd
     /\ PairTable[t][k] >= 0
     /\ Sends(t, PairTable[t][k]) \/ Sends(PairTable[t][k], t)}

Steps(t) == Cardinality(PartnerRounds(t))

\* swapids[i] of task t: its partner in the round before which i rounds count.
Swapids(t, i) ==
  PairTable[t][CHOOSE k \in PartnerRounds(t) :
                 Cardinality({j \in PartnerRounds(t) : j < k}) = i]

Throttled(t) == fc.max_pend_req > 1 /\ fc.max_pend_req < Steps(t)

MaxReq(t) ==
  IF Steps(t) <= 1 THEN Steps(t)
  ELSE IF fc.max_pend_req = 1 THEN 2
  ELSE IF Throttled(t) THEN fc.max_pend_req
  ELSE Steps(t)

MaxReqH(t) ==
  IF Steps(t) <= 1 THEN Steps(t)
  ELSE IF fc.max_pend_req = 1 THEN 1
  ELSE IF Throttled(t) THEN fc.max_pend_req \div 2
  ELSE Steps(t)

-----------------------------------------------------------------------------

PC == {"start", "alltoallw", "post", "handshake", "send", "drain", "waitall",
       "returned"}

Init ==
  /\ traffic \in Traffics
  /\ fc \in FlowControls
  /\ pc = [t \in Tasks |-> "start"]
  /\ istep = [t \in Tasks |-> 0]
  /\ rstep = [t \in Tasks |-> 0]
  /\ sent = {}
  /\ posted = {}
  /\ rcvids = [t \in Tasks |-> {}]
  /\ sndids = [t \in Tasks |-> {}]
  /\ blocked = [t \in Tasks |-> {}]

Goto(t, l) == pc' = [pc EXCEPT ![t] = l]

\* The task's last MPI_Send, if any, has returned.
Free(t) == blocked[t] \subseteq posted

\* The ways MPI may treat a send: the envelopes it holds the sender up for.
Rendezvous(e, kind) == IF kind \in SyncKinds THEN {{}, {e}} ELSE {{}}

\* max_pend_req = 0: the exchange is left to MPI_Alltoallw.
Alltoallw(t) ==
  /\ pc[t] = "start"
  /\ fc.max_pend_req = 0
  /\ sent' = sent \cup {Data(t, d) : d \in {d \in Tasks : Sends(t, d)}}
  /\ posted' = posted \cup {Data(s, t) : s \in {s \in Tasks : Sends(s, t)}}
  /\ Goto(t, "alltoallw")
  /\ UNCHANGED <<traffic, fc, istep, rstep, rcvids, sndids, blocked>>

AlltoallwReturn(t) ==
  /\ pc[t] = "alltoallw"
  /\ \A s \in Tasks : Sends(s, t) => Matched(Data(s, t))
  /\ Goto(t, "returned")
  /\ UNCHANGED <<traffic, fc, istep, rstep, sent, posted, rcvids, sndids, blocked>>

\* The block a task sends itself goes first, receive before send; then, with
\* handshakes, the receives for those of the first maxreq steps.
SendToSelf(t) ==
  /\ pc[t] = "start"
  /\ fc.max_pend_req # 0
  /\ LET self == {Data(t, t) : d \in {d \in {t} : Sends(t, d)}}
         hs == {Handshake(p, t) : p \in {p \in Tasks :
                  fc.hs /\ Sends(t, p) /\ \E i \in 0 .. MaxReq(t) - 1 : p = Swapids(t, i)}}
     IN  /\ sent' = sent \cup self
         /\ posted' = posted \cup self \cup hs
  /\ Goto(t, IF Steps(t) = 0 THEN "waitall" ELSE "post")
  /\ UNCHANGED <<traffic, fc, istep, rstep, rcvids, sndids, blocked>>

\* Where a task goes once the receive of step rstep has been dealt with: the
\* next of the first maxreq receives, or on with the send loop.
NextReceive(t) ==
  /\ rstep' = [rstep EXCEPT ![t] = @ + 1]
  /\ IF rstep[t] < MaxReq(t)
     THEN /\ Goto(t, IF rstep[t] + 1 < MaxReq(t) THEN "post" ELSE "send")
          /\ UNCHANGED istep
     ELSE /\ Goto(t, IF istep[t] + 1 < Steps(t) THEN "send" ELSE "waitall")
          /\ istep' = [istep EXCEPT ![t] = @ + 1]

\* MPI_Irecv of the block of step rstep.
PostReceive(t) ==
  /\ pc[t] = "post"
  /\ Free(t)
  /\ \E p \in Tasks :
       /\ p = Swapids(t, rstep[t])
       /\ IF Sends(p, t)
          THEN /\ posted' = posted \cup {Data(p, t)}
               /\ rcvids' = [rcvids EXCEPT ![t] = @ \cup {rstep[t]}]
          ELSE UNCHANGED <<posted, rcvids>>
       /\ IF fc.hs /\ Sends(p, t)
          THEN Goto(t, "handshake") /\ UNCHANGED <<istep, rstep>>
          ELSE NextReceive(t)
  /\ UNCHANGED <<traffic, fc, sent, sndids, blocked>>

\* MPI_Send of the handshake for the receive just posted.
SendHandshake(t) ==
  /\ pc[t] = "handshake"
  /\ \E p \in Tasks :
       /\ p = Swapids(t, rstep[t])
       /\ sent' = sent \cup {Handshake(t, p)}
       /\ \E b \in Rendezvous(Handshake(t, p), "handshake") :
            blocked' = [blocked EXCEPT ![t] = b]
  /\ NextReceive(t)
  /\ UNCHANGED <<traffic, fc, posted, rcvids, sndids>>

\* Under handshakes, MPI_Wait(hs_rcvids + istep) has returned.
HandshakeForgotten(t, p) == TRUE     \* Fault: the wait is missing.
HandshakeArrived(t, p) == fc.hs => Matched(Handshake(p, t))

\* The send half of a step: wait for the handshake, then MPI_Irsend,
\* MPI_Isend or MPI_Send the block.
SendData(t) ==
  /\ pc[t] = "send"
  /\ Free(t)
  /\ \E p \in Tasks :
       /\ p = Swapids(t, istep[t])
       /\ IF Sends(t, p)
          THEN /\ HandshakeArrived(t, p)
               /\ sent' = sent \cup {Data(t, p)}
               /\ \E b \in Rendezvous(Data(t, p), "data") :
                    IF fc.isend
                    THEN /\ sndids' = [sndids EXCEPT ![t] = @ \cup b]
                         /\ UNCHANGED blocked
                    ELSE /\ blocked' = [blocked EXCEPT ![t] = b]
                         /\ UNCHANGED sndids
          ELSE UNCHANGED <<sent, sndids, blocked>>
  /\ IF istep[t] > MaxReqH(t) - 1
     THEN Goto(t, "drain") /\ UNCHANGED istep
     ELSE /\ Goto(t, IF istep[t] + 1 < Steps(t) THEN "send" ELSE "waitall")
          /\ istep' = [istep EXCEPT ![t] = @ + 1]
  /\ UNCHANGED <<traffic, fc, rstep, posted, rcvids>>

CompletedUnchecked(t, I) == TRUE     \* Fault: MPI_Waitall is missing.

\* All the data receives of the steps I have been completed.
Completed(t, I) ==
  \A i \in I : \E p \in Tasks : p = Swapids(t, i) /\ Matched(Data(p, t))

\* The receive a step waits for, if there is one: that of maxreqh steps ago.
DueOneLate(t) == {istep[t] - MaxReqH(t) - 1} \cap rcvids[t]     \* Fault
Due(t) == {istep[t] - MaxReqH(t)} \cap rcvids[t]

\* The receive half of a step: wait for the receive posted maxreqh steps ago,
\* then turn to the next one, its handshake receive first.
Drain(t) ==
  /\ pc[t] = "drain"
  /\ Free(t)
  /\ Completed(t, Due(t))
  /\ rcvids' = [rcvids EXCEPT ![t] = @ \ Due(t)]
  /\ IF rstep[t] < Steps(t)
     THEN /\ \E p \in Tasks :
               /\ p = Swapids(t, rstep[t])
               /\ posted' = IF fc.hs /\ Sends(t, p)
                            THEN posted \cup {Handshake(p, t)} ELSE posted
          /\ Goto(t, "post")
          /\ UNCHANGED istep
     ELSE /\ Goto(t, IF istep[t] + 1 < Steps(t) THEN "send" ELSE "waitall")
          /\ istep' = [istep EXCEPT ![t] = @ + 1]
          /\ UNCHANGED posted
  /\ UNCHANGED <<traffic, fc, rstep, sent, sndids, blocked>>

\* MPI_Waitall on the receives, then on the sends.
WaitAll(t) ==
  /\ pc[t] = "waitall"
  /\ Free(t)
  /\ Completed(t, rcvids[t])
  /\ sndids[t] \subseteq posted
  /\ rcvids' = [rcvids EXCEPT ![t] = {}]
  /\ sndids' = [sndids EXCEPT ![t] = {}]
  /\ Goto(t, "returned")
  /\ UNCHANGED <<traffic, fc, istep, rstep, sent, posted, blocked>>

Step(t) ==
  \/ Alltoallw(t)
  \/ AlltoallwReturn(t)
  \/ SendToSelf(t)
  \/ PostReceive(t)
  \/ SendHandshake(t)
  \/ SendData(t)
  \/ Drain(t)
  \/ WaitAll(t)

\* Every task is back from the call: nothing more happens.
Done ==
  /\ \A t \in Tasks : pc[t] = "returned"
  /\ UNCHANGED vars

Next == Done \/ \E t \in Tasks : Step(t)

\* A task inside an MPI call that can finish is not held up for ever.
Spec == Init /\ [][Next]_vars /\ \A t \in Tasks : WF_vars(Step(t))

-----------------------------------------------------------------------------
(* Properties *)

\* Types of the locals of pio_swapm and of the messages between the tasks.
TypeOK ==
  /\ traffic \in SUBSET (Tasks \X Tasks)
  /\ fc \in FlowControl
  /\ pc \in [Tasks -> PC]
  /\ istep \in [Tasks -> Nat]
  /\ rstep \in [Tasks -> Nat]
  /\ sent \subseteq Envelope
  /\ posted \subseteq Envelope
  /\ rcvids \in [Tasks -> SUBSET Nat]
  /\ sndids \in [Tasks -> SUBSET Envelope]
  /\ blocked \in [Tasks -> SUBSET Envelope]

\* MPI_Irsend is erroneous unless its receive is already posted: with
\* handshakes no block of another task is sent before its receive is posted.
ReadySendSafe ==
  fc.hs /\ fc.max_pend_req # 0 =>
    \A s, d \in Tasks : Data(s, d) \in sent => Data(s, d) \in posted

\* The throttle: a task never has more than maxreq data receives pending.
PendingBound == \A t \in Tasks : Cardinality(rcvids[t]) <= MaxReq(t)

\* A task that has returned leaves nothing behind: every message addressed to
\* it was sent and received, so that the next call (which uses the same tags)
\* cannot receive a message of this one.
CleanExit ==
  \A t \in Tasks : pc[t] = "returned" =>
    /\ \A s \in Tasks : Sends(s, t) => Matched(Data(s, t))
    /\ \A e \in sent \cup posted : e.dst = t => Matched(e)
    /\ \A e \in posted : e.src = t => e \in sent

\* Every task comes back from the exchange.
AllReturn == <>(\A t \in Tasks : pc[t] = "returned")

-----------------------------------------------------------------------------
(* pio_swapm implements the plain exchange *)

Received == {b \in traffic : Matched(Data(b[1], b[2]))}
Returned == {t \in Tasks : pc[t] = "returned"}

Exchange == INSTANCE Alltoallw WITH wanted <- traffic, received <- Received, returned <- Returned
\* Whatever the options, pio_swapm does what MPI_Alltoallw would: it delivers
\* exactly the blocks of the call, and a task returns once it has all of its own.
ExchangeSpec == Exchange!Spec

=============================================================================
