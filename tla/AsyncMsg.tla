------------------------------ MODULE AsyncMsg ------------------------------
(***************************************************************************)
(* Asynchronous mode.  The computation tasks of each component run their   *)
(* program of PIOc_ calls; the I/O tasks run pio_msg_handler2.  A message  *)
(* goes from the first task of a component (comproot) to the first I/O     *)
(* task (ioroot), which takes the waiting messages in any order and tells  *)
(* the other I/O tasks.  For one call all tasks of the component and all   *)
(* I/O tasks then meet in the broadcasts that AsyncCalls and AsyncHandlers *)
(* list.                                                                   *)
(*                                                                         *)
(* A broadcast does not synchronise: the root goes on once its message is  *)
(* out, and a task that waits for another broadcast than the next one on   *)
(* the communicator waits for ever.  SyncBcast restricts this to the       *)
(* executions in which the root waits for the receivers, as MPI may do for *)
(* a long message.  Files have one of the serial iotypes: the library is   *)
(* called by ioroot alone.                                                 *)
(***************************************************************************)
EXTENDS VarCalls, FiniteSets, SequencesExt

CONSTANTS
    NumComponents,
    NumCompTasks,      \* in each component
    NumIOTasks,
    Programs,          \* [1..NumComponents -> set of programs], a program being
                       \* a sequence of calls [msg, given]
    ErrorHandlers,     \* the settings that may be in force at the start
    Failing,           \* [error handlers -> messages whose call of the
                       \* library may fail]
    SyncBcast

ASSUME AsyncAssumption ==
    /\ NumComponents \in Nat \ {0}
    /\ NumCompTasks \in Nat \ {0}
    /\ NumIOTasks \in Nat \ {0}
    /\ ErrorHandlers \subseteq {"bcast", "return"}
    /\ SyncBcast \in BOOLEAN

Components == 1 .. NumComponents
CompTasks(c) == {<<c, i>> : i \in 0 .. NumCompTasks - 1}
Callers == UNION {CompTasks(c) : c \in Components}
IOTasks == {<<0, i>> : i \in 0 .. NumIOTasks - 1}
Tasks   == Callers \cup IOTasks
comproot(c) == <<c, 0>>
ioroot      == <<0, 0>>

(* intercomm of a component; my_comm, which is its union_comm; io_comm. *)
intercomm(c) == <<"intercomm", c>>
my_comm(c)   == <<"my_comm", c>>
io_comm      == <<"io_comm", 0>>
Comms == {io_comm} \cup {intercomm(c) : c \in Components} \cup {my_comm(c) : c \in Components}

(* On the intercommunicator only comproot (MPI_ROOT) and the I/O tasks     *)
(* take part; the other computation tasks pass MPI_PROC_NULL.              *)
Members(comm) ==
    CASE comm[1] = "io_comm"   -> IOTasks
      [] comm[1] = "intercomm" -> IOTasks \cup {comproot(comm[2])}
      [] comm[1] = "my_comm"   -> IOTasks \cup CompTasks(comm[2])

VARIABLES
    program,   \* [Callers -> Seq of functions to run, each a Seq of steps]
    doing,     \* [Tasks -> the call in progress, or Idle]
    todo,      \* [Tasks -> Seq of broadcasts up to the end of it, or to the code]
    code,      \* [Tasks -> the library's return code as the task knows it]
    eh,        \* [Tasks -> [Components -> ios->error_handler]]
    done,      \* [Tasks -> Seq of finished calls], history
    bcasts,    \* [Comms -> Seq of broadcasts some member has not taken part in]
    inbox,     \* [Components -> Seq of messages on the way to ioroot]
    listening, \* components with an outstanding MPI_Irecv
    index,     \* Waitsome's completed components that are not handled yet
    messages,  \* [Components -> the message received last]
    outcount,  \* [IOTasks -> requests of this batch that are left]
    openComps, \* [IOTasks -> components that have not sent EXIT]
    running    \* I/O tasks still in the message loop

vars == <<program, doing, todo, code, eh, done, bcasts, inbox, listening,
          index, messages, outcount, openComps, running>>

loopVars == <<inbox, listening, index, messages, outcount, openComps, running>>

-----------------------------------------------------------------------------
(* Broadcasts *)
Bcast(comm, root, item) == [on |-> comm, root |-> root, item |-> item]
Bcasts(comm, root, items) ==
    [i \in DOMAIN items |-> Bcast(comm, root, items[i])]

MpiErr   == INT("mpierr")
Ierr     == INT("ierr")
Status   == INT("status")
Outcount == INT("outcount")
Index    == INT("idx")
Msg      == INT("msg")

Pending(comm, t) == {i \in DOMAIN bcasts[comm] : t \in bcasts[comm][i].unread}
NextBcast(comm, t) == bcasts[comm][Min(Pending(comm, t))]

(* With SyncBcast a root is free once all members have its broadcasts. *)
Free(t) ==
    SyncBcast => \A comm \in Comms : \A i \in DOMAIN bcasts[comm] : bcasts[comm][i].root # t

Send(t, b, v) ==
    /\ Pending(b.on, t) = {}
    /\ LET unread == Members(b.on) \ {t}
       IN  bcasts' = IF unread = {} THEN bcasts
                     ELSE [bcasts EXCEPT ![b.on] =
                             Append(@, [root |-> t, item |-> b.item, val |-> v, unread |-> unread])]

Receive(t, b, v) ==
    /\ Pending(b.on, t) # {}
    /\ LET e == NextBcast(b.on, t)
           f == [e EXCEPT !.unread = @ \ {t}]
           i == Min(Pending(b.on, t))
       IN  /\ e.root = b.root /\ e.item = b.item /\ e.val = v
           /\ bcasts' = [bcasts EXCEPT ![b.on] =
                            IF f.unread = {} THEN RemoveAt(@, i) ELSE [@ EXCEPT ![i] = f]]

Meet(t, b, v) == IF b.root = t THEN Free(t) /\ Send(t, b, v) ELSE Receive(t, b, v)

(* The values t may meet b with: its own if it is the root, else what the  *)
(* next broadcast on the communicator brings.                              *)
Values(t, b, own) ==
    IF b.root = t THEN own
    ELSE IF Pending(b.on, t) = {} THEN {}
    ELSE {NextBcast(b.on, t).val}

-----------------------------------------------------------------------------
(* Calls *)
Message(msg, given) == [msg |-> msg, given |-> given]
NoMsg == Message("NULL", {})

Idle == [comp |-> 0, msg |-> "NULL", given |-> {}, onfail |-> "none", agree |-> "none", results |-> <<>>]

Doing(c, msg, given, onfail, call) ==
    [comp |-> c, msg |-> msg, given |-> given, onfail |-> onfail,
     agree |-> call.agree, results |-> call.results]

(* What a task does from the message on up to the library's code, or up to *)
(* the end when no code is shared: the parameters, then on all tasks the   *)
(* MPI error code and the derived values.                                  *)
Exchanges(c, params, call) ==
    Bcasts(intercomm(c), comproot(c), params)
    \o Bcasts(my_comm(c), comproot(c), call.early \o <<MpiErr>> \o call.derived)
    \o IF call.agree = "none" THEN Bcasts(my_comm(c), ioroot, call.results)
       ELSE IF call.agree = "local" THEN <<>>
       ELSE <<Bcast(my_comm(c), ioroot, Ierr)>>

Shares(agree) == agree \in {"bcast", "quiet", "dropped"}

(* check_netcdf2 for a bad status. *)
(* Fault: the computation tasks return the status at once. *)
check_netcdfOnIO(t, c) ==
    IF eh[t][c] = "bcast" /\ t \in IOTasks THEN <<Bcast(my_comm(c), ioroot, Status)>> ELSE <<>>
check_netcdf(t, c) ==
    IF eh[t][c] = "bcast" THEN <<Bcast(my_comm(c), ioroot, Status)>> ELSE <<>>

AfterCode(t, v) ==
    LET d == doing[t]
    IN  IF v = "ok" THEN Bcasts(my_comm(d.comp), ioroot, d.results)
        ELSE IF d.agree = "quiet" THEN <<>>
        ELSE check_netcdf(t, d.comp)

(* A program as the functions to run, each with the calls it makes. *)
Unfolded(p) == [i \in DOMAIN p |-> Steps(p[i].msg, p[i].given)]

Init ==
    /\ \E choice \in [Components -> UNION {Programs[c] : c \in Components}] :
          /\ \A c \in Components : choice[c] \in Programs[c]
          /\ program = [t \in Callers |-> Unfolded(choice[t[1]])]
    /\ doing = [t \in Tasks |-> Idle]
    /\ todo = [t \in Tasks |-> IF t \in IOTasks \ {ioroot}
                               THEN <<Bcast(io_comm, ioroot, Outcount)>> ELSE <<>>]
    /\ code = [t \in Tasks |-> "unknown"]
    /\ \E h \in ErrorHandlers : eh = [t \in Tasks |-> [c \in Components |-> h]]
    /\ done = [t \in Tasks |-> <<>>]
    /\ bcasts = [comm \in Comms |-> <<>>]
    /\ inbox = [c \in Components |-> <<>>]
    /\ listening = Components
    /\ index = <<>>
    /\ messages = [c \in Components |-> NoMsg]
    /\ outcount = [t \in IOTasks |-> 0]
    /\ openComps = [t \in IOTasks |-> NumComponents]
    /\ running = IOTasks
-----------------------------------------------------------------------------
(* Both sides, in a call *)
IsIdle(t) == doing[t].msg = "NULL"
At(t, item) == todo[t] # <<>> /\ Head(todo[t]).item = item
Becomes(f, t, v) == [f EXCEPT ![t] = v]

(* A broadcast of parameters, derived values, results or of a status. *)
Exchange(t) ==
    /\ todo[t] # <<>>
    /\ Head(todo[t]).item \notin {Ierr, Outcount, Index, Msg}
    /\ Meet(t, Head(todo[t]), "data")
    /\ todo' = Becomes(todo, t, Tail(todo[t]))
    /\ UNCHANGED <<program, doing, code, eh, done, loopVars>>

LibraryCodes(d) ==
    {"ok"} \cup (IF d.msg \in Failing[eh[ioroot][d.comp]] THEN {"failed"} ELSE {})

(* ioroot calls the library and broadcasts its code; the others learn it. *)
TakeCode(t) ==
    /\ At(t, Ierr)
    /\ \E v \in Values(t, Head(todo[t]), LibraryCodes(doing[t])) :
          /\ Meet(t, Head(todo[t]), v)
          /\ code' = Becomes(code, t, v)
          /\ todo' = Becomes(todo, t, AfterCode(t, v))
    /\ UNCHANGED <<program, doing, eh, done, loopVars>>

(* A function that keeps the code to itself. *)
OwnCode(t) ==
    /\ t = ioroot
    /\ ~IsIdle(t) /\ todo[t] = <<>>
    /\ doing[t].agree = "local" /\ code[t] = "unknown"
    /\ \E v \in LibraryCodes(doing[t]) :
          /\ code' = Becomes(code, t, v)
          /\ todo' = Becomes(todo, t, IF v = "ok" THEN <<>> ELSE check_netcdf(t, doing[t].comp))
    /\ UNCHANGED <<program, doing, eh, done, bcasts, loopVars>>

(* Fault: a task that frees the I/O system does not wait for the others. *)
EndedEarly(t) ==
    /\ ~IsIdle(t) /\ (todo[t] = <<>> \/ doing[t].msg = "EXIT")
    /\ (t = ioroot /\ doing[t].agree = "local") => code[t] # "unknown"
Ended(t) ==
    /\ ~IsIdle(t) /\ todo[t] = <<>>
    /\ (t = ioroot /\ doing[t].agree = "local") => code[t] # "unknown"

(* Fault: the method is stored unchecked. *)
MethodUnchecked(given) == IF "bcast" \in given THEN "bcast" ELSE "invalid"
Method(given) == IF "bcast" \in given THEN "bcast" ELSE "return"

(* The one setting of the I/O system that a call changes. *)
HandlerIsSet(t) == doing[t].msg = "SETERRORHANDLING"

(* Fault: the computation tasks alone remember the new handler. *)
NewHandlerForCallers(t) ==
    IF HandlerIsSet(t) /\ t \in Callers
    THEN [eh EXCEPT ![t][doing[t].comp] = Method(doing[t].given)] ELSE eh
NewHandler(t) ==
    IF HandlerIsSet(t) THEN [eh EXCEPT ![t][doing[t].comp] = Method(doing[t].given)] ELSE eh

(* Faults: the I/O tasks other than ioroot keep their own code; the code   *)
(* is received and not returned.                                           *)
ResultOwn(t) == IF code[t] = "unknown" \/ t \in IOTasks \ {ioroot} THEN "ok" ELSE code[t]
ResultSuccess(t) == IF code[t] = "unknown" \/ t \in Callers THEN "ok" ELSE code[t]
Result(t) ==
    IF code[t] = "unknown" \/ (t \in Callers /\ doing[t].agree = "dropped") THEN "ok" ELSE code[t]

Finish(t) ==
    LET d == doing[t]
    IN  /\ done' = [done EXCEPT ![t] = Append(@, [comp |-> d.comp, call |-> Message(d.msg, d.given),
                                                  code |-> Result(t)])]
        /\ eh' = NewHandler(t)
        /\ doing' = Becomes(doing, t, Idle)
        /\ code' = Becomes(code, t, "unknown")

-----------------------------------------------------------------------------
(* Computation tasks *)
Begin(t) ==
    LET c    == t[1]
        step == Head(Head(program[t]))
        call == Service(step.msg, step.given).call
    IN  /\ program[t] # <<>>
        /\ IsIdle(t) /\ todo[t] = <<>>
        /\ Free(t)
        /\ doing' = Becomes(doing, t, Doing(c, step.msg, step.given, step.onfail, call))
        /\ todo' = Becomes(todo, t, Exchanges(c, When(t = comproot(c), call.params), call))
        /\ inbox' = IF t = comproot(c)
                    THEN [inbox EXCEPT ![c] = Append(@, Message(step.msg, step.given))]
                    ELSE inbox
        /\ UNCHANGED <<program, code, eh, done, bcasts, listening, index, messages,
                       outcount, openComps, running>>

(* A nested call that fails ends the function that made it.  If that       *)
(* function hands the code to check_netcdf the computation tasks are at a  *)
(* broadcast from ioroot once more.                                        *)
Return(t) ==
    LET d      == doing[t]
        f      == Head(program[t])
        goesOn == Len(f) > 1 /\ (Result(t) = "ok" \/ d.onfail = "ignore")
    IN  /\ t \in Callers
        /\ Ended(t)
        /\ Finish(t)
        /\ program' = Becomes(program, t, When(goesOn, <<Tail(f)>>) \o Tail(program[t]))
        /\ todo' = Becomes(todo, t, IF Result(t) # "ok" /\ d.onfail = "check"
                                    THEN check_netcdf(t, d.comp) ELSE <<>>)
        /\ UNCHANGED <<bcasts, loopVars>>

-----------------------------------------------------------------------------
(* I/O tasks: pio_msg_handler2 *)
InLoop(t) == t \in running /\ IsIdle(t)

(* ioroot: one or more of the outstanding receives have completed; the     *)
(* order of the indices is MPI's.                                          *)
Waitsome ==
    LET ready == {c \in listening : inbox[c] # <<>>}
    IN  /\ InLoop(ioroot) /\ todo[ioroot] = <<>> /\ outcount[ioroot] = 0
        /\ \E S \in (SUBSET ready) \ {{}} :
              /\ \E order \in SetToSeqs(S) : index' = order
              /\ listening' = listening \ S
              /\ messages' = [c \in Components |-> IF c \in S THEN Head(inbox[c]) ELSE messages[c]]
              /\ inbox' = [c \in Components |-> IF c \in S THEN Tail(inbox[c]) ELSE inbox[c]]
        /\ todo' = Becomes(todo, ioroot, <<Bcast(io_comm, ioroot, Outcount)>>)
        /\ UNCHANGED <<program, doing, code, eh, done, bcasts, outcount, openComps, running>>

NextRequest == <<Bcast(io_comm, ioroot, Index), Bcast(io_comm, ioroot, Msg)>>

TakeOutcount(t) ==
    /\ InLoop(t) /\ At(t, Outcount)
    /\ \E n \in Values(t, Head(todo[t]), {Len(index)}) :
          /\ Meet(t, Head(todo[t]), n)
          /\ outcount' = Becomes(outcount, t, n)
    /\ todo' = Becomes(todo, t, NextRequest)
    /\ UNCHANGED <<program, doing, code, eh, done, inbox, listening, index, messages,
                   openComps, running>>

TakeIndex(t) ==
    /\ InLoop(t) /\ At(t, Index)
    /\ \E c \in Values(t, Head(todo[t]), {index[i] : i \in {1} \cap DOMAIN index}) :
          /\ Meet(t, Head(todo[t]), c)
          /\ doing' = Becomes(doing, t, [Idle EXCEPT !.comp = c])
    /\ todo' = Becomes(todo, t, Tail(todo[t]))
    /\ UNCHANGED <<program, code, eh, done, loopVars>>

(* The switch: the handler receives the parameters and calls the function; *)
(* for a message without a handler the task leaves the loop.               *)
Dispatch(t) ==
    LET c == doing[t].comp
    IN  /\ InLoop(t) /\ At(t, Msg)
        /\ \E m \in Values(t, Head(todo[t]), {messages[c]}) :
              LET handlers == Service(m.msg, m.given).handler
                  h        == CHOOSE x \in handlers : TRUE
              IN  /\ Meet(t, Head(todo[t]), m)
                  /\ running' = IF handlers = {} THEN running \ {t} ELSE running
                  /\ doing' = Becomes(doing, t,
                        IF handlers = {} THEN Idle ELSE Doing(c, m.msg, m.given, "return", h.call))
                  /\ todo' = Becomes(todo, t,
                        IF handlers = {} THEN <<>> ELSE Exchanges(c, h.params, h.call))
        /\ UNCHANGED <<program, code, eh, done, inbox, listening, index, messages,
                       outcount, openComps>>

(* Fault: a receive is posted at the end of a batch only. *)
ListenAfterBatch(t) ==
    IF t = ioroot /\ doing[t].msg # "EXIT" /\ outcount[t] = 1
    THEN listening \cup {doing[t].comp} ELSE listening
(* Listen to the component again unless it is gone. *)
Listen(t) ==
    IF t = ioroot /\ doing[t].msg # "EXIT" THEN listening \cup {doing[t].comp} ELSE listening

(* After a handler: the next request of the batch, the next batch or, when *)
(* no component is left, out of the loop.                                  *)
EndHandler(t) ==
    LET d     == doing[t]
        final == d.msg = "EXIT"
        out   == final /\ openComps[t] = 1
        left  == outcount[t] - 1
    IN  /\ t \in IOTasks
        /\ Ended(t)
        /\ Finish(t)
        /\ outcount' = Becomes(outcount, t, left)
        /\ openComps' = Becomes(openComps, t, IF final THEN openComps[t] - 1 ELSE openComps[t])
        /\ running' = IF out THEN running \ {t} ELSE running
        /\ listening' = Listen(t)
        /\ index' = IF t = ioroot THEN Tail(index) ELSE index
        /\ todo' = Becomes(todo, t,
                      IF out THEN <<>>
                      ELSE IF left > 0 THEN NextRequest
                      ELSE When(t # ioroot, <<Bcast(io_comm, ioroot, Outcount)>>))
        /\ UNCHANGED <<program, bcasts, inbox, messages>>

-----------------------------------------------------------------------------
InCall(t) ==
    \/ Exchange(t)
    \/ TakeCode(t)

CallerStep(t) ==
    \/ Begin(t)
    \/ InCall(t)
    \/ Return(t)

IOStep(t) ==
    \/ t = ioroot /\ Waitsome
    \/ TakeOutcount(t)
    \/ TakeIndex(t)
    \/ Dispatch(t)
    \/ InCall(t)
    \/ OwnCode(t)
    \/ EndHandler(t)

Finished(t) ==
    IF t \in IOTasks THEN t \notin running
    ELSE program[t] = <<>> /\ IsIdle(t) /\ todo[t] = <<>>

Terminated ==
    /\ \A t \in Tasks : Finished(t)
    /\ UNCHANGED vars

Next ==
    \/ \E t \in Callers : CallerStep(t)
    \/ \E t \in IOTasks : IOStep(t)
    \/ Terminated

(* Each process runs: none stops while MPI lets it continue. *)
Fairness ==
    /\ \A t \in Callers : WF_vars(CallerStep(t))
    /\ \A t \in IOTasks : WF_vars(IOStep(t))

Spec == Init /\ [][Next]_vars /\ Fairness

-----------------------------------------------------------------------------
Codes == {"ok", "failed"}

(* Type correctness of the state of pio_msg_handler2 and of the calls.     *)
TypeOK ==
    /\ code \in [Tasks -> Codes \cup {"unknown"}]
    /\ eh \in [Tasks -> [Components -> {"bcast", "return"}]]
    /\ listening \subseteq Components
    /\ index \in Seq(Components)
    /\ \A t \in IOTasks : outcount[t] \in 0 .. NumComponents /\ openComps[t] \in 0 .. NumComponents
    /\ running \subseteq IOTasks
    /\ \A t \in Tasks : doing[t].comp \in 0 .. NumComponents
    /\ \A t \in Tasks : \A i \in DOMAIN todo[t] : todo[t][i].on \in Comms /\ todo[t][i].root \in Tasks
    /\ \A comm \in Comms : \A i \in DOMAIN bcasts[comm] :
          /\ bcasts[comm][i].unread \subseteq Members(comm) \ {bcasts[comm][i].root}
          /\ bcasts[comm][i].unread # {}

(* Collective calls match: what a task broadcasts or waits for next on a   *)
(* communicator is what the other tasks broadcast there next, with the     *)
(* same root, type and count, in every one of the functions and handlers.  *)
Matched ==
    \A t \in Tasks :
        todo[t] # <<>> =>
            LET b == Head(todo[t])
            IN  Pending(b.on, t) # {} =>
                    /\ b.root # t
                    /\ NextBcast(b.on, t).root = b.root
                    /\ NextBcast(b.on, t).item = b.item

(* All I/O tasks handle the same calls in the same order and get the same  *)
(* codes, though only ioroot hears from the components and chooses.        *)
SameOrder ==
    \A t, u \in IOTasks : IsPrefix(done[t], done[u]) \/ IsPrefix(done[u], done[t])

(* When every task has left, no broadcast and no message is left over on a *)
(* communicator (which PIOc_free_iosystem has freed).                      *)
Drained ==
    (\A t \in Tasks : Finished(t)) =>
        /\ \A comm \in Comms : bcasts[comm] = <<>>
        /\ \A c \in Components : inbox[c] = <<>>

PartOf(seq, c) ==
    LET part[n \in 0 .. Len(seq)] ==
            IF n = 0 THEN <<>> ELSE part[n - 1] \o When(seq[n].comp = c, <<seq[n]>>)
    IN  part[Len(seq)]
OfComp(t, c) == PartOf(done[t], c)

(* A task and a fellow task that have made equally many calls agree on     *)
(* the error handler of the I/O system; check_netcdf relies on this.       *)
HandlersAgree ==
    \A c \in Components : \A t, u \in Members(my_comm(c)) :
        Len(OfComp(t, c)) = Len(OfComp(u, c)) => eh[t][c] = eh[u][c]

(* No caller is told that a call went well which the library refused.      *)
NoLostError ==
    \A c \in Components : \A t \in CompTasks(c) :
        \A i \in DOMAIN done[t] \cap DOMAIN OfComp(ioroot, c) :
            OfComp(ioroot, c)[i].code = "failed" => done[t][i].code = "failed"

(* Every call returns, every program ends, and the I/O tasks leave the     *)
(* message loop once all components have sent EXIT.                        *)
AllReturn == <>(\A t \in Tasks : Finished(t))

-----------------------------------------------------------------------------
(* The refinement mapping to RemoteCalls.  A call is issued with its       *)
(* message, and it is performed when ioroot has the library's code or,     *)
(* without a code, when the handler ends.                                  *)
CallOf(t)      == Message(doing[t].msg, doing[t].given)
CallsOf(seq)   == [i \in DOMAIN seq |-> seq[i].call]
Outcomes(seq)  == [i \in DOMAIN seq |-> [call |-> seq[i].call, code |-> seq[i].code]]

AllCalls ==
    LET calls  == UNION {Range(q) : q \in UNION {Programs[c] : c \in Components}}
        nested == UNION {Range(Steps(k.msg, k.given)) : k \in calls}
    IN  {Message(s.msg, s.given) : s \in nested}

HasCode(call) == Shares(Service(call.msg, call.given).call.agree)

Issued(c) ==
    CallsOf(done[comproot(c)]) \o When(~IsIdle(comproot(c)), <<CallOf(comproot(c))>>)
Performed(c) ==
    Outcomes(OfComp(ioroot, c))
    \o When(doing[ioroot].comp = c /\ code[ioroot] # "unknown",
            <<[call |-> CallOf(ioroot), code |-> code[ioroot]]>>)

RPC == INSTANCE RemoteCalls WITH
    Calls     <- AllCalls,
    issued    <- [c \in Components |-> Issued(c)],
    performed <- [c \in Components |-> Performed(c)],
    returned  <- [t \in Callers |-> Outcomes(done[t])]

(* Asynchronous mode implements remote calls: pio_msg_handler2 performs    *)
(* what a component asks for once and in its order, and every task of the  *)
(* component returns the code of that very call.                           *)
RemoteCall == RPC!Spec
=============================================================================
