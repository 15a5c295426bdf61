---------------------------- MODULE AsyncHistory ----------------------------
(***************************************************************************)
(* Why the broadcasts of AsyncMsg match.  Everything the tasks do in       *)
(* asynchronous mode follows one history, which no task knows as a whole:  *)
(* for each component the calls it makes one after the other, with the     *)
(* code of each; for each communicator the broadcasts in their order; and  *)
(* for the message loop the requests in the order ioroot takes them.  A    *)
(* task has a place in each of these.  The predicates below say how the    *)
(* state of the tasks and the broadcasts under way follow from a history h *)
(* and the places of the tasks in it.                                      *)
(***************************************************************************)
EXTENDS AsyncMsg

(* The steps of the programs, and what both sides exchange in them.        *)
AllSteps ==
    UNION {UNION {UNION {Range(Steps(p[i].msg, p[i].given)) : i \in DOMAIN p} : p \in Programs[c]} :
              c \in Components}
CallFor(s) == Service(s.msg, s.given).call
ItemsOf(call) == Range(call.params) \cup Range(call.early) \cup Range(call.derived) \cup Range(call.results)
Control == {Ierr, Outcount, Index, Msg}
DataItems == {MpiErr, Status} \cup UNION {ItemsOf(CallFor(s)) : s \in AllSteps}
Items == DataItems \cup Control

(* The handler receives the parameters that the function sends and calls a *)
(* function that goes on with the same broadcasts.                         *)
SidesMatch(s) ==
    LET call == CallFor(s)
    IN  \E h \in Service(s.msg, s.given).handler :
            /\ Service(s.msg, s.given).handler = {h}
            /\ h.params = call.params /\ h.call.early = call.early /\ h.call.derived = call.derived
            /\ h.call.results = call.results /\ h.call.agree = call.agree

(* A failure that the function does not share with all tasks is not        *)
(* reported by a broadcast.                                                *)
FailureShared(s) ==
    /\ CallFor(s).agree = "local" => \A e \in {"bcast", "return"} : s.msg \notin Failing[e]
    /\ s.onfail = "check" => s.msg \notin Failing["bcast"]

WellFormed(s) ==
    LET call == CallFor(s)
    IN  /\ call.params \in Seq(DataItems) /\ call.early \in Seq(DataItems)
        /\ call.derived \in Seq(DataItems) /\ call.results \in Seq(DataItems)
        /\ call.agree \in {"bcast", "quiet", "dropped", "local", "none"}
        /\ s.msg # "NULL"

(* EXIT ends a program: it is sent by PIOc_free_iosystem.                  *)
ExitIsLast(p) ==
    \A i \in DOMAIN p : \A k \in DOMAIN p[i] :
        p[i][k].msg = "EXIT" => i = Len(p) /\ k = Len(p[i])

Programme(p) == p \in Seq(Seq(AllSteps)) /\ (\A i \in DOMAIN p : p[i] # <<>>) /\ ExitIsLast(p)

(* What is supposed of the programs.                                       *)
ProgramsFit ==
    /\ Control \cap DataItems = {}
    /\ \A s \in AllSteps : SidesMatch(s) /\ FailureShared(s) /\ WellFormed(s)
    /\ \A c \in Components : \A p \in Programs[c] : Programme(Unfolded(p))

(* No call whose code the computation tasks ignore may fail.               *)
CodesHeard ==
    \A s \in AllSteps : CallFor(s).agree = "dropped" => \A e \in {"bcast", "return"} : s.msg \notin Failing[e]

-----------------------------------------------------------------------------
(* The types of the variables, and of the parts of a history that count.   *)
Requests == {Message(s.msg, s.given) : s \in AllSteps}
Vals     == {"data"} \cup Codes \cup Nat \cup Requests
Meetings == [on : Comms, root : Tasks, item : Items]
Packets  == [root : Tasks, item : Items, val : Vals, unread : SUBSET Tasks]

Shape ==
    /\ DOMAIN program = Callers /\ DOMAIN doing = Tasks
    /\ todo \in [Tasks -> Seq(Meetings)]
    /\ code \in [Tasks -> Codes \cup {"unknown"}]
    /\ eh \in [Tasks -> [Components -> {"bcast", "return"}]]
    /\ done \in [Tasks -> Seq([comp : Components, call : Requests, code : Codes])]
    /\ bcasts \in [Comms -> Seq(Packets)]
    /\ inbox \in [Components -> Seq(Requests)]
    /\ listening \subseteq Components /\ index \in Seq(Components)
    /\ DOMAIN messages = Components
    /\ outcount \in [IOTasks -> 0 .. NumComponents]
    /\ openComps \in [IOTasks -> 0 .. NumComponents]
    /\ running \subseteq IOTasks

Measured(h) ==
    /\ h.low \in [Comms -> Nat] /\ h.pos \in [Comms -> [Tasks -> Nat]]
    /\ h.sp \in [Components -> [Nat -> Nat]] /\ h.st \in [Components -> [Nat -> Nat]]
    /\ h.last \in [Components -> Nat] /\ h.num \in [Tasks -> [Components -> Nat]]

-----------------------------------------------------------------------------
(* The calls of a component.  h.prog[c][n] is what is left of its program  *)
(* after n calls, h.cd[c][n] the code of the call it makes next, and       *)
(* h.hand[c][n] the error handler it is made under.                        *)
StepOf(p)   == Head(Head(p))
CallAt(p)   == CallFor(StepOf(p))
Shared(p)   == Shares(CallAt(p).agree)

CallerCode(p, v) == IF v = "unknown" \/ CallAt(p).agree = "dropped" THEN "ok" ELSE v
ServerCode(v)    == IF v = "unknown" THEN "ok" ELSE v

NextProgram(p, v) ==
    LET goesOn == Len(Head(p)) > 1 /\ (CallerCode(p, v) = "ok" \/ StepOf(p).onfail = "ignore")
    IN  When(goesOn, <<Tail(Head(p))>>) \o Tail(p)
NextHand(p, e) == IF StepOf(p).msg = "SETERRORHANDLING" THEN Method(StepOf(p).given) ELSE e

(* All broadcasts of a call, from the parameters to its end, as far as     *)
(* they are known to a task that knows the code v.                         *)
Rest(c, p, v, e) ==
    IF v = "ok" THEN Bcasts(my_comm(c), ioroot, CallAt(p).results)
    ELSE IF v = "failed" /\ CallAt(p).agree # "quiet" /\ e = "bcast" THEN <<Bcast(my_comm(c), ioroot, Status)>>
    ELSE <<>>
Agreed(c, p) == Exchanges(c, CallAt(p).params, CallAt(p))
Script(c, p, v, e) == Agreed(c, p) \o Rest(c, p, v, e)
Params(p) == Len(CallAt(p).params)

FullScript(h, c, n) == Script(c, h.prog[c][n], h.cd[c][n], h.hand[c][n])

(* The place on its communicator of broadcast k of call n: the first call  *)
(* of its kind is call 0, and the parameters come after place h.sp[c][n].  *)
Place(h, c, n, k) ==
    IF k <= Params(h.prog[c][n]) THEN h.sp[c][n] + k ELSE h.st[c][n] + (k - Params(h.prog[c][n]))

(* The end of call n on the two communicators.                             *)
EndOfParams(h, c, n) == h.sp[c][n] + Params(h.prog[c][n])
EndOfCall(h, c, n)   == h.st[c][n] + (Len(FullScript(h, c, n)) - Params(h.prog[c][n]))

Calls(h) ==
    \A c \in Components :
        /\ \A n \in 0 .. h.last[c] :
              /\ Programme(h.prog[c][n])
              /\ h.hand[c][n] \in {"bcast", "return"}
              /\ h.cd[c][n] \in Codes \cup {"unknown"}
              /\ h.prog[c][n] # <<>> =>
                    /\ h.cd[c][n] # "unknown" => Shared(h.prog[c][n])
                    /\ h.cd[c][n] = "failed" => StepOf(h.prog[c][n]).msg \in Failing[h.hand[c][n]]
        /\ \A n \in 0 .. h.last[c] - 1 :
              /\ h.prog[c][n] # <<>>
              /\ Shared(h.prog[c][n]) => h.cd[c][n] # "unknown"
              /\ h.prog[c][n + 1] = NextProgram(h.prog[c][n], h.cd[c][n])
              /\ h.hand[c][n + 1] = NextHand(h.prog[c][n], h.hand[c][n])
        /\ \A n \in 0 .. h.last[c] : \A m \in 0 .. n - 1 :
              EndOfParams(h, c, m) <= h.sp[c][n] /\ EndOfCall(h, c, m) <= h.st[c][n]
        /\ \A n \in 0 .. h.last[c] - 1 :
              EndOfParams(h, c, n) = h.sp[c][n + 1] /\ EndOfCall(h, c, n) = h.st[c][n + 1]

-----------------------------------------------------------------------------
(* The broadcasts of a communicator: h.log[comm][k] is the k-th, task t    *)
(* has taken part in h.pos[comm][t] of them, and the first h.low[comm] are *)
(* over.                                                                   *)
Top(h, comm) == h.low[comm] + Len(bcasts[comm])

InLine(log, place, low, queue, members) ==
    /\ \A u \in members : low <= place[u] /\ place[u] <= low + Len(queue)
    /\ \A i \in 1 .. Len(queue) :
          LET e == queue[i]
              k == low + i
          IN  /\ e.root = log[k].root /\ e.item = log[k].item /\ e.val = log[k].val
              /\ e.root \in members /\ k <= place[e.root]
              /\ e.unread = {u \in members \ {e.root} : place[u] < k}
              /\ e.unread # {}

Logged(h) ==
    \A comm \in Comms : InLine(h.log[comm], h.pos[comm], h.low[comm], bcasts[comm], Members(comm))

(* The log of a component's communicators is made of its calls.            *)
IsEntry(e, b, v) ==
    /\ e.root = b.root /\ e.item = b.item
    /\ IF b.item = Ierr THEN e.val = v /\ v \in Codes ELSE e.val = "data"

Recorded(h) ==
    \A c \in Components : \A n \in 0 .. h.last[c] :
        h.prog[c][n] # <<>> =>
            \A k \in 1 .. Len(FullScript(h, c, n)) :
                LET b == FullScript(h, c, n)[k]
                IN  Place(h, c, n, k) <= Top(h, b.on) =>
                        IsEntry(h.log[b.on][Place(h, c, n, k)], b, h.cd[c][n])

(* No broadcast is ahead of the calls.                                     *)
Ahead(h) ==
    \A c \in Components :
        LET n == h.last[c]
        IN  IF h.prog[c][n] = <<>>
            THEN Top(h, intercomm(c)) <= h.sp[c][n] /\ Top(h, my_comm(c)) <= h.st[c][n]
            ELSE Top(h, intercomm(c)) <= EndOfParams(h, c, n) /\ Top(h, my_comm(c)) <= EndOfCall(h, c, n)

-----------------------------------------------------------------------------
(* A task of a component, or an I/O task, among the component's calls: it  *)
(* has finished h.num[t][c] of them, and may have taken part in the first  *)
(* k broadcasts of the next.                                               *)
Busy(t, c) == ~IsIdle(t) /\ doing[t].comp = c

Abreast(h, t, c, n, k) ==
    LET P == Params(h.prog[c][n])
    IN  /\ h.pos[my_comm(c)][t] = h.st[c][n] + (IF k <= P THEN 0 ELSE k - P)
        /\ t \in Members(intercomm(c)) => h.pos[intercomm(c)][t] = h.sp[c][n] + (IF k <= P THEN k ELSE P)
        /\ t \notin Members(intercomm(c)) => P <= k

AtRest(h, t, c) ==
    /\ h.pos[my_comm(c)][t] = h.st[c][h.num[t][c]]
    /\ t \in Members(intercomm(c)) => h.pos[intercomm(c)][t] = h.sp[c][h.num[t][c]]

(* todo is what is left of the script after k broadcasts.                  *)
LeftOf(s, k, left) == k \in Nat /\ Len(s) = k + Len(left) /\ \A i \in 1 .. Len(left) : left[i] = s[k + i]

Known(p, v) == IF Shared(p) THEN v ELSE "unknown"

Informed(t, p, v) ==
    /\ Shared(p) =>
          /\ code[t] \in {"unknown", v}
          /\ code[t] = "unknown" => todo[t] # <<>>
          /\ t = ioroot => code[t] = v
    /\ ~Shared(p) => code[t] = "unknown" \/ (t = ioroot /\ code[t] = "ok" /\ CallAt(p).agree = "local")

InCallAt(h, t, c, n, p, k) ==
    /\ LeftOf(Script(c, p, Known(p, code[t]), h.hand[c][n]), k, todo[t])
    /\ Abreast(h, t, c, n, k)
    /\ Shared(p) /\ code[t] # "unknown" => Len(Agreed(c, p)) <= k
    /\ Informed(t, p, h.cd[c][n])

InScript(h, t, c, k) == InCallAt(h, t, c, h.num[t][c], h.prog[c][h.num[t][c]], k)

Makes(t, p) ==
    /\ p # <<>>
    /\ doing[t].msg = StepOf(p).msg /\ doing[t].given = StepOf(p).given
    /\ doing[t].agree = CallAt(p).agree /\ doing[t].results = CallAt(p).results

PlacedAt(h, t, c) ==
    /\ h.num[t][c] \in 0 .. h.last[c]
    /\ eh[t][c] = h.hand[c][h.num[t][c]]
    /\ Busy(t, c) => Makes(t, h.prog[c][h.num[t][c]]) /\ \E k \in Nat : InScript(h, t, c, k)
    /\ ~Busy(t, c) => AtRest(h, t, c)

Placed(h) == \A c \in Components : \A t \in Members(my_comm(c)) : PlacedAt(h, t, c)

(* A call has no code before ioroot has made it.                           *)
Undecided(h) ==
    \A c \in Components : \A n \in 0 .. h.last[c] :
        h.num[ioroot][c] < n \/ (h.num[ioroot][c] = n /\ ~Busy(ioroot, c)) => h.cd[c][n] = "unknown"

(* A computation task.                                                     *)
CallingAt(h, t, c) ==
    /\ program[t] = h.prog[c][h.num[t][c]]
    /\ ~IsIdle(t) => doing[t].comp = c /\ doing[t].onfail = StepOf(program[t]).onfail
    /\ IsIdle(t) => todo[t] = <<>> /\ code[t] = "unknown"

Calling(h) == \A c \in Components : \A t \in CompTasks(c) : CallingAt(h, t, c)

-----------------------------------------------------------------------------
(* The message loop.  h.loop[p] is where a task is that has taken part in  *)
(* the first p broadcasts of io_comm, and has finished what they asked     *)
(* for: the broadcast it is at, how many requests of the batch are left,   *)
(* the component of the next, the calls it has served, how many of each    *)
(* component, and how many components are open.                            *)
LoopStates ==
    [at : {"count", "index", "msg", "over"}, left : 0 .. NumComponents, comp : 0 .. NumComponents,
     num : [Components -> Nat], served : Seq(Components \X Nat), open : 0 .. NumComponents]

Sound(s) ==
    /\ s \in LoopStates
    /\ s.at \in {"index", "msg"} => s.left > 0
    /\ s.at = "msg" => s.comp \in Components
    /\ s.at = "count" => s.left = 0
    /\ s.at = "over" => s.open = 0
    /\ s.left <= s.open

LoopStart ==
    [at |-> "count", left |-> 0, comp |-> 0, num |-> [c \in Components |-> 0], served |-> <<>>,
     open |-> NumComponents]

AfterCount(s, n) ==
    [at |-> "index", left |-> n, comp |-> 0, num |-> s.num, served |-> s.served, open |-> s.open]
AfterIndex(s, c) ==
    [at |-> "msg", left |-> s.left, comp |-> c, num |-> s.num, served |-> s.served, open |-> s.open]
StillOpen(s, m) == IF m.msg = "EXIT" THEN s.open - 1 ELSE s.open
AfterMsg(s, m) ==
    [at |-> IF m.msg = "EXIT" /\ s.open = 1 THEN "over" ELSE IF s.left > 1 THEN "index" ELSE "count",
     left |-> s.left - 1, comp |-> 0,
     num |-> [c \in Components |-> IF c = s.comp THEN s.num[c] + 1 ELSE s.num[c]],
     served |-> Append(s.served, <<s.comp, s.num[s.comp]>>), open |-> StillOpen(s, m)]

CallMessage(p) == Message(StepOf(p).msg, StepOf(p).given)

(* e, a broadcast of io_comm, takes a task of the loop from s to r.        *)
LoopStep(h, s, e, r) ==
    /\ e.root = ioroot
    /\ \/ s.at = "count" /\ e.item = Outcount /\ e.val \in 1 .. NumComponents
          /\ r = AfterCount(s, e.val)
       \/ s.at = "index" /\ e.item = Index /\ e.val \in Components
          /\ r = AfterIndex(s, e.val)
       \/ s.at = "msg" /\ e.item = Msg
          /\ r = AfterMsg(s, e.val)
          /\ s.num[s.comp] \in 0 .. h.last[s.comp]
          /\ h.prog[s.comp][s.num[s.comp]] # <<>>
          /\ e.val = CallMessage(h.prog[s.comp][s.num[s.comp]])

Begins(q, r) == Len(q) <= Len(r) /\ \A i \in 1 .. Len(q) : q[i] = r[i]

Looped(h) ==
    /\ h.loop[0] = LoopStart
    /\ \A p \in 0 .. Top(h, io_comm) : Sound(h.loop[p])
    /\ \A p \in 0 .. Top(h, io_comm) - 1 : LoopStep(h, h.loop[p], h.log[io_comm][p + 1], h.loop[p + 1])
    /\ \A p, q \in 0 .. Top(h, io_comm) : p <= q => Begins(h.loop[p].served, h.loop[q].served)

(* An I/O task in the loop, between two calls and in a call.               *)
Reached(h, t) == h.loop[h.pos[io_comm][t]]

Waiting(t, s) ==
    /\ code[t] = "unknown"
    /\ outcount[t] = s.left /\ openComps[t] = s.open
    /\ t \in running <=> s.at # "over"
    /\ s.at = "count" => todo[t] = <<Bcast(io_comm, ioroot, Outcount)>> \/ (t = ioroot /\ todo[t] = <<>>)
    /\ s.at = "index" => todo[t] = NextRequest
    /\ s.at = "msg" => doing[t].comp = s.comp /\ todo[t] = <<Bcast(io_comm, ioroot, Msg)>>
    /\ s.at # "msg" => doing[t].comp = 0
    /\ s.at = "over" => todo[t] = <<>>

InHandler(h, t, s, c) ==
    /\ t \in running /\ c \in Components
    /\ outcount[t] = s.left + 1 /\ s.left < NumComponents
    /\ openComps[t] = (IF doing[t].msg = "EXIT" THEN s.open + 1 ELSE s.open)
    /\ openComps[t] \in 1 .. NumComponents
    /\ s.at = IF doing[t].msg = "EXIT" /\ s.open = 0 THEN "over" ELSE IF s.left > 0 THEN "index" ELSE "count"
    /\ s.num[c] = h.num[t][c] + 1
    /\ \A d \in Components \ {c} : s.num[d] = h.num[t][d]
    /\ Len(s.served) > 0 /\ s.served[Len(s.served)] = <<c, h.num[t][c]>>

ServingAt(h, t) ==
    IF IsIdle(t)
    THEN Waiting(t, Reached(h, t)) /\ \A d \in Components : h.num[t][d] = Reached(h, t).num[d]
    ELSE InHandler(h, t, Reached(h, t), doing[t].comp)

Serving(h) == \A t \in IOTasks : ServingAt(h, t)

-----------------------------------------------------------------------------
(* The messages between a component and ioroot: of the calls that comproot *)
(* has begun, all that ioroot has not finished are on their way, but for   *)
(* the one it has taken up.                                                *)
Begun(h, c) == h.num[comproot(c)][c] + (IF IsIdle(comproot(c)) THEN 0 ELSE 1)
TakenUp == {index[i] : i \in DOMAIN index}

Batch ==
    /\ \A i, j \in DOMAIN index : i # j => index[i] # index[j]
    /\ listening \cap TakenUp = {}
    /\ Len(index) = Cardinality(TakenUp)
    /\ openComps[ioroot] = Cardinality(listening \cup TakenUp)
    /\ ~IsIdle(ioroot) \/ doing[ioroot].comp # 0 => index # <<>> /\ index[1] = doing[ioroot].comp
    /\ IF IsIdle(ioroot) /\ todo[ioroot] \in {<<>>, <<Bcast(io_comm, ioroot, Outcount)>>}
       THEN index = <<>> <=> todo[ioroot] = <<>>
       ELSE Len(index) = outcount[ioroot]

OnTheWay(h, c, m) ==
    /\ Len(inbox[c]) = Begun(h, c) - m
    /\ \A i \in 1 .. Len(inbox[c]) : inbox[c][i] = CallMessage(h.prog[c][m + i - 1])

CarriedAt(h, c, n) ==
    /\ c \in TakenUp => /\ OnTheWay(h, c, n + 1)
                        /\ n < Begun(h, c) /\ messages[c] = CallMessage(h.prog[c][n])
    /\ c \notin TakenUp => OnTheWay(h, c, n)
    /\ c \notin listening \cup TakenUp => n > 0 /\ StepOf(h.prog[c][n - 1]).msg = "EXIT"

Carried(h) == \A c \in Components : CarriedAt(h, c, h.num[ioroot][c])

-----------------------------------------------------------------------------
(* What the tasks have done.                                               *)
Entry(c, p, v) == [comp |-> c, call |-> CallMessage(p), code |-> v]
CodeFor(t, p, v) == IF t \in IOTasks THEN ServerCode(v) ELSE CallerCode(p, v)
EntryFor(h, t, c, n) == Entry(c, h.prog[c][n], CodeFor(t, h.prog[c][n], h.cd[c][n]))

Recalled(h, t, c) ==
    /\ Len(OfComp(t, c)) = h.num[t][c]
    /\ \A i \in 1 .. h.num[t][c] : OfComp(t, c)[i] = EntryFor(h, t, c, i - 1)
    /\ t \in CompTasks(c) => done[t] = OfComp(t, c)

HasServed(h, t, served) ==
    /\ Len(served) = Len(done[t]) + (IF IsIdle(t) THEN 0 ELSE 1)
    /\ \A i \in 1 .. Len(done[t]) :
          /\ served[i][1] \in Components /\ served[i][2] \in 0 .. h.num[t][served[i][1]] - 1
          /\ done[t][i] = EntryFor(h, t, served[i][1], served[i][2])

Remembered(h) ==
    /\ \A c \in Components : \A t \in Members(my_comm(c)) : Recalled(h, t, c)
    /\ \A t \in IOTasks : HasServed(h, t, Reached(h, t).served)

-----------------------------------------------------------------------------
(* The state follows from the history h.                                   *)
Follows(h) ==
    /\ Measured(h) /\ Calls(h) /\ Logged(h) /\ Recorded(h) /\ Ahead(h) /\ Placed(h) /\ Undecided(h)
    /\ Calling(h) /\ Looped(h) /\ Serving(h) /\ Carried(h) /\ Remembered(h)

History == Shape /\ Batch /\ \E h : Follows(h)

=============================================================================
