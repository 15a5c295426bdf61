------------------------------ MODULE SerialIO ------------------------------
(***************************************************************************)
(* Arrays of the I/O tasks in a file that only I/O task 0 has open         *)
(* (pio_darray_int.c, for the serial iotypes).  In a write the other I/O   *)
(* tasks wait for a handshake and then send the size of their buffer, the  *)
(* regions and the data; in a read they send the size and the regions at   *)
(* once and wait for the data.  Task 0 serves one task after the other and *)
(* uses its own buffer for all of them: in a write it writes its own data  *)
(* first, in a read it reads them last.  Nothing keeps the tasks together  *)
(* between two operations.                                                 *)
(*                                                                         *)
(* A region is the number of its elements, and the regions lie in the file *)
(* one after the other, task by task: <<v, j>> is element j of variable v. *)
(* MPI delivers the messages of one sender with one tag in their order; a  *)
(* send may return before the message is received, or not.                 *)
(***************************************************************************)
EXTENDS Integers, Sequences, FiniteSets

CONSTANTS
    num_iotasks,
    Sizes,       \* the sets of regions that an I/O task may have
    nvars,
    Ops,         \* the operations of the program, "write" and "read"
    MayFail      \* may the library return an error?

ASSUME SerialAssumption ==
    /\ num_iotasks \in Nat \ {0} /\ nvars \in Nat \ {0}
    /\ \A s \in Sizes : s \in Seq(Nat \ {0})
    /\ Ops \in Seq({"write", "read"}) \ {<<>>}
    /\ MayFail \in BOOLEAN

Io     == 0 .. num_iotasks - 1
Others == Io \ {0}
Vars   == 1 .. nvars

VARIABLES
    regions,   \* [Io -> Seq of sizes], iodesc->firstregion
    sync,      \* [Io -> does a send wait for its receive?]
    op,        \* [Io -> the operation, an index of Ops]
    step,      \* [Io -> the step in it]
    rtask,     \* the task that task 0 serves
    rlen, rregions, rstart, rcount,   \* what task 0 has received for it
    iobuf,     \* [Io -> [offsets -> value]]
    sent,      \* [Others \X {"up", "down"} -> Seq of messages]
    file,      \* [cells -> value]
    err        \* the library has failed and task 0 has returned

vars == <<regions, sync, op, step, rtask, rlen, rregions, rstart, rcount, iobuf, sent, file, err>>

Sum(s) ==
    LET sum[i \in 0 .. Len(s)] == IF i = 0 THEN 0 ELSE sum[i - 1] + s[i]
    IN  sum[Len(s)]
Greatest(S) == CHOOSE x \in S : \A y \in S : y <= x

llen(r)     == Sum(regions[r])
maxregions  == Greatest({1} \cup {Len(regions[r]) : r \in Io})
maxiobuflen == Greatest({llen(r) : r \in Io})

Base(r)     == Sum([q \in 1 .. r |-> llen(q - 1)])

(* find_all_start_count: a task with fewer regions has empty ones.         *)
Starts(r) ==
    [n \in 1 .. maxregions |->
        IF n <= Len(regions[r]) THEN Base(r) + Sum(SubSeq(regions[r], 1, n - 1)) ELSE 0]
Counts(r) == [n \in 1 .. maxregions |-> IF n <= Len(regions[r]) THEN regions[r][n] ELSE 0]

None == <<"none", 0, 0, 0>>
(* What operation n writes to an element. *)
Val(n, v, j) == <<"val", n, v, j>>

(* The buffer of a task at the beginning of operation n: its arrays one    *)
(* after the other, or room for one array.  Task 0 has room for the arrays *)
(* of any task.                                                            *)
Room(n, r) ==
    IF Ops[n] = "write" THEN (IF r = 0 \/ llen(r) > 0 THEN nvars * maxiobuflen ELSE 0)
    ELSE IF r = 0 THEN maxiobuflen ELSE llen(r)
Buffer(n, r) ==
    IF n > Len(Ops) THEN <<>>
    ELSE [x \in 0 .. Room(n, r) - 1 |->
            IF Ops[n] = "write" /\ x < nvars * llen(r)
            THEN Val(n, 1 + (x \div llen(r)), Base(r) + (x % llen(r))) ELSE None]

(* The steps of an operation on the side of the other tasks and on the     *)
(* side of task 0, and the tag of each.                                    *)
OtherSteps(o) ==
    IF o = "write" THEN <<"handshake", "llen", "maxregions", "start", "count", "data">>
    ELSE <<"llen", "maxregions", "count", "start", "data">>
ServeSteps(o) ==
    IF o = "write" THEN <<"handshake", "llen", "maxregions", "start", "count", "data">>
    ELSE <<"llen", "maxregions", "count", "start", "data">>
Tag(o, s) ==
    CASE s = "handshake"  -> -1
      [] s = "llen"       -> 0
      [] s = "maxregions" -> 1
      [] s = "start"      -> IF o = "write" THEN 2 ELSE 3
      [] s = "count"      -> IF o = "write" THEN 3 ELSE 2
      [] s = "data"       -> 4
(* Does the message of a step go from task 0 to the other task? *)
Down(o, s) == s = "handshake" \/ (o = "read" /\ s = "data")

Init ==
    /\ regions \in {f \in [Io -> Sizes] : \E r \in Io : f[r] # <<>>}
    /\ sync \in [Io -> BOOLEAN]
    /\ op = [r \in Io |-> 1]
    /\ step = [r \in Io |-> 1]
    /\ rtask = IF Ops[1] = "write" THEN 0 ELSE 1
    /\ rlen = 0 /\ rregions = 0 /\ rstart = <<>> /\ rcount = <<>>
    /\ iobuf = [r \in Io |-> Buffer(1, r)]
    /\ sent = [c \in Others \X {"up", "down"} |-> <<>>]
    /\ file = [c \in Vars \X (0 .. Base(num_iotasks) - 1) |-> None]
    /\ err = FALSE

Running(r) == op[r] <= Len(Ops) /\ ~(r = 0 /\ err)
Op(r)      == Ops[op[r]]

(* A send that waits for its receive keeps its task from going on. *)
Held(r) ==
    sync[r] /\ IF r = 0 THEN \E q \in Others : sent[q, "down"] # <<>> ELSE sent[r, "up"] # <<>>

Post(c, o, s, val) == sent' = [sent EXCEPT ![c] = Append(@, [tag |-> Tag(o, s), val |-> val])]

(* The first message with the tag, taken out of the queue. *)
Arrived(c, o, s) == {n \in DOMAIN sent[c] : sent[c][n].tag = Tag(o, s)}
First(c, o, s)   == CHOOSE n \in Arrived(c, o, s) : \A m \in Arrived(c, o, s) : n <= m
Take(c, n) ==
    sent' = [sent EXCEPT ![c] = SubSeq(@, 1, n - 1) \o SubSeq(@, n + 1, Len(@))]

-----------------------------------------------------------------------------
(* The other tasks *)
NextOp(r) ==
    /\ op' = [op EXCEPT ![r] = @ + 1]
    /\ step' = [step EXCEPT ![r] = 1]
    /\ iobuf' = [iobuf EXCEPT ![r] = Buffer(op[r] + 1, r)]

(* Fault: the steps after the size are taken without data, too. *)
LastIgnoringSize(r, s) == s = "data"
(* A task without data has nothing to send after the size. *)
LastStep(r, s) == s = "data" \/ (s = "llen" /\ llen(r) = 0)

Message(r, s) ==
    CASE s = "llen"       -> llen(r)
      [] s = "maxregions" -> maxregions
      [] s = "start"      -> Starts(r)
      [] s = "count"      -> Counts(r)
      [] s = "data"       -> [x \in 0 .. nvars * llen(r) - 1 |-> iobuf[r][x]]

(* send_all_start_count, and the same of pio_read_darray_nc_serial *)
OtherSends(r) ==
    LET s == OtherSteps(Op(r))[step[r]]
    IN  /\ Running(r) /\ ~Held(r) /\ step[r] <= Len(OtherSteps(Op(r)))
        /\ ~Down(Op(r), s)
        /\ Post(<<r, "up">>, Op(r), s, Message(r, s))
        /\ IF LastStep(r, s) THEN NextOp(r)
           ELSE step' = [step EXCEPT ![r] = @ + 1] /\ UNCHANGED <<op, iobuf>>
        /\ UNCHANGED <<regions, sync, rtask, rlen, rregions, rstart, rcount, file, err>>

OtherReceives(r) ==
    LET s == OtherSteps(Op(r))[step[r]]
        c == <<r, "down">>
    IN  /\ Running(r) /\ ~Held(r) /\ step[r] <= Len(OtherSteps(Op(r)))
        /\ Down(Op(r), s)
        /\ Arrived(c, Op(r), s) # {}
        /\ Take(c, First(c, Op(r), s))
        /\ step' = [step EXCEPT ![r] = @ + 1]
        /\ iobuf' = IF s = "data" THEN [iobuf EXCEPT ![r] = sent[c][First(c, Op(r), s)].val] ELSE iobuf
        /\ UNCHANGED <<regions, sync, op, rtask, rlen, rregions, rstart, rcount, file, err>>

(* The data have been read: the operation is over. *)
OtherReturns(r) ==
    /\ Running(r) /\ step[r] > Len(OtherSteps(Op(r)))
    /\ NextOp(r)
    /\ UNCHANGED <<regions, sync, rtask, rlen, rregions, rstart, rcount, sent, file, err>>

-----------------------------------------------------------------------------
(* Task 0: recv_and_write_data, and the same of pio_read_darray_nc_serial. *)
(* Its own turn is the first in a write and the last in a read.            *)
Own == IF Op(0) = "write" THEN 0 ELSE num_iotasks
Last == IF Op(0) = "write" THEN num_iotasks - 1 ELSE num_iotasks

Serving(s) == /\ Running(0) /\ ~Held(0) /\ rtask \in Others
              /\ step[0] <= Len(ServeSteps(Op(0))) /\ s = ServeSteps(Op(0))[step[0]]

(* In a read the data go out after they have been read. *)
ServeSends ==
    \E s \in {"handshake"} :
        /\ Serving(s)
        /\ Post(<<rtask, "down">>, Op(0), s, 0)
        /\ step' = [step EXCEPT ![0] = @ + 1]
        /\ UNCHANGED <<regions, sync, op, rtask, rlen, rregions, rstart, rcount, iobuf, file, err>>

(* After a size of 0 nothing else is received. *)
ServeReceives ==
    \E s \in {"llen", "maxregions", "start", "count", "data"} :
        LET c   == <<rtask, "up">>
            val == sent[c][First(c, Op(0), s)].val
        IN  /\ Serving(s) /\ ~Down(Op(0), s)
            /\ Arrived(c, Op(0), s) # {}
            /\ Take(c, First(c, Op(0), s))
            /\ rlen' = IF s = "llen" THEN val ELSE rlen
            /\ rregions' = IF s = "maxregions" THEN val ELSE rregions
            /\ rstart' = IF s = "start" THEN val ELSE rstart
            /\ rcount' = IF s = "count" THEN val ELSE rcount
            /\ iobuf' = IF s # "data" THEN iobuf
                        ELSE [iobuf EXCEPT ![0] = [x \in DOMAIN @ |-> IF x \in DOMAIN val THEN val[x] ELSE @[x]]]
            /\ step' = [step EXCEPT ![0] = IF s = "llen" /\ val = 0 THEN Len(ServeSteps(Op(0))) + 1 ELSE @ + 1]
            /\ UNCHANGED <<regions, sync, op, rtask, file, err>>

(* The turn of the next task. *)
NextTask ==
    /\ rtask' = rtask + 1
    /\ step' = [step EXCEPT ![0] = 1]

(* Has task 0 received what it needs for the regions of the task? *)
AtRegions(o) ==
    /\ Running(0) /\ ~Held(0) /\ Op(0) = o /\ rtask <= Last
    /\ rtask = Own \/ \A k \in DOMAIN ServeSteps(o) :
                        k < step[0] \/ (o = "read" /\ ServeSteps(o)[k] = "data")

(* All regions of the task that is served, as <<start, count, loffset>>.   *)
Regions ==
    LET own == rtask = Own
    IN  [starts |-> IF own THEN Starts(0) ELSE rstart, counts |-> IF own THEN Counts(0) ELSE rcount,
         n |-> IF own THEN maxregions ELSE rregions]
Served == {<<Regions.starts[i], Regions.counts[i], Sum(SubSeq(Regions.counts, 1, i - 1))>> : i \in 1 .. Regions.n}
len == IF rtask = Own THEN llen(0) ELSE rlen

(* Fault: the arrays in the buffer are taken to be as long as those of     *)
(* task 0.                                                                 *)
BufptrOfOwn(v, loffset) == (v - 1) * llen(0) + loffset
bufptr(v, loffset) == (v - 1) * len + loffset

Written(cells) ==
    [c \in DOMAIN file |->
        LET here == {x \in cells : x[1] = c} IN IF here = {} THEN file[c] ELSE (CHOOSE x \in here : TRUE)[2]]

(* Write the regions of the task for every variable. *)
WriteRegions ==
    LET cells == UNION {{<<<<v, x[1] + i>>, iobuf[0][bufptr(v, x[3]) + i]>> :
                            i \in 0 .. x[2] - 1} : v \in Vars, x \in Served}
    IN  /\ AtRegions("write")
        /\ file' = IF len > 0 THEN Written(cells) ELSE file
        /\ NextTask
        /\ UNCHANGED <<regions, sync, op, rlen, rregions, rstart, rcount, iobuf, sent, err>>

(* The elements that task 0 reads for the task, each with its place in the *)
(* buffer.  Fault: the starts are those of task 0.                         *)
ToReadOfOwn == UNION {{<<x[3] + i, <<1, Starts(0)[1] + x[3] + i>>>> : i \in 0 .. x[2] - 1} : x \in Served}
ToRead == UNION {{<<x[3] + i, <<1, x[1] + i>>>> : i \in 0 .. x[2] - 1} : x \in Served}

(* Read the regions of the task into the buffer; if the task has no data,  *)
(* those of the task before it.                                            *)
ReadRegions ==
    LET read == [x \in DOMAIN iobuf[0] |->
                    IF \E c \in ToRead : c[1] = x THEN file[(CHOOSE c \in ToRead : c[1] = x)[2]] ELSE iobuf[0][x]]
    IN  /\ AtRegions("read")
        /\ iobuf' = [iobuf EXCEPT ![0] = read]
        /\ IF rtask # Own /\ len > 0
           THEN Post(<<rtask, "down">>, "read", "data", [x \in 0 .. len - 1 |-> read[x]])
           ELSE UNCHANGED sent
        /\ NextTask
        /\ UNCHANGED <<regions, sync, op, rlen, rregions, rstart, rcount, file, err>>

(* nc_put_vara or nc_get_vara fails, and task 0 returns. *)
LibraryFails ==
    /\ MayFail
    /\ (AtRegions("write") /\ len > 0) \/ (AtRegions("read") /\ Served # {})
    /\ err' = TRUE
    /\ UNCHANGED <<regions, sync, op, step, rtask, rlen, rregions, rstart, rcount, iobuf, sent, file>>

ServeReturns ==
    /\ Running(0) /\ ~Held(0) /\ rtask > Last
    /\ NextOp(0)
    /\ rtask' = IF op[0] < Len(Ops) /\ Ops[op[0] + 1] = "read" THEN 1 ELSE 0
    /\ rregions' = 0
    /\ UNCHANGED <<regions, sync, rlen, rstart, rcount, sent, file, err>>

-----------------------------------------------------------------------------
Serve == ServeSends \/ ServeReceives \/ WriteRegions \/ ReadRegions \/ ServeReturns
Other(r) == OtherSends(r) \/ OtherReceives(r) \/ OtherReturns(r)

Next == Serve \/ LibraryFails \/ \E r \in Others : Other(r)

(* Every task goes on as long as it can, and MPI delivers what was sent. *)
Fairness == WF_vars(Serve) /\ \A r \in Others : WF_vars(Other(r))

Spec == Init /\ [][Next]_vars /\ Fairness

-----------------------------------------------------------------------------
(* The data of every task have been written, whatever its regions, when    *)
(* task 0 leaves recv_and_write_data: nothing of the tasks' data was lost, *)
(* overwritten in the buffer of task 0, or cut at the wrong offset.        *)
WrittenRight ==
    (Running(0) /\ Op(0) = "write" /\ rtask > Last) => \A c \in DOMAIN file : file[c] = Val(op[0], c[1], c[2])

(* Every task that has read an array holds the elements of its own regions *)
(* as the last write before left them, though task 0 reads the regions of  *)
(* all tasks into one buffer and may already be in a later operation.      *)
LastWrite(n) == Greatest({0} \cup {m \in 1 .. n - 1 : Ops[m] = "write"})
ReadRight ==
    \A r \in Io :
        (/\ Running(r) /\ Op(r) = "read"
         /\ IF r = 0 THEN rtask > Last ELSE step[r] > Len(OtherSteps("read")))
        => \A j \in 0 .. llen(r) - 1 :
              iobuf[r][j] = IF LastWrite(op[r]) = 0 THEN None ELSE Val(LastWrite(op[r]), 1, Base(r) + j)

(* The operations come to an end on every task, or the library has failed. *)
AllReturn == <>(err \/ \A r \in Io : op[r] > Len(Ops))
=============================================================================
