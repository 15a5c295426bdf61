# A TLA+ verification of ParallelIO (PIO)

PIO lets many MPI tasks of a climate model read and write distributed arrays
through few I/O tasks.  This directory models the parts of its C library
(`src/clib`, in the repository `src/src/clib`) in which tasks have to agree with
each other: the exchange of data between tasks, the protocol between
computation tasks and a separate I/O service, the tables of ids by which files
and decompositions are named, and the way of a distributed array from the tasks
that have it, through buffers and rearrangers, to its place in the file and
back.  TLC checks small instances; TLAPS proves
the central safety properties, and three refinements, for every size.

File names below are those of `src/src/clib`.

## 1. Inventory

| component | state it keeps | operations | works with |
|---|---|---|---|
| Pairwise exchange (`pio_spmd.c`) | outstanding requests of one call | `pio_swapm`, `pair`, `ceil2` | called by the rearrangers for all data |
| Asynchronous protocol (`pio_msg.c`, and the top of every `PIOc_` function) | messages and requests of the loop, error handler per system | about 60 messages and their handlers, `pio_msg_handler2`, `PIOc_free_iosystem` | computation tasks call, I/O tasks perform; broadcasts over `intercomm`, `my_comm`, `io_comm` |
| Descriptor lists (`pio_lists.c`, `pioc_support.c`) | `pio_file_list`, `pio_iodesc_list`, `current_file`, `current_iodesc`, `pio_next_ncid`, `pio_next_ioid` per process; list of I/O systems; variables of a file | add, get, delete | every function begins with a lookup |
| I/O system initialisation (`pioc.c`, `pioc_async.c`) | `iosystem_desc_t`: communicators, roots, ranks | `PIOc_Init_Intracomm`, `PIOc_init_async`, `PIOc_free_iosystem` | gives the protocol its topology |
| Write buffer of distributed arrays (`pio_darray.c`, `pio_darray_int.c`) | `wmulti_buffer` per file, decomposition and kind of variable; frames; fill values; buffer of the I/O task | `PIOc_write_darray`, `flush_buffer`, `PIOc_write_darray_multi`, `PIOc_setframe`, `PIOc_sync`, `PIOc_closefile` | decides collectively when to flush; rearranges; writes |
| Serial write and read (`pio_darray_int.c`) | region being handled | `write_darray_multi_serial`, `pio_read_darray_nc_serial` | I/O task 0 asks the others one by one |
| Box and subset rearranger (`pio_rearrange.c`) | maps of computation and I/O side, regions, receive buffers | `box_rearrange_create`, `subset_rearrange_create`, `rearrange_comp2io`, `rearrange_io2comp` | uses `pio_swapm` |
| Start and count of I/O tasks (`pioc_sc.c`) | none | `CalcStartandCount` | used by the box rearranger |
| Parallel sort (`parallel_sort.c`) | none between calls | `run_unique_check` and the sample sort | the calls in `PIOc_InitDecomp` are commented out |
| Opening and creating (`pioc_support.c`, `pio_file.c`) | `file_desc_t` with its iotype | `PIOc_openfile_retry`, `PIOc_createfile_int`, `inq_file_metadata` | lists, protocol, retry with another iotype |
| Error handling (`pioc_support.c`) | handler per system | `check_netcdf2`, `check_mpi`, `pio_err` | may broadcast or abort |
| Typed wrappers (`pio_get_nc.c`, `pio_put_nc.c`, `*_vard.c`, attributes of `pio_nc.c`) | none | forward to the `_tc` functions | several remote calls each |
| Decomposition files, topology, GDAL, netCDF integration, Fortran, GPTL | | input/output, wrappers, vendored | |

What is hard in this code, and therefore what the properties are about:

* MPI lets messages of many pairs of tasks be in flight; a ready send is an
  error unless its receive was posted; blocking sends may or may not wait.
* In asynchronous mode two programs, a function and a handler, have to make
  the same sequence of broadcasts for every combination of optional arguments,
  for success and for failure, under each error handler, in nested calls.
  One broadcast too many or too few is not noticed where it happens: a later
  call meets the wrong broadcast, or waits for ever.
* The I/O tasks serve several components; only the first of them sees which
  message came first.
* A process uses one counter of ids and one pointer to the current entry for
  all of its I/O systems, though each system numbers its own calls.
* Arrays wait in buffers while the program changes frames, frees
  decompositions and closes files; a failure of the later write has to find
  somebody who listens.
* Each task decides by its own memory whether a buffer is full, but a flush is
  collective.  With pnetcdf a write is only posted, in a buffer the next flush
  would use again.
* I/O task 0 writes and reads for the others with one buffer and a fixed set of
  tags, and nothing keeps the tasks in the same operation.
* Maps, boxes, regions and MPI datatypes are computed on both sides of a
  transfer from different data; that they name the same element follows from
  no single place in the code.

What makes each component correct:

| component | properties |
|---|---|
| exchange | every block arrives, exactly the blocks of the call, and nothing is left for the next call; ready sends are safe; the throttle holds; all tasks return |
| protocol | broadcasts match; remote calls are performed once, in order, and return the code of that performance; error handlers agree; all tasks return; nothing is left when communicators are freed |
| descriptors | an id names one descriptor per process and the same one on all tasks of an asynchronous system; the current pointer is never stale; a close removes what it was meant to remove |
| I/O systems | ids of living systems are distinct and the I/O side knows them by the same id |
| write buffer | an array is written once, to the frame it was put for, before its file is closed; a failed flush is reported |
| serial write | every region of every I/O task is written once; no task waits for one that has given up |
| rearrangers | every element of the decomposition reaches the I/O task and the place of its global index; the inverse brings it back |
| start and count | the boxes of the I/O tasks partition the array |

`PROJECT.json` lists each place in the code where one of these could go wrong
(`hazards`), with the property that would show it.

## 2. Modules

| module | what it is |
|---|---|
| `SwapSchedule` | `ceil2` and `pair`: who meets whom in which round |
| `Alltoallw` | abstract specification of an exchange |
| `Swapm` | `pio_swapm`; implements `Alltoallw` |
| `SwapmProofs` | theorems about `Swapm` |
| `AsyncCalls` | what each `PIOc_` function exchanges on the calling side and, after the message, on both |
| `AsyncHandlers` | what each handler of `pio_msg.c` receives and which function it calls how |
| `VarCalls` | the functions that make several of these calls: typed wrappers, attributes, search for a fill value |
| `AsyncMsg` | tasks, broadcasts, the message loop; implements `RemoteCalls` |
| `RemoteCalls` | abstract specification of a remote procedure call |
| `AsyncHistory` | why the broadcasts of `AsyncMsg` match: the history that all tasks follow |
| `AsyncStepProofs` | that the steps of callers and I/O tasks keep to the history |
| `AsyncMsgProofs` | theorems about `AsyncMsg` |
| `Descriptors` | lists, current entries and counters of ids |
| `DescriptorsProofs` | theorems about `Descriptors` |
| `WriteBack` | abstract specification of a write-back store |
| `WriteMulti` | buffers of `PIOc_write_darray`, flush, sync and close; implements `WriteBack` |
| `WriteMultiProofs` | theorems about `WriteMulti`; that it implements `WriteBack`, and loses nothing silently |
| `SerialIO` | writing and reading through I/O task 0 |
| `SerialIOProofs` | theorems about `SerialIO` |
| `StartCount` | `CalcStartandCount` and the greatest common divisors |
| `Regions` | coordinates, and regions of a map |
| `RegionsProofs` | theorems about `Regions` and `compute_one_dim` |
| `Rearrange` | decompositions and the movement of an array |
| `Recursion` | induction over numbers and ranked sets in terms of sets, and solutions of recursive equations |
| `MC...` | instances for TLC |

### The exchange

`Swapm` is one call of `pio_swapm` by all tasks.  `traffic` is the set of pairs
with a positive `sendcounts`; it is the same everywhere because sender and
receiver agree on counts.  A message is its envelope (source, destination,
tag); `sent` and `posted` are the envelopes used so far, and a message is
matched when it is in both.  `rcvids` holds the steps whose receive a task has
not waited for.  The actions follow the code's phases: `SendToSelf` (the block
to oneself and the receives of the first handshakes), `PostReceive` and
`SendHandshake` (the loop that fills the window, and the same code at the end
of each throttled step), `SendData`, `Drain` (the wait for the receive of
`maxreqh` steps ago), `WaitAll`; and `Alltoallw` for `max_pend_req = 0`.  A send
may be buffered or may wait for its receive (`SyncKinds` names the kinds for
which MPI has this choice).

### The asynchronous protocol

A broadcast is an item: MPI type, count, and what it carries.  For each message
`AsyncCalls` gives the parameters that the caller broadcasts, the values
derived from them, how the return code is shared, and the results; the result
depends on `g`, the set of optional arguments that are present.
`AsyncHandlers` gives the parameters that the handler receives and the call it
makes: its own set `g` is built from the flags that it received, or from
nothing when it passes a pointer in any case.  Contents of names, arrays and
counts are abstracted away: what two sides may disagree about is type, count,
order, root and communicator.

`AsyncMsg` runs these: each task has a sequence `todo` of broadcasts.  `bcasts`
holds, per communicator, the broadcasts that some member has not received.  A
task waits for its next item only; if the next one on the communicator is
another, it waits for ever (`Matched` names the state).  `Waitsome`,
`TakeOutcount`, `TakeIndex`, `Dispatch` and `EndHandler` are `pio_msg_handler2`;
`Begin` and `Return` the caller's side, nested calls included (a function's
`first` calls); `TakeCode`, `OwnCode` and `Exchange` are common.  `code` is the
library's return code as the task knows it, chosen by ioroot if the message is
in `Failing`.  Failures go through `check_netcdf`, which depends on the task's
own `eh`.

A function of `VarCalls` is a sequence of such calls; the suffix of a typed
wrapper matters only where it changes a call (`long`, which has no size to ask
for; in one family `ulonglong`, which is passed on as `long`; and no type).

Files have one of the serial iotypes.  Errors of MPI itself, the abort of
`PIO_INTERNAL_ERROR` and the returns in the middle of the parallel-netCDF paths
are not modelled.  The barriers of `PIOc_deletefile` (`pio_file.c:369` and `375`) are left
out: they carry nothing, and the same tasks meet in the broadcasts around them.  Before its own
message `PIOc_sync` flushes the buffers, and so does `PIOc_closefile`; this is a message
of its own for each buffer, `WRITEDARRAYMULTI`, and a program of `async_calls` makes one
before it closes the file.

### Descriptors

A call that creates or removes a descriptor is collective over a system; it is
recorded in `calls` when its caller begins it, and each member performs it
later, in the order of the system.  `Add` takes the id (`NewId`): the process's
own counter, or in an asynchronous system that of ioroot, whose broadcast is
`sent`; then it sets the counter, puts the entry into the list and makes it
current.  `Delete` looks the id up as `pio_get_file` and
`pio_get_iodesc_from_id` do, and resets the current entry to the head of the
list.  `Get` is the lookup at the beginning of every other function.  Two
entries of one id make the lookup a choice: it depends on the buckets of the
hash table.  A failing open or create leaves list and counter as they were and
is not an action of its own; a failing close is (`ok = FALSE`).

### The write buffer

`WriteMulti` has one step for each collective call.  `arrays` and `data` are the
multi-buffers of each task: what was put (variable, frame) and the elements one
after the other, in one buffer for each decomposition and kind of variable.
What tasks decide alone is chosen for each (`refused`: no memory), and
`needsflush` is the allreduce.  A flush (`FlushBuffer`, `WriteDarrayMulti`) takes
from each task the elements at the offsets the MPI type has, so that a wrong
length shows as a wrong element; with pnetcdf it adds to `pending` and the buffer
of the I/O task stays in use until `flush_output_buffer`.  `Begin`, `SyncBuffer`
and `EndSync` are `PIOc_sync`, one step for each buffer, and `PIOc_closefile`.  A
task has at most one element, `Hole` is an element nobody has.

A task that has no memory for another array (`refused`) makes all flush.  If it has
none after that either (`short`: for the data, `pio_darray.c:797`, or for variable,
frame or fill value, 804, 811 and 820), it returns `PIO_ENOMEM` by itself, and the
others store the array.  `WriteDarrayUnbuffered` is the failing `malloc` of a new buffer
(734): those tasks return before the allreduce in which the others wait.  `nomem` holds the
tasks that have returned so.  From then on the buffers differ, or a task has lost its list of
variables to the failed `realloc`, and the next flush is no longer one call of all
tasks: the model ends there (`Going`).  Under `PIO_INTERNAL_ERROR` the program would
abort instead.  The memory for the fill value of the variable itself
(`find_var_fillvalue`) is taken to be there.

The library's calls succeed; the other two failures that the code finds by itself
are modelled (a decomposition that is gone, variables of different rank in one
buffer).  `Liberties` lets the program provoke them.  The program has set a frame
exactly for variables with a dimension more than the decomposition (`HasFrame`):
otherwise `find_start_count` takes the coordinates for the wrong dimensions, or
the serial write adds the record to the start of every region.  An array without a frame that comes after one with a
frame is also entered in the frame list, one past its end (`pio_darray.c:843`);
the overrun is taken as harmless.

`WriteBack` is what this promises: writes are cached, move to the disk in any
portions as long as two writes of one buffer to the same place keep their order
(not with pnetcdf), are dropped only if the writer is told, and none is left
when the store is closed.

### Serial writing and reading

`SerialIO` runs a program of writes and reads on all I/O tasks.  In a write a
task waits for the handshake, then sends length, regions and data; in a read it
sends length and regions at once and waits for data.  Task 0 works through the
others with one buffer.  A step is one MPI call; a send may wait for its
receive or not (`sync`, per task).  Messages wait in a queue per task and
direction and are taken by tag.  `LibraryFails` is a failing `nc_put_vara` or
`nc_get_vara`, after which task 0 has returned.  A region is its number of
elements: the coordinates are `Rearrange`'s matter.

### Rearrangers

In `Rearrange` a call is one step: `PIOc_InitDecomp`, `PIOc_InitDecomp_ReadOnly`,
`PIOc_write_darray` (with flush), `PIOc_read_darray`.  The decomposition is
computed as in the code: sorting of the map, boxes (`StartCount`), owner and
place of each element, `sindex` and `rindex`; or for the subset rearranger the
gathering of the maps, their sort, `rindex`, regions, and the regions of the holes.
`create_mpi_datatypes` turns indices into blocks of the greatest common size,
and the data move from element n of the sender's type to element n of the
receiver's.  The exchange itself is an all-to-all, which `Swapm` implements.
The file is the array; values record which task and place they came from.
Maps of writable decompositions name an element at most once: nothing checks it
(the calls of `run_unique_check` are commented out), read-only ones may repeat.

## 3. Runs

| run | instance | properties |
|---|---|---|
| `swap3` | 3 tasks, all 64 traffic matrices, four options | `TypeOK`, `CleanExit`, `AllReturn`, `ExchangeSpec` |
| `swap4` | 4 tasks, throttle of 2, gather, ring, and all but one pair; the schedule of rounds for 1 to 17 tasks | `ReadySendSafe`, `PendingBound`, `AllReturn`, `PairingIsMutual`, `MeetsAllOnce` |
| `async_calls` | 2 computation tasks, 2 I/O tasks; every call with every combination of options, every family of wrappers, programs that change the handler, and one that flushes before it closes; both error handlers, succeeding or failing | `TypeOK`, `Matched`, `Drained`, `HandlersAgree`, `NoLostError`, no deadlock |
| `async_two` | 2 components, 2 I/O tasks, roots of broadcasts do not wait | `SameOrder`, `RemoteCall`, `AllReturn` |
| `ids` | 2 asynchronous systems with a common I/O task, 2 others with a common process, 4 collective calls | `NoDangling`, `Distinct`, `Agreed`, `ListIsProgram` |
| `write_buffer` | 2 tasks, 3 variables (one with frames), a box and a subset decomposition with holes, buffers of 2 arrays, 3 puts, 2 frames, netCDF and pnetcdf | `TypeOK`, `BuffersAgree`, `RightPlace`, `IobufHeld`, `IsWriteBack` |
| `serial_io` | 3 I/O tasks with no, one or two regions each, 2 variables, write-read-read-write, the library may fail | `WrittenRight`, `ReadRight`, `AllReturn` |
| `rearrange` | 3 tasks, 2 of them I/O tasks, all maps of 3, 1 and 1 elements into arrays of 4 and of 2x2, both rearrangers; boxes for all shapes up to 5x5x5, 9x29 and 2x11x12, and up to 6 I/O tasks; regions of all maps into 3x3 and 2x2x2 | `WrittenRight`, `ReadRight`, `RindexFits`, `BoxesPartition`, `RegionsExact` |
| `ids_mixed`, `write_fill`, `write_lost`, `rearrange_async` | section 6 | one property each, which fails |

Why the bounds are enough to be interesting.  17 tasks go one past
a power of two, where the number of rounds doubles.  Three tasks have up to two
steps, so that windows of one and of two receives and the empty round of a
non-power of two occur.  Four tasks have three steps, the least for which a
throttle of two is one and the window moves.  One I/O task besides ioroot and
one computation task besides comproot are all the roles there are; a call is
followed by `PIOc_free_iosystem`, which meets whatever the call left behind.
Two components are the least for which messages race.  Four collective calls
allow two creations and two removals in any distribution over the systems.
Three puts overflow a buffer of two, and let one array be posted, one buffered
and one arriving; two tasks let one run out of memory and the other not.  With
three I/O tasks one can be served while another is ahead, and with two reads in a row
a task without data is two operations ahead.  Three elements of one task
are the least that need sorting around a hole, and the maps of 3, 1 and 1 into 4
elements include holes, complete maps and, read-only, every kind of repetition.
A blocksize of 264 bytes and elements of 4 make the least block two elements, so
that small arrays are divided among several I/O tasks; length 5 is the least that
is shared by three tasks with a remainder.  In the smaller shapes no task
ever has more bytes than `CalcStartandCount` allows it, and the innermost dimension is divided
unless it is too short; 9x29 and 2x11x12 begin with four or more I/O tasks and end with two, and
then the size makes `LastDim` select an outer dimension.

In `async_calls` a root waits until its broadcast is received (`SyncBcast`), which
keeps the instance small; `async_two` drops this.  The other restrictions on
calls are in `MCAsyncMsg`: `Unmatched` names the calls whose two sides differ,
`Deaf` the calls whose failure is not reported, `NestedOnes` the inquiries whose
failure inside another function hangs under `PIO_BCAST_ERROR`.  Section 6 says
what these exclude.  `MCAsyncMsg` also has `ASSUME TheoremsApply`: TLC evaluates, in both
runs, that the programs of the instance satisfy the hypotheses of the theorems
of section 4.  `write_buffer` has `llen = maxiobuflen`, arrays of the length
of the decomposition (`Excess = 0`) and no `Liberties`; the two variables without a
difference (`f` and `g`) are symmetric, which the properties of the run do not tell apart.

Deadlock is checked except where the program ends: `write_buffer` (the file is
closed, or a task has no memory), `write_fill` and `write_lost` likewise, and `serial_io`, where the tasks
return or, after a failure, wait for ever.

Each property of a passing run is also checked on a variant of the model with a
plausible fault (a wait left out, a status that is broadcast to the
wrong tasks, a receive that is posted only after a batch, a task that frees the system without waiting for the others, a flush that a task decides alone, a buffer used before its requests were waited
for, an offset computed with the wrong length; the operators marked "Fault"):
the property must then fail.

**Fairness.** `Swapm`, `AsyncMsg` and `SerialIO` assume weak fairness of each task's
step: a task that can go on, because MPI has matched what it waits for, goes on.
This is MPI's progress rule together with the scheduling of processes.  No
fairness between components, between orders of `MPI_Waitsome`, for the choice
of buffering or for a failure of the library is assumed.  The other modules have
safety properties only.

## 4. Proofs

`SwapmProofs`, for every number of tasks, traffic, options and buffering
(`SwapmAssumption`: at least one task; sets of the right type):

* `TypeCorrect`: `Spec => []TypeOK`.
* `ReadySend`: `Spec => []ReadySendSafe`.  The invariant by itself is not
  inductive: a block is sent after a handshake was matched, so one has to know
  that no handshake is out before its receive is posted, and this holds because
  a task between the two statements has posted the receive
  (`HandshakeAfterReceive`).
* `ThrottleHolds`: `Spec => []PendingBound`.  `Window` says for each phase which
  interval of steps the pending receives lie in; the interval has at most
  `maxreq` members.
* `RoundsPairUp`, `EveryTwoMeet`: for every number of tasks the schedule of `pair` is
  mutual, and every two tasks meet in exactly one of the `ceil2 - 1` rounds.  `pair` is
  an exclusive or; `Xor` is a recursive function, and its laws (cancellation, bound
  by a power of two) are proved by induction with `Recursion`.
* `LeavesNothing`: `Spec => []CleanExit`.  `CleanInv` adds that every envelope in use is a
  block or a handshake of this call (`Legitimate`), and says for each task which
  steps are complete, sent or posted in its phase (`StepByStep`, or `InOneGo` for
  `MPI_Alltoallw`).  That the steps cover all partners is `EveryTwoMeet`.
* `ImplementsAlltoallw`: every step is a delivery, a return or a stutter of
  `Alltoallw`, the safety part of `ExchangeSpec`.

`Recursion` makes up for the library's induction theorems, which take an operator as
parameter and cannot be used with the installed provers: `NatSetInduction` and
`RankInduction` speak of sets, and follow from the pigeonhole principle for finite
sets; `LinearRecursion` says that an equation `f[x] = ... f[next[x]] ...` with a falling rank
has a solution, which a recursive function definition needs before it can be
unfolded.

`AsyncHistory`, `AsyncStepProofs` and `AsyncMsgProofs`, for any number of components,
computation tasks and I/O tasks, buffered or waiting broadcasts, and any set of
failing calls:

* The invariant is `History` (`FollowsHistory`).  No task knows what the others have
  done, so that an invariant over the tasks' states alone relates each `todo` to
  each other.  Instead all follow one history `h`: the calls of each component
  with their codes and error handlers (`Calls`), the broadcasts of each communicator
  in order (`Logged`: the packets under way are a window of it), and the states of the
  message loop (`Looped`).  `Recorded` and `Ahead` say that the log of a component's two
  communicators is made of the scripts of its calls, one after the other; `Placed`
  that each task's `todo` is what is left of the script of the call it is in;
  `Undecided` that a call has no code before ioroot made it; `Serving` where I/O tasks
  are in the loop; `Carried` that the messages on their way are those of the calls
  begun and not yet taken up; `Remembered` what `done` holds.  `Batch` is about ioroot's
  indices.  A step extends the history or moves a task on in it.
* From it follow `BroadcastsMatch` (`[]Matched`), `ErrorHandlersAgree`
  (`[]HandlersAgree`), `OneOrderOfService` (`[]SameOrder`), `NothingRemains` (`[]Drained`) and
  `TypeCorrect` (`[]TypeOK`).
* `ErrorsReachAll` (`[]NoLostError`) supposes `CodesHeard`: no call may fail whose code the
  callers drop.
* `ImplementsRemoteCalls` (`Spec => RemoteCall`), also under `CodesHeard`.  Issued are the
  calls comproot has begun, performed those ioroot has finished or knows the code
  of.  A task can only return after comproot has begun the call: the first
  broadcast of a call without a code is rooted at comproot or the task is
  comproot (`BegunFirst`); one with a code has been performed, for the code came
  from ioroot (`CodeThere`).

All suppose `ProgramsFit`, which is about the tables of calls alone: handler and
function exchange the same items (`SidesMatch`), a failure that is not shared is not
broadcast either (`FailureShared`), EXIT is last.  What this and `CodesHeard` exclude are
the `Unmatched`, `NestedOnes` and `Deaf` calls of section 6; for all other calls of the library
TLC evaluates the two hypotheses (`TheoremsApply`).  `History` itself is not evaluated by
TLC, because of `\E h`; its consequences are invariants of the runs.

`DescriptorsProofs`, for every topology that satisfies `TopologyAssumption`
(roots are members, a computation root is not an I/O task) and every number of
calls (`MaxCalls` is any number):

* `TypeCorrect`, `NeverDangling` (`[]NoDangling`).
* `AlwaysAgreed` (`[]Agreed`), from `Numbered` (calls of a system are numbered
  and performed in order) and `Ledger` (what each member was given belongs to a
  call it performed; all members other than ioroot have what ioroot broadcast).
* `IdsAreDistinct` (`[]Distinct`), if `Unmixed`: no process belongs to two
  systems whose ids are counted in different places.  `Counted` says that a
  counter is ahead of all ids taken from it.
* `ListsFollowProgram` (`[]ListIsProgram`), if `Unmixed`.  `Aimed` says that each
  removal names a descriptor that is live at that point of the system's
  sequence of calls, under the id that its members know.

`WriteMultiProofs`, for all numbers of tasks, variables, decompositions, frames
and puts, every iotype, room and distribution of memory (`WriteAssumption`: the
constants have their types, a buffer has room for an array):

* `TypeCorrect` (`[]TypeOK`), `TasksAgree` (`[]BuffersAgree`): whichever tasks need a flush
  and whenever, the tasks that have not returned `PIO_ENOMEM` have the same arrays in the
  same buffers; as long as none has, these are all tasks.  The inductive invariant
  `Buffers` adds that no buffer has more arrays than there is room for (`Full`: the
  order in which requests complete is defined for that many) and that an entry
  is what was put: variable, kind, and a frame exactly if the variable needs one
  (`Recorded`).  Without the last the frame of a write could be -1.
* `IobufIsHeld` (`[]IobufHeld`): the buffer of the I/O tasks is in use only with
  pnetcdf, for which a flush waits before it uses the buffer (`Held`).
* `EverythingInPlace` (`[]RightPlace`), if `Exact`: arrays have the length of the
  decomposition, and for box decompositions with holes llen = maxiobuflen (the runs
  `write_fill` and section 6 show what happens otherwise).  `InPlace` says that
  element number n of a task's data belongs to array n of its buffer (`Aligned`),
  and that the file and the posted requests hold at each place only what may
  stand there (`Rights`); the lemma `LandIn` carries this over every way in which
  requests complete.

`WriteMultiProofs` also shows, for the same constants, if `Exact` and `Cautious` (no `Liberties`: the
program frees no decomposition whose arrays wait, and buffers hold variables of
one rank):

* `BuffersAreWriteBack` (`Spec => IsWriteBack`).  The steps of the abstract store need to
  know that what is cached is what the buffers and the posted requests hold, in
  the order of the puts; this is `Tracked`, with its parts `Queued` (the arrays in a
  buffer), `Issued` (the requests) and `Flushable` (why a buffer may be written).  An array for which ioroot
  has no memory does not arrive in the cache, and the caller there has been told.  Of
  an array that waits in a buffer no caller has been told that it is lost, until a task
  has no memory for one that the others keep (`Dropped`).
* `NoSilentLoss` (`[]LossReported`): the run `write_lost` shows what happens without
  `Cautious`.

`SerialIOProofs`, for every number of I/O tasks, regions of any sizes, variables and
programs of writes and reads, and any choice of sends that wait (`SerialAssumption`: there
are I/O tasks, variables and operations, and a region is not empty):

* `QueuesInStep` (`Spec => []Inv`).  Nothing keeps the tasks together between two
  operations, and the tags are the same in all of them, so the invariant has to say what
  is in the queues.  A place is an operation and a step of it; `Link` says that either
  the other task is ahead of task 0, and its queue to task 0 holds the messages of
  the places in between in their order (a task without data may be any number of
  reads ahead), or task 0 is ahead, or neither.  A message then is that of the place where it
  is taken.  `Turn` is where task 0 is, `Received` what it has taken from the task it
  serves, and how a length of 0 ends the exchange; `Buffers` what the tasks' buffers
  hold; `InFile` that a write has reached the tasks before `rtask` and no other, for
  which the lemmas `Bases` and `SomeTask` say that the tasks' elements lie one after the
  other; `Shape` has the types.
* `AlwaysWritten` (`[]WrittenRight`) and `AlwaysRead` (`[]ReadRight`) follow.  The lemmas
  `WritesOf` and `ReadsOf` say what the regions of a task are to the file and to the buffer:
  the regions follow one another in both (`Parts`), and an offset in the buffer
  determines variable and element (`InArray`).

`RegionsProofs`, about the arithmetic of `pio_rearrange.c` and `pioc_sc.c`, without a bound
on the number of dimensions, their lengths or the map (a length is not 0):

* `SharesTile`: the shares of `compute_one_dim` follow one another from 0 to the end.
* `CoordinatesOfIndex` and `IndexInjective`: `idx_to_dim_list` and `coord_to_lindex` are
  inverse to each other.  `Weight` is how many elements a step in a dimension passes; what
  one function has left of the index, times the weight, and what the other has added up make
  the index in every dimension.
* `RegionsCover`: the regions of `get_regions` are inside the array and hold, one after the
  other, exactly the elements of the map in its order, also of a map that does not ascend.
  `expand_region` compares the elements of a region only with those before it, and goes on to
  the next dimension only if the map continues; the invariant of its loop (`ExpandedTo`) says
  that the map starts with all elements of the box found (`Block`), that the box has one
  element in each dimension outside, and that the stride is the weight while the loop
  goes on.  `BlockGrows` is the step: a place in the larger block is a number of
  smaller ones and a place in it (`PlaceInBlock`), and its coordinates are those of the
  place with that number in the new dimension, since no others have its index.
  `RegionsFrom` then goes backwards over the map, with the sizes of the regions adding up to
  what is left of it.
* `AlwaysRegionsExact` (`Spec => []RegionsExact`), the property of the run, follows.

That the boxes partition an array of several dimensions is model-checked
(`BoxesPartition`).

Only model-checked: liveness (`AllReturn` in each of its modules, and the fairness
that `ExchangeSpec` promises), because TLAPS proves neither `ENABLED` nor fairness here;
`Rearrange` (`WrittenRight`, `ReadRight`, `RindexFits`), whose sorting and selecting of
sequences the provers cannot reason about; and the boxes of several dimensions
(`BoxesPartition`): the code compares the sum of their sizes with the size of the array, so the
proof would have to show that the boxes of each pass cover it, for every way in which the number
of tasks is lowered on the way.  No theorem depends on
anything that is not proved.

## 5. What is not modelled

See `components` in `PROJECT.json` for each part.  Parallel iotypes (each I/O task
calls the library), MPI errors and aborts are left out of the protocol.  The
Fortran and netCDF interfaces and the log only convert and forward.
Decomposition files and the topology query are input and output.  GDAL is
optional; its messages (`OPEN_FILE`, `DEF_VAR`) do not have the parameters the
handlers receive.  GPTL is vendored.  The parallel sort is not called.

Of the way of an array: `box_rearrange_create_with_holes`, boxes given by the
caller, a user's partition of the tasks, and `compute_maxIObuffersize` (the sizes of
buffers are abstracted to `Room`).  The parallel write and read
(`write_darray_multi_par`, `pio_read_darray_nc`) are modelled by their effect: start,
count and order of the requests.  In `WriteMulti` a library call does not fail:
a failing write leaves the multi-buffers of I/O and other tasks different, which
is a matter of the error handler.  Nor is what the tasks do after one of them
has returned `PIO_ENOMEM`: the properties speak of the calls up to that one.

The initialisation of I/O systems, opening a file with its retry and metadata
inquiry remain (section 7).

## 6. Where code and documentation disagree

Each has a run in which TLC finds the behaviour (`findings` in `PROJECT.json`):

* `ids_mixed`: a process with an asynchronous system and one of its own gets one
  ncid twice (`pioc_support.c:2204`); this is what `Unmixed` excludes.
* `write_fill`: on an I/O task with fewer elements than the largest one, a hole of
  the second array of a buffer gets the fill value of the first variable
  (`pio_darray.c:298`).
* `write_lost`: arrays whose buffer cannot be written at close are dropped, and no
  caller is told (`pio_file.c:236` and `429`).
* `rearrange_async`: with the box rearranger in asynchronous mode holes may not be
  filled, because the I/O tasks count the map they were sent as their own data
  (`pio_rearrange.c:1152`).

Seen while modelling.  These can be reproduced by lifting the restriction named:

* If MPI does not buffer the one-integer handshakes (`SyncKinds` with
  `"handshake"`), four tasks with a throttle of two block each other when one pair
  has nothing to exchange (`pio_spmd.c:270`).  MPI implementations buffer such
  messages, the standard does not require it.
* `Unmatched`: `PIOc_def_dim` and `PIOc_inq_varid` without a pointer for the id, whose
  broadcast the callers do not receive (`pio_msg.c:2140`); `DEF_VAR_SZIP`,
  `DEF_VAR_BZIP2` and `INQ_VAR_BZIP2`, which have no case in the switch
  (`pio_msg.c:3318`); `PIOc_InitDecomp_ReadOnly` with another rearranger than subset,
  which returns after its message was sent (`pioc.c:967`).
* `NestedOnes`: under `PIO_BCAST_ERROR` a failing inquiry inside another function
  leaves the callers in a broadcast without a root (`pio_getput_int.c:978`, and
  `PIOc_def_var`, `PIOc_def_var_fill`, `PIOc_inq_var_fill`, `PIOc_def_var_chunking`,
  `PIOc_put_att_tc`, `PIOc_get_vars_tc`, `PIOc_write_darray_multi`).
* `Deaf`: a failing `nc_sync` (`pio_file.c:493`) and `PIOc_set_chunk_cache`
  (`pio_nc4.c:981`) are not reported.
* `Excess`: an array longer than the decomposition is kept with its length but
  sent with that of the decomposition (`pio_rearrange.c:943`), so that the second
  array of a buffer is wrong, though `pio_darray.c:640-643` allows longer arrays.
* `Liberties`: freeing a decomposition before its arrays are flushed loses them.
* `nomem`: a task without memory for its share of an array returns `PIO_ENOMEM`
  alone, under `PIO_BCAST_ERROR` too, while the others store the array
  (`pio_darray.c:798`, against "Error codes are broadcast to all tasks" in `pio.h:667` and
  `pioc_support.c:718`).  In `pio_err` the place where the code would be broadcast has
  only a comment (`pioc_support.c:770-773`).  `BuffersAgree` for all tasks then fails in `write_buffer`.
* After a failing `nc_put_vara` task 0 returns while the others wait for its
  handshake (`pio_darray_int.c:1005`); `AllReturn` of `SerialIO` therefore excepts it.

Not in a model: `max_pend_req = 1` lets two receives be pending (`pio_spmd.c:225`,
against `pio.h:243`); `PIOc_get_vars_ulonglong` passes `PIO_LONG_INTERNAL`
(`pio_get_nc.c:318`) and `PIOc_get_var1_ulonglong` `NC_INT64` (`pio_get_nc.c:1164`);
an entry of a map beyond the array makes one task alone return `PIO_EINVAL`
(`pio_rearrange.c:1473`); in an array of one element a hole is transferred, because
index -1 has coordinate 0 (`pio_rearrange.c:32`); a map that names an element twice
overruns `rindex` with the box rearranger (`pio_rearrange.c:774`);
`PIOc_read_darray` with a map that needs sorting sets the places of holes to zero
(`pio_darray.c:981`); `blocksize` below 256 bytes plus an element divides by zero
(`pioc_sc.c:233`).

## 7. Plan

1. `IoSystems`: `PIOc_init_async`, ids of I/O systems, freeing; then the list of
   systems in `Descriptors`.
2. Opening with retry and the metadata inquiry, with the iotype on each task.
3. A failing library call in `WriteMulti`, under each error handler.
4. Proofs: `BoxesPartition` from `SharesTile`; for `Rearrange`, that an element goes to the place of its global
   index.
