---------------------------- MODULE Descriptors -----------------------------
(***************************************************************************)
(* The lists of open files and of decompositions that every process keeps, *)
(* and the ids by which a program names their entries (pio_lists.c, and    *)
(* the places that hand out pio_ncid and ioid).                            *)
(*                                                                         *)
(* A process may belong to several I/O systems.  All of them use the same  *)
(* two lists and the same two counters of the process.  A call that adds   *)
(* or removes a descriptor is collective over its I/O system; the members  *)
(* perform the calls of one system in the same order, each at its own      *)
(* time.  In an asynchronous system the id comes from the root of the I/O  *)
(* tasks, which serve several systems; in the others every process takes   *)
(* the id from its own counter.                                            *)
(***************************************************************************)
EXTENDS Integers, FiniteSets

CONSTANTS Procs,            \* processes
          Systems,          \* I/O systems
          Async,            \* those of PIOc_init_async
          Members,          \* [Systems -> SUBSET Procs]
          IOTasks,          \* [Systems -> SUBSET Procs]
          IORoot,           \* [Systems -> Procs], ios->ioroot
          CompRoot,         \* [Systems -> Procs], ios->comproot
          MaxCalls,         \* bound on the collective calls of a run
          Null

Kinds == {"file", "iodesc"}

(* The initial values of pio_next_ncid and pio_next_ioid. *)
FirstId == [k \in Kinds |-> IF k = "file" THEN 128 ELSE 512]

(* A descriptor: the call that made it (its system and its number there),  *)
(* the id that this process gave it, and its age in the process's list.    *)
Entries == [sys : Systems, tag : Nat, kind : Kinds, id : Int, age : Nat]

ASSUME TopologyAssumption ==
    /\ Async \subseteq Systems
    /\ \A s \in Systems :
        /\ IORoot[s] \in IOTasks[s] /\ IOTasks[s] \subseteq Members[s]
        /\ CompRoot[s] \in Members[s] /\ Members[s] \subseteq Procs
    /\ \A s \in Async : CompRoot[s] \notin IOTasks[s]
    /\ MaxCalls \in Nat
    /\ Null \notin Entries

VARIABLES calls,            \* the collective calls begun so far
          issued,           \* [Systems -> Nat] how many of them per system
          done,             \* [Systems -> [Procs -> Nat]] performed by each member
          sent,             \* ids broadcast by the roots of the I/O tasks
          next,             \* [Procs -> [Kinds -> Int]] pio_next_ncid, pio_next_ioid
          open,             \* [Procs -> SUBSET Entries] pio_file_list and pio_iodesc_list
          current,          \* [Procs -> [Kinds -> Entries or Null]] current_file, current_iodesc
          handle            \* [Procs -> SUBSET Entries] what the process was given, ever

vars == <<calls, issued, done, sent, next, open, current, handle>>

Init ==
    /\ calls = {}
    /\ issued = [s \in Systems |-> 0]
    /\ done = [s \in Systems |-> [p \in Procs |-> 0]]
    /\ sent = {}
    /\ next = [p \in Procs |-> FirstId]
    /\ open = [p \in Procs |-> {}]
    /\ current = [p \in Procs |-> [k \in Kinds |-> Null]]
    /\ handle = [p \in Procs |-> {}]

-----------------------------------------------------------------------------
(* Looking up *)

OfKind(es, k) == {e \in es : e.kind = k}

(* The current entry if it has the id, else what the hash table holds for  *)
(* the id.  With two entries of one id the table's answer depends on its   *)
(* buckets: either of them.                                                *)
Found(p, k, id) ==
    IF current[p][k] # Null /\ current[p][k].id = id
      THEN {current[p][k]}
      ELSE {e \in OfKind(open[p], k) : e.id = id}

Hit(p, k, id) == IF Found(p, k, id) = {} THEN {Null} ELSE Found(p, k, id)

(* pio_get_file leaves current_file alone when it finds nothing,           *)
(* pio_get_iodesc_from_id does not.                                        *)
CurrentAfterGet(p, k, e) == IF k = "file" /\ e = Null THEN current[p][k] ELSE e

(* Any function of the library that is given an id, open or not. *)
Get(p, k, id) ==
    /\ \E e \in Hit(p, k, id) :
        current' = [current EXCEPT ![p][k] = CurrentAfterGet(p, k, e)]
    /\ UNCHANGED <<calls, issued, done, sent, next, open, handle>>

-----------------------------------------------------------------------------
(* Collective calls *)

Caller(s) == IF s \in Async THEN CompRoot[s] ELSE IORoot[s]

(* A process makes one call at a time. *)
FreeFor(p, s) == \A t \in Systems \ {s} : Caller(t) = p => done[t][p] = issued[t]

Begin(s, act, kind, of, id, ok) ==
    /\ FreeFor(Caller(s), s) /\ done[s][Caller(s)] = issued[s]
    /\ Cardinality(calls) < MaxCalls
    /\ calls' = calls \cup {[sys |-> s, tag |-> issued[s] + 1, act |-> act, kind |-> kind,
                             of |-> of, id |-> id, ok |-> ok]}
    /\ issued' = [issued EXCEPT ![s] = @ + 1]
    /\ UNCHANGED <<done, sent, next, open, current, handle>>

BeginAdd(s, k) == Begin(s, "add", k, 0, 0, TRUE)

(* The program closes a descriptor it was given, if the library still      *)
(* finds it; otherwise the call is a Get that fails with PIO_EBADID.       *)
(* Closing a file fails when the library's nc_close does.                  *)
BeginDelete(s, h, ok) ==
    /\ h.sys = s
    /\ h.kind = "iodesc" => ok
    /\ \E e \in Found(Caller(s), h.kind, h.id) : e.sys = s
    /\ Begin(s, "delete", h.kind, h.tag, h.id, ok)

Performs(p, c) ==
    /\ p \in Members[c.sys]
    /\ c.tag = done[c.sys][p] + 1
    /\ FreeFor(p, c.sys)
    /\ done' = [done EXCEPT ![c.sys][p] = @ + 1]

TakesBcast(p, s) == s \in Async /\ p # IORoot[s]

(* Fault: every task takes its own counter. *)
NewIdOwn(p, c) == {next[p][c.kind]}
(* Fault: the id is the length of the list, as for I/O systems. *)
NewIdOfLength(p, c) ==
    IF TakesBcast(p, c.sys)
      THEN {b.id : b \in {b \in sent : b.sys = c.sys /\ b.tag = c.tag}}
      ELSE {FirstId[c.kind] + Cardinality(OfKind(open[p], c.kind))}
(* The id of a new descriptor: the counter, of ioroot in an asynchronous   *)
(* system, whose broadcast the others wait for.                            *)
NewId(p, c) ==
    IF TakesBcast(p, c.sys)
      THEN {b.id : b \in {b \in sent : b.sys = c.sys /\ b.tag = c.tag}}
      ELSE {next[p][c.kind]}

Bcast(p, c, id) ==
    sent' = IF c.sys \in Async /\ p = IORoot[c.sys]
              THEN sent \cup {[sys |-> c.sys, tag |-> c.tag, kind |-> c.kind, id |-> id]}
              ELSE sent

NewEntry(p, c, id) ==
    [sys |-> c.sys, tag |-> c.tag, kind |-> c.kind, id |-> id, age |-> Cardinality(handle[p])]

Add(p, c) ==
    /\ c.act = "add"
    /\ Performs(p, c)
    /\ \E id \in NewId(p, c) :
        /\ Bcast(p, c, id)
        /\ next' = [next EXCEPT ![p][c.kind] = id + 1]
        /\ open' = [open EXCEPT ![p] = @ \cup {NewEntry(p, c, id)}]
        /\ handle' = [handle EXCEPT ![p] = @ \cup {NewEntry(p, c, id)}]
        /\ current' = [current EXCEPT ![p][c.kind] = NewEntry(p, c, id)]
    /\ UNCHANGED <<calls, issued>>

(* The id that a member closes: the program's own, or in an asynchronous   *)
(* system for the I/O tasks the one that comproot sent.                    *)
DeletedId(p, c) ==
    IF c.sys \in Async /\ p \in IOTasks[c.sys]
      THEN {c.id}
      ELSE {h.id : h \in {h \in handle[p] : h.sys = c.sys /\ h.tag = c.of}}

(* The head of a list: its oldest entry, or NULL. *)
Heads(es) == IF es = {} THEN {Null} ELSE {e \in es : \A f \in es : e.age <= f.age}

(* Fault: the pointer is not reset. *)
CurrentAfterDeleteKept(p, k, e) == {CurrentAfterGet(p, k, e)}
(* The deletion has just looked the entry up, so that it is the current one. *)
CurrentAfterDelete(p, k, e) ==
    IF e = Null THEN {CurrentAfterGet(p, k, e)} ELSE Heads(OfKind(open[p], k) \ {e})

(* Fault: an I/O task drops the file whether or not the library closed it. *)
RemovesAnyway(p, c) == c.ok \/ p \in IOTasks[c.sys]
Removes(p, c) == c.ok

Delete(p, c) ==
    /\ c.act = "delete"
    /\ Performs(p, c)
    /\ \E id \in DeletedId(p, c) : \E e \in Hit(p, c.kind, id) :
        /\ open' = [open EXCEPT ![p] = IF Removes(p, c) THEN @ \ {e} ELSE @]
        /\ \E h \in IF Removes(p, c) THEN CurrentAfterDelete(p, c.kind, e)
                                     ELSE {CurrentAfterGet(p, c.kind, e)} :
             current' = [current EXCEPT ![p][c.kind] = h]
    /\ UNCHANGED <<calls, issued, sent, next, handle>>

Ids(k) == {h.id : h \in OfKind(UNION {handle[p] : p \in Procs}, k)}

Next ==
    \/ \E s \in Systems, k \in Kinds : BeginAdd(s, k)
    \/ \E s \in Systems : \E h \in handle[Caller(s)], ok \in BOOLEAN : BeginDelete(s, h, ok)
    \/ \E p \in Procs, c \in calls : Add(p, c)
    \/ \E p \in Procs, c \in calls : Delete(p, c)
    \/ \E p \in Procs, k \in Kinds : \E id \in Ids(k) : Get(p, k, id)

Spec == Init /\ [][Next]_vars
-----------------------------------------------------------------------------
(* Properties *)

Calls == [sys : Systems, tag : Nat, act : {"add", "delete"}, kind : Kinds,
          of : Nat, id : Int, ok : BOOLEAN]

Broadcasts == [sys : Systems, tag : Nat, kind : Kinds, id : Int]

\* Types of the lists, counters and pointers of pio_lists.c and of the calls.
TypeOK ==
    /\ calls \subseteq Calls
    /\ issued \in [Systems -> Nat]
    /\ done \in [Systems -> [Procs -> Nat]]
    /\ sent \subseteq Broadcasts
    /\ next \in [Procs -> [Kinds -> Int]]
    /\ open \in [Procs -> SUBSET Entries]
    /\ current \in [Procs -> [Kinds -> Entries \cup {Null}]]
    /\ handle \in [Procs -> SUBSET Entries]

\* The pointer to the current file or decomposition, which the lookups trust
\* before they ask the list, never points to a descriptor that was freed.
NoDangling == \A p \in Procs, k \in Kinds : current[p][k] \in OfKind(open[p], k) \cup {Null}

\* No process mixes systems whose ids it counts itself with systems whose ids
\* another task counts, or that different tasks count.
Unmixed ==
    \A p \in Procs : \A s, t \in Systems : p \in Members[s] \cap Members[t] =>
        \/ s \notin Async /\ t \notin Async
        \/ s \in Async /\ t \in Async /\ IORoot[s] = IORoot[t]

\* An id names one descriptor: no process has two open files, or two
\* decompositions, of one id, whatever systems they belong to.  True if the
\* processes are Unmixed.
Distinct == \A p \in Procs : \A e, f \in open[p] : e.kind = f.kind /\ e.id = f.id => e = f

\* The tasks of an asynchronous system know a descriptor by the same id, which
\* is all that a message to the I/O tasks says about it.
Agreed ==
    \A s \in Async : \A p, q \in Members[s] : \A e \in handle[p], f \in handle[q] :
        e.sys = s /\ f.sys = s /\ e.tag = f.tag => e.id = f.id

(* The descriptors of system s that its first n calls leave open. *)
Live(s, n) ==
    {c.tag : c \in {c \in calls : c.sys = s /\ c.act = "add" /\ c.tag <= n /\
        ~ \E d \in calls : d.sys = s /\ d.act = "delete" /\ d.ok /\ d.tag <= n /\ d.of = c.tag}}
\* What a member has open of a system is what the calls that it performed add
\* up to: no call ever closed another descriptor than the one it was made for.
ListIsProgram ==
    \A s \in Systems : \A p \in Members[s] :
        {e.tag : e \in {e \in open[p] : e.sys = s}} = Live(s, done[s][p])
=============================================================================
