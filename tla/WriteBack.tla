----------------------------- MODULE WriteBack ------------------------------
(***************************************************************************)
(* What buffering distributed arrays promises: a write-back store.  A      *)
(* write goes to the cache; any set of cached writes may move to the disk, *)
(* with or without another one arriving, as long as writes with the same   *)
(* key to the same place get there in the order they were made.  Nothing   *)
(* reaches the disk that was not written, a write is dropped only if the   *)
(* writer is told, and a closed store has nothing left in its cache.       *)
(*                                                                         *)
(* A write is [n, key, place, val]: n counts the writes, the writes of one *)
(* array have the same n.  Writes with different keys are not ordered, and *)
(* none are if Ordered is FALSE.                                           *)
(***************************************************************************)
EXTENDS Naturals

CONSTANTS Places, None

VARIABLES
    cache,     \* the writes that are not on disk
    disk,      \* [Places -> the value there, or None]
    open,
    told,      \* the n of the writes that were dropped
    Ordered

vars == <<cache, disk, open, told, Ordered>>

Init ==
    /\ cache = {}
    /\ disk = [p \in Places |-> None]
    /\ open = TRUE /\ told = {}
    /\ Ordered \in BOOLEAN

(* x comes after w at the same place. *)
Supersedes(x, w) == Ordered /\ x.key = w.key /\ x.place = w.place /\ x.n > w.n

(* S moves to the disk, the rest of the cache stays or is dropped. *)
Move(S) ==
    /\ \A w \in S : \A x \in cache \ S : ~Supersedes(w, x)
    /\ \A p \in Places :
          LET here == {w \in S : w.place = p}
              last == {w \in here : \A x \in here : ~Supersedes(x, w)}
          IN  disk'[p] \in IF here = {} THEN {disk[p]} ELSE {w.val : w \in last}

(* At most one array arrives, after all that are cached. *)
Arrive(new) ==
    \A w \in new :
        /\ \A x \in new : x.n = w.n /\ x.key = w.key
        /\ \A x \in cache : x.n < w.n

Step ==
    /\ open
    /\ Arrive(cache' \ cache)
    /\ told \subseteq told'
    /\ Move({w \in cache \ cache' : w.n \notin told'})
    /\ DOMAIN disk' = Places
    /\ open' \in BOOLEAN
    /\ ~open' => cache' = {}
    /\ UNCHANGED Ordered

Spec == Init /\ [][Step]_vars
=============================================================================
