-------------------------- MODULE DescriptorsProofs --------------------------
(***************************************************************************)
(* What holds of the descriptor lists for all processes, systems and       *)
(* topologies.                                                             *)
(***************************************************************************)
EXTENDS Descriptors, FiniteSetTheorems, TLAPS

(* The ages of entries are numbers because a process has finitely many. *)
FiniteHandles == \A p \in Procs : IsFiniteSet(handle[p])
Typed == TypeOK /\ FiniteHandles

-----------------------------------------------------------------------------
(* Types *)

\* A lookup (pio_get_file, pio_get_iodesc_from_id) returns an entry of the
\* list, the current entry or NULL.
LEMMA HitType ==
    ASSUME TypeOK, NEW p \in Procs, NEW k \in Kinds, NEW id, NEW e \in Hit(p, k, id)
    PROVE  e \in Entries \cup {Null}
  BY DEF TypeOK, Hit, Found, OfKind

\* The ids that a member may give to a new descriptor are numbers.
LEMMA NewIdType ==
    ASSUME TypeOK, NEW p \in Procs, NEW c \in calls, NEW id \in NewId(p, c)
    PROVE  id \in Int
<1>1. CASE TakesBcast(p, c.sys)
  BY <1>1 DEF TypeOK, NewId, Broadcasts
<1>2. CASE ~TakesBcast(p, c.sys)
  BY <1>2 DEF TypeOK, NewId, Calls
<1> QED BY <1>1, <1>2

LEMMA NewEntryType ==
    ASSUME Typed, NEW p \in Procs, NEW c \in calls, NEW id \in NewId(p, c)
    PROVE  NewEntry(p, c, id) \in Entries
<1>1. Cardinality(handle[p]) \in Nat
  BY FS_CardinalityType DEF Typed, FiniteHandles
<1>2. id \in Int
  BY NewIdType DEF Typed
<1> QED BY <1>1, <1>2 DEF Typed, TypeOK, Calls, NewEntry, Entries

LEMMA TypedInit == Init => Typed
<1> SUFFICES ASSUME Init PROVE Typed
  OBVIOUS
<1>1. TypeOK
  BY DEF Init, TypeOK, FirstId, Kinds
<1>2. FiniteHandles
  BY FS_EmptySet DEF Init, FiniteHandles
<1> QED BY <1>1, <1>2 DEF Typed

LEMMA TypedBegin ==
    ASSUME Typed, NEW s \in Systems, NEW act \in {"add", "delete"}, NEW k \in Kinds, NEW of \in Nat,
           NEW id \in Int, NEW ok \in BOOLEAN, Begin(s, act, k, of, id, ok)
    PROVE  Typed'
<1> DEFINE c == [sys |-> s, tag |-> issued[s] + 1, act |-> act, kind |-> k, of |-> of, id |-> id, ok |-> ok]
<1>1. c \in Calls
  BY DEF Typed, TypeOK, Calls
<1>2. calls' \subseteq Calls
  BY <1>1 DEF Typed, TypeOK, Begin
<1>3. issued' \in [Systems -> Nat]
  BY DEF Typed, TypeOK, Begin
<1>4. UNCHANGED <<done, sent, next, open, current, handle>>
  BY DEF Begin
<1> QED BY <1>2, <1>3, <1>4 DEF Typed, TypeOK, FiniteHandles

LEMMA TypedAdd ==
    ASSUME Typed, NEW p \in Procs, NEW c \in calls, Add(p, c)
    PROVE  Typed'
<1> c \in Calls
  BY DEF Typed, TypeOK
<1>1. PICK id \in NewId(p, c) :
        /\ Bcast(p, c, id)
        /\ next' = [next EXCEPT ![p][c.kind] = id + 1]
        /\ open' = [open EXCEPT ![p] = @ \cup {NewEntry(p, c, id)}]
        /\ handle' = [handle EXCEPT ![p] = @ \cup {NewEntry(p, c, id)}]
        /\ current' = [current EXCEPT ![p][c.kind] = NewEntry(p, c, id)]
  BY DEF Add
<1>2. id \in Int
  BY NewIdType DEF Typed
<1> DEFINE e == NewEntry(p, c, id)
<1>3. e \in Entries
  BY NewEntryType
<1> HIDE DEF e
<1>4. calls' \subseteq Calls /\ issued' \in [Systems -> Nat]
  BY DEF Typed, TypeOK, Add
<1>5. done' \in [Systems -> [Procs -> Nat]]
  BY DEF Typed, TypeOK, Add, Performs, Calls
<1>6. sent' \subseteq Broadcasts
  BY <1>1, <1>2 DEF Typed, TypeOK, Bcast, Broadcasts, Calls
<1>7. next' \in [Procs -> [Kinds -> Int]]
  BY <1>1, <1>2 DEF Typed, TypeOK, Calls
<1>8. /\ open' \in [Procs -> SUBSET Entries]
      /\ handle' \in [Procs -> SUBSET Entries]
  BY <1>1, <1>3 DEF Typed, TypeOK, e
<1>9. current' \in [Procs -> [Kinds -> Entries \cup {Null}]]
  BY <1>1, <1>3 DEF Typed, TypeOK, e, Calls
<1>10. ASSUME NEW q \in Procs PROVE IsFiniteSet(handle[q])'
  <2>1. IsFiniteSet(handle[q]) /\ IsFiniteSet(handle[q] \cup {e})
    BY FS_AddElement DEF Typed, FiniteHandles
  <2>2. handle'[q] \in {handle[q], handle[q] \cup {e}}
    BY <1>1 DEF Typed, TypeOK, e
  <2> QED BY <2>1, <2>2
<1> QED BY <1>4, <1>5, <1>6, <1>7, <1>8, <1>9, <1>10 DEF Typed, TypeOK, FiniteHandles

\* What a member does to its list when it performs a deletion.
LEMMA DeleteStep ==
    ASSUME TypeOK, NEW p \in Procs, NEW c \in calls, Delete(p, c)
    PROVE  \E id \in DeletedId(p, c) : \E e, h \in Entries \cup {Null} :
             /\ e \in Hit(p, c.kind, id)
             /\ open' = [open EXCEPT ![p] = IF c.ok THEN @ \ {e} ELSE @]
             /\ current' = [current EXCEPT ![p][c.kind] = h]
             /\ IF c.ok /\ e # Null THEN h \in (OfKind(open[p], c.kind) \ {e}) \cup {Null}
                                    ELSE h \in {e, current[p][c.kind]}
<1> c \in Calls
  BY DEF TypeOK
<1>1. PICK id \in DeletedId(p, c) : \E e \in Hit(p, c.kind, id) :
        \E h \in IF Removes(p, c) THEN CurrentAfterDelete(p, c.kind, e) ELSE {CurrentAfterGet(p, c.kind, e)} :
             /\ open' = [open EXCEPT ![p] = IF Removes(p, c) THEN @ \ {e} ELSE @]
             /\ current' = [current EXCEPT ![p][c.kind] = h]
  BY DEF Delete
<1>a. PICK e \in Hit(p, c.kind, id) :
        \E h \in IF Removes(p, c) THEN CurrentAfterDelete(p, c.kind, e) ELSE {CurrentAfterGet(p, c.kind, e)} :
             /\ open' = [open EXCEPT ![p] = IF Removes(p, c) THEN @ \ {e} ELSE @]
             /\ current' = [current EXCEPT ![p][c.kind] = h]
  BY <1>1
<1>b. PICK h \in IF Removes(p, c) THEN CurrentAfterDelete(p, c.kind, e) ELSE {CurrentAfterGet(p, c.kind, e)} :
             /\ open' = [open EXCEPT ![p] = IF Removes(p, c) THEN @ \ {e} ELSE @]
             /\ current' = [current EXCEPT ![p][c.kind] = h]
  BY <1>a
<1>2. e \in Entries \cup {Null} /\ current[p][c.kind] \in Entries \cup {Null}
  BY HitType DEF TypeOK, Calls
<1>3. IF c.ok /\ e # Null THEN h \in (OfKind(open[p], c.kind) \ {e}) \cup {Null}
                          ELSE h \in {e, current[p][c.kind]}
  BY <1>b DEF CurrentAfterDelete, CurrentAfterGet, Heads, Removes
<1>4. h \in Entries \cup {Null}
  BY <1>2, <1>3 DEF OfKind, TypeOK
<1>5. open' = [open EXCEPT ![p] = IF c.ok THEN @ \ {e} ELSE @]
  BY <1>b DEF Removes
<1> QED BY <1>b, <1>2, <1>3, <1>4, <1>5

LEMMA TypedDelete ==
    ASSUME Typed, NEW p \in Procs, NEW c \in calls, Delete(p, c)
    PROVE  Typed'
<1> c \in Calls
  BY DEF Typed, TypeOK
<1>1. PICK e \in Entries \cup {Null}, h \in Entries \cup {Null} :
        /\ open' = [open EXCEPT ![p] = IF c.ok THEN @ \ {e} ELSE @]
        /\ current' = [current EXCEPT ![p][c.kind] = h]
  BY DeleteStep DEF Typed
<1>2. done' \in [Systems -> [Procs -> Nat]]
  BY DEF Typed, TypeOK, Delete, Performs, Calls
<1>3. open' \in [Procs -> SUBSET Entries]
  BY <1>1 DEF Typed, TypeOK
<1>4. current' \in [Procs -> [Kinds -> Entries \cup {Null}]]
  BY <1>1 DEF Typed, TypeOK, Calls
<1>5. UNCHANGED <<calls, issued, sent, next, handle>>
  BY DEF Delete
<1> QED BY <1>2, <1>3, <1>4, <1>5 DEF Typed, TypeOK, FiniteHandles

LEMMA TypedGet ==
    ASSUME Typed, NEW p \in Procs, NEW k \in Kinds, NEW id, Get(p, k, id)
    PROVE  Typed'
<1>1. PICK e \in Hit(p, k, id) : current' = [current EXCEPT ![p][k] = CurrentAfterGet(p, k, e)]
  BY DEF Get
<1>2. CurrentAfterGet(p, k, e) \in Entries \cup {Null}
  BY HitType DEF CurrentAfterGet, Typed, TypeOK
<1>3. current' \in [Procs -> [Kinds -> Entries \cup {Null}]]
  BY <1>1, <1>2 DEF Typed, TypeOK
<1> QED BY <1>3 DEF Get, Typed, TypeOK, FiniteHandles

LEMMA TypedNext == Typed /\ [Next]_vars => Typed'
<1> SUFFICES ASSUME Typed, [Next]_vars PROVE Typed'
  OBVIOUS
<1>1. ASSUME NEW s \in Systems, NEW k \in Kinds, BeginAdd(s, k) PROVE Typed'
  <2>1. Begin(s, "add", k, 0, 0, TRUE)
    BY <1>1, Zenon DEF BeginAdd
  <2>2. 0 \in Nat /\ 0 \in Int
    OBVIOUS
  <2> QED BY <2>1, <2>2, TypedBegin, Zenon
<1>2. ASSUME NEW s \in Systems, NEW h \in handle[Caller(s)], NEW ok \in BOOLEAN, BeginDelete(s, h, ok)
      PROVE  Typed'
  <2>1. Caller(s) \in Procs
    BY TopologyAssumption DEF Caller
  <2>2. h \in Entries
    BY <2>1 DEF Typed, TypeOK
  <2> QED BY <1>2, <2>2, TypedBegin DEF BeginDelete, Entries
<1>3. CASE UNCHANGED vars
  BY <1>3 DEF vars, Typed, TypeOK, FiniteHandles
<1> QED BY <1>1, <1>2, <1>3, TypedAdd, TypedDelete, TypedGet DEF Next

\* Every variable keeps its type; the ids that pio_next_ncid and pio_next_ioid
\* give are numbers and the lists hold descriptors.
THEOREM TypeCorrect == Spec => []TypeOK
<1>1. Typed => TypeOK
  BY DEF Typed
<1> QED BY <1>1, TypedInit, TypedNext, PTL DEF Spec

-----------------------------------------------------------------------------
(* The current entry is in the list *)

\* With no dangling pointer a lookup returns an entry of the list or NULL.
LEMMA HitIsListed ==
    ASSUME NoDangling, NEW p \in Procs, NEW k \in Kinds, NEW id, NEW e \in Hit(p, k, id)
    PROVE  e \in OfKind(open[p], k) \cup {Null}
  BY DEF NoDangling, Hit, Found, OfKind

LEMMA NoDanglingNext == Typed /\ NoDangling /\ [Next]_vars => NoDangling'
<1> SUFFICES ASSUME Typed, NoDangling, [Next]_vars PROVE NoDangling'
  OBVIOUS
<1>1. ASSUME UNCHANGED <<open, current>> PROVE NoDangling'
  BY <1>1 DEF NoDangling, OfKind
<1>2. ASSUME NEW p \in Procs, NEW c \in calls, Add(p, c) PROVE NoDangling'
  <2> c \in Calls
    BY DEF Typed, TypeOK
  <2>1. PICK id \in NewId(p, c) :
          /\ open' = [open EXCEPT ![p] = @ \cup {NewEntry(p, c, id)}]
          /\ current' = [current EXCEPT ![p][c.kind] = NewEntry(p, c, id)]
    BY <1>2 DEF Add
  <2> SUFFICES ASSUME NEW q \in Procs, NEW k \in Kinds
               PROVE  current'[q][k] \in OfKind(open'[q], k) \cup {Null}
    BY DEF NoDangling
  <2>2. NewEntry(p, c, id).kind = c.kind
    BY DEF NewEntry
  <2>3. current[q][k] \in OfKind(open[q], k) \cup {Null}
    BY DEF NoDangling
  <2>4. CASE q = p /\ k = c.kind
    BY <2>1, <2>2, <2>4 DEF OfKind, Typed, TypeOK, Calls
  <2>5. CASE ~(q = p /\ k = c.kind)
    BY <2>1, <2>3, <2>5 DEF OfKind, Typed, TypeOK, Calls
  <2> QED BY <2>4, <2>5
<1>3. ASSUME NEW p \in Procs, NEW c \in calls, Delete(p, c) PROVE NoDangling'
  <2> c \in Calls
    BY DEF Typed, TypeOK
  <2>1. PICK id \in DeletedId(p, c) : \E e, h \in Entries \cup {Null} :
             /\ e \in Hit(p, c.kind, id)
             /\ open' = [open EXCEPT ![p] = IF c.ok THEN @ \ {e} ELSE @]
             /\ current' = [current EXCEPT ![p][c.kind] = h]
             /\ IF c.ok /\ e # Null THEN h \in (OfKind(open[p], c.kind) \ {e}) \cup {Null}
                                    ELSE h \in {e, current[p][c.kind]}
    BY <1>3, DeleteStep DEF Typed
  <2>2. PICK e \in Entries \cup {Null}, h \in Entries \cup {Null} :
             /\ e \in Hit(p, c.kind, id)
             /\ open' = [open EXCEPT ![p] = IF c.ok THEN @ \ {e} ELSE @]
             /\ current' = [current EXCEPT ![p][c.kind] = h]
             /\ IF c.ok /\ e # Null THEN h \in (OfKind(open[p], c.kind) \ {e}) \cup {Null}
                                    ELSE h \in {e, current[p][c.kind]}
    BY <2>1
  <2> c.kind \in Kinds
    BY DEF Calls
  <2>3. e \in OfKind(open[p], c.kind) \cup {Null}
    BY <2>2, HitIsListed
  <2>4. Null \notin open[p]
    BY TopologyAssumption DEF Typed, TypeOK
  <2> SUFFICES ASSUME NEW q \in Procs, NEW k \in Kinds
               PROVE  current'[q][k] \in OfKind(open'[q], k) \cup {Null}
    BY DEF NoDangling
  <2>5. current[q][k] \in OfKind(open[q], k) \cup {Null}
    BY DEF NoDangling
  <2>6. CASE q = p /\ k = c.kind
    <3>1. current'[q][k] = h
      BY <2>2, <2>6 DEF Typed, TypeOK
    <3>2. open'[q] = IF c.ok THEN open[p] \ {e} ELSE open[p]
      BY <2>2, <2>6 DEF Typed, TypeOK
    <3>3. CASE c.ok /\ e # Null
      BY <2>2, <3>1, <3>2, <3>3, <2>6 DEF OfKind
    <3>4. CASE ~(c.ok /\ e # Null)
      BY <2>2, <2>3, <2>4, <2>5, <3>1, <3>2, <3>4, <2>6 DEF OfKind
    <3> QED BY <3>3, <3>4
  <2>7. CASE q = p /\ k # c.kind
    <3>1. current'[q][k] = current[q][k]
      BY <2>2, <2>7 DEF Typed, TypeOK
    <3>2. open'[q] = IF c.ok THEN open[p] \ {e} ELSE open[p]
      BY <2>2, <2>7 DEF Typed, TypeOK
    <3> QED BY <2>3, <2>5, <3>1, <3>2, <2>7 DEF OfKind
  <2>8. CASE q # p
    BY <2>2, <2>5, <2>8 DEF Typed, TypeOK
  <2> QED BY <2>6, <2>7, <2>8
<1>4. ASSUME NEW p \in Procs, NEW k \in Kinds, NEW id, Get(p, k, id) PROVE NoDangling'
  <2>1. PICK e \in Hit(p, k, id) : current' = [current EXCEPT ![p][k] = CurrentAfterGet(p, k, e)]
    BY <1>4 DEF Get
  <2>2. CurrentAfterGet(p, k, e) \in OfKind(open[p], k) \cup {Null}
    BY HitIsListed DEF CurrentAfterGet, NoDangling
  <2>3. open' = open
    BY <1>4 DEF Get
  <2> QED BY <2>1, <2>2, <2>3 DEF NoDangling, OfKind, Typed, TypeOK
<1> QED BY <1>1, <1>2, <1>3, <1>4 DEF Next, BeginAdd, BeginDelete, Begin, vars

\* current_file and current_iodesc never point to a freed descriptor, whatever
\* the systems and the order of the calls.
THEOREM NeverDangling == Spec => []NoDangling
<1>1. Init => NoDangling
  BY DEF Init, NoDangling
<1> QED BY <1>1, TypedInit, TypedNext, NoDanglingNext, PTL DEF Spec

-----------------------------------------------------------------------------
(* What the steps do, entry by entry *)

\* Process p performed call c ...
Performed(p, c) ==
    /\ UNCHANGED <<calls, issued>>
    /\ p \in Members[c.sys] /\ c.tag = done[c.sys][p] + 1
    /\ \A s \in Systems, q \in Procs :
         done'[s][q] = IF s = c.sys /\ q = p THEN done[s][q] + 1 ELSE done[s][q]
    /\ \A q \in Procs : handle[q] \subseteq handle'[q]

\* ... and added entry e with this id.
Added(p, c, id, e) ==
    /\ e.sys = c.sys /\ e.tag = c.tag /\ e.kind = c.kind /\ e.id = id
    /\ Bcast(p, c, id)
    /\ \A q \in Procs : handle'[q] = IF q = p THEN handle[q] \cup {e} ELSE handle[q]
    /\ \A q \in Procs : open'[q] = IF q = p THEN open[q] \cup {e} ELSE open[q]
    /\ \A q \in Procs, k \in Kinds :
         next'[q][k] = IF q = p /\ k = c.kind THEN id + 1 ELSE next[q][k]

LEMMA AddStep ==
    ASSUME Typed, NEW p \in Procs, NEW c \in calls, Add(p, c)
    PROVE  /\ c.act = "add" /\ Performed(p, c)
           /\ \E id \in NewId(p, c), e \in Entries : Added(p, c, id, e)
<1> c \in Calls
  BY DEF Typed, TypeOK
<1>1. PICK id \in NewId(p, c) :
        /\ Bcast(p, c, id)
        /\ next' = [next EXCEPT ![p][c.kind] = id + 1]
        /\ open' = [open EXCEPT ![p] = @ \cup {NewEntry(p, c, id)}]
        /\ handle' = [handle EXCEPT ![p] = @ \cup {NewEntry(p, c, id)}]
  BY DEF Add
<1> DEFINE e == NewEntry(p, c, id)
<1>2. e \in Entries /\ e.sys = c.sys /\ e.tag = c.tag /\ e.kind = c.kind /\ e.id = id
  BY NewEntryType DEF NewEntry
<1>3. /\ \A q \in Procs : handle'[q] = IF q = p THEN handle[q] \cup {e} ELSE handle[q]
      /\ \A q \in Procs : open'[q] = IF q = p THEN open[q] \cup {e} ELSE open[q]
  BY <1>1 DEF Typed, TypeOK
<1>4. \A q \in Procs, k \in Kinds : next'[q][k] = IF q = p /\ k = c.kind THEN id + 1 ELSE next[q][k]
  BY <1>1 DEF Typed, TypeOK, Calls
<1>5. \A s \in Systems, q \in Procs :
        done'[s][q] = IF s = c.sys /\ q = p THEN done[s][q] + 1 ELSE done[s][q]
  BY DEF Add, Performs, Typed, TypeOK, Calls
<1>6. /\ UNCHANGED <<calls, issued>>
      /\ p \in Members[c.sys] /\ c.tag = done[c.sys][p] + 1 /\ c.act = "add"
  BY DEF Add, Performs
<1> HIDE DEF e
<1>7. \A q \in Procs : handle[q] \subseteq handle'[q]
  BY <1>3
<1>8. Performed(p, c)
  BY <1>5, <1>6, <1>7 DEF Performed
<1>9. Added(p, c, id, e)
  BY <1>1, <1>2, <1>3, <1>4 DEF Added
<1> QED BY <1>2, <1>6, <1>8, <1>9

LEMMA DeleteDone ==
    ASSUME Typed, NEW p \in Procs, NEW c \in calls, Delete(p, c)
    PROVE  /\ c.act = "delete" /\ Performed(p, c)
           /\ UNCHANGED <<sent, next, handle>>
           /\ \A q \in Procs : open'[q] \subseteq open[q]
<1> c \in Calls
  BY DEF Typed, TypeOK
<1>1. \A s \in Systems, q \in Procs :
        done'[s][q] = IF s = c.sys /\ q = p THEN done[s][q] + 1 ELSE done[s][q]
  BY DEF Delete, Performs, Typed, TypeOK, Calls
<1>2. \A q \in Procs : open'[q] \subseteq open[q]
  <2>1. PICK e \in Entries \cup {Null} : open' = [open EXCEPT ![p] = IF c.ok THEN @ \ {e} ELSE @]
    BY DeleteStep DEF Typed
  <2> QED BY <2>1 DEF Typed, TypeOK
<1>3. Performed(p, c)
  BY <1>1 DEF Delete, Performs, Performed
<1> QED BY <1>2, <1>3 DEF Delete

-----------------------------------------------------------------------------
(* Calls are numbered: within a system a number names one call, and what a *)
(* process has or a root has sent belongs to a call that it has performed. *)

CallOf(x) == \E c \in calls : c.sys = x.sys /\ c.tag = x.tag /\ c.kind = x.kind /\ c.act = "add"

OneCall   == \A c, d \in calls : c.sys = d.sys /\ c.tag = d.tag => c = d
Issued    == \A c \in calls : c.tag <= issued[c.sys]
Behind    == \A s \in Systems, p \in Procs : done[s][p] <= issued[s]
Given     == \A p \in Procs : \A h \in handle[p] :
                p \in Members[h.sys] /\ h.tag <= done[h.sys][p] /\ CallOf(h)
GivenOnce == \A p \in Procs : \A h, g \in handle[p] : h.sys = g.sys /\ h.tag = g.tag => h = g
Listed    == \A p \in Procs : open[p] \subseteq handle[p]
Sent      == \A b \in sent :
                b.sys \in Async /\ b.tag <= done[b.sys][IORoot[b.sys]] /\ CallOf(b)
SentOnce  == \A b, d \in sent : b.sys = d.sys /\ b.tag = d.tag => b = d
FromRoot  == \A p \in Procs : \A h \in handle[p] : h.sys \in Async =>
                \E b \in sent : b.sys = h.sys /\ b.tag = h.tag /\ b.kind = h.kind /\ b.id = h.id

Numbered == OneCall /\ Issued /\ Behind
Ledger   == Given /\ GivenOnce /\ Listed /\ Sent /\ SentOnce /\ FromRoot

LEMMA NumberedBegin ==
    ASSUME Typed, Numbered, NEW s \in Systems, NEW act, NEW k, NEW of, NEW id, NEW ok,
           Begin(s, act, k, of, id, ok)
    PROVE  Numbered'
<1> DEFINE c == [sys |-> s, tag |-> issued[s] + 1, act |-> act, kind |-> k, of |-> of, id |-> id, ok |-> ok]
<1>1. calls' = calls \cup {c} /\ c.sys = s /\ c.tag = issued[s] + 1
  BY DEF Begin
<1>2. \A t \in Systems : issued'[t] = IF t = s THEN issued[t] + 1 ELSE issued[t]
  BY DEF Begin, Typed, TypeOK
<1>3. done' = done
  BY DEF Begin
<1>4. \A d \in calls : d.sys \in Systems /\ d.tag \in Nat
  BY DEF Typed, TypeOK, Calls
<1>5. \A t \in Systems : issued[t] \in Nat /\ \A p \in Procs : done[t][p] \in Nat
  BY DEF Typed, TypeOK
<1> HIDE DEF c
<1>6. Issued'
  BY <1>1, <1>2, <1>4, <1>5 DEF Issued, Numbered
<1>7. OneCall'
  BY <1>1, <1>4, <1>5 DEF OneCall, Issued, Numbered
<1>8. Behind'
  BY <1>2, <1>3, <1>5 DEF Behind, Numbered
<1> QED BY <1>6, <1>7, <1>8 DEF Numbered

LEMMA NumberedPerform ==
    ASSUME Typed, Numbered, NEW p \in Procs, NEW c \in calls, Performed(p, c)
    PROVE  Numbered'
<1>1. OneCall' /\ Issued'
  BY DEF OneCall, Issued, Numbered, Performed
<1>2. Behind'
  BY DEF Performed, Behind, Issued, Numbered, Typed, TypeOK, Calls
<1> QED BY <1>1, <1>2 DEF Numbered

LEMMA NumberedNext == Typed /\ Numbered /\ [Next]_vars => Numbered'
<1> SUFFICES ASSUME Typed, Numbered, [Next]_vars PROVE Numbered'
  OBVIOUS
<1>1. ASSUME UNCHANGED <<calls, issued, done>> PROVE Numbered'
  BY <1>1 DEF Numbered, OneCall, Issued, Behind
<1>2. ASSUME NEW p \in Procs, NEW c \in calls, Add(p, c) PROVE Numbered'
  BY <1>2, AddStep, NumberedPerform
<1>3. ASSUME NEW p \in Procs, NEW c \in calls, Delete(p, c) PROVE Numbered'
  BY <1>3, DeleteDone, NumberedPerform
<1>4. ASSUME NEW s \in Systems, NEW k \in Kinds, BeginAdd(s, k) PROVE Numbered'
  BY <1>4, NumberedBegin DEF BeginAdd
<1>5. ASSUME NEW s \in Systems, NEW h, NEW ok, BeginDelete(s, h, ok) PROVE Numbered'
  BY <1>5, NumberedBegin DEF BeginDelete
<1> QED BY <1>1, <1>2, <1>3, <1>4, <1>5 DEF Next, Get, vars

\* A member that waits for the root's broadcast gets the id that was sent for
\* this very call.
LEMMA BcastOfCall ==
    ASSUME Typed, Numbered, Ledger, NEW p \in Procs, NEW c \in calls, c.act = "add",
           TakesBcast(p, c.sys), NEW id \in NewId(p, c)
    PROVE  \E b \in sent : b.sys = c.sys /\ b.tag = c.tag /\ b.kind = c.kind /\ b.id = id
<1>1. PICK b \in sent : b.sys = c.sys /\ b.tag = c.tag /\ b.id = id
  BY DEF NewId
<1>2. PICK d \in calls : d.sys = b.sys /\ d.tag = b.tag /\ d.kind = b.kind
  BY DEF Ledger, Sent, CallOf
<1>3. d = c
  BY <1>1, <1>2 DEF Numbered, OneCall
<1> QED BY <1>1, <1>2, <1>3

LEMMA LedgerAdd ==
    ASSUME Typed, Numbered, Ledger, NEW p \in Procs, NEW c \in calls, Add(p, c)
    PROVE  Ledger'
<1> c \in Calls
  BY DEF Typed, TypeOK
<1>0. c.act = "add" /\ Performed(p, c) /\ \E id \in NewId(p, c), e \in Entries : Added(p, c, id, e)
  BY AddStep
<1>1. /\ UNCHANGED <<calls, issued>>
      /\ p \in Members[c.sys] /\ c.tag = done[c.sys][p] + 1 /\ c.act = "add"
      /\ \A s \in Systems, q \in Procs :
           done'[s][q] = IF s = c.sys /\ q = p THEN done[s][q] + 1 ELSE done[s][q]
  BY <1>0 DEF Performed
<1>b. PICK id \in NewId(p, c), e \in Entries : Added(p, c, id, e)
  BY <1>0
<1>2. /\ e.sys = c.sys /\ e.tag = c.tag /\ e.kind = c.kind /\ e.id = id
      /\ Bcast(p, c, id)
      /\ \A q \in Procs : handle'[q] = IF q = p THEN handle[q] \cup {e} ELSE handle[q]
      /\ \A q \in Procs : open'[q] = IF q = p THEN open[q] \cup {e} ELSE open[q]
      /\ \A q \in Procs, k \in Kinds :
           next'[q][k] = IF q = p /\ k = c.kind THEN id + 1 ELSE next[q][k]
  BY <1>b DEF Added
<1>a. \A q \in Procs : \A h \in handle'[q] : h \in handle[q] \/ (q = p /\ h = e)
  BY <1>2
<1>3. \A q \in Procs : \A h \in handle[q] : h.sys \in Systems /\ h.tag \in Nat
  BY DEF Typed, TypeOK, Entries
<1>4. \A b \in sent : b.sys \in Systems /\ b.tag \in Nat
  BY DEF Typed, TypeOK, Broadcasts
<1>5. c.sys \in Systems /\ \A s \in Systems, q \in Procs : done[s][q] \in Nat
  BY DEF Typed, TypeOK, Calls
<1>6. \A s \in Systems : IORoot[s] \in Procs
  BY TopologyAssumption
<1>7. Given'
  <2> SUFFICES ASSUME NEW q \in Procs, NEW h \in handle'[q]
               PROVE  q \in Members[h.sys] /\ h.tag <= done'[h.sys][q] /\ CallOf(h)'
    BY DEF Given
  <2>1. CASE h \in handle[q]
    <3>1. q \in Members[h.sys] /\ h.tag <= done[h.sys][q] /\ CallOf(h)
      BY <2>1 DEF Ledger, Given
    <3> QED BY <3>1, <2>1, <1>1, <1>3, <1>5 DEF CallOf
  <2>2. CASE h = e /\ q = p
    BY <2>2, <1>1, <1>2, <1>5 DEF CallOf
  <2> QED BY <1>2, <2>1, <2>2
<1>8. GivenOnce'
  <2>1. \A h \in handle[p] : h.sys = c.sys => h.tag # c.tag
    BY <1>1, <1>3, <1>5 DEF Ledger, Given
  <2> SUFFICES ASSUME NEW q \in Procs, NEW h \in handle'[q], NEW g \in handle'[q],
                      h.sys = g.sys, h.tag = g.tag
               PROVE  h = g
    BY DEF GivenOnce
  <2>2. CASE h \in handle[q] /\ g \in handle[q]
    BY <2>2 DEF Ledger, GivenOnce
  <2>3. CASE q = p /\ h = e /\ g \in handle[p]
    BY <2>1, <2>3, <1>2
  <2>4. CASE q = p /\ g = e /\ h \in handle[p]
    BY <2>1, <2>4, <1>2
  <2> QED BY <1>a, <2>2, <2>3, <2>4
<1>9. Listed'
  BY <1>2 DEF Listed, Ledger
<1>10. CASE c.sys \in Async /\ p = IORoot[c.sys]
  <2> DEFINE b == [sys |-> c.sys, tag |-> c.tag, kind |-> c.kind, id |-> id]
  <2>1. sent' = sent \cup {b}
    BY <1>2, <1>10 DEF Bcast
  <2>2. b.sys = c.sys /\ b.tag = c.tag /\ b.kind = c.kind /\ b.id = id
    OBVIOUS
  <2> HIDE DEF b
  <2>3. Sent'
    <3> SUFFICES ASSUME NEW d \in sent'
                 PROVE  d.sys \in Async /\ d.tag <= done'[d.sys][IORoot[d.sys]] /\ CallOf(d)'
      BY DEF Sent
    <3>1. CASE d \in sent
      <4>1. d.sys \in Async /\ d.tag <= done[d.sys][IORoot[d.sys]] /\ CallOf(d)
        BY <3>1 DEF Ledger, Sent
      <4> QED BY <4>1, <3>1, <1>1, <1>4, <1>5, <1>6 DEF CallOf
    <3>2. CASE d = b
      BY <3>2, <2>2, <1>1, <1>5, <1>10 DEF CallOf
    <3> QED BY <2>1, <3>1, <3>2
  <2>4. SentOnce'
    BY <2>1, <2>2, <1>1, <1>4, <1>5, <1>10 DEF SentOnce, Sent, Ledger
  <2>5. FromRoot'
    <3> SUFFICES ASSUME NEW q \in Procs, NEW h \in handle'[q], h.sys \in Async
                 PROVE  \E d \in sent' : d.sys = h.sys /\ d.tag = h.tag /\ d.kind = h.kind /\ d.id = h.id
      BY DEF FromRoot
    <3>1. CASE h \in handle[q]
      BY <3>1, <2>1 DEF Ledger, FromRoot
    <3>2. CASE h = e
      BY <3>2, <2>1, <2>2, <1>2
    <3> QED BY <1>a, <3>1, <3>2
  <2> QED BY <1>7, <1>8, <1>9, <2>3, <2>4, <2>5 DEF Ledger
<1>11. CASE ~(c.sys \in Async /\ p = IORoot[c.sys])
  <2>1. sent' = sent
    BY <1>2, <1>11 DEF Bcast
  <2>2. Sent'
    BY <2>1, <1>1, <1>4, <1>5, <1>6 DEF Ledger, Sent, CallOf
  <2>3. SentOnce'
    BY <2>1 DEF Ledger, SentOnce
  <2>4. c.sys \in Async => \E b \in sent : b.sys = c.sys /\ b.tag = c.tag /\ b.kind = c.kind /\ b.id = id
    BY <1>1, <1>11, BcastOfCall DEF TakesBcast
  <2>5. FromRoot'
    <3> SUFFICES ASSUME NEW q \in Procs, NEW h \in handle'[q], h.sys \in Async
                 PROVE  \E b \in sent : b.sys = h.sys /\ b.tag = h.tag /\ b.kind = h.kind /\ b.id = h.id
      BY <2>1 DEF FromRoot
    <3>1. CASE h \in handle[q]
      BY <3>1 DEF Ledger, FromRoot
    <3>2. CASE h = e
      BY <3>2, <2>4, <1>2
    <3> QED BY <1>2, <3>1, <3>2
  <2> QED BY <1>7, <1>8, <1>9, <2>2, <2>3, <2>5 DEF Ledger
<1> QED BY <1>10, <1>11

LEMMA LedgerDelete ==
    ASSUME Typed, Ledger, NEW p \in Procs, NEW c \in calls, Delete(p, c)
    PROVE  Ledger'
<1>0. Performed(p, c) /\ UNCHANGED <<sent, next, handle>> /\ \A q \in Procs : open'[q] \subseteq open[q]
  BY DeleteDone
<1>1. /\ UNCHANGED <<calls, issued, sent, next, handle>>
      /\ \A q \in Procs : open'[q] \subseteq open[q]
      /\ \A s \in Systems, q \in Procs :
           done'[s][q] = IF s = c.sys /\ q = p THEN done[s][q] + 1 ELSE done[s][q]
  BY <1>0 DEF Performed
<1>a. \A s \in Systems, q \in Procs : done[s][q] \in Nat
  BY DEF Typed, TypeOK
<1>2. \A s \in Systems, q \in Procs : done[s][q] \in Nat /\ done[s][q] <= done'[s][q] /\ done'[s][q] \in Nat
  BY <1>1, <1>a
<1>3. \A q \in Procs : \A h \in handle[q] : h.sys \in Systems /\ h.tag \in Nat
  BY DEF Typed, TypeOK, Entries
<1>4. \A b \in sent : b.sys \in Systems /\ b.tag \in Nat /\ IORoot[b.sys] \in Procs
  BY TopologyAssumption DEF Typed, TypeOK, Broadcasts
<1>5. Given'
  BY <1>1, <1>2, <1>3 DEF Given, Ledger, CallOf
<1>6. Sent'
  BY <1>1, <1>2, <1>4 DEF Sent, Ledger, CallOf
<1>7. GivenOnce' /\ Listed' /\ SentOnce' /\ FromRoot'
  BY <1>1 DEF GivenOnce, Listed, SentOnce, FromRoot, Ledger
<1> QED BY <1>5, <1>6, <1>7 DEF Ledger

LEMMA LedgerNext == Typed /\ Numbered /\ Ledger /\ [Next]_vars => Ledger'
<1> SUFFICES ASSUME Typed, Numbered, Ledger, [Next]_vars PROVE Ledger'
  OBVIOUS
<1>1. ASSUME calls \subseteq calls', UNCHANGED <<done, sent, open, handle>> PROVE Ledger'
  BY <1>1 DEF Ledger, Given, GivenOnce, Listed, Sent, SentOnce, FromRoot, CallOf
<1>2. ASSUME NEW s \in Systems, NEW act, NEW k, NEW of, NEW id, NEW ok, Begin(s, act, k, of, id, ok)
      PROVE  Ledger'
  BY <1>1, <1>2 DEF Begin
<1> QED BY <1>1, <1>2, LedgerAdd, LedgerDelete DEF Next, BeginAdd, BeginDelete, Get, vars

LEMMA LedgerInit == Init => Numbered /\ Ledger
<1> SUFFICES ASSUME Init PROVE Numbered /\ Ledger
  OBVIOUS
<1>1. Numbered
  BY DEF Init, Numbered, OneCall, Issued, Behind
<1>2. Ledger
  BY DEF Init, Ledger, Given, GivenOnce, Listed, Sent, SentOnce, FromRoot
<1> QED BY <1>1, <1>2

\* The tasks of an asynchronous system agree on the id of every file and
\* decomposition, whatever other systems the processes belong to.
THEOREM AlwaysAgreed == Spec => []Agreed
<1>1. Typed /\ Ledger => Agreed
  <2> SUFFICES ASSUME Typed, Ledger, NEW s \in Async, NEW p \in Members[s], NEW q \in Members[s],
                      NEW e \in handle[p], NEW f \in handle[q], e.sys = s, f.sys = s, e.tag = f.tag
               PROVE  e.id = f.id
    BY DEF Agreed
  <2>1. p \in Procs /\ q \in Procs
    BY TopologyAssumption
  <2> QED BY <2>1 DEF Ledger, FromRoot, SentOnce
<1> QED BY <1>1, TypedInit, LedgerInit, TypedNext, NumberedNext, LedgerNext, PTL DEF Spec

-----------------------------------------------------------------------------
(* Counters: if no process mixes systems with different counters, every    *)
(* counter is ahead of the ids taken from it, so that none is taken twice. *)

Ahead     == \A p \in Procs : \A h \in handle[p] : ~TakesBcast(p, h.sys) => h.id < next[p][h.kind]
SentAhead == \A b \in sent : b.id < next[IORoot[b.sys]][b.kind]
GivenIds  == \A p \in Procs : \A h, g \in handle[p] : h.kind = g.kind /\ h.id = g.id => h = g
SentIds   == \A b, d \in sent :
                IORoot[b.sys] = IORoot[d.sys] /\ b.kind = d.kind /\ b.id = d.id => b = d
Counted   == Ahead /\ SentAhead /\ GivenIds /\ SentIds

LEMMA CountedAdd ==
    ASSUME Unmixed, Typed, Numbered, Ledger, Counted, NEW p \in Procs, NEW c \in calls, Add(p, c)
    PROVE  Counted'
<1> c \in Calls
  BY DEF Typed, TypeOK
<1>0. c.act = "add" /\ Performed(p, c) /\ \E id \in NewId(p, c), e \in Entries : Added(p, c, id, e)
  BY AddStep
<1>1. /\ UNCHANGED <<calls, issued>>
      /\ p \in Members[c.sys] /\ c.tag = done[c.sys][p] + 1 /\ c.act = "add"
      /\ \A s \in Systems, q \in Procs :
           done'[s][q] = IF s = c.sys /\ q = p THEN done[s][q] + 1 ELSE done[s][q]
  BY <1>0 DEF Performed
<1>b. PICK id \in NewId(p, c), e \in Entries : Added(p, c, id, e)
  BY <1>0
<1>2. /\ e.sys = c.sys /\ e.tag = c.tag /\ e.kind = c.kind /\ e.id = id
      /\ Bcast(p, c, id)
      /\ \A q \in Procs : handle'[q] = IF q = p THEN handle[q] \cup {e} ELSE handle[q]
      /\ \A q \in Procs : open'[q] = IF q = p THEN open[q] \cup {e} ELSE open[q]
      /\ \A q \in Procs, k \in Kinds :
           next'[q][k] = IF q = p /\ k = c.kind THEN id + 1 ELSE next[q][k]
  BY <1>b DEF Added
<1>a. \A q \in Procs : \A h \in handle'[q] : h \in handle[q] \/ (q = p /\ h = e)
  BY <1>2
<1>3. \A q \in Procs : \A h \in handle[q] :
        h.sys \in Systems /\ h.tag \in Nat /\ h.kind \in Kinds /\ h.id \in Int /\ q \in Members[h.sys]
  BY DEF Typed, TypeOK, Entries, Ledger, Given
<1>4. \A b \in sent :
        b.sys \in Async /\ b.sys \in Systems /\ b.kind \in Kinds /\ b.id \in Int /\ b.tag \in Nat
  BY TopologyAssumption DEF Typed, TypeOK, Broadcasts, Ledger, Sent
<1>5. \A s \in Systems : IORoot[s] \in Procs /\ IORoot[s] \in Members[s]
  BY TopologyAssumption
<1>6. c.sys \in Systems /\ c.kind \in Kinds /\ id \in Int
  BY NewIdType DEF Calls, Typed
<1>7. \A q \in Procs, k \in Kinds : next[q][k] \in Int
  BY DEF Typed, TypeOK
<1>8. \A s \in Systems, q \in Procs : done[s][q] \in Nat
  BY DEF Typed, TypeOK
\* No other entry of this process, and no other broadcast of the same root,
\* has the new id.
<1>9. CASE ~TakesBcast(p, c.sys)
  <2>1. id = next[p][c.kind]
    BY <1>2, <1>9 DEF NewId
  <2>2. \A h \in handle[p] : ~TakesBcast(p, h.sys)
    BY <1>1, <1>3, <1>6, <1>9 DEF TakesBcast, Unmixed
  <2>3. \A h \in handle[p] : h.kind = c.kind => h.id < id
    BY <2>1, <2>2 DEF Counted, Ahead
  <2>4. \A b \in sent : IORoot[b.sys] = p /\ b.kind = c.kind => b.id < id
    BY <2>1 DEF Counted, SentAhead
  <2>5. Ahead'
    <3> SUFFICES ASSUME NEW q \in Procs, NEW h \in handle'[q], ~TakesBcast(q, h.sys)
                 PROVE  h.id < next'[q][h.kind]
      BY DEF Ahead, TakesBcast
    <3>1. CASE h \in handle[q] /\ q = p
      <4>1. h.id < next[q][h.kind]
        BY <3>1 DEF Counted, Ahead
      <4> QED BY <4>1, <3>1, <1>2, <1>3, <1>6, <1>7, <2>1
    <3>2. CASE q # p
      <4>1. h \in handle[q]
        BY <3>2, <1>2
      <4> QED BY <4>1, <3>2, <1>2, <1>3 DEF Counted, Ahead
    <3>3. CASE h = e /\ q = p
      BY <3>3, <1>2, <1>6
    <3> QED BY <3>1, <3>2, <3>3, <1>2
  <2>6. GivenIds'
    <3> SUFFICES ASSUME NEW q \in Procs, NEW h \in handle'[q], NEW g \in handle'[q],
                        h.kind = g.kind, h.id = g.id
                 PROVE  h = g
      BY DEF GivenIds
    <3>1. CASE h \in handle[q] /\ g \in handle[q]
      BY <3>1 DEF Counted, GivenIds
    <3>2. CASE q = p /\ h = e /\ g \in handle[p]
      BY <3>2, <2>3, <1>2, <1>3, <1>6
    <3>3. CASE q = p /\ g = e /\ h \in handle[p]
      BY <3>3, <2>3, <1>2, <1>3, <1>6
    <3> QED BY <3>1, <3>2, <3>3, <1>a
  <2>7. CASE c.sys \in Async /\ p = IORoot[c.sys]
    <3> DEFINE b == [sys |-> c.sys, tag |-> c.tag, kind |-> c.kind, id |-> id]
    <3>1. sent' = sent \cup {b}
      BY <1>2, <2>7 DEF Bcast
    <3>2. b.sys = c.sys /\ b.kind = c.kind /\ b.id = id
      OBVIOUS
    <3> HIDE DEF b
    <3>3. SentAhead'
      <4> SUFFICES ASSUME NEW d \in sent' PROVE d.id < next'[IORoot[d.sys]][d.kind]
        BY DEF SentAhead
      <4>1. CASE d \in sent
        <5>1. d.id < next[IORoot[d.sys]][d.kind]
          BY <4>1 DEF Counted, SentAhead
        <5> QED BY <5>1, <4>1, <1>2, <1>4, <1>5, <1>6, <1>7, <2>1
      <4>2. CASE d = b
        BY <4>2, <3>2, <1>2, <1>5, <1>6, <2>7
      <4> QED BY <3>1, <4>1, <4>2
    <3>4. SentIds'
      <4> SUFFICES ASSUME NEW d \in sent', NEW f \in sent', IORoot[d.sys] = IORoot[f.sys],
                          d.kind = f.kind, d.id = f.id
                   PROVE  d = f
        BY DEF SentIds
      <4>1. CASE d \in sent /\ f \in sent
        BY <4>1 DEF Counted, SentIds
      <4>2. CASE d = b \/ f = b
        BY <4>2, <3>1, <3>2, <2>4, <2>7, <1>4, <1>6
      <4> QED BY <3>1, <4>1, <4>2
    <3> QED BY <2>5, <2>6, <3>3, <3>4 DEF Counted
  <2>8. CASE c.sys \notin Async
    <3>1. sent' = sent
      BY <1>2, <2>8 DEF Bcast
    <3>2. SentAhead'
      <4> SUFFICES ASSUME NEW d \in sent PROVE d.id < next'[IORoot[d.sys]][d.kind]
        BY <3>1 DEF SentAhead
      <4>1. d.id < next[IORoot[d.sys]][d.kind]
        BY DEF Counted, SentAhead
      <4> QED BY <4>1, <1>2, <1>4, <1>5, <1>6, <1>7, <2>1
    <3>3. SentIds'
      BY <3>1 DEF Counted, SentIds
    <3> QED BY <2>5, <2>6, <3>2, <3>3 DEF Counted
  <2> QED BY <2>7, <2>8, <1>9 DEF TakesBcast
<1>10. CASE TakesBcast(p, c.sys)
  <2>1. PICK b \in sent : b.sys = c.sys /\ b.tag = c.tag /\ b.kind = c.kind /\ b.id = id
    BY <1>1, <1>10, BcastOfCall
  <2>2. sent' = sent
    BY <1>2, <1>10 DEF Bcast, TakesBcast
  \* This process takes all its ids from the root, and is itself no root.
  <2>3. \A s \in Systems : p \in Members[s] => s \in Async /\ IORoot[s] = IORoot[c.sys] /\ TakesBcast(p, s)
    BY <1>1, <1>6, <1>10 DEF TakesBcast, Unmixed
  <2>4. \A s \in Systems : IORoot[s] # p
    BY <2>3, <1>5 DEF TakesBcast
  <2>5. Ahead'
    <3> SUFFICES ASSUME NEW q \in Procs, NEW h \in handle'[q], ~TakesBcast(q, h.sys)
                 PROVE  h.id < next'[q][h.kind]
      BY DEF Ahead, TakesBcast
    <3>1. q # p
      <4>1. CASE h \in handle[q]
        BY <4>1, <1>3, <2>3
      <4>2. CASE q = p /\ h = e
        BY <4>2, <1>1, <1>2, <1>6, <2>3
      <4> QED BY <4>1, <4>2, <1>a
    <3>2. h \in handle[q]
      BY <3>1, <1>2
    <3> QED BY <3>1, <3>2, <1>2, <1>3 DEF Counted, Ahead
  <2>6. SentAhead'
    BY <2>2, <2>4, <1>2, <1>4, <1>5 DEF Counted, SentAhead
  <2>7. SentIds'
    BY <2>2 DEF Counted, SentIds
  <2>8. \A h \in handle[p] : ~(h.kind = c.kind /\ h.id = id)
    <3> SUFFICES ASSUME NEW h \in handle[p], h.kind = c.kind, h.id = id PROVE FALSE
      OBVIOUS
    <3>1. h.sys \in Async /\ IORoot[h.sys] = IORoot[c.sys]
      BY <2>3, <1>3
    <3>2. PICK d \in sent : d.sys = h.sys /\ d.tag = h.tag /\ d.kind = h.kind /\ d.id = h.id
      BY <3>1 DEF Ledger, FromRoot
    <3>3. d = b
      BY <2>1, <3>1, <3>2 DEF Counted, SentIds
    <3>4. h.tag <= done[h.sys][p]
      BY DEF Ledger, Given
    <3> QED BY <2>1, <3>2, <3>3, <3>4, <1>1, <1>6, <1>8
  <2>9. GivenIds'
    <3> SUFFICES ASSUME NEW q \in Procs, NEW h \in handle'[q], NEW g \in handle'[q],
                        h.kind = g.kind, h.id = g.id
                 PROVE  h = g
      BY DEF GivenIds
    <3>1. CASE h \in handle[q] /\ g \in handle[q]
      BY <3>1 DEF Counted, GivenIds
    <3>2. CASE q = p /\ h = e /\ g \in handle[p]
      BY <3>2, <2>8, <1>2
    <3>3. CASE q = p /\ g = e /\ h \in handle[p]
      BY <3>3, <2>8, <1>2
    <3> QED BY <3>1, <3>2, <3>3, <1>a
  <2> QED BY <2>5, <2>6, <2>7, <2>9 DEF Counted
<1> QED BY <1>9, <1>10

LEMMA CountedNext ==
    ASSUME Unmixed
    PROVE  Typed /\ Numbered /\ Ledger /\ Counted /\ [Next]_vars => Counted'
<1> SUFFICES ASSUME Typed, Numbered, Ledger, Counted, [Next]_vars PROVE Counted'
  OBVIOUS
<1>1. ASSUME UNCHANGED <<sent, next, handle>> PROVE Counted'
  BY <1>1 DEF Counted, Ahead, SentAhead, GivenIds, SentIds, TakesBcast
<1>2. ASSUME NEW p \in Procs, NEW c \in calls, Delete(p, c) PROVE Counted'
  BY <1>1, <1>2 DEF Delete
<1> QED BY <1>1, <1>2, CountedAdd DEF Next, BeginAdd, BeginDelete, Begin, Get, vars

\* If no process mixes systems that count ids differently, an id names one
\* open file and one decomposition in every process: the counters that the
\* processes and the roots advance never give an id twice.
THEOREM IdsAreDistinct ==
    ASSUME Unmixed
    PROVE  Spec => []Distinct
<1>1. Init => Counted
  BY DEF Init, Counted, Ahead, SentAhead, GivenIds, SentIds
<1>2. Ledger /\ Counted => Distinct
  BY DEF Ledger, Listed, Counted, GivenIds, Distinct
<1>3. Typed /\ Numbered /\ Ledger /\ Counted /\ [Next]_vars => Counted'
  BY CountedNext
<1> QED BY <1>1, <1>2, <1>3, TypedInit, LedgerInit, TypedNext, NumberedNext, LedgerNext, PTL DEF Spec

-----------------------------------------------------------------------------
(* The lists are what the program says *)

DeletedBy(s, n, t) == \E d \in calls : d.sys = s /\ d.act = "delete" /\ d.ok /\ d.tag <= n /\ d.of = t

\* A deletion is aimed at a descriptor that the calls before it leave open,
\* and carries the id that comproot has for it.
Aimed ==
    \A d \in calls : d.act = "delete" =>
        /\ \E c \in calls : c.sys = d.sys /\ c.tag = d.of /\ c.kind = d.kind /\ c.act = "add"
        /\ d.of \in Live(d.sys, d.tag - 1)
        /\ d.sys \in Async => \E h \in handle[CompRoot[d.sys]] : h.sys = d.sys /\ h.tag = d.of /\ h.id = d.id

Base == Typed /\ Numbered /\ Ledger /\ Counted /\ NoDangling

LEMMA LiveMember ==
    ASSUME NEW s, NEW n, NEW t
    PROVE  t \in Live(s, n) <=>
             /\ \E c \in calls : c.sys = s /\ c.act = "add" /\ c.tag = t
             /\ t <= n
             /\ ~DeletedBy(s, n, t)
  BY DEF Live, DeletedBy

\* A new call does not change what the calls before it leave open.
LEMMA LiveStable ==
    ASSUME Typed, Numbered, NEW s \in Systems, NEW act, NEW k, NEW of, NEW id, NEW ok,
           Begin(s, act, k, of, id, ok),
           NEW t \in Systems, NEW n \in Int, n <= issued[t]
    PROVE  Live(t, n)' = Live(t, n)
<1> DEFINE c == [sys |-> s, tag |-> issued[s] + 1, act |-> act, kind |-> k, of |-> of, id |-> id, ok |-> ok]
<1>1. calls' = calls \cup {c} /\ c.sys = s /\ c.tag = issued[s] + 1
  BY DEF Begin
<1>2. c.sys = t => ~(c.tag <= n)
  BY <1>1 DEF Typed, TypeOK
<1> HIDE DEF c
<1> QED BY <1>1, <1>2 DEF Live

\* The next call adds its number, or removes the number it is aimed at.
LEMMA LiveNext ==
    ASSUME Typed, Numbered, Aimed, NEW c \in calls, NEW n \in Nat, c.tag = n + 1
    PROVE  Live(c.sys, n + 1) = IF c.act = "add" THEN Live(c.sys, n) \cup {c.tag}
                                ELSE IF c.ok THEN Live(c.sys, n) \ {c.of} ELSE Live(c.sys, n)
<1> c \in Calls /\ c.sys \in Systems
  BY DEF Typed, TypeOK, Calls
<1>1. \A d \in calls : d.tag \in Nat
  BY DEF Typed, TypeOK, Calls
<1>2. \A d \in calls : d.sys = c.sys /\ d.tag <= n + 1 <=> d = c \/ (d.sys = c.sys /\ d.tag <= n)
  BY <1>1 DEF Numbered, OneCall
<1>3. CASE c.act = "add"
  <2>1. ASSUME NEW t PROVE DeletedBy(c.sys, n + 1, t) <=> DeletedBy(c.sys, n, t)
    BY <1>2, <1>3 DEF DeletedBy
  <2>2. ~DeletedBy(c.sys, n, c.tag)
    <3> SUFFICES ASSUME NEW d \in calls, d.sys = c.sys, d.act = "delete", d.tag <= n, d.of = c.tag
                 PROVE  FALSE
      BY DEF DeletedBy
    <3>1. d.of <= d.tag - 1
      BY LiveMember DEF Aimed
    <3> QED BY <3>1, <1>1
  <2>3. ASSUME NEW t PROVE t \in Live(c.sys, n + 1) <=> t \in Live(c.sys, n) \/ t = c.tag
    BY <1>2, <1>3, <2>1, <2>2, LiveMember
  <2> QED BY <2>3, <1>3
<1>4. CASE c.act = "delete"
  <2>1. ASSUME NEW t PROVE DeletedBy(c.sys, n + 1, t) <=> DeletedBy(c.sys, n, t) \/ (c.ok /\ t = c.of)
    BY <1>2, <1>4 DEF DeletedBy
  <2>2. ASSUME NEW t PROVE t \in Live(c.sys, n + 1) <=> t \in Live(c.sys, n) /\ ~(c.ok /\ t = c.of)
    BY <1>2, <1>4, <2>1, LiveMember
  <2> QED BY <2>2, <1>4
<1> QED BY <1>3, <1>4 DEF Calls

\* A member that performs a deletion finds the descriptor that the call is
\* aimed at, and no other.
LEMMA FindsTarget ==
    ASSUME Base, Aimed, ListIsProgram, NEW p \in Procs, NEW c \in calls, c.act = "delete",
           p \in Members[c.sys], c.tag = done[c.sys][p] + 1,
           NEW id \in DeletedId(p, c), NEW e \in Hit(p, c.kind, id)
    PROVE  e \in open[p] /\ e.sys = c.sys /\ e.tag = c.of
<1> c \in Calls /\ c.sys \in Systems /\ c.kind \in Kinds
  BY DEF Base, Typed, TypeOK, Calls
<1>1. done[c.sys][p] \in Nat
  BY DEF Base, Typed, TypeOK
<1>2. c.of \in Live(c.sys, done[c.sys][p])
  BY <1>1 DEF Aimed
<1>3. PICK f \in open[p] : f.sys = c.sys /\ f.tag = c.of
  BY <1>2 DEF ListIsProgram
<1>4. f \in handle[p]
  BY DEF Base, Ledger, Listed
<1>5. f.kind = c.kind
  <2>1. PICK d \in calls : d.sys = f.sys /\ d.tag = f.tag /\ d.kind = f.kind
    BY <1>4 DEF Base, Ledger, Given, CallOf
  <2>2. PICK a \in calls : a.sys = c.sys /\ a.tag = c.of /\ a.kind = c.kind
    BY DEF Aimed
  <2> QED BY <2>1, <2>2, <1>3 DEF Base, Numbered, OneCall
<1>6. id = f.id
  <2>1. CASE c.sys \in Async /\ p \in IOTasks[c.sys]
    <3>1. id = c.id
      BY <2>1 DEF DeletedId
    <3>2. CompRoot[c.sys] \in Procs
      BY TopologyAssumption
    <3>3. PICK h \in handle[CompRoot[c.sys]] : h.sys = c.sys /\ h.tag = c.of /\ h.id = c.id
      BY <2>1 DEF Aimed
    <3>4. PICK b \in sent : b.sys = h.sys /\ b.tag = h.tag /\ b.id = h.id
      BY <2>1, <3>2, <3>3 DEF Base, Ledger, FromRoot
    <3>5. PICK d \in sent : d.sys = f.sys /\ d.tag = f.tag /\ d.id = f.id
      BY <2>1, <1>3, <1>4 DEF Base, Ledger, FromRoot
    <3>6. b = d
      BY <1>3, <3>3, <3>4, <3>5 DEF Base, Ledger, SentOnce
    <3> QED BY <3>1, <3>3, <3>4, <3>5, <3>6
  <2>2. CASE ~(c.sys \in Async /\ p \in IOTasks[c.sys])
    <3>1. PICK h \in handle[p] : h.sys = c.sys /\ h.tag = c.of /\ h.id = id
      BY <2>2 DEF DeletedId
    <3> QED BY <3>1, <1>3, <1>4 DEF Base, Ledger, GivenOnce
  <2> QED BY <2>1, <2>2
<1>7. f \in {g \in OfKind(open[p], c.kind) : g.id = id}
  BY <1>5, <1>6 DEF OfKind
<1>8. Found(p, c.kind, id) # {}
  BY <1>7 DEF Found
<1>9. e \in Found(p, c.kind, id)
  BY <1>8 DEF Hit
<1>10. e \in OfKind(open[p], c.kind) /\ e.id = id
  BY <1>9 DEF Found, Base, NoDangling
<1>11. e = f
  BY <1>4, <1>5, <1>6, <1>10 DEF OfKind, Base, Ledger, Listed, Counted, GivenIds
<1> QED BY <1>3, <1>11

LEMMA ListBegin ==
    ASSUME Base, Aimed, ListIsProgram, NEW s \in Systems, NEW act, NEW k, NEW of, NEW id, NEW ok,
           Begin(s, act, k, of, id, ok)
    PROVE  ListIsProgram'
<1>1. UNCHANGED <<open, done>>
  BY DEF Begin
<1> SUFFICES ASSUME NEW t \in Systems, NEW p \in Members[t]
             PROVE  {e.tag : e \in {e \in open[p] : e.sys = t}} = Live(t, done[t][p])'
  BY <1>1 DEF ListIsProgram
<1>2. p \in Procs
  BY TopologyAssumption
<1>3. done[t][p] \in Int /\ done[t][p] <= issued[t]
  BY <1>2 DEF Base, Typed, TypeOK, Numbered, Behind
<1>4. Live(t, done[t][p])' = Live(t, done[t][p])
  <2>1. \A n \in Int : n <= issued[t] => Live(t, n)' = Live(t, n)
    BY LiveStable DEF Base
  <2> QED BY <2>1, <1>1, <1>3 DEF Live
<1> QED BY <1>4 DEF ListIsProgram

LEMMA AimedOld ==
    ASSUME Base, Aimed, NEW s \in Systems, NEW act, NEW k, NEW of, NEW id, NEW ok,
           Begin(s, act, k, of, id, ok), NEW d \in calls, d.act = "delete"
    PROVE  /\ \E c \in calls' : c.sys = d.sys /\ c.tag = d.of /\ c.kind = d.kind /\ c.act = "add"
           /\ d.of \in Live(d.sys, d.tag - 1)'
           /\ d.sys \in Async => \E h \in handle'[CompRoot[d.sys]] : h.sys = d.sys /\ h.tag = d.of /\ h.id = d.id
<1>1. calls \subseteq calls' /\ handle' = handle
  BY DEF Begin
<1>2. d.sys \in Systems /\ d.tag - 1 \in Int /\ d.tag - 1 <= issued[d.sys]
  BY DEF Base, Typed, TypeOK, Calls, Numbered, Issued
<1>3. Live(d.sys, d.tag - 1)' = Live(d.sys, d.tag - 1)
  BY <1>2, LiveStable DEF Base
<1> QED BY <1>1, <1>3 DEF Aimed

LEMMA AimedBeginDelete ==
    ASSUME Base, Aimed, ListIsProgram, NEW s \in Systems, NEW h \in handle[Caller(s)], NEW ok \in BOOLEAN,
           BeginDelete(s, h, ok)
    PROVE  Aimed'
<1>0. PICK n \in Nat : n = issued[s]
  BY DEF Base, Typed, TypeOK
<1> DEFINE c == [sys |-> s, tag |-> n + 1, act |-> "delete", kind |-> h.kind, of |-> h.tag,
                 id |-> h.id, ok |-> ok]
<1>1. Begin(s, "delete", h.kind, h.tag, h.id, ok) /\ h.sys = s
  BY DEF BeginDelete
<1>2. /\ calls' = calls \cup {c} /\ handle' = handle /\ done[s][Caller(s)] = issued[s]
      /\ c.sys = s /\ c.tag = n + 1 /\ c.kind = h.kind /\ c.of = h.tag /\ c.id = h.id
  BY <1>0, <1>1 DEF Begin
<1> HIDE DEF c
<1>3. Caller(s) \in Procs /\ Caller(s) \in Members[s]
  BY TopologyAssumption DEF Caller
<1>4. h \in Entries
  BY <1>3 DEF Base, Typed, TypeOK
<1>5. h \in open[Caller(s)]
  <2>1. PICK e \in Found(Caller(s), h.kind, h.id) : e.sys = s
    BY DEF BeginDelete
  <2>2. e \in OfKind(open[Caller(s)], h.kind) /\ e.id = h.id
    BY <2>1, <1>3, <1>4 DEF Found, Base, NoDangling, Entries
  <2>3. e = h
    BY <2>2, <1>3 DEF OfKind, Base, Ledger, Listed, Counted, GivenIds
  <2> QED BY <2>2, <2>3 DEF OfKind
<1>6. h.tag \in Live(s, n)
  BY <1>0, <1>1, <1>2, <1>3, <1>5 DEF ListIsProgram
<1>7. c.of \in Live(s, c.tag - 1)'
  <2>1. Live(s, n)' = Live(s, n)
    BY <1>0, <1>1, LiveStable DEF Base
  <2>2. c.tag - 1 = n
    BY <1>2
  <2> QED BY <2>1, <2>2, <1>2, <1>6
<1>8. \E a \in calls' : a.sys = c.sys /\ a.tag = c.of /\ a.kind = c.kind /\ a.act = "add"
  BY <1>1, <1>2, <1>3 DEF Base, Ledger, Given, CallOf
<1>9. c.sys \in Async => \E g \in handle'[CompRoot[c.sys]] : g.sys = c.sys /\ g.tag = c.of /\ g.id = c.id
  BY <1>1, <1>2 DEF Caller
<1> SUFFICES ASSUME NEW d \in calls', d.act = "delete"
             PROVE  /\ \E a \in calls' : a.sys = d.sys /\ a.tag = d.of /\ a.kind = d.kind /\ a.act = "add"
                    /\ d.of \in Live(d.sys, d.tag - 1)'
                    /\ d.sys \in Async => \E g \in handle'[CompRoot[d.sys]] :
                                            g.sys = d.sys /\ g.tag = d.of /\ g.id = d.id
  BY DEF Aimed
<1>10. CASE d \in calls
  BY <1>1, <1>10, AimedOld
<1>11. CASE d = c
  BY <1>2, <1>7, <1>8, <1>9, <1>11
<1> QED BY <1>2, <1>10, <1>11

LEMMA ListAdd ==
    ASSUME Base, Aimed, ListIsProgram, NEW p \in Procs, NEW c \in calls, Add(p, c)
    PROVE  ListIsProgram'
<1> c \in Calls /\ c.sys \in Systems
  BY DEF Base, Typed, TypeOK, Calls
<1>0. c.act = "add" /\ Performed(p, c) /\ \E id \in NewId(p, c), e \in Entries : Added(p, c, id, e)
  BY AddStep DEF Base
<1>1. /\ calls' = calls
      /\ p \in Members[c.sys] /\ c.tag = done[c.sys][p] + 1 /\ c.act = "add"
      /\ \A s \in Systems, q \in Procs :
           done'[s][q] = IF s = c.sys /\ q = p THEN done[s][q] + 1 ELSE done[s][q]
  BY <1>0 DEF Performed
<1>b. PICK id \in NewId(p, c), e \in Entries : Added(p, c, id, e)
  BY <1>0
<1>2. /\ e.sys = c.sys /\ e.tag = c.tag /\ e.kind = c.kind /\ e.id = id
      /\ Bcast(p, c, id)
      /\ \A q \in Procs : handle'[q] = IF q = p THEN handle[q] \cup {e} ELSE handle[q]
      /\ \A q \in Procs : open'[q] = IF q = p THEN open[q] \cup {e} ELSE open[q]
      /\ \A q \in Procs, k \in Kinds :
           next'[q][k] = IF q = p /\ k = c.kind THEN id + 1 ELSE next[q][k]
  BY <1>b DEF Added
<1>3. done[c.sys][p] \in Nat
  BY DEF Base, Typed, TypeOK
<1>4. Live(c.sys, done[c.sys][p] + 1) = Live(c.sys, done[c.sys][p]) \cup {c.tag}
  BY <1>1, <1>3, LiveNext DEF Base
<1> SUFFICES ASSUME NEW s \in Systems, NEW q \in Members[s]
             PROVE  {f.tag : f \in {f \in open'[q] : f.sys = s}} = Live(s, done'[s][q])
  BY <1>1 DEF ListIsProgram, Live
<1>5. q \in Procs
  BY TopologyAssumption
<1>6. {f.tag : f \in {f \in open[q] : f.sys = s}} = Live(s, done[s][q])
  BY DEF ListIsProgram
<1>7. CASE s = c.sys /\ q = p
  <2>1. {f.tag : f \in {f \in open'[q] : f.sys = s}} = {f.tag : f \in {f \in open[q] : f.sys = s}} \cup {c.tag}
    <3>1. {f \in open'[q] : f.sys = s} = {f \in open[q] : f.sys = s} \cup {e}
      BY <1>2, <1>5, <1>7
    <3> QED BY <3>1, <1>2
  <2> QED BY <2>1, <1>1, <1>4, <1>5, <1>6, <1>7
<1>8. CASE ~(s = c.sys /\ q = p)
  <2>1. {f \in open'[q] : f.sys = s} = {f \in open[q] : f.sys = s}
    BY <1>2, <1>5, <1>8
  <2> QED BY <2>1, <1>1, <1>5, <1>6, <1>8
<1> QED BY <1>7, <1>8

LEMMA ListDelete ==
    ASSUME Base, Aimed, ListIsProgram, NEW p \in Procs, NEW c \in calls, Delete(p, c)
    PROVE  ListIsProgram'
<1> c \in Calls /\ c.sys \in Systems
  BY DEF Base, Typed, TypeOK, Calls
<1>0. c.act = "delete" /\ Performed(p, c)
  BY DeleteDone DEF Base
<1>1. /\ calls' = calls
      /\ p \in Members[c.sys] /\ c.tag = done[c.sys][p] + 1 /\ c.act = "delete"
      /\ \A s \in Systems, q \in Procs :
           done'[s][q] = IF s = c.sys /\ q = p THEN done[s][q] + 1 ELSE done[s][q]
  BY <1>0 DEF Performed
<1>2. PICK id \in DeletedId(p, c) : \E e \in Hit(p, c.kind, id) :
        open' = [open EXCEPT ![p] = IF c.ok THEN @ \ {e} ELSE @]
  BY DeleteStep DEF Base, Typed
<1>3. PICK e \in Hit(p, c.kind, id) : open' = [open EXCEPT ![p] = IF c.ok THEN @ \ {e} ELSE @]
  BY <1>2
<1>4. e \in open[p] /\ e.sys = c.sys /\ e.tag = c.of
  BY <1>1, FindsTarget
<1>5. \A f \in open[p] : f.sys = c.sys /\ f.tag = c.of => f = e
  BY <1>4 DEF Base, Ledger, Listed, GivenOnce
<1>6. done[c.sys][p] \in Nat
  BY DEF Base, Typed, TypeOK
<1>7. Live(c.sys, done[c.sys][p] + 1) =
        IF c.ok THEN Live(c.sys, done[c.sys][p]) \ {c.of} ELSE Live(c.sys, done[c.sys][p])
  BY <1>1, <1>6, LiveNext DEF Base
<1>8. \A q \in Procs : open'[q] = IF q = p /\ c.ok THEN open[q] \ {e} ELSE open[q]
  BY <1>3 DEF Base, Typed, TypeOK
<1> SUFFICES ASSUME NEW s \in Systems, NEW q \in Members[s]
             PROVE  {f.tag : f \in {f \in open'[q] : f.sys = s}} = Live(s, done'[s][q])
  BY <1>1 DEF ListIsProgram, Live
<1>9. q \in Procs
  BY TopologyAssumption
<1>10. {f.tag : f \in {f \in open[q] : f.sys = s}} = Live(s, done[s][q])
  BY DEF ListIsProgram
<1>11. CASE s = c.sys /\ q = p /\ c.ok
  <2>1. {f.tag : f \in {f \in open'[q] : f.sys = s}} = {f.tag : f \in {f \in open[q] : f.sys = s}} \ {c.of}
    <3>1. {f \in open'[q] : f.sys = s} = {f \in open[q] : f.sys = s} \ {e}
      BY <1>8, <1>9, <1>11
    <3>2. \A f \in {f \in open[q] : f.sys = s} : f.tag = c.of <=> f = e
      BY <1>4, <1>5, <1>11
    <3> QED BY <3>1, <3>2
  <2> QED BY <2>1, <1>1, <1>7, <1>9, <1>10, <1>11
<1>12. CASE ~(s = c.sys /\ q = p /\ c.ok)
  <2>1. {f \in open'[q] : f.sys = s} = {f \in open[q] : f.sys = s}
    BY <1>4, <1>8, <1>9, <1>12
  <2>2. Live(s, done'[s][q]) = Live(s, done[s][q])
    BY <1>1, <1>7, <1>9, <1>12
  <2> QED BY <2>1, <2>2, <1>10
<1> QED BY <1>11, <1>12

LEMMA AimedPerform ==
    ASSUME Base, Aimed, calls' = calls, \A p \in Procs : handle[p] \subseteq handle'[p]
    PROVE  Aimed'
<1>1. \A d \in calls : d.sys \in Systems => CompRoot[d.sys] \in Procs
  BY TopologyAssumption
<1>2. \A d \in calls : d.sys \in Systems
  BY DEF Base, Typed, TypeOK, Calls
<1>3. \A s, n : Live(s, n)' = Live(s, n)
  BY DEF Live
<1> QED BY <1>1, <1>2, <1>3 DEF Aimed

LEMMA ListNext ==
    ASSUME Base, Aimed, ListIsProgram, [Next]_vars
    PROVE  Aimed' /\ ListIsProgram'
<1>1. ASSUME UNCHANGED <<calls, done, open, handle>> PROVE Aimed' /\ ListIsProgram'
  BY <1>1, AimedPerform DEF ListIsProgram, Live
<1>2. ASSUME NEW s \in Systems, NEW k \in Kinds, BeginAdd(s, k) PROVE Aimed' /\ ListIsProgram'
  <2>1. Begin(s, "add", k, 0, 0, TRUE)
    BY <1>2, Zenon DEF BeginAdd
  <2>2. ListIsProgram'
    BY <2>1, ListBegin, Zenon
  <2>3. \A d \in calls' : d.act = "delete" => d \in calls
    BY <2>1 DEF Begin
  <2>4. Aimed'
    BY <2>1, <2>3, AimedOld DEF Aimed
  <2> QED BY <2>2, <2>4
<1>3. ASSUME NEW s \in Systems, NEW h \in handle[Caller(s)], NEW ok \in BOOLEAN, BeginDelete(s, h, ok)
      PROVE  Aimed' /\ ListIsProgram'
  <2>1. ListIsProgram'
    BY <1>3, ListBegin DEF BeginDelete
  <2> QED BY <2>1, <1>3, AimedBeginDelete
<1>4. ASSUME NEW p \in Procs, NEW c \in calls, Add(p, c) PROVE Aimed' /\ ListIsProgram'
  <2>1. calls' = calls /\ \A q \in Procs : handle[q] \subseteq handle'[q]
    BY <1>4, AddStep DEF Base, Performed
  <2> QED BY <2>1, <1>4, AimedPerform, ListAdd
<1>5. ASSUME NEW p \in Procs, NEW c \in calls, Delete(p, c) PROVE Aimed' /\ ListIsProgram'
  <2>1. calls' = calls /\ \A q \in Procs : handle[q] \subseteq handle'[q]
    BY <1>5 DEF Delete
  <2> QED BY <2>1, <1>5, AimedPerform, ListDelete
<1> QED BY <1>1, <1>2, <1>3, <1>4, <1>5 DEF Next, Get, vars

\* If no process mixes systems that count ids differently, closing a file or
\* freeing a decomposition removes that descriptor and no other on every
\* member, the I/O tasks that know it only by the id in the message included.
THEOREM ListsFollowProgram ==
    ASSUME Unmixed
    PROVE  Spec => []ListIsProgram
<1>1. Init => Counted /\ NoDangling
  BY DEF Init, Counted, Ahead, SentAhead, GivenIds, SentIds, NoDangling
<1>2. Init => Aimed /\ ListIsProgram
  <2> SUFFICES ASSUME Init PROVE Aimed /\ ListIsProgram
    OBVIOUS
  <2>1. calls = {} /\ \A p \in Procs : open[p] = {}
    BY DEF Init
  <2>2. \A s, n : Live(s, n) = {}
    BY <2>1 DEF Live
  <2>3. \A s \in Systems : \A p \in Members[s] : {e.tag : e \in {e \in open[p] : e.sys = s}} = {}
    BY <2>1, TopologyAssumption
  <2> QED BY <2>1, <2>2, <2>3 DEF Aimed, ListIsProgram
<1>3. Base /\ [Next]_vars => Base'
  BY TypedNext, NumberedNext, LedgerNext, CountedNext, NoDanglingNext DEF Base
<1>4. Init => Base
  BY <1>1, TypedInit, LedgerInit DEF Base
<1>5. Base /\ Aimed /\ ListIsProgram /\ [Next]_vars => Aimed' /\ ListIsProgram'
  BY ListNext
<1> QED BY <1>2, <1>3, <1>4, <1>5, PTL DEF Spec
=============================================================================
