----------------------------- MODULE RemoteCalls ----------------------------
(***************************************************************************)
(* What asynchronous mode promises its callers: the I/O service is a       *)
(* procedure that each component calls remotely.  A call is issued once,   *)
(* performed once and in the order of issue within its component, and the  *)
(* code that each task of the component gets is the code of that           *)
(* performance.  Calls that have no code to share may return before they   *)
(* are performed; they return "ok".                                        *)
(***************************************************************************)
EXTENDS Naturals, Sequences

CONSTANTS Callers,          \* <<component, task>>
          Components,
          Calls,            \* [msg, given]
          HasCode(_),       \* whether such a call has a code to share
          Codes

VARIABLES issued,           \* [Components -> Seq of calls]
          performed,        \* [Components -> Seq of [call, code]]
          returned          \* [Callers -> Seq of [call, code]]

rvars == <<issued, performed, returned>>

Outcome(call, code) == [call |-> call, code |-> code]

Init ==
    /\ issued = [c \in Components |-> <<>>]
    /\ performed = [c \in Components |-> <<>>]
    /\ returned = [t \in Callers |-> <<>>]

Issue(c) ==
    /\ \E call \in Calls : issued' = [issued EXCEPT ![c] = Append(@, call)]
    /\ UNCHANGED <<performed, returned>>

Perform(c) ==
    /\ Len(performed[c]) < Len(issued[c])
    /\ \E code \in Codes :
          performed' = [performed EXCEPT ![c] =
                          Append(@, Outcome(issued[c][Len(@) + 1], code))]
    /\ UNCHANGED <<issued, returned>>

Return(t) ==
    LET c == t[1]
        n == Len(returned[t]) + 1
    IN  /\ n <= Len(issued[c])
        /\ \E code \in Codes :
              /\ returned' = [returned EXCEPT ![t] =
                                Append(@, Outcome(issued[c][n], code))]
              /\ IF HasCode(issued[c][n])
                 THEN n <= Len(performed[c]) /\ performed[c][n].code = code
                 ELSE code = "ok"
        /\ UNCHANGED <<issued, performed>>

Next ==
    \/ \E c \in Components : Issue(c) \/ Perform(c)
    \/ \E t \in Callers : Return(t)

Spec == Init /\ [][Next]_rvars
=============================================================================
