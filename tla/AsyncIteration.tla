---------------------------- MODULE AsyncIteration ----------------------------
(***************************************************************************)
(* What the operations of an async generator, the objects that __anext__,  *)
(* asend, athrow and aclose give, promise to each other: one operation at  *)
(* a time uses the generator, and it is done with it only when the body    *)
(* has come to a yield or to its end.                                      *)
(***************************************************************************)
CONSTANTS Asyncgens, Ops

VARIABLES
    users,   \* the operations that have begun and are not over, for each generator
    midway,  \* the generators whose body is neither at a yield, nor new, nor at its end
    lost     \* the generators that were left midway

vars == <<users, midway, lost>>

Init ==
    /\ users = [g \in Asyncgens |-> {}]
    /\ midway = {}
    /\ lost = {}

Begin(g, o) ==
    /\ users[g] = {} /\ g \notin midway
    /\ users' = [users EXCEPT ![g] = {o}]
    /\ UNCHANGED <<midway, lost>>

\* The body runs, on behalf of the operation.
Resume(g) ==
    /\ users[g] # {}
    /\ midway' = midway \cup {g}
    /\ UNCHANGED <<users, lost>>

Rest(g) ==
    /\ midway' = midway \ {g}
    /\ UNCHANGED <<users, lost>>

End(g) ==
    /\ g \notin midway
    /\ users' = [users EXCEPT ![g] = {}]
    /\ UNCHANGED <<midway, lost>>

\* The body awaits something in answer to GeneratorExit.
Abandon(g) ==
    /\ g \in midway
    /\ lost' = lost \cup {g}
    /\ users' \in {users, [users EXCEPT ![g] = {}]}
    /\ UNCHANGED midway

\* Nobody is left to go on with what was abandoned.
Drop(g) ==
    /\ g \in lost
    /\ users' = [users EXCEPT ![g] = {}]
    /\ UNCHANGED <<midway, lost>>

Next ==
    \E g \in Asyncgens :
        \/ \E o \in Ops : Begin(g, o)
        \/ Resume(g) \/ Rest(g) \/ End(g) \/ Abandon(g) \/ Drop(g)

Spec == Init /\ [][Next]_vars
===============================================================================
