--------------------------- MODULE GeneratorStates ----------------------------
(***************************************************************************)
(* What Python promises of generators, in the states that                  *)
(* inspect.getgeneratorstate reports: a generator is a coroutine.  It is   *)
(* resumed by one thread at a time and not while it is running, it gives   *)
(* control back to the one that resumed it, and it is not resumed again    *)
(* once it is closed.                                                      *)
(***************************************************************************)
CONSTANTS Generators, Threads, None

VARIABLES
    state,   \* what inspect.getgeneratorstate says of each generator
    current, \* the generator that runs in each thread, or None
    resumer  \* the one that ran where a generator was resumed

vars == <<state, current, resumer>>

Init ==
    /\ state = [g \in Generators |-> "GEN_CREATED"]
    /\ current = [t \in Threads |-> None]
    /\ resumer = [g \in Generators |-> None]

Resume(t, g) ==
    /\ state[g] \in {"GEN_CREATED", "GEN_SUSPENDED"}
    /\ state' = [state EXCEPT ![g] = "GEN_RUNNING"]
    /\ resumer' = [resumer EXCEPT ![g] = current[t]]
    /\ current' = [current EXCEPT ![t] = g]

\* A yield, a return or an exception: control goes back.
Leave(t, g) ==
    /\ current[t] = g /\ state[g] = "GEN_RUNNING"
    /\ \E s \in {"GEN_SUSPENDED", "GEN_CLOSED"} : state' = [state EXCEPT ![g] = s]
    /\ current' = [current EXCEPT ![t] = resumer[g]]
    /\ resumer' = [resumer EXCEPT ![g] = None]

\* An exception that is thrown into a generator before its start.
ThrowFirst(g) ==
    /\ state[g] = "GEN_CREATED"
    /\ state' = [state EXCEPT ![g] = "GEN_CLOSED"]
    /\ UNCHANGED <<current, resumer>>

Next ==
    \/ \E t \in Threads, g \in Generators : Resume(t, g) \/ Leave(t, g)
    \/ \E g \in Generators : ThrowFirst(g)

Spec == Init /\ [][Next]_vars
===============================================================================
