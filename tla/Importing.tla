------------------------------- MODULE Importing -------------------------------
(***************************************************************************)
(* What Python promises of the import of modules by several threads.  Each *)
(* module has a lock, and is executed by the thread that has it.  A module *)
(* that was executed remains so, one that raised is as if nobody had       *)
(* imported it, and half of one is there only while its lock is taken.  A  *)
(* thread is given a module that is executed, one it executes itself, or,  *)
(* if threads wait for each other in a circle, the one that it waits for.  *)
(***************************************************************************)
CONSTANTS
    Names,
    Ordinary, \* the modules that are imported by these rules only
    Threads, None

VARIABLES
    state,  \* "absent", "loading" or "ready" for each ordinary module
    holder, \* the thread that has the lock of a module, in a set
    waits,  \* the module that a thread waits for, or None
    got     \* the ordinary module that it was given last, in a set

vars == <<state, holder, waits, got>>

Init ==
    /\ state = [m \in Ordinary |-> "absent"]
    /\ holder = [m \in Names |-> {}]
    /\ waits = [t \in Threads |-> None]
    /\ got = [t \in Threads |-> {}]

Free(t, m) == holder[m] \subseteq {t}

Circle(t) ==
    \E S \in SUBSET Threads :
        /\ t \in S /\ \A u \in S : waits[u] # None /\ ~Free(u, waits[u])
        /\ UNION {holder[waits[u]] : u \in S} = S

Usable(t) ==
    {m \in Ordinary : state[m] = "ready" \/ (state[m] = "loading" /\ t \in holder[m])}

Gets(t, S) == got' = [got EXCEPT ![t] = got'[t]] /\ got'[t] \subseteq S

Continue(t) ==
    /\ waits[t] = None /\ Gets(t, Usable(t))
    /\ UNCHANGED <<state, holder, waits>>

Ask(t, m) ==
    /\ waits[t] = None /\ waits' = [waits EXCEPT ![t] = m]
    /\ Gets(t, {})
    /\ UNCHANGED <<state, holder>>

Lock(t, m) ==
    /\ waits[t] = m /\ Free(t, m) /\ (m \in Ordinary => state[m] = "absent")
    /\ holder' = [holder EXCEPT ![m] = {t}]
    /\ waits' = [waits EXCEPT ![t] = None]
    /\ Gets(t, {})
    /\ UNCHANGED state

Wake(t, m) ==
    /\ waits[t] = m /\ waits' = [waits EXCEPT ![t] = None]
    /\ \/ Free(t, m) /\ Gets(t, {m} \cap Usable(t))
       \/ Circle(t) /\ Gets(t, {m})
    /\ UNCHANGED <<state, holder>>

Start(t, m) ==
    /\ t \in holder[m] /\ state[m] = "absent"
    /\ state' = [state EXCEPT ![m] = "loading"]
    /\ Gets(t, {})
    /\ UNCHANGED <<holder, waits>>

End(t, m) ==
    /\ t \in holder[m] /\ state[m] = "loading"
    /\ state' = [state EXCEPT ![m] = "ready"]
    /\ Gets(t, {m})
    /\ UNCHANGED <<holder, waits>>

Fail(t, m) ==
    /\ t \in holder[m] /\ state[m] = "loading"
    /\ state' = [state EXCEPT ![m] = "absent"]
    /\ got' = [u \in Threads |-> IF u = t THEN {} ELSE got[u] \ {m}]
    /\ holder' \in {holder, [holder EXCEPT ![m] = {}]}
    /\ UNCHANGED waits

Leave(t, m) ==
    /\ t \in holder[m] /\ (m \in Ordinary => state[m] # "loading")
    /\ holder' = [holder EXCEPT ![m] = {}]
    /\ Gets(t, Usable(t))
    /\ UNCHANGED <<state, waits>>

Next == \E t \in Threads :
    \/ Continue(t)
    \/ \E m \in Names : Ask(t, m) \/ Lock(t, m) \/ Wake(t, m) \/ Leave(t, m)
    \/ \E m \in Ordinary : Start(t, m) \/ End(t, m) \/ Fail(t, m)

Spec == Init /\ [][Next]_vars
================================================================================
