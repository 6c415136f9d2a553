------------------------------ MODULE SharedCache ------------------------------
(***************************************************************************)
(* What the bytecode cache promises to the compilations that share it.     *)
(* Each needs the answer to a question, which it may compute.  An answer   *)
(* that is shared is taken only if it is the one that this process would   *)
(* compute.  One that is saved with nobody else at it is shared after      *)
(* that, and anything less than a complete save shares nothing.  A process *)
(* fails only if another one, or a clean up, came between two of its steps,*)
(* or, for a key that is strict, if it looks at a shared answer that is    *)
(* not the one it would compute.                                           *)
(***************************************************************************)
CONSTANTS
    Processes, Keys, Places,
    Strict,     \* the keys for which a wrong answer is an error
    Answer,     \* what a process computes for a key, at its place
    NoAnswer

VARIABLES
    key, place, \* the question of a process
    status,     \* what it does about it
    result,     \* the answer it has
    entry,      \* what is shared for a key: an answer, or nothing
    disturbed   \* the processes that another one came between

questions == <<key, place>>
vars == <<questions, status, result, entry, disturbed>>

Own(c) == Answer[key[c]][place[c]]

Init ==
    /\ key \in [Processes -> Keys] /\ place \in [Processes -> Places]
    /\ status = [c \in Processes |-> "new"]
    /\ result = [c \in Processes |-> NoAnswer]
    /\ entry = [k \in Keys |-> {}]
    /\ disturbed = {}

Goto(c, from, to) ==
    /\ status[c] \in from
    /\ status' = [status EXCEPT ![c] = to]
    /\ UNCHANGED questions

\* There may be nothing to look at.
Look(c) ==
    /\ \E to \in {"looking", "computing"} : Goto(c, {"new"}, to)
    /\ UNCHANGED <<result, entry, disturbed>>

\* No answer needs to be taken.
Miss(c) ==
    /\ Goto(c, {"looking"}, "computing")
    /\ disturbed' = disturbed \ {c}
    /\ UNCHANGED <<result, entry>>

Hit(c) ==
    /\ Goto(c, {"looking"}, "done")
    /\ entry[key[c]] = {Own(c)}
    /\ result' = [result EXCEPT ![c] = Own(c)]
    /\ disturbed' = disturbed \ {c}
    /\ UNCHANGED entry

Compute(c) ==
    /\ Goto(c, {"computing"}, "computed")
    /\ result' = [result EXCEPT ![c] = Own(c)]
    /\ UNCHANGED <<entry, disturbed>>

\* Everybody but c who is at the entry that c changes.
Others(c) ==
    {d \in Processes \ {c} : key[d] = key[c] /\ status[d] \in {"looking", "saving"}}

Share(c, answers) ==
    /\ entry' = [entry EXCEPT ![key[c]] = answers]
    /\ UNCHANGED result

Save(c) ==
    /\ Goto(c, {"computed"}, "saving")
    /\ Share(c, {})
    /\ disturbed' = (disturbed \ {c}) \cup Others(c)

\* On the way, the entry is the answer or nothing, whatever others do to it.
Write(c) ==
    /\ Goto(c, {"saving"}, "saving")
    /\ Share(c, {}) \/ Share(c, {result[c]})
    /\ disturbed' = disturbed \cup Others(c)

Saved(c) ==
    /\ Goto(c, {"saving"}, "done")
    /\ \/ Share(c, {result[c]})
       \/ c \in disturbed /\ Share(c, {})
    /\ disturbed' = (disturbed \ {c}) \cup Others(c)

\* A clean up removed what it saves.
SavedNothing(c) ==
    /\ Goto(c, {"saving"}, "done")
    /\ c \in disturbed /\ disturbed' = disturbed \ {c}
    /\ UNCHANGED <<result, entry>>

Fail(c) ==
    /\ Goto(c, {"looking", "computed"}, "failed")
    /\ c \in disturbed
    /\ UNCHANGED <<result, entry, disturbed>>

Reject(c) ==
    /\ Goto(c, {"looking"}, "failed")
    /\ key[c] \in Strict /\ entry[key[c]] \notin {{}, {Own(c)}}
    /\ UNCHANGED <<result, entry, disturbed>>

Kill(c) ==
    /\ Goto(c, {"saving"}, "dead")
    /\ disturbed' = disturbed \ {c}
    /\ UNCHANGED <<result, entry>>

Clean ==
    /\ entry' = [k \in Keys |-> {}]
    /\ disturbed' = disturbed \cup {c \in Processes : status[c] \notin {"new", "done", "dead"}}
    /\ UNCHANGED <<questions, status, result>>

Next ==
    \/ Clean
    \/ \E c \in Processes :
          \/ Look(c) \/ Miss(c) \/ Hit(c) \/ Compute(c)
          \/ Save(c) \/ Write(c) \/ Saved(c) \/ SavedNothing(c)
          \/ Fail(c) \/ Reject(c) \/ Kill(c)

Spec == Init /\ [][Next]_vars
================================================================================
