------------------------------- MODULE Traversal -------------------------------
(***************************************************************************)
(* What the compile time driver promises of the modules that it compiles.  *)
(* They are found by traversals that start with the roots.  A module in a  *)
(* traversal is optimized until it is settled, and what it asks for may    *)
(* change until then; a settled module is not touched again before the     *)
(* next traversal.  A module is included as one object only, and only if   *)
(* another one that is included asks for it.  The driver ends with the     *)
(* least set that has the roots and all that its modules ask for.          *)
(***************************************************************************)
CONSTANTS
    Names, Forms, Roots,
    Draws     \* what a module has included if any that is included mentions it

VARIABLES
    included, \* the objects in the traversal, pairs of a name and a form
    settled,  \* those of them that are optimized
    asks,     \* what a module asks for
    mentions, \* what it asks for if another module draws it in
    phase     \* of the driver

wants == <<asks, mentions>>
vars == <<included, settled, wants, phase>>

Objects == Names \X Forms
NamesOf(S) == {o[1] : o \in S}
OneEach(S) == \A o, p \in S : o[1] = p[1] => o = p

Drawn(S) == (UNION {mentions[n] : n \in S}) \cap (UNION {Draws[c] : c \in S})
Asked(S) == (UNION {asks[n] : n \in S}) \cup Drawn(S)
Closed(S) == Roots \subseteq S /\ Asked(S) \subseteq S

Init ==
    /\ included = {} /\ settled = {}
    /\ asks \in [Names -> SUBSET Names] /\ mentions \in [Names -> SUBSET Names]
    /\ phase = "between"

Begin ==
    /\ phase = "between" /\ phase' = "running"
    /\ included' \subseteq Objects
    /\ NamesOf(included') = Roots /\ OneEach(included')
    /\ settled' = {}
    /\ UNCHANGED wants

Include(names) ==
    /\ included \subseteq included' /\ OneEach(included')
    /\ NamesOf(included') \subseteq NamesOf(included) \cup names
    /\ asks' \in [Names -> SUBSET Names] /\ mentions' \in [Names -> SUBSET Names]
    /\ \A n \in NamesOf(settled) : asks'[n] = asks[n] /\ mentions'[n] = mentions[n]

\* One more computation of a module, with what it asks for after that.
Optimize(o) ==
    /\ phase = "running" /\ o \in included \ settled
    /\ Include(asks'[o[1]])
    /\ settled' \in {settled, settled \cup {o}}
    /\ UNCHANGED phase

\* All is settled, and there is something left that the settled modules ask for.
Complete ==
    /\ phase = "running" /\ settled = included
    /\ Include(Asked(NamesOf(included)))
    /\ UNCHANGED <<settled, phase>>

End ==
    /\ phase = "running" /\ settled = included
    /\ phase' = "between"
    /\ UNCHANGED <<included, settled, wants>>

Finish ==
    /\ phase \in {"running", "between"} /\ settled = included
    /\ Closed(NamesOf(included))
    /\ \A S \in SUBSET NamesOf(included) : Closed(S) => S = NamesOf(included)
    /\ phase' = "finished"
    /\ UNCHANGED <<included, settled, wants>>

\* The driver gives up a module that does not settle.
GiveUp(o) ==
    /\ phase = "running" /\ o \in included \ settled
    /\ Include(asks'[o[1]])
    /\ phase' = "stopped"
    /\ UNCHANGED settled

Next ==
    \/ Begin \/ Complete \/ End \/ Finish
    \/ \E o \in included : Optimize(o) \/ GiveUp(o)

Spec == Init /\ [][Next]_vars
===============================================================================
