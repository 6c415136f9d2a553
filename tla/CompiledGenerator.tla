-------------------------- MODULE CompiledGenerator ---------------------------
(***************************************************************************)
(* Compiled generators (nuitka/build/static_src/CompiledGeneratorType.c),  *)
(* for Python 3.7 or later: next and send, throw, close, and "yield from"  *)
(* another compiled generator.                                             *)
(*                                                                         *)
(* Each thread has a stack of the C functions it is in.  The bodies of the *)
(* generators are Python code: a body may yield, return, raise, delegate   *)
(* to a generator, or operate on any generator, itself too.  The C code    *)
(* between two of them runs with the GIL held.                             *)
(*                                                                         *)
(* Of the values and exceptions that are passed only their kind is left:   *)
(* "none" is a value, "exit" is GeneratorExit, "error" any other exception.*)
(*                                                                         *)
(* Definitions named Mut... are wrong on purpose, as plausible mistakes    *)
(* that a property is there to catch.                                      *)
(***************************************************************************)
EXTENDS Naturals, Sequences, FiniteSets

CONSTANTS
    Generators,     \* the compiled generators of the program
    Threads,        \* the threads
    None,           \* NULL for a generator
    ReentrantThrow  \* a throw may come to a generator that passes another one on

ASSUME GeneratorsAssumption ==
    None \notin Generators /\ ReentrantThrow \in BOOLEAN

VARIABLES
    status,     \* m_status
    running,    \* m_running
    yieldFrom,  \* m_yield_from
    awaits,     \* what the "yield from" is for in which a body has stopped
    calls,      \* the C functions each thread is in, and the bodies
    result,     \* what the function that returned last gave the thread
    closed      \* history: the generators that a close has succeeded for once they
                \* had begun

object == <<status, running, yieldFrom, awaits>>
vars == <<object, calls, result, closed>>

Kinds == {"none", "exit", "error"}

\* The function do for gen, with what is passed in, or waiting for to.
Call(do, g, exc) == [do |-> do, gen |-> g, exc |-> exc, to |-> None]
Wait(do, g, exc, h) == [do |-> do, gen |-> g, exc |-> exc, to |-> h]

(***************************************************************************)
(* "send" is _Nuitka_Generator_send; "resume" too, but with an exception   *)
(* that is not passed, but set as the current one.                         *)
(***************************************************************************)
Functions == {"send", "resume", "throw", "close", "body"}
Waits == {"delegate", "throwing", "closing", "closed"}

Init ==
    /\ status = [g \in Generators |-> "Unused"]
    /\ running = [g \in Generators |-> FALSE]
    /\ yieldFrom = [g \in Generators |-> None]
    /\ awaits = [g \in Generators |-> None]
    /\ calls = [t \in Threads |-> <<>>]
    /\ result = [t \in Threads |-> "none"]
    /\ closed = {}

-----------------------------------------------------------------------------
(***************************************************************************)
(* The stack of a thread.                                                  *)
(***************************************************************************)
Top(t) == calls[t][Len(calls[t])]
Below(t) == SubSeq(calls[t], 1, Len(calls[t]) - 1)

AtPython(t) == \A i \in DOMAIN calls[t] : i = Len(calls[t]) => calls[t][i].do = "body"
Turn(t) == \A u \in Threads \ {t} : AtPython(u)

In(t, do) == Turn(t) /\ calls[t] # <<>> /\ Top(t).do = do

BecomesCalls(t, new) == calls' = [calls EXCEPT ![t] = Below(t) \o new]

\* What Python code gets is of no interest here, what C code gets is.
Returns(t, r) ==
    /\ calls' = [calls EXCEPT ![t] = Below(t)]
    /\ result' = [result EXCEPT ![t] =
          IF Below(t) # <<>> /\ Below(t)[Len(calls[t]) - 1].do \in Waits THEN r ELSE "none"]

Goes(t, new) ==
    /\ BecomesCalls(t, new)
    /\ result' = [result EXCEPT ![t] = "none"]

MarkAsRunning(g) == running' = [running EXCEPT ![g] = TRUE]
MarkAsNotRunning(g) == running' = [running EXCEPT ![g] = FALSE]

\* The calls in which a generator runs.
IsActivation(call) == call.do \in {"body", "delegate", "throwing", "closing"}

OnStack(g) == \E t \in Threads : \E i \in DOMAIN calls[t] :
    calls[t][i].gen = g /\ IsActivation(calls[t][i])

\* A generator and the ones it delegates to.
Chain(g) ==
    {h \in Generators : \A S \in SUBSET Generators :
        g \in S /\ (\A x \in S : yieldFrom[x] \in S \cup {None}) => h \in S}

-----------------------------------------------------------------------------
(***************************************************************************)
(* Python code calls a method, or drops the last reference to a generator: *)
(* then the finalizer closes it.                                           *)
(***************************************************************************)
Calls(t, call) ==
    /\ Turn(t) /\ AtPython(t)
    /\ calls' = [calls EXCEPT ![t] = Append(@, call)]
    /\ UNCHANGED <<object, result, closed>>

CallSend(t, g) == Calls(t, Call("send", g, "none"))

CallThrow(t, g, exc) ==
    /\ ReentrantThrow \/ ~\E h \in Chain(g) : OnStack(h) /\ yieldFrom[h] # None
    /\ Calls(t, Call("throw", g, exc))

CallClose(t, g) == Calls(t, Call("close", g, "none"))

(***************************************************************************)
(* The body of a generator gives control to _Nuitka_Generator_send.  If it *)
(* left something in m_yield_from then that is delegated to at once.       *)
(***************************************************************************)
BodyYields(t) ==
    /\ In(t, "body")
    /\ MarkAsNotRunning(Top(t).gen)
    /\ Returns(t, "yield")
    /\ UNCHANGED <<status, yieldFrom, awaits, closed>>

BodyEnds(t, r) ==
    /\ In(t, "body")
    /\ MarkAsNotRunning(Top(t).gen)
    /\ status' = [status EXCEPT ![Top(t).gen] = "Finished"]
    /\ Returns(t, r)
    /\ UNCHANGED <<yieldFrom, awaits, closed>>

BodyDelegates(t, h) ==
    /\ In(t, "body")
    /\ awaits' = [awaits EXCEPT ![Top(t).gen] = h]
    /\ Goes(t, <<Wait("delegate", Top(t).gen, "none", h), Call("send", h, "none")>>)
    /\ UNCHANGED <<status, running, yieldFrom, closed>>

-----------------------------------------------------------------------------
(***************************************************************************)
(* _Nuitka_Generator_send.                                                 *)
(***************************************************************************)
Sends(t) == In(t, "send") \/ In(t, "resume")

SendToFinished(t) ==
    /\ Sends(t) /\ status[Top(t).gen] = "Finished"
    /\ Returns(t, IF Top(t).do = "resume" /\ Top(t).exc # "none" THEN Top(t).exc ELSE "return")
    /\ UNCHANGED <<object, closed>>

\* "generator already executing"
AlreadyExecuting(g) == status[g] # "Finished" /\ running[g]

SendToRunning(t) ==
    /\ Sends(t) /\ AlreadyExecuting(Top(t).gen)
    /\ Returns(t, "error")
    /\ UNCHANGED <<object, closed>>

\* _Nuitka_CallGeneratorCodeC
EntersBody(t, exc) ==
    /\ awaits' = [awaits EXCEPT ![Top(t).gen] = None]
    /\ Goes(t, <<Call("body", Top(t).gen, exc)>>)

MutMayRun(g) == status[g] # "Finished"
MayRun(g) == status[g] # "Finished" /\ ~running[g]

SendToBody(t) ==
    LET g == Top(t).gen IN
    /\ Sends(t) /\ MayRun(g) /\ yieldFrom[g] = None
    /\ status' = [status EXCEPT ![g] = "Running"]
    /\ MarkAsRunning(g)
    /\ EntersBody(t, Top(t).exc)
    /\ UNCHANGED <<yieldFrom, closed>>

(***************************************************************************)
(* What _Nuitka_YieldFromGeneratorCore and _Nuitka_YieldFromPassExceptionTo*)
(* call, while m_yield_from is NULL.                                       *)
(***************************************************************************)
PassTo(h, exc) ==
    CASE exc = "none"  -> Call("send", h, "none")
      [] exc = "exit"  -> Call("close", h, "none")
      [] exc = "error" -> Call("throw", h, "error")

SendToDelegate(t) ==
    LET g == Top(t).gen IN
    /\ Sends(t) /\ MayRun(g) /\ yieldFrom[g] # None
    /\ MarkAsRunning(g)
    /\ yieldFrom' = [yieldFrom EXCEPT ![g] = None]
    /\ Goes(t, <<Wait("delegate", g, Top(t).exc, yieldFrom[g]), PassTo(yieldFrom[g], Top(t).exc)>>)
    /\ UNCHANGED <<status, awaits, closed>>

MutOutcome(w, r) == r

\* The exception the body is resumed with.
Outcome(w, r) ==
    CASE r = "return" /\ w.exc = "exit" -> "exit"
      [] r = "return" /\ w.exc # "exit" -> "none"
      [] OTHER -> r

MutDelegateYields(t) ==
    /\ In(t, "delegate") /\ result[t] = "yield"
    /\ MarkAsNotRunning(Top(t).gen)
    /\ Returns(t, "yield")
    /\ UNCHANGED <<status, yieldFrom, awaits, closed>>

DelegateYields(t) ==
    /\ In(t, "delegate") /\ result[t] = "yield"
    /\ MarkAsNotRunning(Top(t).gen)
    /\ yieldFrom' = [yieldFrom EXCEPT ![Top(t).gen] = Top(t).to]
    /\ Returns(t, "yield")
    /\ UNCHANGED <<status, awaits, closed>>

DelegateEnds(t) ==
    /\ In(t, "delegate") /\ result[t] \in {"return", "exit", "error"}
    /\ EntersBody(t, Outcome(Top(t), result[t]))
    /\ UNCHANGED <<status, running, yieldFrom, closed>>

-----------------------------------------------------------------------------
(***************************************************************************)
(* _Nuitka_Generator_throw2.  It does not ask whether the generator runs.  *)
(***************************************************************************)
ThrowToDelegate(t) ==
    LET g == Top(t).gen IN
    /\ In(t, "throw") /\ yieldFrom[g] # None
    /\ MarkAsRunning(g)
    /\ Goes(t, IF Top(t).exc = "exit"
               THEN <<Wait("closing", g, "exit", yieldFrom[g]), Call("close", yieldFrom[g], "none")>>
               ELSE <<Wait("throwing", g, "error", yieldFrom[g]),
                      Call("throw", yieldFrom[g], "error")>>)
    /\ UNCHANGED <<status, yieldFrom, awaits, closed>>

ThrowToBody(t) ==
    /\ In(t, "throw") /\ yieldFrom[Top(t).gen] = None
    /\ \/ /\ status[Top(t).gen] = "Running"
          /\ Goes(t, <<Call("send", Top(t).gen, Top(t).exc)>>)
          /\ UNCHANGED status
       \/ /\ status[Top(t).gen] # "Running"
          /\ status' = [status EXCEPT ![Top(t).gen] = "Finished"]
          /\ Returns(t, Top(t).exc)
    /\ UNCHANGED <<running, yieldFrom, awaits, closed>>

\* m_yield_from stays set: the send passes the exception to it once more.
ClosingReturns(t) ==
    /\ In(t, "closing") /\ result[t] # "none"
    /\ MarkAsNotRunning(Top(t).gen)
    /\ Goes(t, <<Call("send", Top(t).gen, IF result[t] = "error" THEN "error" ELSE "exit")>>)
    /\ UNCHANGED <<status, yieldFrom, awaits, closed>>

MutThrowingYields(t) ==
    /\ In(t, "throwing") /\ result[t] = "yield"
    /\ Returns(t, "yield")
    /\ UNCHANGED <<object, closed>>

ThrowingYields(t) ==
    /\ In(t, "throwing") /\ result[t] = "yield"
    /\ MarkAsNotRunning(Top(t).gen)
    /\ Returns(t, "yield")
    /\ UNCHANGED <<status, yieldFrom, awaits, closed>>

ThrowingEnds(t) ==
    LET g == Top(t).gen IN
    /\ In(t, "throwing") /\ result[t] \in {"return", "exit", "error"}
    /\ MarkAsNotRunning(g)
    /\ yieldFrom' = [yieldFrom EXCEPT ![g] = None]
    /\ Goes(t, <<Call("resume", g, IF result[t] = "return" THEN "none" ELSE result[t])>>)
    /\ UNCHANGED <<status, awaits, closed>>

-----------------------------------------------------------------------------
(***************************************************************************)
(* _Nuitka_Generator_close.  One that has not begun is left as it is, and  *)
(* can still be started.                                                   *)
(***************************************************************************)
MutClose(t) ==
    LET g == Top(t).gen IN
    /\ In(t, "close")
    /\ \/ /\ status[g] = "Running" /\ ~running[g]
          /\ Goes(t, <<Wait("closed", g, "exit", None), Call("send", g, "exit")>>)
          /\ UNCHANGED closed
       \/ /\ status[g] # "Running" \/ running[g]
          /\ closed' = IF status[g] = "Unused" THEN closed ELSE closed \cup {g}
          /\ Returns(t, "return")
    /\ UNCHANGED object

Close(t) ==
    LET g == Top(t).gen IN
    /\ In(t, "close")
    /\ \/ /\ status[g] = "Running"
          /\ Goes(t, <<Wait("closed", g, "exit", None), Call("send", g, "exit")>>)
          /\ UNCHANGED closed
       \/ /\ status[g] # "Running"
          /\ closed' = IF status[g] = "Unused" THEN closed ELSE closed \cup {g}
          /\ Returns(t, "return")
    /\ UNCHANGED object

MutCloseFails(r) == r = "error"

\* A yield is "generator ignored GeneratorExit".
CloseFails(r) == r \in {"yield", "error"}

CloseReturns(t) ==
    /\ In(t, "closed") /\ result[t] # "none"
    /\ Returns(t, IF CloseFails(result[t]) THEN "error" ELSE "return")
    /\ closed' = IF CloseFails(result[t]) THEN closed ELSE closed \cup {Top(t).gen}
    /\ UNCHANGED object

Next ==
    \E t \in Threads :
        \/ \E g \in Generators : CallSend(t, g) \/ CallClose(t, g) \/ BodyDelegates(t, g)
        \/ \E g \in Generators, exc \in {"exit", "error"} : CallThrow(t, g, exc)
        \/ BodyYields(t)
        \/ \E r \in {"return", "exit", "error"} : BodyEnds(t, r)
        \/ SendToFinished(t) \/ SendToRunning(t) \/ SendToBody(t) \/ SendToDelegate(t)
        \/ DelegateYields(t) \/ DelegateEnds(t)
        \/ ThrowToDelegate(t) \/ ThrowToBody(t)
        \/ ClosingReturns(t) \/ ThrowingYields(t) \/ ThrowingEnds(t)
        \/ Close(t) \/ CloseReturns(t)

Spec == Init /\ [][Next]_vars

-----------------------------------------------------------------------------
(***************************************************************************)
(* Every variable has its type.                                            *)
(***************************************************************************)
TypeOK ==
    /\ status \in [Generators -> {"Unused", "Running", "Finished"}]
    /\ running \in [Generators -> BOOLEAN]
    /\ yieldFrom \in [Generators -> Generators \cup {None}]
    /\ awaits \in [Generators -> Generators \cup {None}]
    /\ calls \in [Threads -> Seq([do : Functions \cup Waits, gen : Generators,
                                  exc : Kinds, to : Generators \cup {None}])]
    /\ result \in [Threads -> {"none", "yield", "return", "exit", "error"}]
    /\ closed \subseteq Generators

(***************************************************************************)
(* Compiled generators are coroutines as GeneratorStates describes them,   *)
(* in the state that inspect.getgeneratorstate reports for them, with any  *)
(* delegation: a generator that delegates runs while its delegate does.    *)
(***************************************************************************)
\* Of the first n calls of a thread, the last one in which a generator runs.
Innermost(t, n) ==
    LET active == {i \in 1..n : IsActivation(calls[t][i])}
    IN  IF active = {} THEN None
        ELSE calls[t][CHOOSE i \in active : \A j \in active : j <= i].gen

Resumer(g) ==
    IF ~OnStack(g) THEN None
    ELSE CHOOSE h \in Generators \cup {None} :
            \E t \in Threads : \E i \in DOMAIN calls[t] :
                /\ calls[t][i].gen = g /\ IsActivation(calls[t][i])
                /\ h = Innermost(t, i - 1)

GeneratorState(g) ==
    IF running[g] THEN "GEN_RUNNING"
    ELSE CASE status[g] = "Finished" -> "GEN_CLOSED"
           [] status[g] = "Unused"   -> "GEN_CREATED"
           [] status[g] = "Running"  -> "GEN_SUSPENDED"

States == INSTANCE GeneratorStates WITH
    state <- [g \in Generators |-> GeneratorState(g)],
    current <- [t \in Threads |-> Innermost(t, Len(calls[t]))],
    resumer <- [g \in Generators |-> Resumer(g)]

IsCoroutine == States!Spec

(***************************************************************************)
(* _Nuitka_Generator_send says "preventing recursion": the body of a       *)
(* generator is not entered while a call of it has not come back yet, in   *)
(* whatever thread, and also not while the generator waits for the one it  *)
(* delegates to.                                                           *)
(***************************************************************************)
NoRecursion ==
    \A t, u \in Threads : \A i \in DOMAIN calls[t], j \in DOMAIN calls[u] :
        (/\ calls[t][i].do = "body" /\ IsActivation(calls[u][j])
         /\ calls[t][i].gen = calls[u][j].gen) => t = u /\ i = j

(***************************************************************************)
(* A generator that is suspended in "yield from" keeps what it delegates   *)
(* to, and one that is suspended in a yield keeps nothing: m_yield_from is *)
(* taken out and put back in three places, around code that may fail, come *)
(* back to the same generator or end it.                                   *)
(***************************************************************************)
DelegateKept ==
    \A g \in Generators :
        ~OnStack(g) /\ (\A t \in Threads : AtPython(t)) =>
            yieldFrom[g] = awaits[g]

(***************************************************************************)
(* A body that is in "yield from" comes back only when its delegate has    *)
(* ended, or with an exception.                                            *)
(***************************************************************************)
Entered(t) ==
    /\ calls[t] # <<>> /\ Top(t).do # "body"
    /\ Len(calls'[t]) = Len(calls[t]) /\ Top(t)'.do = "body"

ResumedAfterDelegate ==
    [][\A t \in Threads :
          Entered(t) /\ awaits[Top(t).gen] # None /\ Top(t)'.exc # "error" =>
              status[awaits[Top(t).gen]] # "Running"]_vars

(***************************************************************************)
(* A generator that had begun, for which close was called and did not      *)
(* raise, is at its end and stays there: nothing of it is in a call any    *)
(* more and it is never resumed, however many generators it delegated to,  *)
(* whatever their bodies did with the GeneratorExit and whatever is called *)
(* for it later.  (One that had not begun is Unused after a close, too.)   *)
(***************************************************************************)
CloseEnds == \A g \in closed : status[g] = "Finished" /\ ~OnStack(g)
===============================================================================
