--------------------------- MODULE CompiledAsyncgen ---------------------------
(***************************************************************************)
(* Compiled coroutines and async generators for Python 3.13 or later       *)
(* (nuitka/build/static_src/CompiledCoroutineType.c and                    *)
(* CompiledAsyncgenType.c): tasks that an event loop drives, coroutines    *)
(* they await, and the operations on async generators, which are objects   *)
(* that are awaited too.                                                   *)
(*                                                                         *)
(* There is one thread.  calls is its stack of C functions and of bodies,  *)
(* which are Python code and may do anything except operate on what is     *)
(* suspended without awaiting it: that is for the event loop, below the    *)
(* stack.                                                                  *)
(*                                                                         *)
(* Of exceptions "exit" (GeneratorExit) is told from any other, "error".   *)
(* What a function gives is "next" (something awaited is not ready, the    *)
(* loop has to wait), "value" (a yield of an async generator, wrapped),    *)
(* "return" (StopIteration), "null" (NULL without an exception), "stop"    *)
(* (StopAsyncIteration), "exit" or "error".                                *)
(*                                                                         *)
(* Definitions named Mut... are wrong on purpose, as plausible mistakes    *)
(* that a property is there to catch.                                      *)
(***************************************************************************)
EXTENDS Naturals, Sequences, FiniteSets

CONSTANTS
    Coroutines,    \* compiled coroutines
    Tasks,         \* those that the event loop drives, the others are awaited only
    Asyncgens,     \* compiled async generators
    Ops,           \* objects for asend, athrow and aclose
    Future,        \* something that is ready when the event loop says so
    None,          \* NULL for an object
    BadArguments   \* athrow may be given something that is no exception

Runners == Coroutines \cup Asyncgens

ASSUME AsyncAssumption ==
    /\ Tasks \subseteq Coroutines
    /\ Coroutines \cap Asyncgens = {} /\ Runners \cap Ops = {}
    /\ {Future, None} \cap (Runners \cup Ops) = {} /\ Future # None
    /\ BadArguments \in BOOLEAN
    /\ Ops # {} => Asyncgens # {}

VARIABLES
    status,        \* m_status
    running,       \* m_running
    yieldFrom,     \* m_yield_from
    awaiting,      \* m_awaiting of coroutines
    runningAsync,  \* m_running_async of async generators
    genClosed,     \* m_closed of async generators
    op,            \* the operations: what they do, for whom, and m_state
    calls,         \* the C functions and bodies that have not returned, the last one called last
    result,        \* what the function that returned last gave
    awaits,        \* what the await is for in which a body has stopped
    over,          \* the operations nobody waits for
    ignored        \* history: async generators that awaited in answer to GeneratorExit

object == <<status, running, yieldFrom, awaiting>>
lock == <<runningAsync, genClosed, op>>
vars == <<object, lock, calls, result, awaits, over, ignored>>

Kinds == {"asend", "athrow", "aclose"}
Results == {"next", "value", "return", "null", "stop", "exit", "error"}
Exceptions == {"stop", "exit", "error"}

Call(do, x, exc) == [do |-> do, obj |-> x, exc |-> exc, to |-> None, closing |-> FALSE]
CallClosing(do, x, exc) == [do |-> do, obj |-> x, exc |-> exc, to |-> None, closing |-> TRUE]
Wait(do, x, exc, y) == [do |-> do, obj |-> x, exc |-> exc, to |-> y, closing |-> FALSE]

Init ==
    /\ status = [r \in Runners |-> "Unused"]
    /\ running = [r \in Runners |-> FALSE]
    /\ yieldFrom = [r \in Runners |-> None]
    /\ awaiting = [c \in Coroutines |-> FALSE]
    /\ runningAsync = [g \in Asyncgens |-> FALSE]
    /\ genClosed = [g \in Asyncgens |-> FALSE]
    /\ op = [o \in Ops |-> [kind |-> "asend", gen |-> CHOOSE g \in Asyncgens : TRUE,
                            state |-> "CLOSED"]]
    /\ calls = <<>>
    /\ result = "null"
    /\ awaits = [r \in Runners |-> None]
    /\ over = Ops
    /\ ignored = {}

-----------------------------------------------------------------------------
Top == calls[Len(calls)]
Below == SubSeq(calls, 1, Len(calls) - 1)
In(do) == calls # <<>> /\ Top.do = do
AtLoop == calls = <<>>

Goes(new) == calls' = Below \o new /\ result' = "null"

\* What the event loop gets is of no interest, and what it drove itself is over then.
Returns(r) ==
    /\ calls' = Below
    /\ result' = IF Below = <<>> THEN "null" ELSE r
    /\ over' = IF Below = <<>> /\ Top.obj \in Ops /\ r # "next" THEN over \cup {Top.obj} ELSE over

\* The calls in which a coroutine or async generator runs.
IsActivation(call) == call.do \in {"body", "delegate", "throwing", "closing"}

OnStack(r) == \E i \in DOMAIN calls : calls[i].obj = r /\ IsActivation(calls[i])

MarkAsRunning(r) == running' = [running EXCEPT ![r] = TRUE]
MarkAsNotRunning(r) == running' = [running EXCEPT ![r] = FALSE]

Engaged(o) == o \notin over /\ \A r \in Runners : awaits[r] # o

-----------------------------------------------------------------------------
(***************************************************************************)
(* The event loop steps a task, throws an exception into it, or drops it,  *)
(* so that it is closed.  It may also make and drive an operation itself.  *)
(***************************************************************************)
LoopCalls(call) ==
    /\ AtLoop
    /\ calls' = <<call>>
    /\ UNCHANGED <<object, result, awaits, ignored>>

StepTask(c) == LoopCalls(Call("send", c, "null")) /\ UNCHANGED <<lock, over>>
CancelTask(c, exc) == LoopCalls(Call("throw", c, exc)) /\ UNCHANGED <<lock, over>>
CloseTask(c) == LoopCalls(Call("close", c, "null")) /\ UNCHANGED <<lock, over>>

OpCalls(o) == {Call("op_send", o, "null"), Call("op_throw", o, "error"), Call("op_close", o, "null")}

\* Nuitka_AsyncgenAsend_New, Nuitka_AsyncgenAthrow_New
NewOp(o, kind, g) ==
    /\ o \in over
    /\ op' = [op EXCEPT ![o] = [kind |-> kind, gen |-> g, state |-> "INIT"]]
    /\ over' = over \ {o}
    /\ UNCHANGED <<runningAsync, genClosed>>

LoopStartsOp(o, kind, g) ==
    /\ NewOp(o, kind, g)
    /\ \E call \in OpCalls(o) : LoopCalls(call)

LoopDrivesOp(o) ==
    /\ Engaged(o)
    /\ \E call \in OpCalls(o) : LoopCalls(call)
    /\ UNCHANGED <<lock, over>>

-----------------------------------------------------------------------------
(***************************************************************************)
(* Bodies.  An await sets m_yield_from and returns NULL, the loop in       *)
(* _Nuitka_Coroutine_sendR or _Nuitka_Asyncgen_sendR delegates then.       *)
(***************************************************************************)
Delegates(x, call) ==
    /\ awaits' = [awaits EXCEPT ![Top.obj] = x]
    /\ awaiting' = IF Top.obj \in Coroutines THEN [awaiting EXCEPT ![Top.obj] = TRUE] ELSE awaiting
    /\ Goes(<<Wait("delegate", Top.obj, "null", x), call>>)
    /\ UNCHANGED <<status, running, yieldFrom, ignored>>

AwaitFuture ==
    /\ In("body")
    /\ Delegates(Future, Call("future", Future, "null"))
    /\ UNCHANGED <<lock, over>>

\* ASYNC_AWAIT: "coroutine is being awaited already"
MayBeAwaited(c) == ~awaiting[c]

AwaitCoroutine(c) ==
    /\ In("body") /\ MayBeAwaited(c)
    /\ Delegates(c, Call("send", c, "null"))
    /\ UNCHANGED <<lock, over>>

AwaitNewOp(o, kind, g) ==
    /\ In("body")
    /\ NewOp(o, kind, g)
    /\ Delegates(o, Call("op_send", o, "null"))

\* The wrapped value of a yield of an async generator.
BodyYields ==
    /\ In("body") /\ Top.obj \in Asyncgens
    /\ MarkAsNotRunning(Top.obj)
    /\ Returns("value")
    /\ UNCHANGED <<status, yieldFrom, awaiting, lock, awaits, ignored>>

BodyEnds(r) ==
    /\ In("body")
    /\ r = "return" => Top.obj \in Coroutines
    /\ r = "null" => Top.obj \in Asyncgens
    /\ MarkAsNotRunning(Top.obj)
    /\ status' = [status EXCEPT ![Top.obj] = "Finished"]
    /\ Returns(r)
    /\ UNCHANGED <<yieldFrom, awaiting, lock, awaits, ignored>>

\* What is awaited outside of compiled code.
FutureAnswers(r) ==
    /\ In("future")
    /\ CASE Top.exc = "null"  -> r \in {"next", "return", "error"}
         [] Top.exc = "close" -> r = "return"
         [] OTHER             -> r = Top.exc
    /\ Returns(r)
    /\ UNCHANGED <<object, lock, awaits, ignored>>

-----------------------------------------------------------------------------
(***************************************************************************)
(* _Nuitka_Coroutine_send and _Nuitka_Asyncgen_send.                       *)
(***************************************************************************)
SendToFinished ==
    /\ In("send") /\ status[Top.obj] = "Finished"
    /\ Returns(IF Top.obj \in Asyncgens THEN "stop"
               ELSE IF Top.closing THEN "null" ELSE "error")
    /\ UNCHANGED <<object, lock, awaits, ignored>>

MutMayResume(r) == TRUE

MayResume(r) == ~running[r]

AlreadyExecuting ==
    /\ In("send") /\ status[Top.obj] # "Finished" /\ ~MayResume(Top.obj)
    /\ Returns("error")
    /\ UNCHANGED <<object, lock, awaits, ignored>>

Resumes ==
    /\ In("send") /\ status[Top.obj] # "Finished" /\ MayResume(Top.obj)
    /\ status' = [status EXCEPT ![Top.obj] = "Running"]
    /\ UNCHANGED <<lock, ignored>>

\* The body goes on, what it has waited for is released.
EntersBody(r, exc) ==
    /\ Goes(<<Call("body", r, exc)>>)
    /\ awaits' = [awaits EXCEPT ![r] = None]
    /\ awaiting' = IF r \in Coroutines THEN [awaiting EXCEPT ![r] = FALSE] ELSE awaiting
    /\ over' = over \cup ({awaits[r]} \cap Ops)

SendToBody ==
    /\ Resumes /\ yieldFrom[Top.obj] = None
    /\ MarkAsRunning(Top.obj)
    /\ EntersBody(Top.obj, Top.exc)
    /\ UNCHANGED yieldFrom

CloseOf(x) == CASE x = Future -> Call("future", x, "close")
                [] x \in Ops  -> Call("op_close", x, "null")
                [] OTHER      -> Call("close", x, "null")

\* What _Nuitka_YieldFromCore calls of an object that has been awaited before.
PassTo(x, exc) ==
    CASE exc = "exit"   -> CloseOf(x)
      [] x = Future     -> Call("future", x, exc)
      [] x \in Ops      -> IF exc = "null" THEN Call("op_send", x, exc) ELSE Call("op_throw", x, exc)
      [] OTHER          -> IF exc = "null" THEN CallClosing("send", x, exc) ELSE CallClosing("throw", x, exc)

\* m_yield_from is out of reach while it is used.
SendToAwaited ==
    /\ Resumes /\ yieldFrom[Top.obj] # None
    /\ MarkAsRunning(Top.obj)
    /\ LET x == yieldFrom[Top.obj] IN
       Goes(<<Wait("delegate", Top.obj, Top.exc, x), PassTo(x, Top.exc)>>)
    /\ yieldFrom' = [yieldFrom EXCEPT ![Top.obj] = None]
    /\ UNCHANGED <<awaiting, awaits, over>>

MutAwaitedNotReady(r, x) == UNCHANGED yieldFrom

AwaitedNotReady(r, x) == yieldFrom' = [yieldFrom EXCEPT ![r] = x]

DelegateAwaits ==
    /\ In("delegate") /\ result = "next"
    /\ AwaitedNotReady(Top.obj, Top.to)
    /\ MarkAsNotRunning(Top.obj)
    /\ Returns("next")
    /\ UNCHANGED <<status, awaiting, lock, awaits, ignored>>

MutOutcome(exc, r) == IF exc = "exit" THEN "exit" ELSE "null"

Outcome(exc, r) ==
    CASE r \in {"return", "null"} -> IF exc = "exit" THEN "exit" ELSE "null"
      [] r = "stop"               -> "error"
      [] OTHER                    -> r

DelegateEnds ==
    /\ In("delegate") /\ result # "next"
    /\ EntersBody(Top.obj, Outcome(Top.exc, result))
    /\ UNCHANGED <<status, running, yieldFrom, lock, ignored>>

-----------------------------------------------------------------------------
(***************************************************************************)
(* _Nuitka_Coroutine_throw2 and _Nuitka_Asyncgen_throw2.  For the latter   *)
(* "closing" is close_on_genexit.                                          *)
(***************************************************************************)
Closes(r) == Top.exc = "exit" /\ (r \in Coroutines \/ Top.closing)

ThrowTo(x, exc) ==
    CASE x = Future -> Call("future", x, exc)
      [] x \in Ops  -> Call(IF op[x].kind = "asend" THEN "op_throw2" ELSE "op_throw", x, exc)
      [] OTHER      -> CallClosing("throw", x, exc)

ThrowToAwaited ==
    /\ In("throw") /\ yieldFrom[Top.obj] # None
    /\ MarkAsRunning(Top.obj)
    /\ LET x == yieldFrom[Top.obj] IN
       Goes(IF Closes(Top.obj)
            THEN <<Wait("closing", Top.obj, Top.exc, x), CloseOf(x)>>
            ELSE <<Wait("throwing", Top.obj, Top.exc, x), ThrowTo(x, Top.exc)>>)
    /\ UNCHANGED <<status, yieldFrom, awaiting, lock, awaits, over, ignored>>

ThrowToStarted ==
    /\ In("throw") /\ yieldFrom[Top.obj] = None /\ status[Top.obj] = "Running"
    /\ Goes(<<Call("send", Top.obj, Top.exc)>>)
    /\ UNCHANGED <<object, lock, awaits, over, ignored>>

ThrowToOther ==
    /\ In("throw") /\ yieldFrom[Top.obj] = None /\ status[Top.obj] # "Running"
    /\ status' = [status EXCEPT ![Top.obj] = "Finished"]
    /\ Returns(IF status[Top.obj] = "Finished" /\ Top.obj \in Coroutines /\ ~Top.closing
               THEN "error" ELSE Top.exc)
    /\ UNCHANGED <<running, yieldFrom, awaiting, lock, awaits, ignored>>

ClosingReturns ==
    /\ In("closing")
    /\ MarkAsNotRunning(Top.obj)
    /\ Goes(<<Call("send", Top.obj, IF result = "return" THEN "exit" ELSE result)>>)
    /\ UNCHANGED <<status, yieldFrom, awaiting, lock, awaits, over, ignored>>

ThrowingAwaits ==
    /\ In("throwing") /\ result = "next"
    /\ MarkAsNotRunning(Top.obj)
    /\ Returns("next")
    /\ UNCHANGED <<status, yieldFrom, awaiting, lock, awaits, ignored>>

ThrowingEnds ==
    /\ In("throwing") /\ result # "next"
    /\ MarkAsNotRunning(Top.obj)
    /\ yieldFrom' = [yieldFrom EXCEPT ![Top.obj] = None]
    /\ Goes(<<Call("send", Top.obj, Outcome("null", result))>>)
    /\ UNCHANGED <<status, awaiting, lock, awaits, over, ignored>>

-----------------------------------------------------------------------------
(***************************************************************************)
(* _Nuitka_Coroutine_close, and the close methods of the operations.       *)
(***************************************************************************)
CloseStarted ==
    /\ In("close") /\ status[Top.obj] = "Running"
    /\ Goes(<<Wait("closed", Top.obj, "null", None), CallClosing("send", Top.obj, "exit")>>)
    /\ UNCHANGED <<object, lock, awaits, over, ignored>>

CloseOther ==
    /\ In("close") /\ status[Top.obj] # "Running"
    /\ Returns("return")
    /\ UNCHANGED <<object, lock, awaits, ignored>>

CloseOp ==
    /\ In("op_close") /\ op[Top.obj].state # "CLOSED"
    /\ Goes(<<Wait("op_closing", Top.obj, "null", None), Call("op_throw", Top.obj, "exit")>>)
    /\ UNCHANGED <<object, lock, awaits, over, ignored>>

CloseClosedOp ==
    /\ In("op_close") /\ op[Top.obj].state = "CLOSED"
    /\ Returns("return")
    /\ UNCHANGED <<object, lock, awaits, ignored>>

\* "coroutine ignored GeneratorExit", or DROP_ERROR_OCCURRED_GENERATOR_EXIT_OR_STOP_ITERATION.
CloseReturns ==
    /\ In("closed") \/ In("op_closing")
    /\ Returns(IF result \in {"exit", "return", "null"} \/ (result = "stop" /\ In("op_closing"))
               THEN "return" ELSE "error")
    /\ ignored' = IF In("op_closing") /\ result = "next"
                  THEN ignored \cup {op[Top.obj].gen} ELSE ignored
    /\ UNCHANGED <<object, lock, awaits>>

-----------------------------------------------------------------------------
(***************************************************************************)
(* The operations of an async generator.  The first use of one claims the  *)
(* generator, the use that ends it must give it back.                      *)
(***************************************************************************)
Gen == op[Top.obj].gen
Kind == op[Top.obj].kind
State == op[Top.obj].state

SetState(state) == op' = [op EXCEPT ![Top.obj].state = state]
SetRunningAsync(b) == runningAsync' = [runningAsync EXCEPT ![Gen] = b]

MutMayClaim(g) == ~running[g]

\* "asynchronous generator is already running"
MayClaim(g) == ~runningAsync[g]

OpAlreadyUsed ==
    /\ In("op_send") \/ In("op_throw") \/ In("op_throw2")
    /\ State = "CLOSED"
    /\ Returns(IF Kind = "asend" /\ ~In("op_send") THEN "return" ELSE "error")
    /\ UNCHANGED <<object, lock, awaits, ignored>>

\* athrow and aclose: if finished, just report StopIteration.
OpOfFinished ==
    /\ In("op_send") /\ Kind # "asend" /\ State # "CLOSED" /\ status[Gen] = "Finished"
    /\ Returns("return")
    /\ UNCHANGED <<object, lock, awaits, ignored>>

OpGoesOn ==
    /\ In("op_send") \/ In("op_throw") \/ In("op_throw2")
    /\ State # "CLOSED"
    /\ In("op_send") /\ Kind # "asend" => status[Gen] # "Finished"

OpRefused ==
    /\ OpGoesOn /\ ~In("op_throw2") /\ State = "INIT" /\ ~MayClaim(Gen)
    /\ SetState("CLOSED")
    /\ Returns("error")
    /\ UNCHANGED <<object, runningAsync, genClosed, awaits, ignored>>

\* Can also close only once.
OpAfterClose ==
    /\ OpGoesOn /\ In("op_send") /\ Kind # "asend" /\ State = "INIT"
    /\ MayClaim(Gen) /\ genClosed[Gen]
    /\ SetState("CLOSED")
    /\ Returns("stop")
    /\ UNCHANGED <<object, runningAsync, genClosed, awaits, ignored>>

OpClaims(wait, call) ==
    /\ SetState("ITER")
    /\ SetRunningAsync(TRUE)
    /\ Goes(<<Wait(wait, Top.obj, Top.exc, Gen), call>>)
    /\ UNCHANGED <<object, awaits, over, ignored>>

AsendSends ==
    /\ OpGoesOn /\ In("op_send") /\ Kind = "asend"
    /\ State = "INIT" => MayClaim(Gen)
    /\ OpClaims("op_sending", Call("send", Gen, "null"))
    /\ UNCHANGED genClosed

OpStarts ==
    /\ OpGoesOn /\ In("op_send") /\ Kind # "asend" /\ State = "INIT"
    /\ MayClaim(Gen) /\ ~genClosed[Gen]

AcloseStarts ==
    /\ OpStarts /\ Kind = "aclose"
    /\ genClosed' = [genClosed EXCEPT ![Gen] = TRUE]
    /\ OpClaims("op_starting", CallClosing("throw", Gen, "exit"))

\* With "bad" _Nuitka_Generator_make_throw_exception_state fails.
AthrowStarts(exc) ==
    /\ OpStarts /\ Kind = "athrow"
    /\ IF exc = "bad"
       THEN /\ SetState("ITER") /\ SetRunningAsync(TRUE)
            /\ Returns("error")
            /\ UNCHANGED <<object, awaits, ignored>>
       ELSE OpClaims("op_starting", Call("throw", Gen, exc))
    /\ UNCHANGED genClosed

AthrowGoesOn ==
    /\ OpGoesOn /\ In("op_send") /\ Kind # "asend" /\ State = "ITER"
    /\ Goes(<<Wait("op_resending", Top.obj, Top.exc, Gen), Call("send", Gen, "null")>>)
    /\ UNCHANGED <<object, lock, awaits, over, ignored>>

OpThrowStarts ==
    /\ OpGoesOn /\ In("op_throw") /\ State = "INIT" /\ MayClaim(Gen)
    /\ OpClaims("op_throwing", Call("throw", Gen, Top.exc))
    /\ UNCHANGED genClosed

OpThrows ==
    /\ OpGoesOn /\ ((In("op_throw") /\ State # "INIT") \/ In("op_throw2"))
    /\ Goes(<<Wait("op_throwing", Top.obj, Top.exc, Gen), Call("throw", Gen, Top.exc)>>)
    /\ UNCHANGED <<object, lock, awaits, over, ignored>>

-----------------------------------------------------------------------------
(***************************************************************************)
(* The async generator has come to an await that is not ready, to a yield  *)
(* or to its end.                                                          *)
(***************************************************************************)
OpWaits == In("op_sending") \/ In("op_starting") \/ In("op_resending") \/ In("op_throwing")

OpAwaits ==
    /\ OpWaits /\ result = "next"
    /\ Returns("next")
    /\ UNCHANGED <<object, lock, awaits, ignored>>

Ends(r) == r \in {"null", "stop", "exit"}

MutReleases(r) == IF Ends(r) THEN runningAsync ELSE [runningAsync EXCEPT ![Gen] = FALSE]

Releases(r) == [runningAsync EXCEPT ![Gen] = FALSE]

\* _Nuitka_Asyncgen_unwrap_value
Unwraps(r) ==
    /\ runningAsync' = Releases(r)
    /\ genClosed' = [genClosed EXCEPT ![Gen] = @ \/ Ends(r)]

MutUnwrapped(r) == IF r = "null" THEN "stop" ELSE r

Unwrapped(r) == CASE r = "null" -> "stop" [] r = "value" -> "return" [] OTHER -> r

AsendEnds ==
    /\ OpWaits /\ Kind = "asend" /\ result # "next"
    /\ Unwraps(result)
    /\ SetState("CLOSED")
    /\ Returns(Unwrapped(result))
    /\ UNCHANGED <<object, awaits, ignored>>

\* check_error of _Nuitka_AsyncgenAthrow_send is left out when going on.
AthrowEnds ==
    /\ OpWaits /\ Kind = "athrow" /\ result # "next"
    /\ Unwraps(result)
    /\ SetState(IF In("op_throwing") \/ (In("op_starting") /\ Unwrapped(result) \in {"stop", "exit"})
                THEN "CLOSED" ELSE "ITER")
    /\ Returns(Unwrapped(result))
    /\ UNCHANGED <<object, awaits, ignored>>

MutAcloseResult(r) == CASE r \in {"stop", "exit", "value"} -> "return" [] OTHER -> r

\* "async generator ignored GeneratorExit"
AcloseResult(r) == CASE r \in {"stop", "exit"} -> "return" [] r = "value" -> "error" [] OTHER -> r

\* Nuitka_Asyncgen_throw never gives NULL without an exception.
AcloseEnds ==
    /\ OpWaits /\ Kind = "aclose" /\ result # "next"
    /\ runningAsync' = Releases(result)
    /\ SetState(IF In("op_throwing") \/ result \in {"stop", "exit"} THEN "CLOSED" ELSE "ITER")
    /\ Returns(AcloseResult(IF In("op_throwing") /\ result = "null" THEN "stop" ELSE result))
    /\ UNCHANGED <<object, genClosed, awaits, ignored>>

-----------------------------------------------------------------------------
LoopNext ==
    \/ \E c \in Tasks : StepTask(c) \/ CloseTask(c)
                        \/ \E exc \in {"error", "exit"} : CancelTask(c, exc)
    \/ \E o \in Ops : LoopDrivesOp(o)
                      \/ \E kind \in Kinds, g \in Asyncgens : LoopStartsOp(o, kind, g)

BodyNext ==
    \/ AwaitFuture \/ BodyYields
    \/ \E c \in Coroutines \ Tasks : AwaitCoroutine(c)
    \/ \E o \in Ops, kind \in Kinds, g \in Asyncgens : AwaitNewOp(o, kind, g)
    \/ \E r \in {"return", "null", "exit", "error"} : BodyEnds(r)
    \/ \E r \in Results : FutureAnswers(r)

RunnerNext ==
    \/ SendToFinished \/ AlreadyExecuting \/ SendToBody \/ SendToAwaited
    \/ DelegateAwaits \/ DelegateEnds
    \/ ThrowToAwaited \/ ThrowToStarted \/ ThrowToOther
    \/ ClosingReturns \/ ThrowingAwaits \/ ThrowingEnds
    \/ CloseStarted \/ CloseOther \/ CloseReturns

OpNext ==
    \/ CloseOp \/ CloseClosedOp
    \/ OpAlreadyUsed \/ OpOfFinished \/ OpRefused \/ OpAfterClose
    \/ AsendSends \/ AcloseStarts \/ AthrowGoesOn
    \/ \E exc \in {"error", "exit"} \cup (IF BadArguments THEN {"bad"} ELSE {}) : AthrowStarts(exc)
    \/ OpThrowStarts \/ OpThrows
    \/ OpAwaits \/ AsendEnds \/ AthrowEnds \/ AcloseEnds

Next == LoopNext \/ BodyNext \/ RunnerNext \/ OpNext

Spec == Init /\ [][Next]_vars

-----------------------------------------------------------------------------
(***************************************************************************)
(* The fields stay in their types, and NULL without an exception only      *)
(* comes where the code allows for it: no awaiter ever gets a wrapped      *)
(* value.                                                                  *)
(***************************************************************************)
TypeOK ==
    /\ status \in [Runners -> {"Unused", "Running", "Finished"}]
    /\ running \in [Runners -> BOOLEAN]
    /\ yieldFrom \in [Runners -> Coroutines \cup Ops \cup {Future, None}]
    /\ awaiting \in [Coroutines -> BOOLEAN]
    /\ runningAsync \in [Asyncgens -> BOOLEAN] /\ genClosed \in [Asyncgens -> BOOLEAN]
    /\ op \in [Ops -> [kind : Kinds, gen : Asyncgens, state : {"INIT", "ITER", "CLOSED"}]]
    /\ awaits \in [Runners -> Coroutines \cup Ops \cup {Future, None}]
    /\ over \subseteq Ops /\ ignored \subseteq Asyncgens
    /\ result \in Results
    /\ result = "value" => OpWaits \/ In("throwing")

(***************************************************************************)
(* A suspended body waits in m_yield_from for just what it awaited, and a  *)
(* coroutine is awaited by one body at most: a resumed body never gets the *)
(* result of another one's await (m_yield_from is NULL while it is used).  *)
(***************************************************************************)
AwaitKept ==
    /\ \A r \in Runners :
        status[r] = "Running" /\ (\A i \in DOMAIN calls : calls[i].obj # r) => yieldFrom[r] = awaits[r]
    /\ \A x \in Coroutines \cup Ops : Cardinality({r \in Runners : yieldFrom[r] = x}) <= 1

(***************************************************************************)
(* An async generator that says it is in use is in use by an operation     *)
(* that somebody can go on with: m_running_async is given back on every    *)
(* way out, whatever the body does with the exceptions thrown into it.     *)
(***************************************************************************)
LockFreed ==
    \A g \in Asyncgens \ ignored :
        runningAsync[g] => \E o \in Ops \ over : op[o].gen = g /\ op[o].state = "ITER"

(***************************************************************************)
(* A body goes on after an await without an exception only when what it    *)
(* waited for is over: the coroutine has ended, the operation has given    *)
(* the async generator back.                                               *)
(***************************************************************************)
ResumedAfterAwait ==
    [][\A r \in Runners :
          /\ awaits[r] \in Coroutines \cup Ops
          /\ awaits'[r] = None
          /\ calls' # <<>> /\ Top'.do = "body" /\ Top'.obj = r /\ Top'.exc = "null"
          => IF awaits[r] \in Coroutines THEN status[awaits[r]] = "Finished"
             ELSE op[awaits[r]].state = "CLOSED" \/ ~runningAsync[op[awaits[r]].gen]]_vars

(***************************************************************************)
(* An aclose that reports success has ended the generator: no code of its  *)
(* body runs afterwards, as AGEN.aclose() promises.                        *)
(***************************************************************************)
AcloseEndsBody ==
    [][\A o \in Ops :
          calls # <<>> /\ Top.obj = o /\ AcloseEnds
          /\ AcloseResult(result) = "return" => status[op[o].gen] = "Finished"]_vars

(***************************************************************************)
(* "Release exception, we are done with it now and pick up the new one",   *)
(* says _Nuitka_Asyncgen_throw2 of an await that raises when it is closed: *)
(* the new exception does not go to the operation that has just ended with *)
(* it, and which answers that all is well.                                 *)
(***************************************************************************)
PicksUpNewOne == In("op_throw") /\ Top.exc = "error" /\ Kind = "asend" => State # "CLOSED"

-----------------------------------------------------------------------------
(***************************************************************************)
(* Coroutines and async generators behave as the generators that inspect   *)
(* describes: the body of each is resumed only when it is suspended, and   *)
(* gives control back to the one that resumed it (m_running, m_status).    *)
(***************************************************************************)
GeneratorState(r) ==
    CASE status[r] = "Unused"     -> "GEN_CREATED"
      [] status[r] = "Finished"   -> "GEN_CLOSED"
      [] OnStack(r)               -> "GEN_RUNNING"
      [] OTHER                    -> "GEN_SUSPENDED"

\* Of the first n calls, the last one in which something runs.
Innermost(n) ==
    LET active == {i \in 1..n : IsActivation(calls[i])}
    IN  IF active = {} THEN None
        ELSE calls[CHOOSE i \in active : \A j \in active : j <= i].obj

Resumer(r) ==
    IF ~OnStack(r) THEN None
    ELSE CHOOSE x \in Runners \cup {None} :
            \E i \in DOMAIN calls :
                calls[i].obj = r /\ IsActivation(calls[i]) /\ x = Innermost(i - 1)

Generator == INSTANCE GeneratorStates WITH
    Generators <- Runners, Threads <- {None},
    state <- [r \in Runners |-> GeneratorState(r)],
    current <- [t \in {None} |-> Innermost(Len(calls))],
    resumer <- [r \in Runners |-> Resumer(r)]

IsCoroutine == Generator!Spec

(***************************************************************************)
(* The operations on an async generator use it one at a time, and none is  *)
(* done with it while its body waits for something else, except when the   *)
(* body awaits in answer to GeneratorExit.                                 *)
(***************************************************************************)
Iteration == INSTANCE AsyncIteration WITH
    users <- [g \in Asyncgens |-> {o \in Ops \ over : op[o].gen = g /\ op[o].state = "ITER"}],
    midway <- {g \in Asyncgens : status[g] = "Running" /\ (OnStack(g) \/ yieldFrom[g] # None)},
    lost <- ignored

IsAsyncIteration == Iteration!Spec
===============================================================================
