---------------------------- MODULE ModuleLoader ----------------------------
(***************************************************************************)
(* The import of compiled modules when the program runs:                   *)
(* nuitka/build/static_src/MetaPathBasedLoader.c, the start of the module  *)
(* code (CodeTemplatesModules.py), and IMPORT_MODULE_FIXED in              *)
(* HelpersImport.c.                                                        *)
(*                                                                         *)
(* There are two ways to a module.  An import statement goes through       *)
(* importlib, which has a lock for each module, and calls exec_module of   *)
(* Nuitka's loader.  An importlib.import_module with a constant argument   *)
(* is a "fixed" import: it looks in sys.modules and runs the module itself.*)
(* So are imports of the code that plugins run before and after a module.  *)
(*                                                                         *)
(* Each thread has a stack of what it is in.  The bodies of modules are    *)
(* Python code, and so is importlib; C code between two of them runs with  *)
(* the GIL held.  Definitions named Mut... are wrong on purpose, as        *)
(* plausible mistakes that a property is there to catch.                   *)
(***************************************************************************)
EXTENDS Naturals, Sequences, FiniteSets

CONSTANTS
    Threads,
    Names,      \* the modules in the loader's table
    Parent,     \* the package that a module is in, or None
    Bytecode,   \* those included as bytecode, the others are compiled
    PreLoad,    \* what plugins want to run before a module, or None
    PostLoad,   \* and after it
    Program,    \* what the threads import of their own
    Uses,       \* what the body of each module imports
    Fixed,      \* what is imported by fixed imports too
    Failing,    \* the modules whose body may raise
    Copies,     \* what tells the module objects of one name apart
    None, Error

Objects == Names \X Copies

\* The packages that a module is in: its parent, and the parent of each of them.
Ancestors ==
    [m \in Names |-> {a \in Names : \A S \in SUBSET Names :
        (\A x \in S \cup {m} : Parent[x] \in S \cup {None}) => a \in S}]

\* A name has finitely many dots: there is a package in front.
ASSUME LoaderAssumption ==
    /\ \A f \in {Parent, PreLoad, PostLoad} : f \in [Names -> Names \cup {None}]
    /\ \A m \in Names : \E a \in {m} \cup Ancestors[m] : Parent[a] = None
    /\ Uses \in [Names -> SUBSET Names]
    /\ Bytecode \cup Program \cup Fixed \cup Failing \subseteq Names
    /\ None \notin Names \cup Objects /\ Error \notin Objects \cup {None}

VARIABLES
    modules,       \* sys.modules
    initializing,  \* the objects whose __spec__ says _initializing
    stack,         \* what each thread is in
    result,        \* what it got from what has returned last
    ended,         \* history: the objects whose body has come to its end
    partial        \* history: those importlib gave out unfinished, not to deadlock

facts == <<initializing, ended, partial>>
vars == <<modules, facts, stack, result>>

Frame(do, m, o) == [do |-> do, name |-> m, obj |-> o]

Init ==
    /\ modules = [m \in Names |-> None]
    /\ initializing = {} /\ ended = {} /\ partial = {}
    /\ stack = [t \in Threads |-> <<>>]
    /\ result = [t \in Threads |-> None]

Outermost(m) == CHOOSE a \in {m} \cup Ancestors[m] : Parent[a] = None

-----------------------------------------------------------------------------
(***************************************************************************)
(* The stacks.  A function is called by pushing it, above what goes on     *)
(* with its result.  In C code the thread keeps the GIL.                   *)
(***************************************************************************)
InC == {"import", "embedded", "execute", "load", "loaded", "post", "posted",
        "fixed", "self", "front", "value"}
HasLock == {"find", "found", "create", "exec"}
OfImportlib == {"acquire", "ensure"} \cup HasLock

Top(t) == stack[t][Len(stack[t])]
Below(t) == SubSeq(stack[t], 1, Len(stack[t]) - 1)
Frames(t) == {stack[t][i] : i \in DOMAIN stack[t]}

Turn(t) == \A u \in Threads \ {t} : stack[u] # <<>> => Top(u).do \notin InC
In(t, do) == Turn(t) /\ stack[t] # <<>> /\ Top(t).do = do
AtCode(t) == stack[t] = <<>> \/ Top(t).do = "body"

Goes(t, frames, r) ==
    /\ stack' = [stack EXCEPT ![t] = frames]
    /\ result' = [result EXCEPT ![t] = r]

Calls(t, frame) == Goes(t, Append(stack[t], frame), None)
Becomes(t, frames) == Goes(t, Below(t) \o frames, None)
Returns(t, r) == Goes(t, Below(t), r)

Failed(t) == result[t] \in {Error, None}

\* A module object that nobody else has.
Shared(o) ==
    \/ o \in {modules[m] : m \in Names} \cup {result[t] : t \in Threads}
    \/ \E t \in Threads : \E f \in Frames(t) : f.obj = o

MutNew(m) == CHOOSE o \in Objects : ~Shared(o)
New(m) == CHOOSE o \in {m} \X Copies : ~Shared(o)

Forget(o) ==
    /\ initializing' = initializing \ {o}
    /\ ended' = ended \ {o}
    /\ partial' = partial \ {o}

-----------------------------------------------------------------------------
(***************************************************************************)
(* Code of the program and of module bodies.  It may go on after an import *)
(* that failed.  As a bound, each thread of the program imports once.      *)
(***************************************************************************)
Imports(t) ==
    IF stack[t] = <<>> THEN (IF result[t] = None THEN Program ELSE {})
    ELSE IF Top(t).do = "body" THEN Uses[Top(t).name] ELSE {}

ImportStatement(t, m) ==
    /\ Turn(t) /\ m \in Imports(t)
    /\ Calls(t, Frame("import", m, None))
    /\ UNCHANGED <<modules, facts>>

FixedImport(t, m) ==
    /\ Turn(t) /\ m \in Imports(t) \cap Fixed
    /\ Calls(t, Frame("fixed", m, m))
    /\ UNCHANGED <<modules, facts>>

BodyEnds(t) ==
    /\ In(t, "body")
    /\ ended' = ended \cup {Top(t).obj}
    /\ Returns(t, Top(t).obj)
    /\ UNCHANGED <<modules, initializing, partial>>

BodyRaises(t) ==
    /\ In(t, "body") /\ Top(t).name \in Failing
    /\ Returns(t, Error)
    /\ UNCHANGED <<modules, facts>>

-----------------------------------------------------------------------------
(***************************************************************************)
(* IMPORT_EMBEDDED_MODULE                                                  *)
(***************************************************************************)
MutImportEmbedded(t) ==
    /\ In(t, "embedded")
    /\ LET m == Top(t).name
       IN  Becomes(t, <<Frame("execute", m, New(m))>>) /\ Forget(New(m))
    /\ UNCHANGED modules

ImportEmbedded(t) ==
    /\ In(t, "embedded")
    /\ LET m == Top(t).name
       IN  \/ modules[m] # None /\ Returns(t, modules[m]) /\ UNCHANGED facts
           \/ modules[m] = None /\ Becomes(t, <<Frame("execute", m, New(m))>>) /\ Forget(New(m))
    /\ UNCHANGED modules

(***************************************************************************)
(* _EXECUTE_EMBEDDED_MODULE.  Errors of what is run before or after the    *)
(* module are not passed on.                                               *)
(***************************************************************************)
ExecuteStarts(t) ==
    /\ In(t, "execute")
    /\ LET pre == PreLoad[Top(t).name]
           load == [Top(t) EXCEPT !.do = "load"]
       IN  Becomes(t, IF pre = None THEN <<load>> ELSE <<load, Frame("embedded", pre, None)>>)
    /\ UNCHANGED <<modules, facts>>

\* The module code makes a new __spec__, and marks the execution in it.
MutMarked(m, o) == initializing \ {o}
Marked(m, o) == IF m \in Bytecode THEN initializing ELSE initializing \cup {o}

\* loadModule, loadModuleFromCodeObject
Load(t) ==
    /\ In(t, "load")
    /\ LET m == Top(t).name
           o == Top(t).obj
       IN  /\ modules' = [modules EXCEPT ![m] = o]
           /\ initializing' = Marked(m, o)
           /\ Becomes(t, <<Frame("loaded", m, o), Frame("body", m, o)>>)
    /\ UNCHANGED <<ended, partial>>

MutLoadFails(t) ==
    /\ In(t, "loaded") /\ Failed(t)
    /\ Returns(t, Top(t).obj)
    /\ UNCHANGED <<modules, facts>>

\* PyImport_ExecCodeModuleEx takes the module out again, compiled code does not.
LoadFails(t) ==
    /\ In(t, "loaded") /\ Failed(t)
    /\ LET m == Top(t).name
       IN  modules' = IF m \in Bytecode THEN [modules EXCEPT ![m] = None] ELSE modules
    /\ Returns(t, Error)
    /\ UNCHANGED facts

\* _fixupSpecAttribute, and what is in sys.modules now is the result.
LoadEnds(t) ==
    /\ In(t, "loaded") /\ ~Failed(t)
    /\ LET m == Top(t).name
       IN  /\ initializing' = IF m \in Bytecode THEN initializing ELSE initializing \ {Top(t).obj}
           /\ IF modules[m] = None
              THEN Returns(t, IF m \in Bytecode THEN Error ELSE None)
              ELSE Becomes(t, <<Frame("post", m, modules[m])>>)
    /\ UNCHANGED <<modules, ended, partial>>

\* loadPostLoadCode
PostStarts(t) ==
    /\ In(t, "post")
    /\ LET post == PostLoad[Top(t).name]
       IN  IF post = None THEN Returns(t, Top(t).obj)
           ELSE Becomes(t, <<[Top(t) EXCEPT !.do = "posted"], Frame("embedded", post, None)>>)
    /\ UNCHANGED <<modules, facts>>

PostEnds(t) ==
    /\ In(t, "posted")
    /\ Returns(t, Top(t).obj)
    /\ UNCHANGED <<modules, facts>>

-----------------------------------------------------------------------------
(***************************************************************************)
(* IMPORT_MODULE_FIXED.  obj is the name whose parent comes next.          *)
(***************************************************************************)
FixedParent(t) ==
    /\ In(t, "fixed") /\ Parent[Top(t).obj] # None
    /\ Top(t).obj = Top(t).name \/ ~Failed(t)
    /\ LET parent == Parent[Top(t).obj]
       IN  Becomes(t, <<[Top(t) EXCEPT !.obj = parent], Frame("embedded", parent, None)>>)
    /\ UNCHANGED <<modules, facts>>

FixedSelf(t) ==
    /\ In(t, "fixed") /\ Parent[Top(t).obj] = None
    /\ Top(t).obj = Top(t).name \/ ~Failed(t)
    /\ LET m == Top(t).name
       IN  Becomes(t, <<Frame("self", m, None), Frame("embedded", m, None)>>)
    /\ UNCHANGED <<modules, facts>>

FixedParentFails(t) ==
    /\ In(t, "fixed") /\ Top(t).obj # Top(t).name /\ Failed(t)
    /\ Returns(t, Error)
    /\ UNCHANGED <<modules, facts>>

FixedFails(t) ==
    /\ In(t, "self") \/ In(t, "front") \/ In(t, "value")
    /\ result[t] = Error
    /\ Returns(t, Error)
    /\ UNCHANGED <<modules, facts>>

\* __import__ of a.b.c imports that, and then a
FixedImports(t) ==
    /\ In(t, "self") /\ result[t] # Error
    /\ LET m == Top(t).name
       IN  Becomes(t, <<Frame("front", m, None), Frame("import", m, None)>>)
    /\ UNCHANGED <<modules, facts>>

FixedFront(t) ==
    /\ In(t, "front") /\ result[t] # Error
    /\ LET m == Top(t).name
       IN  Becomes(t, <<Frame("value", m, None), Frame("import", Outermost(m), None)>>)
    /\ UNCHANGED <<modules, facts>>

FixedValue(t) ==
    /\ In(t, "value") /\ result[t] # Error
    /\ LET m == Top(t).name
       IN  Returns(t, IF modules[m] = None THEN Error ELSE modules[m])
    /\ UNCHANGED <<modules, facts>>

-----------------------------------------------------------------------------
(***************************************************************************)
(* importlib._bootstrap, and the C function in front of it.  What is in    *)
(* sys.modules and ready is the result at once.                            *)
(***************************************************************************)
Holds(t, m) == \E f \in Frames(t) : f.do \in HasLock /\ f.name = m
Free(t, m) == \A u \in Threads \ {t} : ~Holds(u, m)
Holder(m) == {t \in Threads : Holds(t, m)}

Waiting(t) ==
    /\ stack[t] # <<>> /\ Top(t).do \in {"acquire", "ensure"}
    /\ ~Free(t, Top(t).name)

Deadlock(t) ==
    \E S \in SUBSET Threads :
        /\ t \in S /\ \A u \in S : Waiting(u)
        /\ UNION {Holder(Top(u).name) : u \in S} = S

ImportModuleLevel(t) ==
    /\ In(t, "import")
    /\ LET m == Top(t).name
       IN  IF modules[m] = None THEN Becomes(t, <<Frame("acquire", m, None)>>)
           ELSE IF modules[m] \in initializing
           THEN Becomes(t, <<Frame("ensure", m, modules[m])>>)
           ELSE Returns(t, modules[m])
    /\ UNCHANGED <<modules, facts>>

Acquire(t) ==
    /\ In(t, "acquire") /\ Free(t, Top(t).name)
    /\ LET m == Top(t).name
       IN  Becomes(t, IF modules[m] = None THEN <<Frame("find", m, None)>>
                      ELSE <<Frame("ensure", m, modules[m])>>)
    /\ UNCHANGED <<modules, facts>>

AcquireDeadlock(t) ==
    /\ In(t, "acquire") /\ Deadlock(t)
    /\ Returns(t, Error)
    /\ UNCHANGED <<modules, facts>>

EnsureReady(t) ==
    /\ In(t, "ensure") /\ Free(t, Top(t).name)
    /\ Returns(t, Top(t).obj)
    /\ UNCHANGED <<modules, facts>>

EnsureDeadlock(t) ==
    /\ In(t, "ensure") /\ Deadlock(t)
    /\ partial' = partial \cup {Top(t).obj}
    /\ Returns(t, Top(t).obj)
    /\ UNCHANGED <<modules, initializing, ended>>

Find(t) ==
    /\ In(t, "find")
    /\ LET m == Top(t).name
           found == <<Frame("found", m, None)>>
       IN  Becomes(t, IF Parent[m] = None THEN <<Frame("create", m, None)>>
                      ELSE IF modules[Parent[m]] # None THEN found
                      ELSE Append(found, Frame("import", Parent[m], None)))
    /\ UNCHANGED <<modules, facts>>

Found(t) ==
    /\ In(t, "found")
    /\ LET m == Top(t).name
       IN  IF result[t] = Error THEN Returns(t, Error)
           ELSE IF modules[m] # None THEN Returns(t, modules[m])
           ELSE IF modules[Parent[m]] = None THEN Returns(t, Error)
           ELSE Becomes(t, <<Frame("create", m, None)>>)
    /\ UNCHANGED <<modules, facts>>

\* exec_module of the loader calls EXECUTE_EMBEDDED_MODULE
Create(t) ==
    /\ In(t, "create")
    /\ LET m == Top(t).name
           o == New(m)
       IN  /\ modules' = [modules EXCEPT ![m] = o]
           /\ initializing' = initializing \cup {o}
           /\ ended' = ended \ {o} /\ partial' = partial \ {o}
           /\ Becomes(t, <<Frame("exec", m, o), Frame("execute", m, o)>>)

ExecFails(t) ==
    /\ In(t, "exec") /\ Failed(t)
    /\ modules' = [modules EXCEPT ![Top(t).name] = None]
    /\ initializing' = initializing \ {Top(t).obj}
    /\ Returns(t, Error)
    /\ UNCHANGED <<ended, partial>>

ExecEnds(t) ==
    /\ In(t, "exec") /\ ~Failed(t)
    /\ LET m == Top(t).name
           lost == modules[m] = None \/ (Parent[m] # None /\ modules[Parent[m]] = None)
       IN  Returns(t, IF lost THEN Error ELSE modules[m])
    /\ initializing' = initializing \ {Top(t).obj}
    /\ UNCHANGED <<modules, ended, partial>>

-----------------------------------------------------------------------------
Code(t) ==
    \/ \E m \in Names : ImportStatement(t, m) \/ FixedImport(t, m)
    \/ BodyEnds(t) \/ BodyRaises(t)

Loader(t) ==
    \/ ImportEmbedded(t) \/ ExecuteStarts(t) \/ Load(t) \/ LoadFails(t) \/ LoadEnds(t)
    \/ PostStarts(t) \/ PostEnds(t)
    \/ FixedParent(t) \/ FixedSelf(t) \/ FixedParentFails(t) \/ FixedFails(t)
    \/ FixedImports(t) \/ FixedFront(t) \/ FixedValue(t)

Importlib(t) ==
    \/ ImportModuleLevel(t) \/ Acquire(t) \/ AcquireDeadlock(t)
    \/ EnsureReady(t) \/ EnsureDeadlock(t)
    \/ Find(t) \/ Found(t) \/ Create(t) \/ ExecFails(t) \/ ExecEnds(t)

Next == \E t \in Threads : Code(t) \/ Loader(t) \/ Importlib(t)

Spec == Init /\ [][Next]_vars

-----------------------------------------------------------------------------
(***************************************************************************)
(* Properties                                                              *)
(***************************************************************************)

\* The type of the state.
TypeOK ==
    /\ modules \in [Names -> Objects \cup {None}]
    /\ \A m \in Names : modules[m] # None => modules[m][1] = m
    /\ initializing \cup ended \cup partial \subseteq Objects
    /\ result \in [Threads -> Objects \cup {None, Error}]
    /\ stack \in [Threads -> Seq([do : InC \cup OfImportlib \cup {"body"}, name : Names,
                                  obj : Objects \cup Names \cup {None}])]

\* What runs without the lock of importlib.
Embedded ==
    LET entered == Fixed \cup {PreLoad[m] : m \in Names} \cup {PostLoad[m] : m \in Names}
    IN  (entered \ {None}) \cup UNION {Ancestors[m] : m \in entered \ {None}}

Runs(t, o) == \E f \in Frames(t) : f.do = "body" /\ f.obj = o
Executes(t, o) ==
    \E f \in Frames(t) : f.obj = o /\ f.do \in {"exec", "execute", "load", "loaded", "body"}

\* A module in sys.modules that an import gives to a body or to the program has
\* run to its end, or the importing code is itself part of its execution, or importlib
\* saw a circle of threads that wait for each other: no thread gets one that
\* another thread still executes.  (The __spec__ that the module code makes anew
\* has to be marked as the one it replaces was: importlib looks at that mark.)
ImportsFinished ==
    \A t \in Threads, m \in Names \ Embedded :
        AtCode(t) /\ result[t] \in Objects /\ modules[m] = result[t]
            => result[t] \in ended \cup partial \/ Executes(t, result[t])

\* The code of a module is executed once, by whatever ways and threads it is
\* imported, if no fixed import is one of them; and never by a thread that is
\* executing it already, not even by fixed imports, unless it may raise: then
\* another thread may have taken it out of sys.modules.
OneExecution ==
    /\ \A m \in Names \ Embedded :
        Cardinality({o \in {m} \X Copies : o \in ended \/ \E t \in Threads : Runs(t, o)}) <= 1
    /\ \A t \in Threads : \A i, j \in DOMAIN stack[t] :
        /\ stack[t][i].do = "body" /\ stack[t][j].do = "body"
        /\ stack[t][i].name = stack[t][j].name
        /\ stack[t][i].name \notin Embedded \cap Failing
        => i = j

\* A module in sys.modules has been executed or is being executed: one that
\* raised is not found by the next import of it, which executes it again.
FailedIsGone ==
    \A m \in Names \ Embedded :
        modules[m] # None /\ modules[m] \notin ended =>
            \E t \in Threads : Executes(t, modules[m])

(***************************************************************************)
(* The loader, with importlib and whatever plugins and fixed imports do,   *)
(* implements Importing.  Half a module is in sys.modules while it loads.  *)
(***************************************************************************)
LoadState ==
    [m \in Names \ Embedded |->
        IF modules[m] = None THEN "absent" ELSE IF modules[m] \in ended THEN "ready" ELSE "loading"]

Waits ==
    [t \in Threads |->
        IF stack[t] # <<>> /\ Top(t).do \in {"acquire", "ensure"} THEN Top(t).name ELSE None]

Got ==
    [t \in Threads |->
        {m \in Names \ Embedded : Waits[t] = None /\ result[t] # None /\ modules[m] = result[t]}]

Holders == [m \in Names |-> Holder(m)]

Importings == INSTANCE Importing WITH
    Ordinary <- Names \ Embedded,
    state <- LoadState, holder <- Holders, waits <- Waits, got <- Got

\* Of every module that only importlib enters: it is executed by one thread at a
\* time, under its lock, until that has succeeded once; one that raised is gone when
\* the lock is released, also for those who have half of it; and nobody is given half
\* of a module but the thread that executes it and, to not deadlock, one in a circle.
IsImporting == Importings!Spec

\* "Load parent packages first to ensure their __init__.py is executed."
\* (HelpersImport.c): no module is in sys.modules before its package.
ParentsFirst ==
    \A m \in Names : modules[m] # None /\ Parent[m] # None => modules[Parent[m]] # None
=============================================================================
