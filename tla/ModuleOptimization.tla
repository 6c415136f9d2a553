-------------------------- MODULE ModuleOptimization --------------------------
(***************************************************************************)
(* The compile time driver of Nuitka: the registry of modules              *)
(* (nuitka/ModuleRegistry.py), the optimization passes over it             *)
(* (nuitka/optimizations/Optimization.py), the recursion into used modules *)
(* (nuitka/importing/Recursion.py), the import cache, and the demotion of  *)
(* modules to bytecode between the first pass and the second one.          *)
(*                                                                         *)
(* A module object is a pair <<name, form>>: "tree" is the object that     *)
(* buildModule makes for source code and for extension modules,            *)
(* "bytecode" is an UncompiledPythonModule.  Demotion replaces the tree of *)
(* a name by a bytecode object, so both may exist at the same time, and    *)
(* every table of the compiler holds a reference that can go stale.        *)
(*                                                                         *)
(* Definitions named Mut... are wrong on purpose: each is the change to the *)
(* code that one of the properties below is there to catch, and no action  *)
(* uses it.                                                                *)
(*                                                                         *)
(* What the optimization of one module does to its body is abstracted to   *)
(* what the driver observes: whether changes were signalled, which imports *)
(* the body now uses, and whether its scopes are complete.                 *)
(***************************************************************************)
EXTENDS Integers, FiniteSets

CONSTANTS
    Names,       \* the modules that can be located
    Main,        \* the main program
    NoPackage,   \* the package of a top level module
    Roots,       \* the initial root modules: Main, and what the user includes
    Package,     \* the package that directly contains a module
    Follow,      \* what _decideRecursion returns for a module
    Kind,        \* what buildModule makes of a module
    Imports,     \* the imports that the body of a module may come to use
    Stdlib,      \* what setStandardLibraryModules attaches to Main
    Implicit,    \* the implicit imports that plugins give a module
    AutoFollow,  \* namespaces that plugins follow once a module is included
    Triggers,    \* the pre and post load modules of a module
    Fakes,       \* the fake modules that plugins make for a module
    Changes,     \* bound: how many computeModule calls find a change
    Debug        \* states.is_debug, set by --debug

(***************************************************************************)
(* Follow: TRUE, FALSE and None.  Kind: "bytecode" is a module tree whose  *)
(* compilation mode is bytecode, "uncompiled" one that never had a tree (a *)
(* .pyc file, code that is too complex, a hit in the bytecode cache).      *)
(***************************************************************************)
Decisions == {"true", "false", "none"}
Kinds == {"compiled", "bytecode", "uncompiled", "extension"}

Attached(n) == Triggers[n] \cup Fakes[n]

ASSUME ConstantsAssumption ==
    /\ Main \in Roots /\ Roots \subseteq Names
    /\ NoPackage \notin Names
    /\ Package \in [Names -> Names \cup {NoPackage}]
    /\ Follow \in [Names -> Decisions]
    /\ Kind \in [Names -> Kinds]
    /\ Imports \in [Names -> SUBSET Names]
    /\ Stdlib \subseteq Names
    /\ Implicit \in [Names -> SUBSET Names]
    /\ AutoFollow \in [Names -> SUBSET Names]
    /\ Triggers \in [Names -> SUBSET Names]
    /\ Fakes \in [Names -> SUBSET Names]
    /\ Changes \in Nat
    /\ Debug \in BOOLEAN

(***************************************************************************)
(* What an import, a plugin, the standard library phase or a package may   *)
(* have the driver recurse to.                                             *)
(***************************************************************************)
Importable ==
    Stdlib \cup {n \in Names : \E m \in Names :
                   n \in Imports[m] \cup Implicit[m] \cup AutoFollow[m] \cup {Package[m]}}

(***************************************************************************)
(* Plugin made modules are reached through the module they belong to only: *)
(* a fake module locates with no filename, and the names of triggers are   *)
(* not importable.  The main module is compiled ("Cannot change mode of    *)
(* __main__ to bytecode") and never followed.                              *)
(***************************************************************************)
ASSUME MainAssumption == Kind[Main] = "compiled" /\ Main \notin Importable

ASSUME AttachedAssumption ==
    \A n \in Names : \A a \in Attached(n) :
        /\ a \notin Importable /\ a \notin Roots
        /\ Attached(a) = {}
        /\ \A m \in Names : a \in Attached(m) => m = n

ASSUME AutoFollowAssumption == \A n \in Names : AutoFollow[n] \cap Stdlib = {}

VARIABLES
    roots,       \* root_modules: the form registered for each name, or "none"
    cache,       \* imported_by_name and imported_modules
    attached,    \* pre_modules, post_modules and fake_modules
    stdlibOnly,  \* the names whose object was built with reason "stdlib"
    finalized,   \* the names whose tree was demoted and finalized
    active,      \* active_modules
    done,        \* done_modules
    pc,          \* where the driver is
    passCount,   \* pass_count
    unfinished,  \* unfinished_modules of the pass
    stdlibPhase, \* main_module and stdlib_phase_done of the pass
    cur,         \* current_module
    tags,        \* tag_set
    unchanged,   \* unchanged_count
    touched,     \* touched
    uses,        \* the imports in the module usage attempts of each module
    complete,    \* the names whose locals_scope.complete is set
    changesLeft  \* bound: the changes that computeModule can still find

tables == <<roots, cache, attached, stdlibOnly>>
traversal == <<active, done, unfinished, stdlibPhase, passCount>>
body == <<tags, unchanged, touched, uses, complete, changesLeft>>
vars == <<tables, traversal, body, finalized, pc, cur>>

Forms == {"tree", "bytecode"}
Objects == Names \X Forms
Refs == Forms \cup {"none"}

MutBuilt(n) == Kind[n]

(***************************************************************************)
(* The form in which buildModule makes a module.                           *)
(***************************************************************************)
Built(n) == IF Kind[n] = "uncompiled" THEN "bytecode" ELSE "tree"

IsCompiledTree(o) == o[2] = "tree" /\ Kind[o[1]] # "extension"
NamesOf(S) == {o[1] : o \in S}

Packages[n \in Names] ==
    IF Package[n] = NoPackage THEN {}
    ELSE {Package[n]} \cup Packages[Package[n]]

(***************************************************************************)
(* decideRecursion: a package that is not to be followed decides for all   *)
(* it contains.  Decisions are cached, so they do not change.              *)
(***************************************************************************)
Decide(n) ==
    IF \E p \in Packages[n] : Follow[p] = "false" THEN "false" ELSE Follow[n]

Followed(S) == {n \in S : Decide(n) = "true"}

Init ==
    /\ roots = [n \in Names |-> IF n \in Roots THEN Built(n) ELSE "none"]
    /\ cache = [n \in Names |-> IF n \in Roots \ {Main} THEN Built(n) ELSE "none"]
    /\ attached = [n \in Names |-> IF \E r \in Roots : n \in Attached(r)
                                   THEN Built(n) ELSE "none"]
    /\ stdlibOnly = {}
    /\ finalized = {}
    /\ active = {} /\ done = {}
    /\ pc = "start" /\ passCount = 0
    /\ unfinished = {} /\ stdlibPhase = "before"
    /\ cur = <<Main, "tree">>
    /\ tags = {} /\ unchanged = 0 /\ touched = FALSE
    /\ uses = [n \in Names |-> IF Kind[n] = "uncompiled" THEN Imports[n] ELSE {}]
    /\ complete = {}
    /\ changesLeft = Changes

-----------------------------------------------------------------------------
(***************************************************************************)
(* recurseTo and addUsedModule for a set of names: what is not in the      *)
(* import cache is built and cached, and its discovery has plugins make    *)
(* the modules attached to it; then what is not traversed becomes active.  *)
(***************************************************************************)
New(S) == {n \in S : cache[n] = "none"}

RecurseTo(S) ==
    /\ cache' = [n \in Names |-> IF n \in New(S) THEN Built(n) ELSE cache[n]]
    /\ attached' = [n \in Names |-> IF \E m \in New(S) : n \in Attached(m)
                                    THEN Built(n) ELSE attached[n]]

\* addUsedModule without its look at done_modules.
MutAddUsed(Objs) == active' = active \cup Objs

AddUsed(Objs) == active' = active \cup (Objs \ done)

Cached(S) == {<<n, cache'[n]>> : n \in S}

(***************************************************************************)
(* attemptRecursion: the package to add for a module.  If the registry has *)
(* it already then addUsedModule does nothing.                             *)
(***************************************************************************)
ParentToAdd(n) ==
    {p \in {Package[n]} \cap Names :
        p \notin NamesOf(active \cup done) /\ Decide(p) # "none"}

AttemptRecursion(n) ==
    /\ RecurseTo(ParentToAdd(n))
    /\ AddUsed(Cached(ParentToAdd(n)))
    /\ UNCHANGED <<roots, stdlibOnly>>

-----------------------------------------------------------------------------
(***************************************************************************)
(* startTraversal, at the start of _makeOptimizationPass.                  *)
(***************************************************************************)
StartPass ==
    /\ pc = "start"
    /\ pc' = "pick"
    /\ passCount' = passCount + 1
    /\ active' = {<<n, roots[n]>> : n \in {m \in Names : roots[m] # "none"}}
    /\ done' = {} /\ unfinished' = {} /\ stdlibPhase' = "before"
    /\ UNCHANGED <<tables, body, finalized, cur>>

(***************************************************************************)
(* nextModule and the dispatch of optimizeModule.  The order of the        *)
(* OrderedSet is abstracted: any active module can be the next one.        *)
(***************************************************************************)
NextModule ==
    /\ pc = "pick"
    /\ \E o \in active :
         /\ cur' = o
         /\ active' = active \ {o}
         /\ done' = done \cup {o}
         /\ stdlibPhase' = IF o[1] = Main /\ stdlibPhase # "done"
                           THEN "pending" ELSE stdlibPhase
         /\ pc' = IF IsCompiledTree(o) THEN "micro" ELSE "attempt"
    /\ tags' = {} /\ unchanged' = 0 /\ touched' = FALSE
    /\ UNCHANGED <<tables, finalized, passCount, unfinished, uses, complete,
                   changesLeft>>

Signals == {"change", "changed_variable_usage"}

(***************************************************************************)
(* A scope that is propagated signals "var_usage", so s is not empty, and  *)
(* leaves the module incomplete: it got new temporary variables.           *)
(***************************************************************************)
MutPropagation(s, again) == TRUE

Propagation(s, again) == again => s # {}

MutMarkAsComplete(n, again) == complete' = complete

MarkAsComplete(n, again) ==
    complete' = IF again THEN complete \ {n} ELSE complete \cup {n}

(***************************************************************************)
(* The tag the driver adds for scopes that were incomplete before the call *)
(* and for variables the micro pass before it added.                       *)
(***************************************************************************)
MutVarUsage(n) == IF "changed_variable_usage" \in tags THEN {"var_usage"} ELSE {}

VarUsage(n) ==
    IF n \notin complete \/ "changed_variable_usage" \in tags
    THEN {"var_usage"} ELSE {}

(***************************************************************************)
(* computeModule: s are the tags signalled, u the imports the body uses    *)
(* now, again says that scopes were propagated.  The imports only change   *)
(* with the body.                                                          *)
(***************************************************************************)
ComputeModule(s, u, again) ==
    LET n == cur[1] IN
    /\ s # {} => changesLeft > 0
    /\ changesLeft' = IF s = {} THEN changesLeft ELSE changesLeft - 1
    /\ (s = {} /\ n \in complete) => u = uses[n]
    /\ uses' = [uses EXCEPT ![n] = u]
    /\ Propagation(s, again)
    /\ MarkAsComplete(n, again)
    /\ tags' = s \cup VarUsage(n)
    /\ AttemptRecursion(n)

(***************************************************************************)
(* One round of the loop in optimizeCompiledPythonModule.                  *)
(***************************************************************************)
MicroPass ==
    /\ pc = "micro"
    /\ cur[1] \notin finalized
    /\ \E s \in SUBSET Signals, u \in SUBSET Imports[cur[1]], again \in BOOLEAN :
         ComputeModule(s, u, again)
    /\ \/ \* "Changes made after there were already no changes"
          /\ unchanged = 1 /\ tags' # {}
          /\ pc' = "sysexit"
          /\ UNCHANGED <<unchanged, touched>>
       \/ \* "Not changed, but retrying one more time."
          /\ tags' = {} /\ unchanged = 0 /\ passCount = 1 /\ Debug
          /\ pc' = "micro" /\ unchanged' = 1
          /\ UNCHANGED touched
       \/ \* "Finished with the module."
          /\ tags' = {} /\ ~(unchanged = 0 /\ passCount = 1 /\ Debug)
          /\ pc' = "consider" /\ unchanged' = unchanged + 1
          /\ UNCHANGED touched
       \/ \* "Not finished with the module due to following change kinds"
          /\ unchanged = 0 /\ tags' # {}
          /\ pc' = "micro" /\ unchanged' = 0 /\ touched' = TRUE
    /\ UNCHANGED <<finalized, done, unfinished, stdlibPhase, passCount, cur>>

(***************************************************************************)
(* computeModule of a finalized tree finds its children deleted, the       *)
(* exception is reported and passed on.                                    *)
(***************************************************************************)
MicroPassOfFinalized ==
    /\ pc = "micro"
    /\ cur[1] \in finalized
    /\ pc' = "crashed"
    /\ UNCHANGED <<tables, traversal, body, finalized, cur>>

(***************************************************************************)
(* attemptRecursion, first for modules that have no body to optimize.      *)
(***************************************************************************)
AttemptParent ==
    /\ pc = "attempt"
    /\ AttemptRecursion(cur[1])
    /\ pc' = "consider"
    /\ UNCHANGED <<body, finalized, done, unfinished, stdlibPhase, passCount, cur>>

\* The usages with reason "stdlib", the ones of setStandardLibraryModules.
StdlibUsages(n) == IF n = Main THEN Stdlib ELSE {}

(***************************************************************************)
(* considerUsedModules: the names it recurses to for module n.  In pass 1  *)
(* the usages with reason "stdlib", which only Main has, wait for a call   *)
(* with pass -1 that looks at nothing else.                                *)
(***************************************************************************)
UsedModules(n, pass) ==
    IF n \in stdlibOnly THEN {}
    ELSE (IF pass = -1 THEN {} ELSE uses[n])
         \cup (IF pass # 1 THEN StdlibUsages(n) ELSE {})

\* considerImplicitImports: the modules that plugins add for module n.
ImplicitImports(n) == Followed(Implicit[n])

\* Considers the usages of changed modules only.
MutConsiderModules ==
    LET n == cur[1]
        used == IF touched THEN Followed(UsedModules(n, passCount)) ELSE {}
        all == used \cup ImplicitImports(n)
    IN
    /\ pc = "consider"
    /\ RecurseTo(all)
    /\ stdlibOnly' = stdlibOnly \cup (New(used) \ uses[n])
    /\ AddUsed(Cached(all) \cup {<<a, attached'[a]>> : a \in Attached(n)})
    /\ unfinished' = IF touched THEN unfinished \cup {n} ELSE unfinished
    /\ pc' = "pick"
    /\ UNCHANGED <<roots, finalized, done, stdlibPhase, passCount, cur, body>>

(***************************************************************************)
(* considerUsedModules and considerImplicitImports for the current module, *)
(* and its accounting in _makeOptimizationPass.                            *)
(***************************************************************************)
ConsiderModules ==
    LET n == cur[1]
        used == Followed(UsedModules(n, passCount))
        all == used \cup ImplicitImports(n)
    IN
    /\ pc = "consider"
    /\ RecurseTo(all)
    /\ stdlibOnly' = stdlibOnly \cup (New(used) \ uses[n])
    /\ AddUsed(Cached(all) \cup {<<a, attached'[a]>> : a \in Attached(n)})
    /\ unfinished' = IF touched THEN unfinished \cup {n} ELSE unfinished
    /\ pc' = "pick"
    /\ UNCHANGED <<roots, finalized, done, stdlibPhase, passCount, cur, body>>

-----------------------------------------------------------------------------
StdlibPending == stdlibPhase = "pending" /\ passCount = 1

(***************************************************************************)
(* The queue of pass 1 is empty: only now what is there for the standard   *)
(* library alone is added.                                                 *)
(***************************************************************************)
StandardLibraryPhase ==
    LET used == Followed(UsedModules(Main, -1)) IN
    /\ pc = "pick" /\ active = {} /\ StdlibPending
    /\ RecurseTo(used)
    /\ stdlibOnly' = stdlibOnly \cup New(used)
    /\ AddUsed(Cached(used))
    /\ stdlibPhase' = "done"
    /\ UNCHANGED <<roots, finalized, done, unfinished, passCount, pc, cur, body>>

UsageAttempts(n) == uses[n] \cup Implicit[n] \cup StdlibUsages(n)

(***************************************************************************)
(* considerIncompleteModuleSet: usages of modules that are done, in a      *)
(* namespace that a plugin wants to follow as its own module is done.      *)
(***************************************************************************)
Incomplete ==
    {u \in UNION {UsageAttempts(n) : n \in NamesOf(done)} :
        /\ u \notin NamesOf(done)
        /\ \E c \in NamesOf(done) : u \in AutoFollow[c]}

FollowIncomplete ==
    /\ pc = "pick" /\ active = {} /\ ~StdlibPending
    /\ Incomplete # {}
    /\ RecurseTo(Incomplete)
    /\ AddUsed(Cached(Incomplete))
    /\ UNCHANGED <<roots, stdlibOnly, finalized, done, unfinished, stdlibPhase,
                   passCount, pc, cur, body>>

PassesDone(left) == IF left = {} THEN "finished" ELSE "start"

EndPass ==
    /\ pc = "pick" /\ active = {} /\ ~StdlibPending
    /\ Incomplete = {}
    /\ pc' = IF passCount = 1 THEN "demote" ELSE PassesDone(unfinished)
    /\ UNCHANGED <<tables, traversal, body, finalized, cur>>

-----------------------------------------------------------------------------
(***************************************************************************)
(* The modules that _optimizeModules demotes after pass 1.                 *)
(***************************************************************************)
ToDemote ==
    {o \in done : o[2] = "tree" /\ Kind[o[1]] = "bytecode" /\ o[1] \notin finalized}

\* Demotion that forgets about one of the tables.
MutReplaceRootModule(n) == roots' = roots
MutReplaceTriggerModule(n) == attached' = attached

(***************************************************************************)
(* replaceImportedModule, replaceRootModule and replaceTriggerModule: each *)
(* replaces the tree in one table.  The fake modules have no such table    *)
(* update, so n is replaced in attached only if it is a trigger.           *)
(***************************************************************************)
Replace(table, n) ==
    [table EXCEPT ![n] = IF @ = "tree" THEN "bytecode" ELSE @]

ReplaceImportedModule(n) == cache' = Replace(cache, n)
ReplaceRootModule(n) == roots' = Replace(roots, n)
ReplaceTriggerModule(n) ==
    attached' = IF \E m \in Names : n \in Triggers[m]
                THEN Replace(attached, n) ELSE attached

(***************************************************************************)
(* demoteCompiledModuleToBytecode: done_modules keeps the finalized tree.  *)
(* The bytecode object takes over the usage attempts, implicit ones too.   *)
(***************************************************************************)
DemoteModule ==
    /\ pc = "demote"
    /\ \E o \in ToDemote :
         /\ finalized' = finalized \cup {o[1]}
         /\ ReplaceImportedModule(o[1])
         /\ ReplaceRootModule(o[1])
         /\ ReplaceTriggerModule(o[1])
    /\ UNCHANGED <<stdlibOnly, traversal, body, pc, cur>>

DemotionDone ==
    /\ pc = "demote" /\ ToDemote = {}
    /\ pc' = PassesDone(unfinished)
    /\ UNCHANGED <<tables, traversal, body, finalized, cur>>

Stopped == pc \in {"finished", "sysexit", "crashed"}

Terminating == Stopped /\ UNCHANGED vars

Next ==
    \/ StartPass \/ NextModule
    \/ MicroPass \/ MicroPassOfFinalized \/ AttemptParent \/ ConsiderModules
    \/ StandardLibraryPhase \/ FollowIncomplete \/ EndPass
    \/ DemoteModule \/ DemotionDone
    \/ Terminating

Spec == Init /\ [][Next]_vars

(***************************************************************************)
(* The driver is one loop in one thread: it keeps taking steps.            *)
(***************************************************************************)
FairSpec == Spec /\ WF_vars(Next)

-----------------------------------------------------------------------------
(***************************************************************************)
(* Every variable has its type.                                            *)
(***************************************************************************)
TypeOK ==
    /\ roots \in [Names -> Refs]
    /\ cache \in [Names -> Refs]
    /\ attached \in [Names -> Refs]
    /\ stdlibOnly \subseteq Names
    /\ finalized \subseteq Names
    /\ active \subseteq Objects
    /\ done \subseteq Objects
    /\ pc \in {"start", "pick", "micro", "attempt", "consider", "demote",
               "finished", "sysexit", "crashed"}
    /\ passCount \in Nat
    /\ unfinished \subseteq Names
    /\ stdlibPhase \in {"before", "pending", "done"}
    /\ cur \in Objects
    /\ tags \subseteq Signals \cup {"var_usage"}
    /\ unchanged \in 0..2
    /\ touched \in BOOLEAN
    /\ uses \in [Names -> SUBSET Names]
    /\ complete \subseteq Names
    /\ changesLeft \in 0..Changes

(***************************************************************************)
(* A module name has one object in a traversal, although four tables refer *)
(* to objects and demotion replaces an object in each of them separately:  *)
(* with a reference left behind, a module would be compiled and included   *)
(* as bytecode at the same time.                                           *)
(***************************************************************************)
OneObjectPerName ==
    \A o, p \in active \cup done : o[1] = p[1] => o = p

(***************************************************************************)
(* NodeBases.finalize is there "to make it un-usable" and to "catch use    *)
(* after free errors": a tree that demotion finalized is never queued for  *)
(* optimization, and never the one that computeModule works on.            *)
(***************************************************************************)
NoUseAfterFinalize ==
    /\ \A o \in active : o[2] = "tree" => o[1] \notin finalized
    /\ pc = "micro" => cur[1] \notin finalized

(***************************************************************************)
(* Code generation takes the modules from done_modules, which still holds  *)
(* the finalized trees when demotion is done.  The compilation never stops *)
(* there: a further traversal replaces them by their bytecode objects.     *)
(***************************************************************************)
FinalSetUsable ==
    pc = "finished" => \A o \in done : o[2] = "tree" => o[1] \notin finalized

(***************************************************************************)
(* What the modules S of the final set ask to be included along with them: *)
(* what they import, what plugins add, and the packages they are in.       *)
(***************************************************************************)
WantedImports(n) ==
    IF n \in stdlibOnly THEN {}
    ELSE IF n = Main THEN uses[n] \cup Stdlib ELSE uses[n]

Asks(n) ==
    Followed(WantedImports(n) \cup Implicit[n]) \cup Attached(n)
        \cup {p \in {Package[n]} \cap Names : Decide(p) # "none"}

Wanted(S) ==
    (UNION {Asks(n) : n \in S})
    \cup {u \in UNION {UsageAttempts(n) : n \in S} : \E c \in S : u \in AutoFollow[c]}

(***************************************************************************)
(* The set of modules that is compiled is closed: nothing that a module of *)
(* it needs at run time and that is to be followed is missing, whatever    *)
(* order modules were found and optimized in, and although usages with     *)
(* reason "stdlib" are skipped for most of pass 1.                         *)
(***************************************************************************)
FinalSetClosed == pc = "finished" => Wanted(NamesOf(done)) \subseteq NamesOf(done)

(***************************************************************************)
(* And it is minimal: a module that was found in an earlier pass and whose *)
(* last user was optimized away is dropped by the traversal that follows,  *)
(* no smaller set with the roots is closed.                                *)
(***************************************************************************)
FinalSetMinimal ==
    pc = "finished" =>
        LET rootNames == {n \in Names : roots[n] # "none"} IN
        \A S \in SUBSET NamesOf(done) :
            (rootNames \subseteq S /\ Wanted(S) \subseteq S) => S = NamesOf(done)

(***************************************************************************)
(* Together: just the modules that are needed are compiled.                *)
(***************************************************************************)
FinalSetExact == FinalSetClosed /\ FinalSetMinimal

(***************************************************************************)
(* The extra micro pass of debug mode checks that a module whose last      *)
(* micro pass changed nothing has settled.  When the driver gives up, then *)
(* the body was found to change anew: it is never the driver's own scope   *)
(* and variable bookkeeping that asks for one more micro pass late.        *)
(***************************************************************************)
GivesUpForChangesOnly == pc = "sysexit" => tags \cap Signals # {}

(***************************************************************************)
(* A pass optimizes an object at most once, and what it has included stays *)
(* included until the next traversal.                                      *)
(***************************************************************************)
PassOnlyGrows ==
    [][pc # "start" => /\ done \subseteq done'
                       /\ active \subseteq active' \cup done'
                       /\ active' \cap done' = {}]_vars

(***************************************************************************)
(* The driver implements Traversal.  The module that it is at is included, *)
(* but not settled yet.                                                    *)
(***************************************************************************)
AtModule == pc \in {"micro", "attempt", "consider", "sysexit", "crashed"}

Phase ==
    IF pc \in {"start", "demote"} THEN "between"
    ELSE IF pc = "finished" THEN "finished"
    ELSE IF pc \in {"sysexit", "crashed"} THEN "stopped" ELSE "running"

AllAsk == [n \in Names |-> Asks(n)]
AllMention == [n \in Names |-> UsageAttempts(n)]

Traversals == INSTANCE Traversal WITH
    included <- active \cup done,
    settled <- IF AtModule THEN done \ {cur} ELSE done,
    asks <- AllAsk, mentions <- AllMention,
    phase <- Phase, Draws <- AutoFollow

(***************************************************************************)
(* Across all traversals, with demotion between them: the forms of the     *)
(* modules are consistent, nothing is optimized again behind the back of   *)
(* what relied on it, nothing is included that no included module asks     *)
(* for, and the end is the least closed set.                               *)
(***************************************************************************)
IsTraversal == Traversals!Spec

(***************************************************************************)
(* The "endless" passes end: the scopes that computeModule reports as      *)
(* incomplete, the tags and unfinished_modules ask for another micro pass  *)
(* or pass only as long as there is something that can change.             *)
(***************************************************************************)
Terminates == <>Stopped
===============================================================================
