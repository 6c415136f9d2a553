# A verification project for Nuitka

Nuitka translates a Python program to C, compiles it, and links it with a run
time of its own; the result may be packed into a single file that unpacks and
runs itself. This directory holds TLA+ models of the places where that is a
matter of *order*. In the compiler: the driver, the tracing of variable values, and the
bytecode cache that compilations share. In what it makes: the bootstrap of onefile
binaries, the loading of modules, and compiled generators, coroutines and
async generators. `PROJECT.json` ties every definition to the
source lines it models, and lists the runs, the hazards and the theorems.

    tlc -workers 2 -config Passes.cfg MCModuleOptimization     # a run
    tlapm ModuleLoaderProofs.tla                               # the proofs of a module

## 1. The system

### Inventory

| Component | State | Operations | Talks to |
|---|---|---|---|
| compile driver: `ModuleRegistry.py`, `optimizations/Optimization.py`, `importing/Recursion.py`, `importing/ImportCache.py`, `optimizations/BytecodeDemotion.py` | root, active and done modules, the import cache, the decision cache, the tags of a micro pass | start a traversal, take the next module, micro passes until nothing changes, consider what a module uses, the standard library phase, demotion to bytecode | module nodes (calls), plugins (hooks), code generation (reads `done_modules`) |
| module nodes and building: `nodes/ModuleNodes.py`, `tree/Building.py` | body, usage attempts, scopes with their `complete` flag | `computeModule`, `attemptRecursion`, `finalize`, `buildModule` | the driver, plugins |
| plugin dispatch: `plugins/Plugins.py` | pre, post and fake modules, active plugins | life cycle hooks | called by the driver, returns modules to add |
| onefile bootstrap: `OnefileBootstrap.c` | payload directory, `created_dir_paths`, `payload_created`, `handle_process` | unpack, fork, wait, clean up, signal handler | the program: signals, wait status, the files; the user's signals |
| onefile side of the program: `MainProgram.c` | time and sender of the last SIGINT, the pid of the bootstrap | SIGINT deduplication, parent monitoring thread | the bootstrap |
| compiled generators: `CompiledGeneratorType.c` | `m_status`, `m_running`, `m_yield_from` | send, throw, close, finalizer, yield from | Python code of bodies (callbacks), other generators, threads by the GIL |
| compiled coroutines, async generators: `CompiledCoroutineType.c`, `CompiledAsyncgenType.c` | as generators, `m_awaiting`, `m_running_async`, `m_closed`, and the states of asend, athrow, aclose objects | send, throw, close, await | event loops, each other, bodies (callbacks) |
| frames, functions, cells, methods | frame cache and stack, free lists | make, push, pop | generators, generated code |
| run time loader: `MetaPathBasedLoader.c`, `HelpersImport.c`, `CodeTemplatesModules.py` | `sys.modules`, the `_initializing` mark of a `__spec__` | import by statement, fixed import, execute, code of plugins before and after | importlib and its locks, bodies of modules (callbacks), threads |
| constants blob | one byte stream | write (compiler), read (run time) | code generation, start up |
| bytecode cache: `BytecodeCaching.py` | JSON files shared by compilations | has, get, write, clean | module building, demotion, other compilers through the file system |
| C compiler backend: `build/Scons*.py` | per command a thread and its result | spawn, retry, report | scons, compilers, ccache |
| tracing: `optimizations/TraceCollections.py`, `ValueTraces.py`, the loop, try, branch and variable nodes | per pass the traces of each variable and the current collection; between passes what loops and `try` nodes remember | compute statements, fork and merge collections, remove, move and replace statements | the driver repeats it |
| nodes, reformulations, code generation | the tree of one module | sequential tree transformations | the driver starts them |
| freezer, options, reports, PGO, downloads, tools | the file system | sequential I/O | the driver's results |

Vendored code below `build/inline_copy` is left aside. `PROJECT.json`
"components" has all of them, with the reason for each that is not modelled.

### What is hard in it

*The driver* has one thread, but its work list is changed by what it works on:
modules are found while others are optimized, dropped when the last import of
them is optimized away, replaced by other objects under the same name between
two passes, and skipped in one phase to be considered in another. Four tables
and a set of sets refer to the same objects. It is correct when the final set
of modules is exactly what the program needs, each once, none of them an object
that was given up, and when the passes, which the code calls endless, end.

*The bootstrap* has a signal handler that does all of the clean up, in the
middle of unpacking, of forking, of waiting, or of another clean up, while the
child process gets some of the same signals. It can be killed and, in cached
mode, meets what an earlier one left behind. It is correct when the payload is
gone after the program and not before, when the program is interrupted once for
one signal and ended if it will not listen, and never starts from incomplete
files.

*Tracing* follows all paths of a body in one walk, with loops whose end it has not
seen when it answers questions inside of them. It answers from what the pass before has left,
removes code for the answers, and asks again. It is correct when what is left does the same in all
executions, when no generated code uses a variable without a check that may be unset, and
when the passes end.

*The bytecode cache* has files that several compilers write and read with no lock, in
several writes, and may be killed between them. What an entry says depends on what is
installed for the process that reads it. It is correct when a hit is what compiling would have given.

*Generators* call Python code from C code that has taken a delegate out of the
object, and has to put it back, or not. That Python code may operate on the
same generator, from any thread. They are correct when they are coroutines:
resumed by one caller at a time, giving control back to it, keeping what they
wait for, and ended for good.

*Async generators* put an object for each operation in between, that takes a lock of the generator
when it starts and gives it back in one of a dozen ways out, while the body may await, catch what is
thrown into it, and be dropped. They are correct when one operation at a time uses the generator, it
is given back always, and no await returns before what it waits for is over.

*The loader* has two ways to a module. Import statements go through importlib, which locks, and looks
at a mark that Nuitka's code has to move to a `__spec__` of its own. Fixed imports and the code of plugins
take no lock. It is correct when each module is executed once, whoever imports it, none is seen by
others before it is complete, and one that failed is not seen again.

The hazards of this kind are listed with their lines in `PROJECT.json`
"hazards", and the properties below are there for them.

## 2. The modules

| Module | Contents |
|---|---|
| `Traversal` | abstract: what the driver's traversals promise: the least set that has the roots and what it asks for |
| `ModuleOptimization` | the compile driver, and its refinement mapping |
| `MCModuleOptimization` | a program of nine modules for it |
| `ModuleOptimizationProofs` | its inductive invariant and the theorems from it |
| `DemotionProofs` | theorems about demotion |
| `FinalSetProofs` | theorems about the set of modules that is compiled, and the refinement |
| `OnefileBootstrap` | the bootstrap, the directory, the signals and the program's process |
| `MCOnefileBootstrap` | two payloads for it |
| `OnefileBootstrapProofs` | theorems about the files of the program, its interrupts and its exit code |
| `GeneratorStates` | abstract: what a generator is, in the states `inspect` reports: who may be resumed, and who gets control back |
| `CompiledGenerator` | detailed: the C functions, and its refinement mapping |
| `MCCompiledGenerator` | symmetry |
| `CompiledGeneratorProofs` | lemmas about chains of delegation, the inductive invariant, the theorems, and the refinement |
| `AsyncIteration` | abstract: what operations on an async generator promise each other |
| `CompiledAsyncgen` | coroutines, async generators and their operations, and two refinement mappings |
| `MCCompiledAsyncgen` | symmetry |
| `CompiledAsyncgenProofs` | the inductive invariant of coroutines, async generators and operations, the theorems, and both refinements |
| `Importing` | abstract: what Python promises of the import of modules by several threads |
| `ModuleLoader` | imports at run time, in several threads, and the refinement mapping |
| `MCModuleLoader` | seven modules for it |
| `ModuleLoaderProofs` | theorems about it, for any modules and threads, and the refinement |
| `SharedCache` | abstract: what the cache promises to the compilations that share it |
| `BytecodeCache` | compilations that share the cache, and the refinement mapping |
| `MCBytecodeCache` | a package that has, or has not, a submodule |
| `BytecodeCacheProofs` | theorems about it, for any number of compilations, and the refinement |
| `Statements` | the statement nodes of a function body |
| `Executions` | what a body does when it runs: the meaning that the optimization has to keep |
| `ValueTracing` | the computation of a body with traces of its variables |
| `MCValueTracing` | the bodies that the runs start from |

`CompiledGenerator` and `CompiledAsyncgen` both instantiate `GeneratorStates`, the latter
`AsyncIteration` too; `ModuleOptimization` instantiates `Traversal`, `ModuleLoader` `Importing`, and `BytecodeCache` `SharedCache`. `ValueTracing` extends `Executions`, and that `Statements`. The bootstrap and the
program are in one module because their interaction is the subject, and so are coroutines, async
generators and operations, which await each other. The compiler and the run time share nothing
at run time and are not composed. `ValueTracing` is inside of what the driver's
model takes for any outcome of `computeModule`, and `BytecodeCache` is about the usages that the driver's
model takes for given.

Definitions whose names begin with `Mut` are wrong on purpose. Each is a
plausible mistake in a definition that follows it, and PROJECT.json "mutants" says which
property is violated if it takes that definition's place. Nothing uses them.

### ModuleOptimization

A module object is a pair of a name and a form. `"tree"` is what `buildModule`
makes from source, `"bytecode"` an `UncompiledPythonModule`. That is just enough
to speak of two objects of the same name. `roots`, `cache` and `attached` are
`root_modules`, the import cache, and what plugins keep (`pre_modules`,
`post_modules`, `fake_modules`); `active`, `done`, `unfinished`, `passCount`,
`tags`, `unchanged`, `touched` are the variables of the same or a similar name.
`pc` is the position in the nested loops:

    start -> pick -> micro -> ... -> consider -> pick -> ... -> demote -> start -> ... -> finished
                 \-> attempt -/

| Action | Code |
|---|---|
| `StartPass` | `startTraversal` |
| `NextModule` | `nextModule` and the dispatch by `optimizeModule` |
| `MicroPass` | one round of `optimizeCompiledPythonModule`: `computeModule`, the tags, `attemptRecursion` and the decision to retry, to end, or to give up |
| `MicroPassOfFinalized` | the same for a tree that has been finalized |
| `AttemptParent` | `optimizeUncompiledPythonModule`, `optimizeExtensionModule` |
| `ConsiderModules` | `considerUsedModules`, `considerImplicitImports`, the accounting of unfinished modules |
| `StandardLibraryPhase` | the call of `considerUsedModules` with pass -1 |
| `FollowIncomplete` | `considerIncompleteModuleSet` |
| `EndPass`, `DemoteModule`, `DemotionDone` | the rest of `_makeOptimizationPass` and `_optimizeModules` |

What `computeModule` does to a body is any choice of: the tags it signals, the
imports that the body uses afterwards, whether scopes were propagated. Imports
change only with the body. The order of `OrderedSet` is any order, which is more
than the code has, and so covers every order of discovery. The program is a set
of CONSTANTS, with named assumptions: the main module is compiled and not
importable, modules of plugins are not importable by others.

### OnefileBootstrap

`at` is where `main` is, `frames` the stack of calls of `cleanupChildProcess`
that have not returned, and only the last frame moves. The handler is a push at
any moment (`Signal`), from the terminal (the group gets it, the bootstrap does
not forward), by `killpg` (the group gets it and the bootstrap forwards SIGINT)
or with `kill` (the bootstrap alone). Each system call that another process can
see is a step: opening, writing and closing a file, every single removal, `fork`
and the assignment of its result. `child` has the states of a process;
`"removing"` is a child between `fork` and `execv` that runs the handler it
inherited, because of its own signal (`Signal`) or of one that the bootstrap forwards
to it (`Pend`). The disk has for each entry `absent`, `partial` (opened, not all
written), `contents` (the bytes of the program, not executable yet) and `complete`.

`collector` and `interrupts` are history variables, read by properties only. `Restart` starts the binary again in the same cache directory.

### CompiledGenerator

`calls` has for each thread the C functions that it is in, and the generator
bodies, which are Python code and do anything: yield, return, raise, delegate,
or call any method of any generator, their own too. A record of `calls` is the
function, its generator, the kind of exception passed, and the delegate it waits for. `Turn`
says that C code is not interrupted by other threads, that is the GIL: a thread
moves only if all others are in Python code.

Values are dropped, and of exceptions there are `"exit"` (GeneratorExit) and
`"error"`. `ReentrantThrow` says whether a throw may come to a generator that is
waiting for another thrown exception or delegation. With FALSE a
program never does that, and everything checked holds. With TRUE it may, and
`NoRecursion` fails (see the known disagreements below). The constant only restricts what programs
do, the actions of the C code are the same in both.

The refinement: `GeneratorState` is the computation of
`inspect.getgeneratorstate` in `InspectPatcher.c`, and the stack of the abstract
module are the bodies of a thread that run or wait for a delegate.
`IsCoroutine == States!Spec` says that each step is a resume, a leave of the last
resumed, the end of one that was never started, or nothing.

### CompiledAsyncgen

The variables have the names of the fields: `status`, `running`, `yieldFrom`, `awaiting`,
`runningAsync`, `genClosed`, and `op` for the operations with their `m_state`. There is
one thread, as event loops have, and `calls` is its stack. When that is empty the event loop
steps, cancels or closes a task, or drives or drops an operation (`LoopNext`). A body yields, returns, raises, or awaits a
future, a coroutine, or a new operation (`BodyNext`). Everything else is C code, one action for each
way through a function:

| Actions | Code |
|---|---|
| `SendToFinished`, `AlreadyExecuting`, `EntersBody`, `SendToBody`, `SendToAwaited`, `DelegateAwaits`, `DelegateEnds` | `_Nuitka_Coroutine_send`, `_Nuitka_Asyncgen_send` and what they await |
| `ThrowToAwaited`, `ThrowToStarted`, `ThrowToOther`, `ClosingReturns`, `ThrowingAwaits`, `ThrowingEnds` | `_Nuitka_Coroutine_throw2`, `_Nuitka_Asyncgen_throw2` |
| `CloseStarted`, `CloseOther`, `CloseReturns` | `_Nuitka_Coroutine_close` |
| `OpAlreadyUsed` ... `AthrowGoesOn` | send of `asend` and `athrow` objects |
| `OpThrowStarts`, `OpThrows`, `CloseOp`, `CloseClosedOp` | throw and close of them |
| `OpAwaits`, `AsendEnds`, `AthrowEnds`, `AcloseEnds` | the unwrap helpers, which give the lock back |

Values and exceptions are abstracted to `Results`. `"null"` is NULL without an exception, which is how
some functions say that they are done, and the reason for half of the cases. `BadArguments` says whether
athrow may be given something that is no exception.

### ModuleLoader

`stack` has for each thread the frames of what it is in; `result` is what came out of the last one.
Frames in `InC` are C code of the loader, and a thread moves only when no other is in such
a frame: that is the GIL. Bodies of modules and the frames of importlib are Python code, which others may interrupt. The latter
are external, modelled from what the loader relies on: the lock of a module, the detection of circles, the second look
for a module that is `_initializing`, the removal of one whose execution failed. A module object is `<<name, i>>`, so
that one executed twice is seen. `ended` and `partial` are history variables. `Copies` stands for the memory that
objects are made in: `New` takes one that nothing refers to any more.

| Actions | Code |
|---|---|
| `ImportEmbedded` | `IMPORT_EMBEDDED_MODULE` |
| `ExecuteStarts`, `Load`, `LoadFails`, `LoadEnds`, `PostStarts`, `PostEnds` | `EXECUTE_EMBEDDED_MODULE`, `loadModule`, and the module's function |
| `FixedParent`, `FixedSelf`, `FixedImports`, `FixedFront`, `FixedValue`, `FixedParentFails`, `FixedFails` | `IMPORT_MODULE_FIXED` and its helpers |
| `Create`, `ExecFails`, `ExecEnds`, `Find`, ... | importlib, around `find_spec`, `create_module`, `exec_module` of the loader |

### BytecodeCache

`pc` is where a compilation is in its handling of the one module:

    idle -> has -> get -> load -> done                           a hit
       \-> trace <-/
              \-> open -> write1 -> write2 -> done                a miss

and `failed` or `dead`. The question whether there is an entry (`HasCached`, when the module is created)
and the reading of it (`HasLoaded`, `GetCached`, `GetLoaded`) are steps with other
compilations in between, as is each write of one of the two parts of a file. `Kill` ends a compilation that writes (elsewhere it leaves nothing behind),
`CleanCaches` removes the directory. An entry is what `Stored` keeps of the usages, and is a hit when
locating every name again gives the same (`SameResult`). For the keys in `Asserted`, which are those of the one module that the
code asserts this of, it fails if it does not (`Raises`). `disturbed` is a history variable: the compilations
whose file another process changed under their hands.

For `SharedCache` a file is what it decodes to (`Loads`), which is one answer or nothing, and the two readings of it are one look: a
writer that opens, writes, or is killed with the file half written shares nothing, and only its last write shares an answer. What is `Asserted` in the code is
`Strict` there: the process that looks at an answer other than its own may fail (`Reject`).

### Statements, Executions, ValueTracing

A body is a sequence of nodes. The operations are those that a trace sees: the assignment of a constant, a
call with or without the variable (it may raise, and run closures), `del`, the `del` that tolerates an unset
variable, an `if` with an opaque condition, the endless loop that all loops are reformulated to, `try`, and the jumps. `kind` says who else
uses a variable: nobody, a closure that reads it, or one that writes it.

`Exec` computes all states in which each node is reached and each way out is taken, for all outcomes of calls and
conditions and any number of iterations. It does not know of traces, and is what `ClaimsHold` and
`SameBehaviour` compare with.

A `Pass` is one computation of the body, which changes nothing once the body is settled. The record `t` is threaded through the statements as the
collection is in the code. Its operators are the methods: `ControlFlowEscape` is
`onControlFlowEscape`, `MergeMultiple` and `MergeBranch` are `mergeMultipleBranches` and `mergeBranches`, `Merge` is the constructor of `ValueTraceMerge`,
`ComputeLoop`, `ComputeTry`, `ComputeIf` are `computeStatement` of these nodes, `May` and `Aborting` are `mayRaiseException...` and
`isStatementAborting`. What nodes keep from pass to pass is in `t` too (the hints of loops, `tried_may_raise`).

## 3. What is checked

| Run | Shows | States |
|---|---|---|
| `passes` | the driver: types, one object per name, no use after finalize, the final set exact and usable, the refinement of `Traversal`, termination | 210,660 |
| `debug_micro_passes` | the debug retry gives up only for new changes | 33,884 |
| `onefile_temporary` | removal, one interrupt, exit codes, files kept, both processes end | 26,873 |
| `onefile_cached` | only complete files are started from, with any number of restarts | 14,078 |
| `generators` | coroutines, no recursion, delegates kept, close ends | 46,550 up to symmetry |
| `asyncgens` | coroutines, async iteration, the lock given back, awaits kept, aclose ends | 511,395 up to symmetry |
| `bytecode_cache` | a hit is what compiling gives, what is written is a hit, the refinement of `SharedCache` | 787,472 up to symmetry |
| `module_loader` | imports give finished modules, executed once, the refinement of `Importing` | 277,243 up to symmetry |
| `value_tracing` | traces claim what is true, bodies do the same, the passes end | 41,310, from 12,990 bodies |

Three further runs violate what a text of the repository says; each is a finding in
`PROJECT.json`, which quotes that text:

* `lost_exception`: an exception that an awaited `asend` raises while it is closed is thrown into it again, and lost (`CompiledCoroutineType.c:729`).
* `parent_order`: the fixed import of `a.b.c` executes `a.b` before `a` (`HelpersImport.c:493`).
* `loop_variables`: a loop keeps the old trace of a variable that a closure called in it changes (`LoopNodes.py:167`).

### Known disagreements without a run

Where a model, or its run with other constants, shows that a property does not hold in general.
The runs exclude these cases by the constants named here, never in the actions.

* A fake module in bytecode mode is not replaced by demotion, and its finalized tree is optimized again (`BytecodeDemotion.py:76`; `KindFakeBytecode` violates `NoUseAfterFinalize`).
* A module built for the standard library only keeps that reason when it is imported for real later (`Recursion.py:694`).
* `removeDirectory` gives up at a link whose target it removed before (`OnefileBootstrap.c:594`), so the temporary run has no links. A failed write leaves the directory (`:143`). `handle_process` is never reset, and SIGKILL may go to a collected pid (`:748`). The program's "infinite" grace time is a finite one for `usleep` (`MainProgram.c:789`).
* A throw into a generator that is passing on another one resumes its body (`CompiledGeneratorType.c:1193`; `ReentrantThrow = TRUE` violates `NoRecursion`). A generator closed before its start can be started (`:900`).
* `athrow` with something that is no exception does not give the lock back (`CompiledAsyncgenType.c:1978`; `BadArguments = TRUE` violates `LockFreed`).
* A bytecode cache entry stays a hit after a file became a package (`BytecodeCaching.py:97`): in both forms the kind is `py`.
  For the module `email._header_value_parser` an entry with a usage that is found differently now is no miss but an
  `AssertionError` (`:102`), that nobody catches: what another installation left in the shared cache ends the compilation, with no other process near.
  The model has this (`Asserted`, `Raises`); `FailsOnlyIfDisturbed` is about all other modules.
* A tried block that aborts loses `has_unescaped_variables` (`TryNodes.py:222`; `Of(Tries, "written")` violates `AssignedAsClaimed`). A loop looks through an unknown trace (`ValueTraces.py:671`; `Of(Loops, "written")` violates `HasValueWhenClaimed`). An exception by a signal at the end of an iteration is not annotated (`LoopNodes.py:486`; `Interrupts = TRUE` violates `SameBehaviour`). A loop whose body is only `continue` ends the compilation (`LoopNodes.py:459`).
* A module whose fixed import failed stays in `sys.modules` (`MetaPathBasedLoader.c:1723`). Fixed imports take no lock, so that other threads may get their modules half initialized, or execute them twice. The mark of a module is cleared before its post-load code has run (`:1512`). The properties of the loader are about modules that neither a fixed import nor code of plugins enters (`Embedded`). The second half of `OneExecution`, that no thread executes a module inside of itself, is about the others too, unless they may raise: then the failure of a second execution in another thread takes the module out of `sys.modules`, and an import in the body of the first one executes it once more. (The attempt to prove it without that condition led to this case, and TLC confirmed it.)

### The properties

Each property has a comment at its definition that states it. The ones that say most:

* `FinalSetExact` (`FinalSetClosed` and `FinalSetMinimal`) says that the final set is the
  least set that contains the roots and is closed under what its modules ask
  for, for every order of discovery, every moment at which an import disappears or appears,
  and although one phase skips usages. Each is violated by forgetting one call.
* `NoUseAfterFinalize`, `OneObjectPerName`, `FinalSetUsable` relate four tables
  that are updated separately, across passes.
* `PayloadRemoved` and `FilesKept` pull in opposite directions: the directory
  must be gone in the end, yet nothing may be removed before the program ended,
  with handlers nested in one another. `FilesKept` starts when the bootstrap has
  stored the pid, the window before it is a hazard in the list: there
  the property is false.
* `FailurePassedOn` is for the case that `main` collects the child. If a handler
  does, the exit code is 0 whatever the program returned.
* `ProcessesEnd` says that a signal, or the death of the bootstrap, ends both processes in the end,
  whatever the program does with the signals.
* `StartsComplete` relates the disk to a history of killed and failed bootstraps.
* `IsCoroutine`, `NoRecursion`, `DelegateKept`, `ResumedAfterDelegate` and
  `CloseEnds` are about chains of delegation with any interference by the bodies. `CloseEnds` is about generators that have begun (`closed`): after a
  close that succeeded they are finished and in no call, for good. One that has not begun is left `Unused` by a close, as the code does, and may be started.
* `LockFreed`, `AwaitKept`, `ResumedAfterAwait` and `AcloseEndsBody` relate the operation, the
  generator's fields and the body's await, which are updated in different functions. `IsAsyncIteration` says that
  `CompiledAsyncgen` implements `AsyncIteration`: operations use a generator one at a time, and are done
  with it only at a yield or its end.
* `IsTraversal` says that the driver implements `Traversal`: within a traversal modules are only added, one at a time, and only
  if something included asks for them; none is optimized twice; and the driver ends with a closed set.
* `ImportsFinished` and `OneExecution` are what Python promises of imports. They depend on
  one mark that the module's code copies to the `__spec__` it makes, and that is cleared behind it. `IsImporting` says that
  the loader implements `Importing`, of which `FailedIsGone` is a part: each step takes or leaves a lock, begins, ends or fails one execution, and gives
  one thread what it may have.
* `HitAsCompiled` compares a hit with what tracing would give in the same process, for any history of the
  file. `WrittenIsHit` is its counterpart: without it, a cache that never hits would be correct. `IsSharedCache` says that
  the cache implements `SharedCache`, of which `FailsOnlyIfDisturbed` is a part: what is in a file at any time is an answer or nothing, a crash of one compilation
  does not break later ones, and only what comes between two steps of a compilation makes it fail, or, of the asserted module, an answer that is not its own.
* `ClaimsHold`, `SameBehaviour` and `ExitsAnnotated` compare a walk over a body, with merges and repeated passes, with
  all executions of it. `Settles` says that the passes come to an end although loops give hints up again.

### Bounds and why they are enough

*Driver.* `MCModuleOptimization` has one module for each thing the
driver treats differently: a package with a submodule, a root that is not the
main module, a module that the standard library phase adds, an extension
module with an implicit import, a module that only a plugin has followed, one that
was never compiled, a trigger, a fake module, and three modules in bytecode mode that
are held by different tables. `Changes` bounds how often a body changes: with 2 a
module can gain an import and lose it, or two modules can change in different
passes. Names are independent of each other beyond these relations, so more of
the same kind gives no new kind of interaction.

*Bootstrap.* The program and one library (one file would not show partial
unpacking), and one link where it matters. Two different signals are what it takes
for a nested handler, at every pair of points; the same signal is masked in its own
handler. Restarts are not bounded.

*Generators.* Three, so that there is a delegate of a delegate and a third party
operating on both; two threads, of which C code of one excludes the other. The
depth of the stacks is bounded by the code itself, because a generator
is on a stack at most once, except for calls that fail at once. Generators and threads are
interchangeable, and the properties are safety properties that name none of
them, so the symmetry reduction is sound.

*Async generators.* Two tasks that may step in between, a coroutine that either awaits, and two operations on one
generator: one that holds it, and another that meets it locked. Operations are reused when nobody waits for them,
so their number over time is not bounded. The depth of the stack is bounded by the objects. Two
generators would share nothing but a body that awaits operations of both, which one coroutine
and the loop already do.

*Loader.* Each of two threads imports once at its top level; nested imports are not bounded. The modules: a package, its module and
a third that import each other in a circle, one of them bytecode, one that has code of plugins before it that imports it
again, and a fixed import in another package with code after it. All but one may raise. Three `Copies` are enough: what is not
shared any more is reused, and `New` would have no value otherwise, which ends the run with an error.

*Bytecode cache.* Three compilations: one that leaves a file, and two that meet at it. Two keys that have
different imports of the same names, one of them of the asserted module, and a submodule that is installed or not for each
compilation: that is how a hit goes stale. Two lengths of text, so that a part of a longer file can stay behind a shorter one.

*Tracing.* `MCValueTracing` has a template for each structure, with all combinations of the statements that matter at each place of it:
loops, handlers, final blocks (reformulated to a copy in each handler), each in the other, and loops in loops, with one variable; and
two variables that share one collection. Nesting two deep is what makes a merge of merges, which the code flattens if both are
plain ones (`Merge`; one template, `Branches`, is there for it: branches in branches that assign, delete, call or leave the variable alone, and uses after them),
and a loop with an unfinished loop in it. `Sound` has all of them for a variable nobody else uses, four of the templates
for one that a closure reads, and final blocks and branches for one that a closure writes. Loops and aborting handlers with a variable that a
closure writes are left out for the disagreements above: there the properties are false.

### Fairness

The driver is a loop in one thread: weak fairness of `Next`. Weak fairness is
enough for `Terminates` because the bounded changes are the only choice that
can be repeated. The bootstrap and the child's kernel side (`execv`, handlers,
the monitor thread) run when they can: weak fairness of `BootstrapSteps` and of
`ChildSteps`. There is none for the end of the program, for signals, for faults
and for the passing of time: `SignalEnds` and `OrphanEnds` hold although the
program may never end by itself. A body that changed is computed again: weak fairness of `Pass` for
`Settles`, which is all the code does until then. Each compilation that is not killed goes on: weak fairness of `Step(c)`, on which no property
of the cache depends. No liveness is claimed for generators, async generators and imports: bodies and
event loops may do nothing for ever.

## 4. What is proved

Each theorem is about any values of the constants of its module that satisfy the named
assumptions there. Hypotheses beyond these are part of the statement, and explained below.

| Theorem | Says |
|---|---|
| *driver* (`ModuleOptimizationProofs`, `DemotionProofs`, `FinalSetProofs`) | |
| `TypeCorrect` | `Spec => []TypeOK` |
| `OneObjectPerNameHolds` | `Spec => []OneObjectPerName` |
| `PassOnlyGrowsHolds` | `Spec => PassOnlyGrows` |
| `MainInvHolds` | after pass 1 the main module is unfinished |
| `NoUseAfterFinalizeHolds` | `NoBytecodeFakes => (Spec => []NoUseAfterFinalize)` |
| `FinalSetUsableHolds` | `NoBytecodeFakes => (Spec => []FinalSetUsable)` |
| `FinalSetExactHolds` | `Spec => []FinalSetExact` |
| `GivesUpForChangesOnlyHolds` | `Spec => []GivesUpForChangesOnly` |
| `IsTraversalHolds` | `Spec => IsTraversal`, the refinement of `Traversal` |
| *bootstrap* (`OnefileBootstrapProofs`) | |
| `TypeCorrect` | `Spec => []TypeOK` |
| `FilesKeptHolds` | `Spec => FilesKept` |
| `StartsCompleteHolds` | `Spec => []StartsComplete` |
| `OneInterruptHolds` | `Spec => []OneInterrupt` |
| `FailurePassedOnHolds` | `Spec => []FailurePassedOn` |
| `PayloadRemovedHolds` | `Links = {} => (Spec => []PayloadRemoved)` |
| *generators* (`CompiledGeneratorProofs`) | |
| `TypeCorrect` | `Spec => []TypeOK` |
| `NoRecursionHolds`, `DelegateKeptHolds`, `CloseEndsHolds` | `~ReentrantThrow => (Spec => []...)` |
| `ResumedAfterDelegateHolds` | `~ReentrantThrow => (Spec => ResumedAfterDelegate)` |
| `IsCoroutineHolds` | `~ReentrantThrow => (Spec => IsCoroutine)`, the refinement of `GeneratorStates` |
| *async generators* (`CompiledAsyncgenProofs`) | |
| `TypeCorrect` | `Spec => []TypeOK` |
| `AwaitIsKept` | `Spec => []AwaitKept` |
| `LockIsFreed` | `~BadArguments => (Spec => []LockFreed)` |
| `AwaitIsOver` | `Spec => ResumedAfterAwait` |
| `AcloseEnded` | `Spec => AcloseEndsBody` |
| `IsAsyncIterationHolds` | `Spec => IsAsyncIteration`, the refinement of `AsyncIteration` |
| `IsCoroutineHolds` | `Spec => IsCoroutine`, the refinement of `GeneratorStates` |
| *loader* (`ModuleLoaderProofs`) | |
| `TypeCorrect`, `ImportsFinishedHolds`, `OneExecutionHolds`, `FailedIsGoneHolds` | `Endless => (Spec => []...)` |
| `IsImportingHolds` | `Endless => (Spec => IsImporting)`, the refinement of `Importing` |
| *cache* (`BytecodeCacheProofs`) | |
| `TypeCorrect` | `Spec => []TypeOK` |
| `FailsOnlyIfDisturbedHolds` | `Spec => []FailsOnlyIfDisturbed` |
| `HitAsCompiledHolds` | `NoFileBecomesPackage => (Spec => []HitAsCompiled)` |
| `WrittenIsHitHolds` | `Spec => WrittenIsHit` |
| `IsSharedCacheHolds` | `NoFileBecomesPackage => (Spec => IsSharedCache)`, the refinement of `SharedCache` |

### The driver

`OneObjectPerName` is not inductive. The strengthening `IInv` adds
that a name that is in two tables has the same form in both (`TablesInv`: the
main module is only in `roots`, other roots are in `cache` too, attached modules in
neither), that bodies use only imports they may come to use (`UsesInv`), and that
in a pass whatever is queued or done is what some table refers to
(`TraversalInv`). Only names whose reference is unique can then be queued. `RecurseToFacts`
says what the common part of five actions keeps: it only fills empty places
of the tables. `DemoteModule` breaks that what is done is referred to, and need not keep it, as
the traversal is over; demotion replaces a form in all the tables that have it.

The second argument is about the passes. `FinalizedInv` says that the tables
refer to the bytecode object of whatever was finalized. It needs the
condition `NoBytecodeFakes`: a fake module in bytecode mode is also a trigger.
`KindFakeBytecode` is a counterexample without it. It is not enough for `FinalSetUsable`:
if pass 1 left nothing unfinished then the finalized trees in
`done_modules` would be final. `MainInv` excludes that: the scope of the main
module is not complete when it is first computed, so that its first micro pass has the tag
`var_usage`, so the module is touched and stays in `unfinished`.

The third is about the set that is compiled, which is a fixpoint reached in steps that may undo each other: imports come and go while
modules are optimized. A module is *settled* in a traversal once it was considered. As no name is in a traversal twice, what a settled
module asks for does not change before the next traversal begins. `ClosedInv` says that all of that is in the traversal. `LeastInv`
says that the traversal is in every set that has the roots and that is closed under what settled modules ask for. At the end of a traversal
all are settled, and both together are `FinalSetExact`. They are invariants of traversals after the first only, since in pass 1 usages of the
standard library wait; that is enough because of `MainInv`, by which pass 1 is not the last. What recursion decides does not
depend on the state there, as a module that is in a traversal was built and is not given the reason "stdlib" any more (`HeldIsNotNew`).

`GivesUpForChangesOnly` follows from `RetryInv`: a micro pass that changed nothing has left the module complete, so that
the driver has no reason to add `var_usage` in the one that it retries.

The refinement maps the modules that are queued or done to `included`, and those that are done, but the one the driver is at, to `settled`. Everything
within `computeModule` is a stutter or one more computation of that module (`Optimize`). `ClosedInv` and
`LeastInv` are what its last step, `Finish`, needs: the roots are included too (`RootsInv`), which `FinalSetMinimal` alone does not say. That a settled module's
usages are frozen is a conjunct of `Include`, and follows since only the module at hand is computed; that no step replaces an object by its other form
is `OneObjectPerName`. Demotion happens between two traversals, where the abstract state says nothing of the tables.

### The bootstrap

For `FilesKept` the invariant `KeepInv` says that once the child is known every frame
that removes files has seen the end of the child, and so has one that is about to kill
without a grace time. It holds from the moment at which `main` stores the pid, because
`main` moves only when there is no frame. For `StartsComplete`, in cached mode,
`CacheInv` says that what `main` has passed by is written, up to the executable bit of
the program, that there is no child before `main` has passed by everything, and that
`execv` is what notices the missing bit. In temporary mode the property says nothing.

`OneInterrupt` compares a counter with the number of signals that were sent. `InterruptInv` adds
the one that is still `Coming`: a signal at the program that its handler will not take for a
duplicate, or one that a frame of the bootstrap has yet to send. There is at most one of both, and it was not counted yet.
For `FailurePassedOn` the invariant `ExitInv` says that what `main` has collected is final: no clean up changes
`status` or `exitCode` behind it. For `PayloadRemoved`, `RemovedInv` says that once `main` cleans up no child and no unpacking can touch
the directory any more, so that the first clean up that returns has removed all of it. This needs `Links = {}`, since
`removeDirectory` gives up at a link whose target it has removed: with links the property is false.

### The generators

The invariant has four parts. `RunningInv`: a generator runs in one call of one thread, and `m_running` says so for exactly as
long. `StackInv`: each C function that waits has called what it waits for, and the fields of its generator are as the
function left them. `ObjectInv`: `m_yield_from` is what the body waits for, except while a call of the generator has it
in its hands. `Acyclic(yieldFrom)`: following `m_yield_from` ends. The last one is what recursion of close and throw needs,
and it is not kept for simple reasons: a delegate is put back after calls of Python code that could have changed the chain below it. So
`TopInv` says of the call on top that the chain below its generator is `Clean`, none of it passes an exception on,
or `Quiet`, none of it runs. Chains are defined as least closed sets (`Follow`), not by recursion, and a
section of lemmas says how they change with one delegate more or less.

`CloseEnds` rests on two more facts: a close that waits for the body is of a generator that has begun (`FrameInv`), and a body that
has ended is never entered again (`FinishedInv`, `StaysFinished`).

`ReentrantThrow` is the known disagreement: throw does not look at `m_running`, a throw
into a generator that passes another one on enters its body a second time, and all of this is false. `TypeCorrect` does not need the hypothesis.

The refinement maps the running bodies of a thread to `current`, and the calls below to `resumer`: each C function either keeps
who runs in its thread (a stutter), or enters or leaves a body. That control goes back to the one that resumed is
in the abstract state and follows from `StackInv`: nothing but the function on top can return.

### The async generators

Even `TypeOK` needs the stack (`TypeInv`): only what a function has called says which results it can get, and a wrapped value must come
to an operation, that unwraps it. What the theorems need besides is `AsyncInv`, of parts that are inductive only together:

* `StackRunInv`: what each waiting call relies on when it goes on, such as that `m_yield_from` still is what it gave the exception to, and that
  `m_running` is set for one call of the object.
* `AwaitInv`: the fields of a suspended body agree with what it awaits, that has begun and has not ended (`RunnersInv`); nothing is awaited by
  two (`UniqueAwait`), since a coroutine that is awaited says so in `m_awaiting`, and an operation is new when it is awaited. The one exception is a
  coroutine that awaits itself: it is entered for long enough to refuse (`SelfInv`). `AwaitKept` follows.
* `CalledInv` and `ResultInv`: in which states a function is called, and that a result tells whether what returned it goes on. An
  operation learns by the result alone whether the body has come to a yield or has awaited.
* `OpInv`: an operation that has not ended, and has not just returned to its awaiter, holds the lock of its generator, alone (`LiveInv`, `UniqueLive`).

`LockFreed` is the converse of `LiveInv`, `Held`: whoever has set `m_running_async` is still there to reset it. `Held` is kept unless an athrow object
fails on its arguments after it has set it, hence the hypothesis `~BadArguments`; with bad arguments it is false, as said in section 3. It leaves out
generators that have awaited in answer to GeneratorExit of a close of their operation (`ignored`), which nobody goes on with.
For `ResumedAfterAwait` and `AcloseEndsBody`, `DoneKept` says that who is told of an end is told of one that has come: a coroutine
is finished, an operation has given back its generator, or is closed; and that a finished generator is given back by the call that is on the stack.

The refinement of `AsyncIteration` maps to each generator the operations that use it and whether its body is midway. An operation gets its result
before the body that awaits it goes on, so the awaiter may be about to leave an operation that still has state ITER: `LeavingInv` says
that the generator was given back by then. Each C function then takes at most one abstract step: the body of one generator stops or goes on, an operation comes to use
it (`OpBegins`), is done with it where the body is not midway (`OpGoes`), or abandons it (`OpAbandons`). This needs no hypothesis: also with
bad arguments operations exclude each other.

The refinement of `GeneratorStates` is about the stack: what a step does to it (`Moves`) enters the body of the object on top, leaves it, or changes neither
who runs nor who resumed it (`TopChanges`), since by `OneActivation` a body is in one call only. Unlike that of generators it needs
no hypothesis: throw reaches only what is not running, by `CalledInv`.

The assumption that there are no operations without async generators is that each operation is of one.

### The loader

`Locked` are the modules that importlib alone executes. `LockInv` says that two threads are never in calls that hold the
lock of the same module. `StackInv` says who calls whom: a body belongs to a call of the loader, and that to an `exec_module` of importlib which
has the lock. `NestInv` says that nothing on top of an execution is another one of the same module. `CallsInv` says how far each execution is: from `modules`,
`initializing`, `ended` and the last result, one can tell what comes next. `ModuleInv` says that an object in `sys.modules` has ended or is being executed
under the lock (`Known`), that an ended object is the one in `sys.modules` (`Latest`), and that importlib gives out no other (`Ready`). The mark in `__spec__`
matters in `CallsInv`: an object that is executed and not ended is `initializing`, so that importlib waits for it.

`Endless` says that there are finitely many names and threads, and always another object (`Copies` is infinite). The code takes memory for a new module or
fails with an exception that ends the import; that failure is not modelled. The run has three objects of a name, which suffice for its threads, as its
type invariant shows. That each module has a package in front with no parent (`LoaderAssumption`) is what a name with dots is.

The refinement of `Importing` maps the calls of importlib that have a lock to `holder`, the call on top that waits for one to `waits`, and `sys.modules`
with `ended` to the state of each module. `got` is what the last result is in `sys.modules` by now, so that a thread that has half of a module loses it
when that is taken out. It needed one more conjunct of `StackInv` than the invariants did: what waits for a lock is on top of its stack (`Carries`), or else a thread would
wait for a module and execute another. Each action then has a lemma that names its step in `Importing`: what a function calls with its lock (`ContinuesOne`,
`ContinuesTwo`) or gives back (`LeavesReturn`) is of one shape, and only `Create`, `BodyEnds`, `LoadFails` and `ExecFails` change the state of a module. A bytecode
module is taken out twice, by `LoadFails` for the C function and by `ExecFails` for importlib: the first is `Fail`, the second `Leave`. That a lock is left
only when nothing is half done (`Leave`) is where `CallsInv` and `Known` meet. Circles of waiting threads are the same in both (`CircleIs`): what `importlib`
finds by following its locks is one.

### The cache

`StoreInv` relates writers to files: who writes has a file, unless it was removed, and a file needs the directory. `ContentInv` says that each part of a file,
whoever wrote it and whatever it was left in, comes from tracing that source with *some* installation. `TracedInv` says that who writes has what tracing gives with
its own. `UndisturbedInv` says that what an undisturbed compilation found out holds when it acts on it. A file that
loads has all its parts of one writer, or parts with the same usages, so a hit is what tracing gave for some installation,
and `SameTrace` shows that the names are then found alike by both. That lemma is where `NoFileBecomesPackage` is
needed: no file that has imports of names in it is a package in another installation. Without that the property is false, as said in section 3.

The refinement of `SharedCache` needs no further invariant. A file that somebody writes a part of decodes to nothing, or to what that writer has
(`WrittenEntry`): two writers that mix their parts share an answer only if it is the same. A hit of `SharedCache` takes an entry that *is* the answer
of this process, which is `HitIsTraced`, and so needs `NoFileBecomesPackage`; the other steps do not.

### What is not proved

Only model checked: all liveness (`Terminates`, `ProcessesEnd`, `Settles`), which is out of the prover's reach.
`Statements`, `Executions` and `ValueTracing` walk over trees with recursive operators,
for which there is no proof system here, so that the tracing is checked by TLC only. No proof uses a recursive
operator; `Packages` is a recursive function that no proof expands.

## 5. Not modelled

*Driver.* Timing, the report and progress; what the optimization of
a body does to it (that is `ValueTracing`, for its variables); errors in the user's source (they end the compilation); decisions
that plugins change over time.

*Bootstrap.* The Windows side, DLL mode, the splash screen, decompression, several bootstraps in one cache directory, a failing `fchmod`.

*Generators.* Delegation to foreign iterators, preserved exceptions, reference counts, Python before 3.7.

*Async generators.* Python before 3.13, where the operations have fewer states; the hooks for the first iteration and the finalizer;
generators that are awaited; other awaitables than a future that is ready when the loop says so.

*Loader.* Extension and frozen modules, modules outside of the table, resource readers, distributions, Python 2, the hard imports of the
standard library, which are a fixed import each and then a cached pointer, and the names of a from-import that follow a fixed import
(`ImportCodes.py:164`), a further fixed import for each of them that is a submodule and not an attribute of the package yet, whose absence is ignored.

*Bytecode cache.* A full disk, the hashes in a key (a key stands for source, options and plugins), distributions in an entry, and the caches
of other tools.

*Tracing.* Type shapes; the giving up of loops after 20 attempts; the replacement of a reference by its value and what becomes known by
it, such as conditions (conditions are opaque, assignments are of constants); module variables, locals dictionaries and
inlined functions; the copy-on-write of collections, which are values here; threads that change variables of a closure between two
statements.

The reasons for whole components are in `PROJECT.json`.

## 6. The plan

Done: the driver and its theorems; the bootstrap and two theorems; generators and their refinement; coroutines and
async generators, against `GeneratorStates` and `AsyncIteration`; the bytecode cache; the module loader; the tracing of variables.

Proved since: the rest of the driver's safety properties, those of the bootstrap, of generators with their refinement, of async generators with
both refinements, of the loader and of the cache; then `Traversal`, `Importing` and `SharedCache`, abstract specifications of the driver,
the loader and the cache, and that they are implemented.

Next, extending the model: two bootstraps in one cache directory; the frame cache, with generators
that keep frames; the constants blob, its writer against its reader; the arithmetic of the grace time.
