------------------------------ MODULE BytecodeCache ------------------------------
(***************************************************************************)
(* The bytecode cache of Nuitka: nuitka/BytecodeCaching.py, its two users  *)
(* _createModule (nuitka/tree/Building.py) and                             *)
(* demoteCompiledModuleToBytecode (nuitka/optimizations/BytecodeDemotion), *)
(* and the module usages that imports make (nuitka/nodes/ImportNodes.py).  *)
(*                                                                         *)
(* A module in bytecode mode is compiled only to learn what it imports,    *)
(* which takes long.  The cache keeps these module usages in a file that   *)
(* is named after the module, what plugins contribute and the source code, *)
(* and that all compilations of a user share.  A later compilation with    *)
(* such a file includes the module without tracing it.                     *)
(*                                                                         *)
(* The model follows one module through each of a number of compilations,  *)
(* each a process of its own, with its own installation of packages, that  *)
(* may be killed at any point; files are read and written with no lock.    *)
(* Definitions named Mut... are wrong on purpose, and used by no action.   *)
(***************************************************************************)
EXTENDS Integers, FiniteSets

CONSTANTS
    Compilations,   \* processes that compile a program with the module in it
    Names,          \* the modules that it may import
    Packages,       \* the packages that a module is in: its own, and those around it
    Installations,  \* what may be installed: a form for every module
    Keys,           \* modules, source codes, what plugins contribute to the hash
    Asserted,       \* the keys of the module email._header_value_parser
    Imports,        \* the import statements left in the code of such a key
    Synthetic,      \* what a plugin may add as implicit imports
    Lengths         \* how long the times make the text of a file

Forms == {"absent", "file", "package", "extension"}
Statements == [module : Names, items : SUBSET Names]

ASSUME ConstantsAssumption ==
    /\ Packages \in [Names -> SUBSET Names]
    /\ Installations \subseteq [Names -> Forms]
    /\ \A inst \in Installations, n \in Names :
         inst[n] # "absent" => \A o \in Packages[n] : inst[o] = "package"
    /\ Asserted \subseteq Keys
    /\ Imports \in [Keys -> SUBSET Statements]
    /\ \A k \in Keys : \A s \in Imports[k] : \A i \in s.items :
         Packages[i] = {s.module} \cup Packages[s.module]
    /\ Synthetic \subseteq Names
    /\ Lengths \subseteq Nat \ {0}

VARIABLES
    pc,         \* where a compilation is
    key,        \* what it compiles
    inst,       \* what is installed for it
    implicit,   \* what plugins add in it
    length,     \* how long the text is that it may write
    used,       \* getUsedModules of the module, once it has them
    directory,  \* the cache directory exists
    file,       \* the file of a key: what each part of it holds
    unlinked,   \* the writers whose file is no longer in the directory
    disturbed   \* history: whose file another process changed under its hands

vars == <<pc, key, inst, implicit, length, used, directory, file, unlinked, disturbed>>

MutLocate(where, name, relative) ==
    [finding |-> IF relative THEN "relative" ELSE "absolute", kind |-> where[name]]
(***************************************************************************)
(* locateModule.  Packages and source files are both of kind "py".         *)
(***************************************************************************)
Locate(where, name, relative) ==
    IF where[name] = "absent" THEN [finding |-> "not-found", kind |-> "none"]
    ELSE [finding |-> IF relative THEN "relative" ELSE "absolute",
          kind |-> IF where[name] = "extension" THEN "extension" ELSE "py"]

Attempt(where, name, relative) ==
    [name |-> name, location |-> Locate(where, name, relative), synthetic |-> FALSE]

(***************************************************************************)
(* The attempts of one import: the module and all packages it is in, and   *)
(* the names imported from it, when it is a package.                       *)
(***************************************************************************)
WithParents(name) == {name} \cup Packages[name]

UsageAttempts(where, statement) ==
    {Attempt(where, n, FALSE) : n \in WithParents(statement.module)}
    \cup (IF where[statement.module] = "package"
          THEN {Attempt(where, i, TRUE) : i \in statement.items} ELSE {})

Traced(k, where) == UNION {UsageAttempts(where, s) : s \in Imports[k]}

SyntheticUsages(c, names) ==
    {[Attempt(inst[c], n, FALSE) EXCEPT !.synthetic = TRUE] : n \in names}

----------------------------------------------------------------------------
(***************************************************************************)
(* The file.  The buffers of Python make it in Parts writes, and a process *)
(* writes at its own offset, whatever another one has done meanwhile.      *)
(***************************************************************************)
Parts == 1..2
Unwritten == [usages |-> {}, length |-> 0]
Absent == <<>>
Truncated == [p \in Parts |-> Unwritten]

CacheName(c) == key[c]
Content(c) == file[CacheName(c)]

(***************************************************************************)
(* The part of the usages that writeImportedModulesNamesToCache stores.    *)
(***************************************************************************)
Stored(attempts) == {u \in attempts : ~u.synthetic}

(***************************************************************************)
(* loadJsonFromFilename: what the file decodes to, if it does.  Parts that *)
(* two processes wrote only fit if they are the same in usages and length. *)
(***************************************************************************)
Loads(content) ==
    IF content # Absent /\ \A p \in DOMAIN content :
         content[p] # Unwritten /\ content[p] = content[1]
    THEN {content[1].usages} ELSE {}

MutSameResult(where, attempts) == TRUE
MutRetried(where, attempts) ==
    \A u \in attempts : Locate(where, u.name, FALSE) = u.location
(***************************************************************************)
(* "Retry the module scan to see if it still gives same result"            *)
(***************************************************************************)
SameResult(where, attempts) ==
    \A u \in attempts :
        Locate(where, u.name, u.location.finding = "relative") = u.location

(***************************************************************************)
(* getCachedImportedModuleUsageAttempts, after its check that the file     *)
(* exists: the result, if that is not None.                                *)
(***************************************************************************)
Entries(c) == {u \in Loads(Content(c)) : SameResult(inst[c], u)}

(***************************************************************************)
(* The assertion that this module's usages are always found the same: one  *)
(* that is not is an AssertionError, where any other module has None.      *)
(***************************************************************************)
Raises(c) ==
    key[c] \in Asserted /\ \E u \in Loads(Content(c)) : ~SameResult(inst[c], u)

MutHasHit(c) == Content(c) # Absent
(***************************************************************************)
(* hasCachedImportedModuleUsageAttempts loads the entry to tell.           *)
(***************************************************************************)
HasHit(c) == Entries(c) # {}

----------------------------------------------------------------------------
Init ==
    /\ pc = [c \in Compilations |-> "idle"]
    /\ key \in [Compilations -> Keys]
    /\ inst \in [Compilations -> Installations]
    /\ implicit = [c \in Compilations |-> {}]
    /\ length = [c \in Compilations |-> 0]
    /\ used = [c \in Compilations |-> {}]
    /\ directory = FALSE
    /\ file = [k \in Keys |-> Absent]
    /\ unlinked = {}
    /\ disturbed = {}

inputs == <<key, inst>>
usages == <<used, implicit>>
store == <<directory, file, unlinked, disturbed>>

Goto(c, from, to) == pc[c] = from /\ pc' = [pc EXCEPT ![c] = to]

\* A process that an exception of the cache ends: no caller catches one.
Fail(c) == pc' = [pc EXCEPT ![c] = "failed"] /\ UNCHANGED <<usages, length, store>>

\* _createModule for the module in bytecode mode: the first question for the
\* file creates the directory, and asks os.path.exists.
HasCached(c) ==
    /\ Goto(c, "idle", IF Content(c) = Absent THEN "trace" ELSE "has")
    /\ directory' = TRUE
    /\ UNCHANGED <<inputs, usages, length, file, unlinked, disturbed>>

\* It loads the file, which may be gone by now, and only tells if there is a hit.
HasLoaded(c) ==
    /\ pc[c] = "has"
    /\ \/ (Content(c) = Absent \/ Raises(c)) /\ Fail(c)
       \/ /\ Content(c) # Absent /\ ~Raises(c)
          /\ \/ /\ HasHit(c) /\ pc' = [pc EXCEPT ![c] = "get"]
                /\ UNCHANGED disturbed
             \/ /\ ~HasHit(c) /\ pc' = [pc EXCEPT ![c] = "trace"]
                /\ disturbed' = disturbed \ {c}
          /\ UNCHANGED <<usages, length, directory, file, unlinked>>
    /\ UNCHANGED inputs

\* _loadUncompiledModuleFromCache does the same again, and takes no None.
GetCached(c) ==
    /\ pc[c] = "get"
    /\ \/ Content(c) # Absent /\ pc' = [pc EXCEPT ![c] = "load"]
       \/ Content(c) = Absent /\ pc' = [pc EXCEPT ![c] = "failed"]
    /\ UNCHANGED <<inputs, usages, length, store>>

\* considerImplicitImports, of a module that was discovered.
AddImplicit(c, attempts) ==
    \E names \in SUBSET {n \in Synthetic : inst[c][n] # "absent"} :
        /\ implicit' = [implicit EXCEPT ![c] = names]
        /\ used' = [used EXCEPT ![c] = attempts \cup SyntheticUsages(c, names)]

\* The hit: with the usages, plugins add what is implicit, as for any module.
\* A file that is not a hit any more has the caller unpack None, or it Raises.
GetLoaded(c) ==
    /\ pc[c] = "load"
    /\ \/ \E u \in Entries(c) :
            /\ AddImplicit(c, u)
            /\ pc' = [pc EXCEPT ![c] = "done"]
            /\ disturbed' = disturbed \ {c}
            /\ UNCHANGED <<length, directory, file, unlinked>>
       \/ Entries(c) = {} /\ Fail(c)
    /\ UNCHANGED inputs

\* The miss: pass 1 computes the module, then it is demoted to bytecode.
Trace(c) ==
    /\ Goto(c, "trace", "open")
    /\ AddImplicit(c, Traced(key[c], inst[c]))
    /\ UNCHANGED <<inputs, length, store>>

\* Everybody but c who is to read or write the file again.
Concerned(c) ==
    {d \in Compilations \ {c} :
       CacheName(d) = CacheName(c) /\ pc[d] \in {"has", "get", "load", "write1", "write2"}}

\* writeJsonToFilename: open with mode "w".
Open(c) ==
    /\ pc[c] = "open"
    /\ \/ /\ directory
          /\ pc' = [pc EXCEPT ![c] = "write1"]
          /\ file' = [file EXCEPT ![CacheName(c)] = Truncated]
          /\ disturbed' = (disturbed \ {c}) \cup Concerned(c)
          /\ \E l \in Lengths : length' = [length EXCEPT ![c] = l]
          /\ UNCHANGED <<usages, directory, unlinked>>
       \/ ~directory /\ Fail(c)
    /\ UNCHANGED inputs

WritePart(c, p) ==
    file' = IF c \in unlinked THEN file
            ELSE [file EXCEPT ![CacheName(c)][p] =
                    [usages |-> Stored(used[c]), length |-> length[c]]]
Noticed(c) == IF c \in unlinked THEN {} ELSE Concerned(c)

WriteFirst(c) ==
    /\ Goto(c, "write1", "write2")
    /\ WritePart(c, 1)
    /\ disturbed' = disturbed \cup Noticed(c)
    /\ UNCHANGED <<inputs, usages, length, directory, unlinked>>

WriteLast(c) ==
    /\ Goto(c, "write2", "done")
    /\ WritePart(c, 2)
    /\ disturbed' = (disturbed \ {c}) \cup Noticed(c)
    /\ unlinked' = unlinked \ {c}
    /\ length' = [length EXCEPT ![c] = 0]
    /\ UNCHANGED <<inputs, usages, directory>>

\* The process is killed while it writes: what it has not written yet is not
\* in the file.  At any other point this leaves nothing behind.
Kill(c) ==
    /\ pc[c] \in {"write1", "write2"}
    /\ pc' = [pc EXCEPT ![c] = "dead"]
    /\ unlinked' = unlinked \ {c}
    /\ disturbed' = disturbed \ {c}
    /\ length' = [length EXCEPT ![c] = 0]
    /\ UNCHANGED <<inputs, usages, directory, file>>

\* cleanCaches of a process with --clean-cache: files that are open stay so,
\* with no name, and a compilation creates the directory only once.
CleanCaches ==
    /\ directory
    /\ directory' = FALSE
    /\ file' = [k \in Keys |-> Absent]
    /\ unlinked' = unlinked \cup {c \in Compilations : pc[c] \in {"write1", "write2"}}
    /\ disturbed' = disturbed \cup {c \in Compilations : pc[c] \notin {"idle", "done", "dead"}}
    /\ UNCHANGED <<inputs, pc, usages, length>>

Step(c) ==
    \/ HasCached(c) \/ HasLoaded(c) \/ GetCached(c) \/ GetLoaded(c)
    \/ Trace(c) \/ Open(c) \/ WriteFirst(c) \/ WriteLast(c)

Next == CleanCaches \/ \E c \in Compilations : Step(c) \/ Kill(c)

\* A compilation goes on unless it is killed.
Spec == Init /\ [][Next]_vars /\ \A c \in Compilations : WF_vars(Step(c))

----------------------------------------------------------------------------
Usages == [name : Names, synthetic : BOOLEAN,
           location : [finding : {"not-found", "relative", "absolute"},
                       kind : {"none", "py", "extension"}]]
Part == [usages : SUBSET Usages, length : Lengths \cup {0}]

(***************************************************************************)
(* The type invariant: the state of BytecodeCaching.py and of its callers. *)
(***************************************************************************)
TypeOK ==
    /\ pc \in [Compilations -> {"idle", "has", "get", "load", "trace", "open",
                                "write1", "write2", "done", "failed", "dead"}]
    /\ key \in [Compilations -> Keys]
    /\ inst \in [Compilations -> Installations]
    /\ implicit \in [Compilations -> SUBSET Synthetic]
    /\ length \in [Compilations -> Lengths \cup {0}]
    /\ used \in [Compilations -> SUBSET Usages]
    /\ directory \in BOOLEAN
    /\ file \in [Keys -> {Absent} \cup [Parts -> Part]]
    /\ unlinked \subseteq Compilations /\ disturbed \subseteq Compilations

(***************************************************************************)
(* A module has the usages that compiling it in this process gives,        *)
(* whether it was compiled, or another process left a file for it at some  *)
(* time, in whatever state: with other packages installed, other plugins   *)
(* active, cut short by a crash, or written by two processes at once.      *)
(***************************************************************************)
HitAsCompiled ==
    \A c \in Compilations : pc[c] = "done" =>
        used[c] = Traced(key[c], inst[c]) \cup SyntheticUsages(c, implicit[c])

(***************************************************************************)
(* Of any module but the asserted one: the cache never makes a compilation *)
(* fail, unless another process writes or removes the file between its two *)
(* reads of it, or removes the directory.  In particular no crash leaves a *)
(* file that does so, and no other installation's file.                    *)
(***************************************************************************)
FailsOnlyIfDisturbed ==
    \A c \in Compilations : pc[c] = "failed" /\ key[c] \notin Asserted => c \in disturbed

(***************************************************************************)
(* What a compilation asks the cache, what the cache has for a key, and    *)
(* the answer: the usages but for those that plugins add in each process.  *)
(***************************************************************************)
Status(c) ==
    CASE pc[c] = "idle" -> "new"
      [] pc[c] \in {"has", "get", "load"} -> "looking"
      [] pc[c] = "trace" -> "computing"
      [] pc[c] = "open" -> "computed"
      [] pc[c] \in {"write1", "write2"} -> "saving"
      [] OTHER -> pc[c]

Statuses == [c \in Compilations |-> Status(c)]
Answers == [c \in Compilations |-> Stored(used[c])]
EntryOf == [k \in Keys |-> Loads(file[k])]
TracedAnswers == [k \in Keys |-> [where \in Installations |-> Traced(k, where)]]

Shared == INSTANCE SharedCache WITH
    Processes <- Compilations, Places <- Installations, place <- inst,
    Strict <- Asserted, Answer <- TracedAnswers, NoAnswer <- {},
    status <- Statuses, result <- Answers, entry <- EntryOf

(***************************************************************************)
(* The cache, a file with no lock that is written in parts and that is     *)
(* read twice, gives each compilation the answer it would compute itself,  *)
(* shares what was saved undisturbed and nothing of what was cut short,    *)
(* and fails a compilation only if another process came in between, or, of *)
(* the asserted module, for a file with an answer that is not its own.     *)
(***************************************************************************)
IsSharedCache == Shared!Spec

(***************************************************************************)
(* What a compilation writes, with nobody else at that file, is a hit for  *)
(* the next one that has the same installed, or the cache would be of no   *)
(* use: the question asked again on a hit is the one that was answered.    *)
(***************************************************************************)
WrittenIsHit ==
    [][\A c \in Compilations :
         pc[c] = "write2" /\ pc'[c] = "done" /\ c \notin disturbed
           => Loads(file'[key[c]]) = {Stored(used[c])}
              /\ SameResult(inst[c], Stored(used[c]))]_vars

=============================================================================
