---------------------------- MODULE DemotionProofs ----------------------------
(***************************************************************************)
(* Proofs about the demotion to bytecode: the trees it finalizes are not   *)
(* used any more, neither by the passes that follow nor by the code        *)
(* generation, although done_modules still holds them.                     *)
(***************************************************************************)
EXTENDS ModuleOptimizationProofs

(***************************************************************************)
(* Without this there is a counterexample, KindFakeBytecode: a fake        *)
(* module in bytecode mode is demoted, and fake_modules keeps the tree.    *)
(***************************************************************************)
NoBytecodeFakes ==
    \A n \in Names : \A a \in Fakes[n] :
        Kind[a] = "bytecode" => \E m \in Names : a \in Triggers[m]

(***************************************************************************)
(* Pass 1 leaves the main module unfinished: its scopes are incomplete     *)
(* until its first micro pass, which is touched for that reason.  This is  *)
(* why there is a traversal after the demotion.                            *)
(***************************************************************************)
MainInv ==
    /\ passCount = 0 => pc = "start" /\ Main \notin complete
    /\ passCount = 1 /\ pc \in {"pick", "micro", "attempt", "consider"} =>
         \/ Main \in unfinished
         \/ <<Main, "tree">> \in active /\ Main \notin complete
         \/ cur = <<Main, "tree">> /\ pc = "micro" /\ (Main \notin complete \/ touched)
         \/ cur = <<Main, "tree">> /\ pc = "consider" /\ touched
    /\ pc = "demote" => passCount = 1 /\ Main \in unfinished

(***************************************************************************)
(* The tables refer to the bytecode object of what was finalized, and what *)
(* is yet to be demoted is still the one that they refer to.               *)
(***************************************************************************)
FinalizedInv ==
    /\ \A n \in finalized : Kind[n] = "bytecode" /\ Referred(<<n, "bytecode">>)
    /\ pc = "demote" => \A o \in done : o[1] \in finalized \/ Referred(o)
    /\ pc = "finished" => AllReferred

LEMMA InitMainInv == Init => MainInv
BY DEF Init, MainInv

LEMMA MicroPassMainInv == IInv /\ MainInv /\ MicroPass => MainInv'
<1> SUFFICES ASSUME IInv, MainInv, MicroPass PROVE MainInv'
  OBVIOUS
<1>1. /\ pc = "micro" /\ pc' \in {"micro", "consider", "sysexit"}
      /\ UNCHANGED <<unfinished, passCount, cur, done>>
  BY DEF MicroPass
<1>2. /\ active \subseteq active'
      /\ Main \notin complete => cur[1] = Main \/ Main \notin complete'
  <2>1. PICK s \in SUBSET Signals, again \in BOOLEAN :
           MarkAsComplete(cur[1], again) /\ AttemptRecursion(cur[1])
    BY DEF MicroPass, ComputeModule
  <2> QED
    BY <2>1 DEF MarkAsComplete, AttemptRecursion, AddUsed
<1>3. <<Main, "tree">> \in active => cur[1] # Main
  <2>1. cur \in done /\ active \cap done = {} /\ OneObjectPerName
    BY <1>1 DEF IInv, TraversalInv, InPass
  <2> QED
    BY <2>1 DEF OneObjectPerName
<1>4. ASSUME cur = <<Main, "tree">>, Main \notin complete \/ touched
      PROVE  pc' = "sysexit" \/ touched'
  <2>1. CASE touched
    BY <2>1 DEF MicroPass
  <2>2. CASE Main \notin complete
    <3>1. "var_usage" \in tags'
      BY <1>4, <2>2 DEF MicroPass, ComputeModule, VarUsage
    <3> QED
      BY <3>1 DEF MicroPass
  <2> QED
    BY <1>4, <2>1, <2>2
<1> QED
  BY <1>1, <1>2, <1>3, <1>4 DEF MainInv

LEMMA NextMainInv == IInv /\ MainInv /\ [Next]_vars => MainInv'
<1> SUFFICES ASSUME IInv, MainInv, [Next]_vars PROVE MainInv'
  OBVIOUS
<1> USE DEF MainInv
<1>1. CASE StartPass
  <2>1. roots[Main] = "tree" /\ Main \in Names /\ passCount \in Nat
    BY ConstantFacts DEF IInv, TablesInv, TypeOK
  <2>2. <<Main, "tree">> \in active' /\ complete' = complete
    BY <1>1, <2>1 DEF StartPass, body
  <2> QED
    BY <1>1, <2>1, <2>2 DEF StartPass
<1>2. CASE NextModule
  <2>1. PICK o \in active :
           /\ cur' = o /\ active' = active \ {o}
           /\ pc' = IF IsCompiledTree(o) THEN "micro" ELSE "attempt"
    BY <1>2 DEF NextModule
  <2>2. o = <<Main, "tree">> => pc' = "micro"
    BY <2>1, MainAssumption DEF IsCompiledTree
  <2> QED
    BY <1>2, <2>1, <2>2 DEF NextModule
<1>3. CASE MicroPass
  BY <1>3, MicroPassMainInv
<1>4. CASE AttemptParent
  BY <1>4 DEF AttemptParent, AttemptRecursion, AddUsed, body
<1>5. CASE ConsiderModules
  BY <1>5 DEF ConsiderModules, AddUsed, body
<1>6. CASE StandardLibraryPhase
  BY <1>6 DEF StandardLibraryPhase, AddUsed, body
<1>7. CASE FollowIncomplete
  BY <1>7 DEF FollowIncomplete, AddUsed, body
<1>8. CASE EndPass
  BY <1>8 DEF EndPass, PassesDone, traversal, body
<1>9. CASE MicroPassOfFinalized
  BY <1>9 DEF MicroPassOfFinalized, traversal, body
<1>10. CASE DemoteModule
  BY <1>10 DEF DemoteModule, traversal, body
<1>11. CASE DemotionDone
  BY <1>11 DEF DemotionDone, PassesDone, traversal, body
<1>12. CASE Terminating \/ UNCHANGED vars
  BY <1>12 DEF Terminating, vars, traversal, body
<1> QED
  BY <1>1, <1>2, <1>3, <1>4, <1>5, <1>6, <1>7, <1>8, <1>9, <1>10, <1>11, <1>12 DEF Next

THEOREM MainInvHolds == Spec => []MainInv
BY IInvHolds, InitMainInv, NextMainInv, PTL DEF Spec

(***************************************************************************)
(* The steps of a pass that add modules replace no reference.              *)
(***************************************************************************)
LEMMA RecurseToKeepsReferences ==
    ASSUME IInv, NEW S, S \subseteq Importable \cap Names, RecurseTo(S), roots' = roots,
           NEW o \in Objects, Referred(o)
    PROVE  Referred(o)'
<1>1. o[1] \in Names /\ o[2] # "none"
  BY ConstantFacts DEF Objects
<1>2. /\ cache[o[1]] # "none" => cache'[o[1]] = cache[o[1]]
      /\ attached[o[1]] # "none" => attached'[o[1]] = attached[o[1]]
  <2>1. S \subseteq Names /\ S \subseteq Importable /\ TypeOK /\ TablesInv
    BY DEF IInv
  <2> QED
    BY <1>1, <2>1, RecurseToFacts
<1> QED
  BY <1>1, <1>2 DEF Referred

AddingStep ==
    AttemptParent \/ MicroPass \/ ConsiderModules \/ StandardLibraryPhase \/ FollowIncomplete

LEMMA AddingStepRecurses ==
    ASSUME IInv, AddingStep
    PROVE  /\ \E S \in SUBSET (Importable \cap Names) : RecurseTo(S)
           /\ pc' \notin {"demote", "finished"}
           /\ UNCHANGED <<roots, finalized>>
<1>1. TypeOK /\ UsesInv /\ cur[1] \in Names
  BY DEF IInv, TypeOK, Objects
<1>2. \A n \in Names : ParentToAdd(n) \subseteq Importable \cap Names
  BY ConstantFacts DEF ParentToAdd
<1>3. CASE AttemptParent
  BY <1>1, <1>2, <1>3 DEF AttemptParent, AttemptRecursion
<1>4. CASE MicroPass
  BY <1>1, <1>2, <1>4 DEF MicroPass, ComputeModule, AttemptRecursion
<1>5. CASE ConsiderModules
  <2>1. Followed(UsedModules(cur[1], passCount)) \cup ImplicitImports(cur[1])
          \subseteq Importable \cap Names
    BY <1>1, UsedModulesFacts, FollowedFacts, ConstantFacts DEF ImplicitImports
  <2> QED
    BY <1>5, <2>1 DEF ConsiderModules
<1>6. CASE StandardLibraryPhase
  <2>1. Followed(UsedModules(Main, -1)) \subseteq Importable \cap Names
    BY <1>1, UsedModulesFacts, FollowedFacts, ConstantFacts
  <2> QED
    BY <1>6, <2>1 DEF StandardLibraryPhase
<1>7. CASE FollowIncomplete
  <2>1. \A n \in NamesOf(done) : UsageAttempts(n) \subseteq Importable \cap Names
    BY <1>1, UsedModulesFacts DEF TypeOK, NamesOf, Objects
  <2>2. Incomplete \subseteq Importable \cap Names
    BY <2>1 DEF Incomplete
  <2> QED
    BY <1>7, <2>2 DEF FollowIncomplete
<1> QED
  BY <1>3, <1>4, <1>5, <1>6, <1>7 DEF AddingStep

(***************************************************************************)
(* Demotion replaces every reference to the tree, and no other reference.  *)
(***************************************************************************)
LEMMA DemotionReplaces ==
    ASSUME NoBytecodeFakes, IInv, FinalizedInv, DemoteModule
    PROVE  FinalizedInv'
<1>1. TypeOK /\ TablesInv /\ TypeOK' /\ TablesInv'
  <2>1. IInv'
    BY DemoteModuleIInv
  <2> QED
    BY <2>1 DEF IInv
<1>2. PICK o \in ToDemote :
         /\ finalized' = finalized \cup {o[1]}
         /\ cache' = Replace(cache, o[1])
         /\ roots' = Replace(roots, o[1])
         /\ ReplaceTriggerModule(o[1])
  BY DEF DemoteModule, ReplaceImportedModule, ReplaceRootModule
<1>3. pc = "demote" /\ pc' = pc /\ done' = done
  BY DEF DemoteModule, traversal
<1> DEFINE n == o[1]
<1>4. /\ o \in done /\ o \in Objects /\ o = <<n, "tree">> /\ Kind[n] = "bytecode"
      /\ n \notin finalized /\ n \in Names /\ n # Main
  BY <1>1, MainAssumption DEF ToDemote, TypeOK, Objects
<1>5. Referred(o)
  BY <1>3, <1>4 DEF FinalizedInv
<1>6. roots \in [Names -> Refs] /\ cache \in [Names -> Refs] /\ attached \in [Names -> Refs]
  BY <1>1 DEF TypeOK
<1>7. Referred(<<n, "bytecode">>)'
  <2>1. CASE cache[n] = "tree"
    <3>1. cache'[n] = "bytecode"
      BY <1>2, <1>4, <1>6, <2>1 DEF Replace
    <3> QED
      BY <3>1 DEF Referred
  <2>2. CASE roots[n] = "tree"
    <3>1. roots'[n] = "bytecode"
      BY <1>2, <1>4, <1>6, <2>2 DEF Replace
    <3> QED
      BY <3>1 DEF Referred
  <2>3. CASE attached[n] = "tree"
    <3>1. PICK m \in Names : n \in Attached(m)
      BY <1>1, <1>4, <2>3 DEF TablesInv
    <3>2. \E k \in Names : n \in Triggers[k]
      BY <1>4, <3>1 DEF NoBytecodeFakes, Attached
    <3>3. attached'[n] = "bytecode"
      BY <1>2, <1>4, <1>6, <2>3, <3>2 DEF Replace, ReplaceTriggerModule
    <3> QED
      BY <3>3 DEF Referred
  <2> QED
    BY <1>4, <1>5, <2>1, <2>2, <2>3 DEF Referred
<1>8. ASSUME NEW p \in Objects, p[1] # n, Referred(p)
      PROVE  Referred(p)'
  <2>1. p[1] \in Names
    BY DEF Objects
  <2>2. roots'[p[1]] = roots[p[1]] /\ cache'[p[1]] = cache[p[1]]
    BY <1>2, <1>6, <1>8, <2>1 DEF Replace
  <2>3. attached'[p[1]] = attached[p[1]]
    BY <1>2, <1>6, <1>8, <2>1 DEF Replace, ReplaceTriggerModule
  <2> QED
    BY <1>8, <2>2, <2>3 DEF Referred
<1>9. \A m \in finalized' : Kind[m] = "bytecode" /\ Referred(<<m, "bytecode">>)'
  <2> SUFFICES ASSUME NEW m \in finalized, m # n
               PROVE  Kind[m] = "bytecode" /\ Referred(<<m, "bytecode">>)'
    BY <1>2, <1>4, <1>7
  <2>1. <<m, "bytecode">> \in Objects
    BY <1>1 DEF TypeOK, Objects, Forms
  <2> QED
    BY <1>8, <2>1 DEF FinalizedInv
<1>10. \A p \in done' : p[1] \in finalized' \/ Referred(p)'
  <2> SUFFICES ASSUME NEW p \in done, p[1] # n, p[1] \notin finalized
               PROVE  Referred(p)'
    BY <1>2, <1>3
  <2> QED
    BY <1>1, <1>3, <1>8 DEF FinalizedInv, TypeOK
<1> QED
  BY <1>3, <1>9, <1>10 DEF FinalizedInv

LEMMA NextFinalizedInv ==
    ASSUME NoBytecodeFakes, IInv, MainInv, FinalizedInv, [Next]_vars
    PROVE  FinalizedInv'
<1>1. TypeOK /\ TraversalInv
  BY DEF IInv
<1>2. ASSUME UNCHANGED <<roots, cache, attached, finalized>>, pc' \notin {"demote", "finished"}
      PROVE  FinalizedInv'
  BY <1>2 DEF FinalizedInv, Referred
<1>3. CASE StartPass
  BY <1>2, <1>3 DEF StartPass, tables
<1>4. CASE NextModule
  BY <1>2, <1>4 DEF NextModule, tables
<1>5. CASE AddingStep
  <2>1. PICK S \in SUBSET (Importable \cap Names) : RecurseTo(S)
    BY <1>5, AddingStepRecurses
  <2>2. /\ S \subseteq Importable \cap Names /\ roots' = roots /\ finalized' = finalized
        /\ pc' \notin {"demote", "finished"}
    BY <1>5, AddingStepRecurses
  <2>3. ASSUME NEW n \in finalized
        PROVE  Referred(<<n, "bytecode">>)'
    <3>1. <<n, "bytecode">> \in Objects
      BY <1>1 DEF TypeOK, Objects, Forms
    <3> QED
      BY <2>1, <2>2, <3>1, RecurseToKeepsReferences DEF FinalizedInv
  <2> QED
    BY <2>2, <2>3 DEF FinalizedInv
<1>6. CASE MicroPassOfFinalized
  BY <1>2, <1>6 DEF MicroPassOfFinalized, tables
<1>7. CASE EndPass
  <2>1. AllReferred
    BY <1>1, <1>7 DEF EndPass, TraversalInv, InPass
  <2>2. UNCHANGED <<roots, cache, attached, finalized, active, done>>
    BY <1>7 DEF EndPass, tables, traversal
  <2> QED
    BY <2>1, <2>2 DEF FinalizedInv, AllReferred, Referred
<1>8. CASE DemoteModule
  BY <1>8, DemotionReplaces
<1>9. CASE DemotionDone
  <2>1. pc' = "start"
    BY <1>9 DEF DemotionDone, PassesDone, MainInv
  <2> QED
    BY <1>2, <1>9, <2>1 DEF DemotionDone, tables
<1>10. CASE Terminating \/ UNCHANGED vars
  <2>1. UNCHANGED <<roots, cache, attached, finalized, active, done, pc>>
    BY <1>10 DEF Terminating, vars, tables, traversal
  <2> QED
    BY <2>1 DEF FinalizedInv, AllReferred, Referred
<1> QED
  BY <1>3, <1>4, <1>5, <1>6, <1>7, <1>8, <1>9, <1>10 DEF Next, AddingStep

THEOREM FinalizedInvHolds == NoBytecodeFakes => (Spec => []FinalizedInv)
<1> SUFFICES ASSUME NoBytecodeFakes PROVE Spec => []FinalizedInv
  OBVIOUS
<1>1. Init => FinalizedInv
  BY DEF Init, FinalizedInv
<1>2. IInv /\ MainInv /\ FinalizedInv /\ [Next]_vars => FinalizedInv'
  BY NextFinalizedInv
<1> QED
  BY <1>1, <1>2, IInvHolds, MainInvHolds, PTL DEF Spec

LEMMA ReferredTreesAreUsable ==
    ASSUME IInv, FinalizedInv, NEW o \in Objects, Referred(o), o[2] = "tree"
    PROVE  o[1] \notin finalized
<1> SUFFICES ASSUME o[1] \in finalized PROVE FALSE
  OBVIOUS
<1> DEFINE p == <<o[1], "bytecode">>
<1>1. p \in Objects /\ Referred(p) /\ p[1] = o[1] /\ p[2] # o[2]
  BY DEF FinalizedInv, Objects, Forms
<1> QED
  BY <1>1, UniqueReference DEF IInv

(***************************************************************************)
(* Whatever the modules, the import graph and the order of the passes: a   *)
(* tree that demotion finalized is never optimized again.                  *)
(***************************************************************************)
THEOREM NoUseAfterFinalizeHolds == NoBytecodeFakes => (Spec => []NoUseAfterFinalize)
<1> SUFFICES ASSUME NoBytecodeFakes PROVE Spec => []NoUseAfterFinalize
  OBVIOUS
<1>1. IInv /\ FinalizedInv => NoUseAfterFinalize
  <2> SUFFICES ASSUME IInv, FinalizedInv PROVE NoUseAfterFinalize
    OBVIOUS
  <2>1. \A o \in active : o \in Objects /\ Referred(o)
    BY DEF IInv, TypeOK, TraversalInv, AllReferred, InPass
  <2>2. pc = "micro" => cur \in Objects /\ Referred(cur) /\ cur[2] = "tree"
    BY DEF IInv, TypeOK, TraversalInv, AllReferred, InPass, IsCompiledTree
  <2> QED
    BY <2>1, <2>2, ReferredTreesAreUsable DEF NoUseAfterFinalize
<1> QED
  BY <1>1, IInvHolds, FinalizedInvHolds, PTL

(***************************************************************************)
(* Code generation never meets a finalized tree in done_modules.           *)
(***************************************************************************)
THEOREM FinalSetUsableHolds == NoBytecodeFakes => (Spec => []FinalSetUsable)
<1> SUFFICES ASSUME NoBytecodeFakes PROVE Spec => []FinalSetUsable
  OBVIOUS
<1>1. IInv /\ FinalizedInv => FinalSetUsable
  <2> SUFFICES ASSUME IInv, FinalizedInv, pc = "finished",
                      NEW o \in done, o[2] = "tree"
               PROVE  o[1] \notin finalized
    BY DEF FinalSetUsable
  <2>1. o \in Objects /\ Referred(o)
    BY DEF IInv, TypeOK, FinalizedInv, AllReferred
  <2> QED
    BY <2>1, ReferredTreesAreUsable
<1> QED
  BY <1>1, IInvHolds, FinalizedInvHolds, PTL
===============================================================================
