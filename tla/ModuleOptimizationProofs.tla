----------------------- MODULE ModuleOptimizationProofs -----------------------
(***************************************************************************)
(* Proofs about the compile time driver, for every set of modules, every   *)
(* import graph and every number of changes.                               *)
(***************************************************************************)
EXTENDS ModuleOptimization, TLAPS

(***************************************************************************)
(* Type correctness.  Two facts make TypeOK inductive: the loop over the   *)
(* micro passes is not entered with an unchanged_count of 2, and whatever  *)
(* can be traversed has had its attached modules made.                     *)
(***************************************************************************)
InPass == {"pick", "micro", "attempt", "consider", "sysexit", "crashed"}

TablesInv ==
    /\ roots[Main] = "tree"
    /\ cache[Main] = "none"
    /\ \A n \in Names : roots[n] # "none" <=> n \in Roots
    /\ \A n \in Roots \ {Main} : cache[n] = roots[n]
    /\ \A n \in Names : cache[n] # "none" => n \in Importable \cup Roots
    /\ \A n \in Names : attached[n] # "none" => \E m \in Names : n \in Attached(m)
    /\ \A m \in Names : \A a \in Attached(m) :
          attached[a] # "none" <=> (cache[m] # "none" \/ m = Main)

UsesInv == \A n \in Names : uses[n] \subseteq Imports[n]

(***************************************************************************)
(* An object some table refers to.                                         *)
(***************************************************************************)
Referred(o) == roots[o[1]] = o[2] \/ cache[o[1]] = o[2] \/ attached[o[1]] = o[2]

AllReferred == \A o \in active \cup done : Referred(o)

TraversalInv ==
    /\ active \cap done = {}
    /\ pc \in {"start", "demote", "finished"} => active = {}
    /\ pc \in InPass => AllReferred
    /\ pc \in InPass \ {"pick"} => cur \in done
    /\ pc = "micro" => IsCompiledTree(cur) /\ unchanged < 2

IInv == TypeOK /\ TablesInv /\ UsesInv /\ TraversalInv /\ OneObjectPerName

LEMMA ConstantFacts ==
    /\ Main \in Names
    /\ \A n \in Names : Built(n) \in Forms /\ Attached(n) \subseteq Names
    /\ "none" \notin Forms
    /\ \A n \in Names : Imports[n] \subseteq Importable \cap Names
    /\ \A n \in Names : Implicit[n] \subseteq Importable \cap Names
    /\ \A n \in Names : AutoFollow[n] \subseteq Importable \cap Names
    /\ \A n \in Names : Package[n] \in Names => Package[n] \in Importable
    /\ Stdlib \subseteq Importable \cap Names
<1>1. Main \in Names
  BY ConstantsAssumption
<1>2. \A n \in Names : Built(n) \in Forms /\ Attached(n) \subseteq Names
  BY ConstantsAssumption DEF Built, Forms, Attached
<1>3. "none" \notin Forms
  BY DEF Forms
<1>4. \A n \in Names : Imports[n] \subseteq Importable \cap Names
  BY ConstantsAssumption DEF Importable
<1>5. \A n \in Names : Implicit[n] \subseteq Importable \cap Names
  BY ConstantsAssumption DEF Importable
<1>6. \A n \in Names : AutoFollow[n] \subseteq Importable \cap Names
  BY ConstantsAssumption DEF Importable
<1>7. \A n \in Names : Package[n] \in Names => Package[n] \in Importable
  BY DEF Importable
<1>8. Stdlib \subseteq Importable \cap Names
  BY ConstantsAssumption DEF Importable
<1>9. QED
  BY <1>1, <1>2, <1>3, <1>4, <1>5, <1>6, <1>7, <1>8

(***************************************************************************)
(* recurseTo: it leaves every reference that exists alone, everything it   *)
(* is asked for is in the import cache afterwards, and the tables stay     *)
(* consistent.                                                             *)
(***************************************************************************)
LEMMA RecurseToFacts ==
    ASSUME NEW S, S \subseteq Names, S \subseteq Importable,
           TypeOK, TablesInv, RecurseTo(S), roots' = roots
    PROVE  /\ cache' \in [Names -> Refs]
           /\ attached' \in [Names -> Refs]
           /\ \A n \in S : cache'[n] \in Forms
           /\ \A n \in Names : cache[n] # "none" => cache'[n] = cache[n]
           /\ \A n \in Names : attached[n] # "none" => attached'[n] = attached[n]
           /\ TablesInv'
<1> USE DEF TypeOK, TablesInv
<1>1. cache' = [n \in Names |-> IF n \in New(S) THEN Built(n) ELSE cache[n]]
  BY DEF RecurseTo
<1>2. attached' = [n \in Names |-> IF \E m \in New(S) : n \in Attached(m)
                                   THEN Built(n) ELSE attached[n]]
  BY DEF RecurseTo
<1>3. /\ \A n \in Names : n \in New(S) <=> n \in S /\ cache[n] = "none"
      /\ New(S) \subseteq Names
  BY DEF New
<1>4. Main \notin S
  BY MainAssumption
<1>5. cache' \in [Names -> Refs] /\ attached' \in [Names -> Refs]
  BY <1>1, <1>2, ConstantFacts DEF Refs
<1>6. \A n \in S : cache'[n] \in Forms
  BY <1>1, <1>3, ConstantFacts DEF Refs
<1>7. \A n \in Names : cache[n] # "none" => cache'[n] = cache[n]
  BY <1>1, <1>3
<1>8. \A n \in Names : attached[n] # "none" => attached'[n] = attached[n]
  <2> SUFFICES ASSUME NEW n \in Names, attached[n] # "none",
                      NEW m \in New(S), n \in Attached(m)
               PROVE  FALSE
    BY <1>2
  <2> QED
    BY <1>3, <1>4
<1>9. \A n \in Names : attached'[n] # "none" => \E m \in Names : n \in Attached(m)
  BY <1>2, <1>3
<1>10. \A m \in Names : \A a \in Attached(m) :
         attached'[a] # "none" <=> (cache'[m] # "none" \/ m = Main)
  <2> SUFFICES ASSUME NEW m \in Names, NEW a \in Attached(m)
               PROVE  attached'[a] # "none" <=> (cache'[m] # "none" \/ m = Main)
    OBVIOUS
  <2>1. a \in Names
    BY ConstantFacts
  <2>2. \A k \in New(S) : a \in Attached(k) <=> k = m
    BY <1>3, AttachedAssumption
  <2>3. CASE m \in New(S)
    BY <2>3, <2>1, <1>1, <1>2, <1>3, ConstantFacts
  <2>4. CASE m \notin New(S)
    BY <2>4, <2>1, <2>2, <1>1, <1>2, ConstantFacts
  <2> QED
    BY <2>3, <2>4
<1>11. roots'[Main] = "tree" /\ cache'[Main] = "none"
  BY <1>1, <1>3, <1>4, ConstantFacts
<1>12. \A n \in Names : roots'[n] # "none" <=> n \in Roots
  OBVIOUS
<1>13. \A n \in Roots \ {Main} : cache'[n] = roots'[n]
  BY <1>7, ConstantsAssumption, ConstantFacts
<1>14. \A n \in Names : cache'[n] # "none" => n \in Importable \cup Roots
  BY <1>1, <1>3
<1> QED
  BY <1>5, <1>6, <1>7, <1>8, <1>9, <1>10, <1>11, <1>12, <1>13, <1>14

(***************************************************************************)
(* The tables agree on the form of a module, which is why it can have one  *)
(* object only.                                                            *)
(***************************************************************************)
LEMMA UniqueReference ==
    ASSUME TypeOK, TablesInv, NEW o \in Objects, NEW p \in Objects,
           Referred(o), Referred(p), o[1] = p[1]
    PROVE  o = p
<1> DEFINE n == o[1]
<1>1. n \in Names /\ o[2] \in Forms /\ p[2] \in Forms /\ o = <<n, o[2]>> /\ p = <<n, p[2]>>
  BY DEF Objects
<1>2. o[2] # "none" /\ p[2] # "none"
  BY <1>1, ConstantFacts
<1>3. attached[n] # "none" => roots[n] = "none" /\ cache[n] = "none"
  BY <1>1, AttachedAssumption DEF TablesInv
<1>4. roots[n] # "none" /\ cache[n] # "none" => roots[n] = cache[n]
  BY <1>1 DEF TablesInv
<1>5. o[2] = p[2]
  BY <1>2, <1>3, <1>4 DEF Referred
<1> QED
  BY <1>1, <1>5

(***************************************************************************)
(* What is in the queue has had its attached modules made.                 *)
(***************************************************************************)
LEMMA AttachedIsMade ==
    ASSUME TypeOK, TablesInv, NEW o \in Objects, Referred(o), NEW a \in Attached(o[1])
    PROVE  attached[a] \in Forms
<1>1. o[1] \in Names /\ o[2] # "none" /\ a \in Names
  BY ConstantFacts DEF Objects
<1>2. attached[o[1]] = "none"
  BY <1>1, AttachedAssumption DEF TablesInv
<1>3. cache[o[1]] # "none" \/ o[1] = Main
  BY <1>1, <1>2 DEF TablesInv, Referred
<1>4. attached[a] # "none"
  BY <1>1, <1>3 DEF TablesInv
<1> QED
  BY <1>1, <1>4 DEF TypeOK, Refs

(***************************************************************************)
(* recurseTo followed by addUsedModule, in the course of a pass.           *)
(***************************************************************************)
LEMMA AddUsedFacts ==
    ASSUME IInv, pc \in InPass, NEW S, S \subseteq Names, S \subseteq Importable,
           RecurseTo(S), roots' = roots, done' = done,
           NEW A, \A a \in A : a \in Names /\ attached'[a] \in Forms,
           AddUsed(Cached(S) \cup {<<a, attached'[a]>> : a \in A})
    PROVE  /\ cache' \in [Names -> Refs]
           /\ attached' \in [Names -> Refs]
           /\ TablesInv'
           /\ active' \subseteq Objects
           /\ active' \cap done' = {}
           /\ AllReferred'
           /\ active \subseteq active'
<1> DEFINE B == Cached(S) \cup {<<a, attached'[a]>> : a \in A}
<1>1. TypeOK /\ TablesInv /\ TraversalInv
  BY DEF IInv
<1>2. active' = active \cup (B \ done)
  BY DEF AddUsed
<1>3. /\ cache' \in [Names -> Refs]
      /\ attached' \in [Names -> Refs]
      /\ \A n \in S : cache'[n] \in Forms
      /\ \A n \in Names : cache[n] # "none" => cache'[n] = cache[n]
      /\ \A n \in Names : attached[n] # "none" => attached'[n] = attached[n]
      /\ TablesInv'
  BY <1>1, RecurseToFacts
<1>4. ASSUME NEW o \in B
      PROVE  o \in Objects /\ Referred(o)'
  <2>1. CASE o \in Cached(S)
    <3>1. PICK n \in S : o = <<n, cache'[n]>>
      BY <2>1 DEF Cached
    <3> QED
      BY <3>1, <1>3 DEF Objects, Referred
  <2>2. CASE o \in {<<a, attached'[a]>> : a \in A}
    BY <2>2 DEF Objects, Referred
  <2> QED
    BY <2>1, <2>2
<1>5. ASSUME NEW o \in active \cup done
      PROVE  Referred(o)'
  <2>1. o \in Objects /\ Referred(o) /\ o[1] \in Names /\ o[2] # "none"
    BY <1>1, ConstantFacts DEF TypeOK, TraversalInv, AllReferred, Objects
  <2> QED
    BY <2>1, <1>3 DEF Referred
<1>6. active' \subseteq Objects
  BY <1>1, <1>2, <1>4 DEF TypeOK
<1>7. active' \cap done' = {}
  BY <1>1, <1>2 DEF TraversalInv
<1>8. AllReferred'
  BY <1>2, <1>4, <1>5 DEF AllReferred
<1> QED
  BY <1>2, <1>3, <1>6, <1>7, <1>8

LEMMA ReferredIsUnique ==
    TypeOK /\ TablesInv /\ AllReferred => OneObjectPerName
BY UniqueReference DEF TypeOK, AllReferred, OneObjectPerName

(***************************************************************************)
(* The actions within a pass that add modules to the queue.                *)
(***************************************************************************)
LEMMA FollowedFacts ==
    ASSUME NEW S, S \subseteq Importable \cap Names
    PROVE  Followed(S) \subseteq Names /\ Followed(S) \subseteq Importable
BY DEF Followed

LEMMA AttemptRecursionFacts ==
    ASSUME IInv, pc \in InPass, NEW n \in Names, AttemptRecursion(n), done' = done
    PROVE  /\ cache' \in [Names -> Refs]
           /\ attached' \in [Names -> Refs]
           /\ TablesInv'
           /\ active' \subseteq Objects
           /\ active' \cap done' = {}
           /\ AllReferred'
           /\ active \subseteq active'
<1>1. ParentToAdd(n) \subseteq Names /\ ParentToAdd(n) \subseteq Importable
  BY ConstantFacts DEF ParentToAdd
<1>2. RecurseTo(ParentToAdd(n)) /\ roots' = roots
  BY DEF AttemptRecursion
<1>3. AddUsed(Cached(ParentToAdd(n)) \cup {<<a, attached'[a]>> : a \in {}})
  BY DEF AttemptRecursion
<1> QED
  BY <1>1, <1>2, <1>3, AddUsedFacts

LEMMA UsedModulesFacts ==
    ASSUME TypeOK, UsesInv, NEW n \in Names, NEW pass
    PROVE  /\ UsedModules(n, pass) \subseteq Importable \cap Names
           /\ UsageAttempts(n) \subseteq Importable \cap Names
BY ConstantFacts DEF TypeOK, UsesInv, UsedModules, UsageAttempts, StdlibUsages

LEMMA InitIInv == Init => IInv
<1> SUFFICES ASSUME Init PROVE IInv
  OBVIOUS
<1> USE DEF Init
<1>1. \A n \in Names : Built(n) \in Refs
  BY ConstantFacts DEF Refs
<1>2. TypeOK
  <2>1. /\ roots \in [Names -> Refs]
        /\ cache \in [Names -> Refs]
        /\ attached \in [Names -> Refs]
    BY <1>1 DEF Refs
  <2>2. uses \in [Names -> SUBSET Names]
    <3>1. \A n \in Names : Imports[n] \subseteq Names
      BY ConstantFacts
    <3> QED
      BY <3>1
  <2>3. cur \in Objects
    BY ConstantFacts DEF Objects, Forms
  <2>4. changesLeft \in 0..Changes
    BY ConstantsAssumption
  <2>5. finalized \subseteq Names /\ stdlibOnly \subseteq Names /\ complete \subseteq Names
    OBVIOUS
  <2>6. active \subseteq Objects /\ done \subseteq Objects /\ unfinished \subseteq Names
    OBVIOUS
  <2>7. /\ pc = "start" /\ passCount \in Nat /\ stdlibPhase = "before"
        /\ tags = {} /\ unchanged \in 0..2
    OBVIOUS
  <2>8. touched \in BOOLEAN
    OBVIOUS
  <2> HIDE DEF Init
  <2> QED
    BY <2>1, <2>2, <2>3, <2>4, <2>5, <2>6, <2>7, <2>8 DEF TypeOK
<1>3. TablesInv
  <2>1. roots[Main] = "tree" /\ cache[Main] = "none"
    BY ConstantFacts, ConstantsAssumption, MainAssumption DEF Built
  <2>2. \A n \in Names : roots[n] # "none" <=> n \in Roots
    BY ConstantFacts, ConstantsAssumption
  <2>3. \A n \in Roots \ {Main} : cache[n] = roots[n]
    BY ConstantsAssumption
  <2>4. \A n \in Names : cache[n] # "none" => n \in Importable \cup Roots
    OBVIOUS
  <2>5. \A n \in Names : attached[n] # "none" => \E m \in Names : n \in Attached(m)
    BY ConstantsAssumption
  <2>6. \A m \in Names : \A a \in Attached(m) :
          attached[a] # "none" <=> (cache[m] # "none" \/ m = Main)
    <3> SUFFICES ASSUME NEW m \in Names, NEW a \in Attached(m)
                 PROVE  attached[a] # "none" <=> (cache[m] # "none" \/ m = Main)
      OBVIOUS
    <3>1. a \in Names /\ Built(a) # "none" /\ Built(m) # "none"
      BY ConstantFacts
    <3>2. \A r \in Roots : a \in Attached(r) <=> r = m
      BY AttachedAssumption, ConstantsAssumption
    <3>3. attached[a] # "none" <=> m \in Roots
      BY <3>1, <3>2
    <3>4. cache[m] # "none" <=> m \in Roots \ {Main}
      BY <3>1
    <3> QED
      BY <3>3, <3>4, ConstantsAssumption
  <2> QED
    BY <2>1, <2>2, <2>3, <2>4, <2>5, <2>6 DEF TablesInv
<1>4. UsesInv
  BY DEF UsesInv
<1>5. TraversalInv
  BY DEF TraversalInv, InPass
<1>6. OneObjectPerName
  BY DEF OneObjectPerName
<1> QED
  BY <1>2, <1>3, <1>4, <1>5, <1>6 DEF IInv

LEMMA StartPassIInv == IInv /\ StartPass => IInv'
<1> SUFFICES ASSUME IInv, StartPass PROVE IInv'
  OBVIOUS
<1> USE DEF StartPass, tables, body
<1>1. TypeOK /\ TablesInv /\ UsesInv
  BY DEF IInv
<1>2. \A n \in Names : roots[n] # "none" => roots[n] \in Forms
  BY <1>1 DEF TypeOK, Refs
<1>3. TypeOK'
  BY <1>1, <1>2 DEF TypeOK, Objects
<1>4. TablesInv' /\ UsesInv'
  BY <1>1 DEF TablesInv, UsesInv
<1>5. AllReferred'
  BY DEF AllReferred, Referred
<1>6. TraversalInv'
  BY <1>5 DEF TraversalInv, InPass
<1>7. OneObjectPerName'
  BY <1>3, <1>4, <1>5, ReferredIsUnique, PTL
<1> QED
  BY <1>3, <1>4, <1>6, <1>7 DEF IInv

LEMMA NextModuleIInv == IInv /\ NextModule => IInv'
<1> SUFFICES ASSUME IInv, NextModule PROVE IInv'
  OBVIOUS
<1> USE DEF NextModule, tables
<1>1. TypeOK /\ TablesInv /\ UsesInv /\ TraversalInv /\ OneObjectPerName
  BY DEF IInv
<1>2. PICK o \in active :
         /\ cur' = o
         /\ active' = active \ {o}
         /\ done' = done \cup {o}
         /\ pc' = IF IsCompiledTree(o) THEN "micro" ELSE "attempt"
         /\ stdlibPhase' = IF o[1] = Main /\ stdlibPhase # "done"
                           THEN "pending" ELSE stdlibPhase
  OBVIOUS
<1>3. TypeOK'
  <2>1. o \in Objects /\ active' \subseteq Objects /\ done' \subseteq Objects
    BY <1>1, <1>2 DEF TypeOK
  <2>2. stdlibPhase' \in {"before", "pending", "done"} /\ pc' \in {"micro", "attempt"}
    BY <1>1, <1>2 DEF TypeOK
  <2>3. tags' \subseteq Signals \cup {"var_usage"} /\ unchanged' \in 0..2
    OBVIOUS
  <2>4. touched' \in BOOLEAN
    OBVIOUS
  <2>5. UNCHANGED <<roots, cache, attached, stdlibOnly, finalized, passCount,
                    unfinished, uses, complete, changesLeft>>
    OBVIOUS
  <2> HIDE DEF NextModule
  <2> QED
    BY <1>1, <1>2, <2>1, <2>2, <2>3, <2>4, <2>5 DEF TypeOK
<1>4. TablesInv' /\ UsesInv'
  BY <1>1 DEF TablesInv, UsesInv
<1>5. active' \cup done' = active \cup done
  BY <1>2
<1>6. OneObjectPerName'
  BY <1>1, <1>5 DEF OneObjectPerName
<1>7. TraversalInv'
  BY <1>1, <1>2, <1>5 DEF TraversalInv, AllReferred, InPass, Referred, IsCompiledTree
<1> QED
  BY <1>3, <1>4, <1>6, <1>7 DEF IInv

LEMMA MicroPassIInv == IInv /\ MicroPass => IInv'
<1> SUFFICES ASSUME IInv, MicroPass PROVE IInv'
  OBVIOUS
<1>1. TypeOK /\ TablesInv /\ UsesInv /\ TraversalInv /\ OneObjectPerName
  BY DEF IInv
<1>2. PICK s \in SUBSET Signals, u \in SUBSET Imports[cur[1]], again \in BOOLEAN :
         ComputeModule(s, u, again)
  BY DEF MicroPass
<1>3. /\ UNCHANGED <<finalized, done, unfinished, stdlibPhase, passCount, cur>>
      /\ pc = "micro"
      /\ pc' \in {"micro", "consider", "sysexit"}
      /\ pc' = "micro" => unchanged' < 2
      /\ unchanged' \in 0..2 /\ touched' \in BOOLEAN
  <2>1. UNCHANGED <<finalized, done, unfinished, stdlibPhase, passCount, cur>> /\ pc = "micro"
    BY DEF MicroPass
  <2>2. pc' \in {"micro", "consider", "sysexit"}
    BY DEF MicroPass
  <2>3. unchanged \in {0, 1}
    BY <1>1, <2>1 DEF TypeOK, TraversalInv
  <2>4. unchanged' \in 0..2 /\ (pc' = "micro" => unchanged' < 2)
    <3>1. unchanged' \in {0, 1} \/ (pc' = "consider" /\ unchanged' = unchanged + 1)
      BY <2>3 DEF MicroPass
    <3>2. pc' = "micro" => unchanged' \in {0, 1}
      BY DEF MicroPass
    <3> QED
      BY <2>3, <3>1, <3>2
  <2>5. touched' = touched \/ touched' = TRUE
    BY DEF MicroPass
  <2>6. touched' \in BOOLEAN
    BY <1>1, <2>5 DEF TypeOK
  <2> QED
    BY <2>1, <2>2, <2>4, <2>6
<1>4. cur[1] \in Names /\ Imports[cur[1]] \subseteq Names
  BY <1>1, ConstantFacts DEF TypeOK, Objects
<1>5. AttemptRecursion(cur[1])
  BY <1>2 DEF ComputeModule
<1>6. /\ cache' \in [Names -> Refs]
      /\ attached' \in [Names -> Refs]
      /\ TablesInv'
      /\ active' \subseteq Objects
      /\ active' \cap done' = {}
      /\ AllReferred'
  BY <1>3, <1>4, <1>5, AttemptRecursionFacts DEF InPass
<1>7. /\ uses' = [uses EXCEPT ![cur[1]] = u]
      /\ tags' \subseteq Signals \cup {"var_usage"}
      /\ complete' \subseteq Names
      /\ changesLeft' \in 0..Changes
      /\ UNCHANGED <<roots, stdlibOnly>>
  <2>1. uses' = [uses EXCEPT ![cur[1]] = u] /\ UNCHANGED <<roots, stdlibOnly>>
    BY <1>2 DEF ComputeModule, AttemptRecursion
  <2>2. tags' \subseteq Signals \cup {"var_usage"}
    BY <1>2 DEF ComputeModule, VarUsage
  <2>3. complete' \subseteq Names
    BY <1>1, <1>2, <1>4 DEF ComputeModule, MarkAsComplete, TypeOK
  <2>4. changesLeft' \in 0..Changes
    BY <1>1, <1>2, ConstantsAssumption DEF ComputeModule, TypeOK
  <2> QED
    BY <2>1, <2>2, <2>3, <2>4
<1>8. uses' \in [Names -> SUBSET Names] /\ UsesInv'
  BY <1>1, <1>2, <1>4, <1>7 DEF TypeOK, UsesInv
<1>9. TypeOK'
  BY <1>1, <1>3, <1>6, <1>7, <1>8 DEF TypeOK
<1>10. TraversalInv'
  BY <1>1, <1>3, <1>6 DEF TraversalInv, InPass, IsCompiledTree
<1>11. OneObjectPerName'
  BY <1>6, <1>9, ReferredIsUnique, PTL
<1> QED
  BY <1>6, <1>8, <1>9, <1>10, <1>11 DEF IInv

(***************************************************************************)
(* What the actions that add modules and leave the body alone preserve.    *)
(***************************************************************************)
LEMMA QueueStep ==
    ASSUME IInv, pc \in InPass,
           cache' \in [Names -> Refs], attached' \in [Names -> Refs], TablesInv',
           active' \subseteq Objects, active' \cap done' = {}, AllReferred',
           roots' = roots, stdlibOnly' \subseteq Names, unfinished' \subseteq Names,
           stdlibPhase' \in {"before", "pending", "done"},
           pc' \in {"pick", "consider"}, pc' = "consider" => pc = "attempt",
           UNCHANGED <<finalized, done, passCount, cur, body>>
    PROVE  IInv'
<1>1. TypeOK /\ UsesInv /\ TraversalInv
  BY DEF IInv
<1>2. UNCHANGED <<tags, unchanged, touched, uses, complete, changesLeft>>
  BY DEF body
<1>3. TypeOK'
  BY <1>1, <1>2 DEF TypeOK
<1>4. UsesInv'
  BY <1>1, <1>2 DEF UsesInv
<1>5. TraversalInv'
  BY <1>1, <1>2 DEF TraversalInv, InPass
<1>6. OneObjectPerName'
  BY <1>3, ReferredIsUnique, PTL
<1> QED
  BY <1>3, <1>4, <1>5, <1>6 DEF IInv

LEMMA AttemptParentIInv == IInv /\ AttemptParent => IInv'
<1> SUFFICES ASSUME IInv, AttemptParent PROVE IInv'
  OBVIOUS
<1>1. TypeOK /\ cur[1] \in Names
  BY DEF IInv, TypeOK, Objects
<1>2. /\ pc = "attempt" /\ pc' = "consider" /\ AttemptRecursion(cur[1])
      /\ UNCHANGED <<body, finalized, done, unfinished, stdlibPhase, passCount, cur>>
      /\ UNCHANGED <<roots, stdlibOnly>>
  BY DEF AttemptParent, AttemptRecursion
<1>3. /\ pc \in InPass
      /\ stdlibOnly' \subseteq Names /\ unfinished' \subseteq Names
      /\ stdlibPhase' \in {"before", "pending", "done"}
  BY <1>1, <1>2 DEF InPass, TypeOK
<1> QED
  BY <1>1, <1>2, <1>3, AttemptRecursionFacts, QueueStep

LEMMA ConsiderModulesIInv == IInv /\ ConsiderModules => IInv'
<1> SUFFICES ASSUME IInv, ConsiderModules PROVE IInv'
  OBVIOUS
<1> DEFINE n == cur[1]
           used == Followed(UsedModules(n, passCount))
           all == used \cup ImplicitImports(n)
<1>1. TypeOK /\ TablesInv /\ UsesInv /\ TraversalInv
  BY DEF IInv
<1>2. /\ pc = "consider" /\ pc' = "pick"
      /\ RecurseTo(all)
      /\ stdlibOnly' = stdlibOnly \cup (New(used) \ uses[n])
      /\ AddUsed(Cached(all) \cup {<<a, attached'[a]>> : a \in Attached(n)})
      /\ unfinished' = IF touched THEN unfinished \cup {n} ELSE unfinished
      /\ UNCHANGED <<roots, finalized, done, stdlibPhase, passCount, cur, body>>
  BY DEF ConsiderModules
<1>3. n \in Names /\ cur \in Objects /\ pc \in InPass
  BY <1>1, <1>2 DEF TypeOK, Objects, InPass
<1>4. Referred(cur)
  BY <1>1, <1>2 DEF TraversalInv, AllReferred, InPass
<1>5. all \subseteq Names /\ all \subseteq Importable /\ used \subseteq Names
  BY <1>1, <1>3, UsedModulesFacts, FollowedFacts, ConstantFacts DEF ImplicitImports
<1>6. \A a \in Attached(n) : a \in Names /\ attached'[a] \in Forms
  <2> TAKE a \in Attached(n)
  <2>1. a \in Names /\ attached[a] \in Forms
    BY <1>1, <1>3, <1>4, AttachedIsMade, ConstantFacts
  <2>2. attached'[a] = attached[a]
    BY <1>1, <1>2, <1>5, <2>1, RecurseToFacts, ConstantFacts
  <2> QED
    BY <2>1, <2>2
<1>7. /\ cache' \in [Names -> Refs]
      /\ attached' \in [Names -> Refs]
      /\ TablesInv'
      /\ active' \subseteq Objects
      /\ active' \cap done' = {}
      /\ AllReferred'
  <2> HIDE DEF all, n
  <2> QED
    BY <1>2, <1>3, <1>5, <1>6, AddUsedFacts
<1>8. /\ stdlibOnly' \subseteq Names /\ unfinished' \subseteq Names
      /\ stdlibPhase' \in {"before", "pending", "done"}
  BY <1>1, <1>2, <1>3, <1>5 DEF TypeOK, New
<1> QED
  BY <1>2, <1>3, <1>7, <1>8, QueueStep

LEMMA StandardLibraryPhaseIInv == IInv /\ StandardLibraryPhase => IInv'
<1> SUFFICES ASSUME IInv, StandardLibraryPhase PROVE IInv'
  OBVIOUS
<1> DEFINE used == Followed(UsedModules(Main, -1))
<1>1. TypeOK /\ UsesInv
  BY DEF IInv
<1>2. /\ pc = "pick" /\ pc' = pc
      /\ RecurseTo(used) /\ AddUsed(Cached(used))
      /\ stdlibOnly' = stdlibOnly \cup New(used)
      /\ stdlibPhase' = "done"
      /\ UNCHANGED <<roots, finalized, done, unfinished, passCount, cur, body>>
  BY DEF StandardLibraryPhase
<1>3. used \subseteq Names /\ used \subseteq Importable
  BY <1>1, UsedModulesFacts, FollowedFacts, ConstantFacts
<1>4. pc \in InPass /\ AddUsed(Cached(used) \cup {<<a, attached'[a]>> : a \in {}})
  BY <1>2 DEF InPass
<1> HIDE DEF used
<1>5. /\ cache' \in [Names -> Refs]
      /\ attached' \in [Names -> Refs]
      /\ TablesInv'
      /\ active' \subseteq Objects
      /\ active' \cap done' = {}
      /\ AllReferred'
  BY <1>2, <1>3, <1>4, AddUsedFacts
<1>6. stdlibOnly' \subseteq Names /\ unfinished' \subseteq Names
  BY <1>1, <1>2, <1>3 DEF TypeOK, New
<1> QED
  BY <1>2, <1>4, <1>5, <1>6, QueueStep

LEMMA FollowIncompleteIInv == IInv /\ FollowIncomplete => IInv'
<1> SUFFICES ASSUME IInv, FollowIncomplete PROVE IInv'
  OBVIOUS
<1>1. TypeOK /\ UsesInv
  BY DEF IInv
<1>2. /\ pc = "pick" /\ pc' = pc
      /\ RecurseTo(Incomplete) /\ AddUsed(Cached(Incomplete))
      /\ UNCHANGED <<roots, stdlibOnly, finalized, done, unfinished, stdlibPhase,
                     passCount, cur, body>>
  BY DEF FollowIncomplete
<1>3. Incomplete \subseteq Names /\ Incomplete \subseteq Importable
  <2>1. \A n \in NamesOf(done) : UsageAttempts(n) \subseteq Importable \cap Names
    BY <1>1, UsedModulesFacts DEF TypeOK, NamesOf, Objects
  <2> QED
    BY <2>1 DEF Incomplete
<1>4. pc \in InPass /\ AddUsed(Cached(Incomplete) \cup {<<a, attached'[a]>> : a \in {}})
  BY <1>2 DEF InPass
<1>5. /\ cache' \in [Names -> Refs]
      /\ attached' \in [Names -> Refs]
      /\ TablesInv'
      /\ active' \subseteq Objects
      /\ active' \cap done' = {}
      /\ AllReferred'
  BY <1>2, <1>3, <1>4, AddUsedFacts
<1>6. /\ stdlibOnly' \subseteq Names /\ unfinished' \subseteq Names
      /\ stdlibPhase' \in {"before", "pending", "done"}
  BY <1>1, <1>2 DEF TypeOK
<1> QED
  BY <1>2, <1>4, <1>5, <1>6, QueueStep

(***************************************************************************)
(* The actions that only move the driver on.                               *)
(***************************************************************************)
LEMMA MoveOnIInv ==
    ASSUME IInv, UNCHANGED <<tables, body, finalized, cur, active, done>>,
           UNCHANGED <<unfinished, stdlibPhase, passCount>>,
           \/ pc = "micro" /\ pc' = "crashed"
           \/ pc' \in {"start", "demote", "finished"} /\ active = {}
           \/ pc' = pc
    PROVE  IInv'
<1>1. TypeOK /\ TablesInv /\ UsesInv /\ TraversalInv /\ OneObjectPerName
  BY DEF IInv
<1>2. UNCHANGED <<roots, cache, attached, stdlibOnly, tags, unchanged, touched, uses,
                  complete, changesLeft>>
  BY DEF tables, body
<1>3. TypeOK'
  BY <1>1, <1>2 DEF TypeOK
<1>4. TablesInv' /\ UsesInv' /\ OneObjectPerName'
  BY <1>1, <1>2 DEF TablesInv, UsesInv, OneObjectPerName
<1>5. TraversalInv'
  BY <1>1, <1>2 DEF TraversalInv, InPass, AllReferred, Referred, IsCompiledTree
<1> QED
  BY <1>3, <1>4, <1>5 DEF IInv

(***************************************************************************)
(* What demotion does to the tables: the replaced reference stays one.     *)
(***************************************************************************)
LEMMA ReplaceFacts ==
    ASSUME NEW T \in [Names -> Refs], NEW n \in Names
    PROVE  /\ Replace(T, n) \in [Names -> Refs]
           /\ \A m \in Names : Replace(T, n)[m] # "none" <=> T[m] # "none"
           /\ \A m \in Names \ {n} : Replace(T, n)[m] = T[m]
           /\ Replace(T, n)[n] # "tree"
BY DEF Replace, Refs, Forms

LEMMA DemoteModuleIInv == IInv /\ DemoteModule => IInv'
<1> SUFFICES ASSUME IInv, DemoteModule PROVE IInv'
  OBVIOUS
<1>1. TypeOK /\ TablesInv /\ UsesInv /\ TraversalInv /\ OneObjectPerName
  BY DEF IInv
<1>2. PICK o \in ToDemote :
         /\ finalized' = finalized \cup {o[1]}
         /\ cache' = Replace(cache, o[1])
         /\ roots' = Replace(roots, o[1])
         /\ attached' = attached \/ attached' = Replace(attached, o[1])
  BY DEF DemoteModule, ReplaceImportedModule, ReplaceRootModule, ReplaceTriggerModule
<1>3. /\ pc = "demote" /\ pc' = pc
      /\ UNCHANGED <<active, done, unfinished, stdlibPhase, passCount>>
      /\ UNCHANGED <<stdlibOnly, cur, tags, unchanged, touched, uses, complete,
                     changesLeft>>
  BY DEF DemoteModule, traversal, body
<1>4. o[1] \in Names /\ o[1] # Main
  BY <1>1, MainAssumption DEF ToDemote, TypeOK, Objects
<1>5. /\ roots' \in [Names -> Refs]
      /\ cache' \in [Names -> Refs]
      /\ attached' \in [Names -> Refs]
      /\ \A m \in Names : /\ roots'[m] # "none" <=> roots[m] # "none"
                          /\ cache'[m] # "none" <=> cache[m] # "none"
                          /\ attached'[m] # "none" <=> attached[m] # "none"
      /\ roots'[Main] = roots[Main] /\ cache'[Main] = cache[Main]
  <2> DEFINE Kept(T, U) == /\ U \in [Names -> Refs]
                           /\ \A m \in Names : U[m] # "none" <=> T[m] # "none"
                           /\ U[Main] = T[Main]
  <2>1. roots \in [Names -> Refs] /\ cache \in [Names -> Refs] /\ attached \in [Names -> Refs]
    BY <1>1 DEF TypeOK
  <2>2. Main \in Names \ {o[1]}
    BY <1>4, ConstantFacts
  <2>3. Kept(roots, roots')
    BY <1>2, <1>4, <2>1, <2>2, ReplaceFacts
  <2>4. Kept(cache, cache')
    BY <1>2, <1>4, <2>1, <2>2, ReplaceFacts
  <2>5. Kept(attached, attached')
    <3>1. CASE attached' = attached
      BY <3>1, <2>1
    <3>2. CASE attached' = Replace(attached, o[1])
      BY <3>2, <1>4, <2>1, <2>2, ReplaceFacts
    <3> QED
      BY <1>2, <3>1, <3>2
  <2> QED
    BY <2>3, <2>4, <2>5
<1>6. TypeOK'
  <2>1. finalized' \subseteq Names
    BY <1>1, <1>2, <1>4 DEF TypeOK
  <2> QED
    BY <1>1, <1>3, <1>5, <2>1 DEF TypeOK
<1>7. TablesInv'
  <2>1. \A n \in Roots \ {Main} : cache'[n] = roots'[n]
    <3> SUFFICES ASSUME NEW n \in Roots \ {Main} PROVE cache'[n] = roots'[n]
      OBVIOUS
    <3>1. n \in Names /\ cache[n] = roots[n]
      BY <1>1, ConstantsAssumption DEF TablesInv
    <3>2. roots \in [Names -> Refs] /\ cache \in [Names -> Refs]
      BY <1>1 DEF TypeOK
    <3> QED
      BY <1>2, <3>1, <3>2 DEF Replace
  <2>2. \A m \in Names : \A a \in Attached(m) : a \in Names
    BY ConstantFacts
  <2>3. /\ roots'[Main] = "tree" /\ cache'[Main] = "none"
        /\ \A n \in Names : roots'[n] # "none" <=> n \in Roots
        /\ \A n \in Names : cache'[n] # "none" => n \in Importable \cup Roots
    BY <1>1, <1>5 DEF TablesInv
  <2>4. \A n \in Names : attached'[n] # "none" => \E m \in Names : n \in Attached(m)
    BY <1>1, <1>5 DEF TablesInv
  <2>5. \A m \in Names : \A a \in Attached(m) :
          attached'[a] # "none" <=> (cache'[m] # "none" \/ m = Main)
    BY <1>1, <1>5, <2>2 DEF TablesInv
  <2> QED
    BY <2>1, <2>3, <2>4, <2>5 DEF TablesInv
<1>8. UsesInv' /\ OneObjectPerName'
  BY <1>1, <1>3 DEF UsesInv, OneObjectPerName
<1>9. TraversalInv'
  BY <1>1, <1>3 DEF TraversalInv, InPass
<1> QED
  BY <1>6, <1>7, <1>8, <1>9 DEF IInv

LEMMA NextIInv == IInv /\ [Next]_vars => IInv'
<1> SUFFICES ASSUME IInv, [Next]_vars PROVE IInv'
  OBVIOUS
<1>1. pc = "pick" /\ active = {} => active = {}
  OBVIOUS
<1>2. CASE MicroPassOfFinalized
  BY <1>2, MoveOnIInv DEF MicroPassOfFinalized, traversal
<1>3. CASE EndPass
  BY <1>3, MoveOnIInv DEF EndPass, PassesDone, traversal
<1>4. CASE DemotionDone
  BY <1>4, MoveOnIInv DEF DemotionDone, PassesDone, traversal, IInv, TraversalInv
<1>5. CASE UNCHANGED vars
  BY <1>5, MoveOnIInv DEF vars, traversal
<1>6. CASE Terminating
  BY <1>6, <1>5 DEF Terminating
<1> QED
  BY <1>2, <1>3, <1>4, <1>5, <1>6, StartPassIInv, NextModuleIInv, MicroPassIInv,
     AttemptParentIInv, ConsiderModulesIInv, StandardLibraryPhaseIInv,
     FollowIncompleteIInv, DemoteModuleIInv DEF Next

THEOREM IInvHolds == Spec => []IInv
BY InitIInv, NextIInv, PTL DEF Spec

(***************************************************************************)
(* Every variable of the driver keeps its type.                            *)
(***************************************************************************)
THEOREM TypeCorrect == Spec => []TypeOK
<1>1. IInv => TypeOK
  BY DEF IInv
<1> QED
  BY <1>1, IInvHolds, PTL

(***************************************************************************)
(* Whatever is imported, followed, attached or demoted: in a traversal no  *)
(* module has two objects, although recurseTo, the roots, the plugins and  *)
(* the demotion each keep a reference of their own.                        *)
(***************************************************************************)
THEOREM OneObjectPerNameHolds == Spec => []OneObjectPerName
<1>1. IInv => OneObjectPerName
  BY DEF IInv
<1> QED
  BY <1>1, IInvHolds, PTL

(***************************************************************************)
(* A pass optimizes an object at most once, and forgets nothing it was     *)
(* asked to include.                                                       *)
(***************************************************************************)
THEOREM PassOnlyGrowsHolds == Spec => PassOnlyGrows
<1> DEFINE Grows == /\ done \subseteq done'
                    /\ active \subseteq active' \cup done'
                    /\ active' \cap done' = {}
<1>1. ASSUME IInv, IInv', [Next]_vars
      PROVE  [pc # "start" => Grows]_vars
  <2>1. active' \cap done' = {}
    BY <1>1 DEF IInv, TraversalInv
  <2>2. CASE StartPass
    BY <2>2 DEF StartPass
  <2>3. CASE NextModule
    BY <2>1, <2>3 DEF NextModule
  <2>4. CASE MicroPass
    BY <2>1, <2>4 DEF MicroPass, ComputeModule, AttemptRecursion, AddUsed
  <2>5. CASE AttemptParent
    BY <2>1, <2>5 DEF AttemptParent, AttemptRecursion, AddUsed
  <2>6. CASE ConsiderModules
    BY <2>1, <2>6 DEF ConsiderModules, AddUsed
  <2>7. CASE StandardLibraryPhase
    BY <2>1, <2>7 DEF StandardLibraryPhase, AddUsed
  <2>8. CASE FollowIncomplete
    BY <2>1, <2>8 DEF FollowIncomplete, AddUsed
  <2>9. CASE MicroPassOfFinalized \/ EndPass \/ DemoteModule \/ DemotionDone
    BY <2>1, <2>9 DEF MicroPassOfFinalized, EndPass, DemoteModule, DemotionDone, traversal
  <2>10. CASE Terminating \/ UNCHANGED vars
    BY <2>10 DEF Terminating
  <2> QED
    BY <1>1, <2>2, <2>3, <2>4, <2>5, <2>6, <2>7, <2>8, <2>9, <2>10 DEF Next
<1> QED
  BY <1>1, IInvHolds, PTL DEF Spec, PassOnlyGrows
===============================================================================
