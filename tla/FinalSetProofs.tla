---------------------------- MODULE FinalSetProofs ----------------------------
(***************************************************************************)
(* Proofs about the set of modules that the driver ends with: it is the    *)
(* least set that has the root modules and what its modules ask for.  A    *)
(* traversal that finds a module settled takes what that module asks for   *)
(* at once, and what a settled module asks for does not change before the  *)
(* next traversal.                                                         *)
(***************************************************************************)
EXTENDS DemotionProofs

\* A traversal after pass 1, in which nothing waits for a standard library phase.
Passing == passCount # 1 /\ pc \in {"pick", "micro", "attempt", "consider"}

\* The names of the modules that have been optimized and considered.
Settled == NamesOf(done) \ (IF pc = "pick" THEN {} ELSE {cur[1]})

Held == NamesOf(active \cup done)

RootNames == {n \in Names : roots[n] # "none"}

(***************************************************************************)
(* What a module asks for whatever becomes of its body.                    *)
(***************************************************************************)
Parents(n) == {p \in {Package[n]} \cap Names : Decide(p) # "none"}

Given(n) == Followed(Implicit[n]) \cup Attached(n) \cup Parents(n)

(***************************************************************************)
(* What settled modules ask for is in the traversal.                       *)
(***************************************************************************)
ClosedInv == Passing =>
    /\ \A n \in Settled : Followed(WantedImports(n)) \cup Given(n) \subseteq Held
    /\ pc = "consider" => Parents(cur[1]) \subseteq Held

(***************************************************************************)
(* And the traversal has nothing else: it is in every set that has the     *)
(* roots and that is closed, where of imports only those of settled        *)
(* modules count.                                                          *)
(***************************************************************************)
Closed(S) ==
    /\ RootNames \subseteq S
    /\ \A n \in S : Given(n) \subseteq S
    /\ \A n \in S \cap Settled : Followed(WantedImports(n)) \subseteq S
    /\ \A n \in S \cap Settled, c \in S : UsageAttempts(n) \cap AutoFollow[c] \subseteq S

LeastInv == Passing => \A S \in SUBSET Names : Closed(S) => Held \subseteq S

FinalInv == ClosedInv /\ LeastInv /\ FinalSetExact

-----------------------------------------------------------------------------
LEMMA NamesFacts ==
    ASSUME IInv
    PROVE  /\ Held \subseteq Names /\ NamesOf(done) \subseteq Held
           /\ Settled \subseteq NamesOf(done)
           /\ pc \in {"micro", "attempt", "consider"} => cur[1] \in NamesOf(done)
<1>1. active \subseteq Objects /\ done \subseteq Objects
  BY DEF IInv, TypeOK
<1>2. pc \in {"micro", "attempt", "consider"} => cur \in done
  BY DEF IInv, TraversalInv, InPass
<1> QED
  BY <1>1, <1>2 DEF Held, NamesOf, Settled, Objects

LEMMA FollowedMonotonic ==
    ASSUME NEW S, NEW T, S \subseteq T
    PROVE  Followed(S) \subseteq Followed(T)
BY DEF Followed

(***************************************************************************)
(* A module that is in the traversal was built: recurseTo does not find    *)
(* it new, and so does not give it the reason "stdlib".                    *)
(***************************************************************************)
LEMMA HeldIsNotNew ==
    ASSUME IInv, pc \in InPass, NEW S, S \subseteq Importable \cap Names
    PROVE  New(S) \cap Held = {}
<1> SUFFICES ASSUME NEW n \in New(S), NEW o \in active \cup done, o[1] = n
             PROVE  FALSE
  BY DEF Held, NamesOf
<1>1. TypeOK /\ TablesInv /\ Referred(o) /\ o \in Objects
  BY DEF IInv, TypeOK, TraversalInv, AllReferred
<1>2. n \in Names /\ n \in Importable /\ cache[n] = "none" /\ o[2] # "none"
  BY <1>1, ConstantFacts DEF New, Objects
<1>3. n # Main
  BY <1>2, MainAssumption
<1>4. roots[n] = "none"
  BY <1>1, <1>2, <1>3 DEF TablesInv
<1>5. attached[n] = "none"
  BY <1>1, <1>2, AttachedAssumption DEF TablesInv
<1> QED
  BY <1>1, <1>2, <1>4, <1>5 DEF Referred

(***************************************************************************)
(* What recurseTo and addUsedModule are asked for is in the traversal      *)
(* afterwards, and nothing else is new there.                              *)
(***************************************************************************)
LEMMA AddUsedNames ==
    ASSUME NEW S, NEW A, done' = done,
           AddUsed(Cached(S) \cup {<<a, attached'[a]>> : a \in A})
    PROVE  Held' = Held \cup S \cup A
<1> DEFINE B == Cached(S) \cup {<<a, attached'[a]>> : a \in A}
<1>1. active' \cup done' = active \cup done \cup B
  BY DEF AddUsed
<1>2. NamesOf(B) = S \cup A
  <2>1. \A o \in B : o[1] \in S \cup A
    BY DEF Cached
  <2>2. ASSUME NEW n \in S PROVE \E o \in B : n = o[1]
    <3>1. <<n, cache'[n]>> \in B
      BY DEF Cached
    <3> QED
      BY <3>1
  <2>3. ASSUME NEW a \in A PROVE \E o \in B : a = o[1]
    <3>1. <<a, attached'[a]>> \in B
      OBVIOUS
    <3> QED
      BY <3>1
  <2> QED
    BY <2>1, <2>2, <2>3 DEF NamesOf
<1>3. NamesOf(active' \cup done') = NamesOf(active \cup done) \cup NamesOf(B)
  BY <1>1 DEF NamesOf
<1> QED
  BY <1>2, <1>3 DEF Held, NamesOf

LEMMA AttemptRecursionNames ==
    ASSUME NEW n, AttemptRecursion(n), done' = done
    PROVE  Held' = Held \cup Parents(n)
<1>1. AddUsed(Cached(ParentToAdd(n)) \cup {<<a, attached'[a]>> : a \in {}})
  BY DEF AttemptRecursion
<1>2. Held' = Held \cup ParentToAdd(n) \cup {}
  BY <1>1, AddUsedNames
<1> QED
  BY <1>2 DEF ParentToAdd, Parents, Held

(***************************************************************************)
(* Steps in which a settled module stays settled, with the same wants.     *)
(***************************************************************************)
Steady ==
    /\ Settled \subseteq Settled'
    /\ RootNames' = RootNames
    /\ \A n \in Settled : uses'[n] = uses[n] /\ (n \in stdlibOnly' <=> n \in stdlibOnly)

LEMMA SteadyClosed ==
    ASSUME Steady, NEW S, Closed(S)'
    PROVE  Closed(S)
<1>1. \A n \in Settled : WantedImports(n)' = WantedImports(n) /\ UsageAttempts(n)' = UsageAttempts(n)
  BY DEF Steady, WantedImports, UsageAttempts
<1>2. /\ RootNames' \subseteq S
      /\ \A n \in S : Given(n) \subseteq S
      /\ \A n \in S \cap Settled' : Followed(WantedImports(n)') \subseteq S
      /\ \A n \in S \cap Settled', c \in S : UsageAttempts(n)' \cap AutoFollow[c] \subseteq S
  BY DEF Closed, Given, Followed, Parents
<1>3. Settled \subseteq Settled' /\ RootNames' = RootNames
  BY DEF Steady
<1> QED
  BY <1>1, <1>2, <1>3 DEF Closed

\* To show for a step that adds: it adds what is asked for.
LEMMA LeastStep ==
    ASSUME IInv, LeastInv, Passing, Steady,
           ASSUME NEW S \in SUBSET Names, Closed(S)', Held \subseteq S PROVE Held' \subseteq S
    PROVE  LeastInv'
<1> SUFFICES ASSUME NEW S \in SUBSET Names, Closed(S)' PROVE Held' \subseteq S
  BY DEF LeastInv
<1>1. Closed(S)
  BY SteadyClosed
<1>2. Held \subseteq S
  BY <1>1 DEF LeastInv
<1> QED
  BY <1>2

-----------------------------------------------------------------------------
(***************************************************************************)
(* The steps of a traversal.                                               *)
(***************************************************************************)
LEMMA NextModulePasses ==
    ASSUME IInv, ClosedInv, LeastInv, Passing, NextModule
    PROVE  ClosedInv' /\ LeastInv'
<1>1. PICK o \in active :
         /\ cur' = o /\ active' = active \ {o} /\ done' = done \cup {o}
         /\ pc = "pick" /\ pc' \in {"micro", "attempt"}
         /\ UNCHANGED <<tables, passCount, uses>>
  BY DEF NextModule
<1>2. o[1] \notin NamesOf(done)
  <2>1. active \cap done = {} /\ OneObjectPerName
    BY DEF IInv, TraversalInv
  <2> QED
    BY <2>1 DEF OneObjectPerName, NamesOf
<1>3. Settled = NamesOf(done) /\ Settled' = NamesOf(done)
  <2>1. NamesOf(done') = NamesOf(done) \cup {o[1]}
    BY <1>1 DEF NamesOf
  <2> QED
    BY <1>1, <1>2, <2>1 DEF Settled, NamesOf
<1>4. Held' = Held
  <2>1. active' \cup done' = active \cup done
    BY <1>1
  <2> QED
    BY <2>1 DEF Held, NamesOf
<1>5. UNCHANGED <<uses, stdlibOnly, roots>>
  BY <1>1 DEF tables
<1>6. Steady
  BY <1>3, <1>5 DEF Steady, RootNames
<1>7. ClosedInv'
  <2>1. \A n : WantedImports(n)' = WantedImports(n)
    BY <1>5 DEF WantedImports
  <2> QED
    BY <1>1, <1>3, <1>4, <2>1 DEF ClosedInv, Given, Followed, Parents
<1>8. LeastInv'
  BY <1>4, <1>6, LeastStep
<1> QED
  BY <1>7, <1>8

LEMMA OptimizePasses ==
    ASSUME IInv, ClosedInv, LeastInv, Passing, pc' \in {"micro", "consider", "sysexit"},
           pc \in {"micro", "attempt"}, AttemptRecursion(cur[1]),
           UNCHANGED <<done, passCount, cur>>,
           \A n \in Names \ {cur[1]} : uses'[n] = uses[n]
    PROVE  ClosedInv' /\ LeastInv'
<1>1. Held' = Held \cup Parents(cur[1])
  BY AttemptRecursionNames
<1>2. UNCHANGED <<roots, stdlibOnly>>
  BY DEF AttemptRecursion
<1>3. Settled' = Settled /\ Settled = NamesOf(done) \ {cur[1]}
  BY DEF Settled, NamesOf
<1>4. Settled \subseteq Names \ {cur[1]} /\ cur[1] \in Held
  BY <1>3, NamesFacts
<1>5. Steady
  BY <1>2, <1>3, <1>4 DEF Steady, RootNames
<1>6. ClosedInv'
  <2>1. \A n \in Settled : WantedImports(n)' = WantedImports(n)
    BY <1>2, <1>4 DEF WantedImports
  <2> QED
    BY <1>1, <1>3, <2>1 DEF ClosedInv, Given, Followed, Parents
<1>7. ASSUME NEW S \in SUBSET Names, Closed(S)', Held \subseteq S PROVE Held' \subseteq S
  <2>1. \A n \in S : Given(n) \subseteq S
    BY <1>7 DEF Closed, Given, Followed, Parents
  <2> QED
    BY <1>1, <1>4, <1>7, <2>1 DEF Given
<1>8. LeastInv'
  BY <1>5, <1>7, LeastStep
<1> QED
  BY <1>6, <1>8

LEMMA ConsiderPasses ==
    ASSUME IInv, ClosedInv, LeastInv, Passing, ConsiderModules
    PROVE  ClosedInv' /\ LeastInv'
<1> DEFINE n == cur[1]
           used == Followed(UsedModules(n, passCount))
           all == used \cup ImplicitImports(n)
<1>1. /\ pc = "consider" /\ pc' = "pick"
      /\ stdlibOnly' = stdlibOnly \cup (New(used) \ uses[n])
      /\ AddUsed(Cached(all) \cup {<<a, attached'[a]>> : a \in Attached(n)})
      /\ UNCHANGED <<roots, done, passCount, cur, uses>>
  BY DEF ConsiderModules, body
<1>2. Held' = Held \cup all \cup Attached(n)
  <2> HIDE DEF all, n
  <2> QED
    BY <1>1, AddUsedNames
<1>3. TypeOK /\ UsesInv /\ n \in Names /\ pc \in InPass /\ n \in Held /\ n \in NamesOf(done)
  BY <1>1, NamesFacts DEF IInv, InPass
<1>4. New(used) \cap Held = {}
  <2>1. used \subseteq Importable \cap Names
    BY <1>3, UsedModulesFacts, FollowedFacts
  <2> QED
    BY <1>3, <2>1, HeldIsNotNew
<1>5. Settled' = NamesOf(done) /\ Settled = NamesOf(done) \ {n} /\ NamesOf(done) \subseteq Held
  <2>1. Settled' = NamesOf(done') /\ Settled = NamesOf(done) \ {n}
    BY <1>1 DEF Settled
  <2> QED
    BY <1>1, <2>1, NamesFacts DEF NamesOf
<1>6. \A m \in NamesOf(done) : (m \in stdlibOnly' <=> m \in stdlibOnly) /\ uses'[m] = uses[m]
  BY <1>1, <1>4, <1>5
<1>7. \A m \in NamesOf(done) : WantedImports(m)' = WantedImports(m)
  BY <1>6 DEF WantedImports
<1>8. Steady
  BY <1>1, <1>5, <1>6 DEF Steady, RootNames
<1>9. used = Followed(WantedImports(n))
  <2>1. passCount \in Nat /\ passCount # 1
    BY <1>3 DEF Passing, TypeOK
  <2>2. passCount # -1
    BY <2>1
  <2>3. UsedModules(n, passCount) = WantedImports(n)
    BY <2>1, <2>2 DEF UsedModules, WantedImports, StdlibUsages
  <2> QED
    BY <2>3
<1>10. ImplicitImports(n) = Followed(Implicit[n]) /\ Parents(n) \subseteq Held
  BY <1>1 DEF ImplicitImports, ClosedInv
<1>11. Followed(WantedImports(n)) \cup Given(n) \subseteq Held'
  BY <1>2, <1>9, <1>10 DEF Given
<1> HIDE DEF n, used, all
<1>12. ASSUME NEW m \in Settled'
       PROVE  Followed(WantedImports(m)') \cup Given(m) \subseteq Held'
  <2>1. CASE m = n
    BY <1>3, <1>7, <1>11, <2>1
  <2>2. CASE m # n
    <3>1. m \in Settled /\ m \in NamesOf(done)
      BY <1>5, <2>2
    <3>2. Followed(WantedImports(m)) \cup Given(m) \subseteq Held
      BY <3>1 DEF ClosedInv
    <3> QED
      BY <1>2, <1>7, <3>1, <3>2
  <2> QED
    BY <2>1, <2>2
<1>13. ClosedInv'
  BY <1>1, <1>12 DEF ClosedInv, Given, Followed, Parents
<1>14. ASSUME NEW S \in SUBSET Names, Closed(S)', Held \subseteq S PROVE Held' \subseteq S
  <2>1. /\ \A m \in S : Given(m) \subseteq S
        /\ \A m \in S \cap Settled' : Followed(WantedImports(m)') \subseteq S
    BY <1>14 DEF Closed, Given, Followed, Parents
  <2>2. n \in S /\ n \in Settled'
    BY <1>3, <1>5, <1>14
  <2>3. Given(n) \subseteq S /\ Followed(WantedImports(n)) \subseteq S
    BY <1>3, <1>7, <2>1, <2>2
  <2> QED
    BY <1>2, <1>9, <1>10, <1>14, <2>3 DEF Given, all
<1>15. LeastInv'
  BY <1>8, <1>14, LeastStep
<1> QED
  BY <1>13, <1>15

LEMMA FollowIncompletePasses ==
    ASSUME IInv, ClosedInv, LeastInv, Passing, FollowIncomplete
    PROVE  ClosedInv' /\ LeastInv'
<1>1. /\ pc = "pick" /\ pc' = pc /\ AddUsed(Cached(Incomplete))
      /\ UNCHANGED <<roots, stdlibOnly, done, passCount, cur, uses>>
  BY DEF FollowIncomplete, body
<1>2. Held' = Held \cup Incomplete
  <2>1. AddUsed(Cached(Incomplete) \cup {<<a, attached'[a]>> : a \in {}})
    BY <1>1
  <2>2. Held' = Held \cup Incomplete \cup {}
    BY <1>1, <2>1, AddUsedNames
  <2> QED
    BY <2>2
<1>3. Settled' = Settled /\ Settled = NamesOf(done) /\ NamesOf(done) \subseteq Held
  <2>1. NamesOf(done) \subseteq Held
    BY NamesFacts
  <2> QED
    BY <1>1, <2>1 DEF Settled, NamesOf
<1>4. Steady
  BY <1>1, <1>3 DEF Steady, RootNames
<1>5. ClosedInv'
  <2>1. \A n \in Settled : WantedImports(n)' = WantedImports(n)
    BY <1>1 DEF WantedImports
  <2> QED
    BY <1>1, <1>2, <1>3, <2>1 DEF ClosedInv, Given, Followed, Parents
<1>6. ASSUME NEW S \in SUBSET Names, Closed(S)', Held \subseteq S PROVE Held' \subseteq S
  <2>1. Closed(S) /\ Settled \subseteq S
    BY <1>3, <1>4, <1>6, SteadyClosed
  <2>2. ASSUME NEW u \in Incomplete PROVE u \in S
    <3>1. PICK n \in NamesOf(done), c \in NamesOf(done) :
             u \in UsageAttempts(n) \cap AutoFollow[c]
      BY DEF Incomplete
    <3> QED
      BY <1>3, <2>1, <3>1 DEF Closed
  <2> QED
    BY <1>2, <1>6, <2>2
<1>7. LeastInv'
  BY <1>4, <1>6, LeastStep
<1> QED
  BY <1>5, <1>7

(***************************************************************************)
(* What is wanted of a set, by its members.                                *)
(***************************************************************************)
AskedOf(S) == UNION {Asks(n) : n \in S}

Attempted(S) == UNION {UsageAttempts(n) : n \in S}

Spread(S, T) == {u \in T : \E c \in S : u \in AutoFollow[c]}

LEMMA WantedMembers ==
    ASSUME NEW S, NEW x
    PROVE  x \in Wanted(S) <=>
             \/ \E n \in S : x \in Asks(n)
             \/ \E n \in S, c \in S : x \in UsageAttempts(n) \cap AutoFollow[c]
<1>1. Wanted(S) = AskedOf(S) \cup Spread(S, Attempted(S))
  BY DEF Wanted, AskedOf, Spread, Attempted
<1>2. x \in AskedOf(S) <=> \E n \in S : x \in Asks(n)
  BY DEF AskedOf
<1>3. x \in Attempted(S) <=> \E n \in S : x \in UsageAttempts(n)
  BY DEF Attempted
<1>4. \A T : x \in Spread(S, T) <=> x \in T /\ \E c \in S : x \in AutoFollow[c]
  BY DEF Spread
<1> QED
  BY <1>1, <1>2, <1>3, <1>4

(***************************************************************************)
(* The end of a traversal after pass 1: what is wanted of the final set    *)
(* is what the invariant is about, now that all of it is settled.          *)
(***************************************************************************)
LEMMA EndPassExact ==
    ASSUME IInv, ClosedInv, LeastInv, Passing, EndPass
    PROVE  FinalSetExact'
<1>1. /\ pc = "pick" /\ active = {} /\ Incomplete = {}
      /\ UNCHANGED <<roots, stdlibOnly, done, uses>>
  BY DEF EndPass, tables, traversal, body
<1>2. Settled = NamesOf(done) /\ Held = NamesOf(done) /\ NamesOf(done) \subseteq Names
  <2>1. active \cup done = done
    BY <1>1
  <2>2. Held \subseteq Names
    BY NamesFacts
  <2> QED
    BY <1>1, <2>1, <2>2 DEF Settled, Held
<1>3. /\ \A n : WantedImports(n)' = WantedImports(n) /\ UsageAttempts(n)' = UsageAttempts(n)
      /\ NamesOf(done') = NamesOf(done)
  BY <1>1 DEF WantedImports, UsageAttempts
<1>4. ASSUME NEW S
      PROVE  Wanted(S)' = Wanted(S)
             /\ (Wanted(S) \subseteq S <=>
                  /\ \A n \in S : Followed(WantedImports(n)) \cup Given(n) \subseteq S
                  /\ \A n \in S, c \in S : UsageAttempts(n) \cap AutoFollow[c] \subseteq S)
  <2>1. Wanted(S)' = Wanted(S)
    BY <1>3 DEF Wanted, Asks, Followed
  <2>2. Wanted(S) \subseteq S <=>
          /\ \A n \in S : Asks(n) \subseteq S
          /\ \A n \in S, c \in S : UsageAttempts(n) \cap AutoFollow[c] \subseteq S
    BY WantedMembers
  <2>3. \A n : Asks(n) = Followed(WantedImports(n)) \cup Given(n)
    BY DEF Asks, Given, Followed, Parents
  <2> QED
    BY <2>1, <2>2, <2>3
<1>5. Wanted(NamesOf(done)) \subseteq NamesOf(done)
  <2>1. \A n \in NamesOf(done) : Followed(WantedImports(n)) \cup Given(n) \subseteq NamesOf(done)
    BY <1>2 DEF ClosedInv
  <2>2. \A n \in NamesOf(done), c \in NamesOf(done) :
           UsageAttempts(n) \cap AutoFollow[c] \subseteq NamesOf(done)
    BY <1>1 DEF Incomplete
  <2> QED
    BY <1>4, <2>1, <2>2
<1>6. ASSUME NEW S \in SUBSET NamesOf(done), RootNames \subseteq S, Wanted(S) \subseteq S
      PROVE  S = NamesOf(done)
  <2>1. Closed(S)
    BY <1>4, <1>6 DEF Closed
  <2>2. S \in SUBSET Names
    BY <1>2
  <2> QED
    BY <1>2, <2>1, <2>2 DEF LeastInv
<1>7. FinalSetClosed'
  BY <1>3, <1>4, <1>5 DEF FinalSetClosed
<1>8. FinalSetMinimal'
  BY <1>1, <1>3, <1>4, <1>6 DEF FinalSetMinimal, RootNames
<1> QED
  BY <1>7, <1>8 DEF FinalSetExact

-----------------------------------------------------------------------------
LEMMA InitFinalInv == Init => FinalInv
<1> SUFFICES ASSUME Init PROVE FinalInv
  OBVIOUS
<1>1. pc = "start"
  BY DEF Init
<1> QED
  BY <1>1 DEF FinalInv, ClosedInv, LeastInv, Passing, FinalSetExact, FinalSetClosed, FinalSetMinimal

LEMMA NextFinalInv ==
    ASSUME IInv, MainInv, FinalInv, [Next]_vars
    PROVE  FinalInv'
<1>1. ASSUME pc' # "finished", ClosedInv' /\ LeastInv' PROVE FinalInv'
  BY <1>1 DEF FinalInv, FinalSetExact, FinalSetClosed, FinalSetMinimal
<1>2. ASSUME pc' # "finished", ~Passing' PROVE FinalInv'
  BY <1>1, <1>2 DEF ClosedInv, LeastInv
<1>3. ASSUME pc' \in {"pick", "micro", "attempt", "consider"}, pc \in {"pick", "micro", "attempt", "consider"},
             passCount' = passCount, Passing => ClosedInv' /\ LeastInv'
      PROVE  FinalInv'
  BY <1>1, <1>2, <1>3 DEF Passing
<1>4. CASE StartPass
  <2>1. /\ active' = {<<n, roots[n]>> : n \in {m \in Names : roots[m] # "none"}}
        /\ done' = {} /\ pc' = "pick" /\ roots' = roots
    BY <1>4 DEF StartPass, tables
  <2>2. Held' = RootNames'
    <3>1. ASSUME NEW n \in RootNames PROVE \E o \in active' : n = o[1]
      <4>1. <<n, roots[n]>> \in active'
        BY <2>1, <3>1 DEF RootNames
      <4> QED
        BY <4>1
    <3>2. \A o \in active' : o[1] \in RootNames
      BY <2>1 DEF RootNames
    <3>3. Held' = NamesOf(active') /\ RootNames' = RootNames
      BY <2>1 DEF Held, NamesOf, RootNames
    <3> QED
      BY <3>1, <3>2, <3>3 DEF NamesOf
  <2>3. Settled' = {}
    BY <2>1 DEF Settled, NamesOf
  <2>4. ClosedInv'
    BY <2>1, <2>3 DEF ClosedInv
  <2>5. LeastInv'
    BY <2>2 DEF LeastInv, Closed
  <2> QED
    BY <1>1, <2>1, <2>4, <2>5
<1>5. CASE NextModule
  <2>1. pc = "pick" /\ pc' \in {"micro", "attempt"} /\ passCount' = passCount
    BY <1>5 DEF NextModule
  <2> QED
    BY <1>3, <1>5, <2>1, NextModulePasses DEF FinalInv
<1>6. CASE MicroPass
  <2>1. /\ pc = "micro" /\ pc' \in {"micro", "consider", "sysexit"}
        /\ UNCHANGED <<done, passCount, cur>> /\ AttemptRecursion(cur[1])
        /\ \E u : uses' = [uses EXCEPT ![cur[1]] = u]
    BY <1>6 DEF MicroPass, ComputeModule
  <2>2. \A n \in Names \ {cur[1]} : uses'[n] = uses[n]
    BY <2>1 DEF IInv, TypeOK
  <2>3. Passing => ClosedInv' /\ LeastInv'
    BY <2>1, <2>2, OptimizePasses DEF FinalInv
  <2>4. CASE pc' = "sysexit"
    BY <1>2, <2>4 DEF Passing
  <2> QED
    BY <1>3, <2>1, <2>3, <2>4
<1>7. CASE AttemptParent
  <2>1. /\ pc = "attempt" /\ pc' = "consider"
        /\ UNCHANGED <<done, passCount, cur, uses>> /\ AttemptRecursion(cur[1])
    BY <1>7 DEF AttemptParent, body
  <2>2. Passing => ClosedInv' /\ LeastInv'
    BY <2>1, OptimizePasses DEF FinalInv
  <2> QED
    BY <1>3, <2>1, <2>2
<1>8. CASE ConsiderModules
  <2>1. pc = "consider" /\ pc' = "pick" /\ passCount' = passCount
    BY <1>8 DEF ConsiderModules
  <2> QED
    BY <1>3, <1>8, <2>1, ConsiderPasses DEF FinalInv
<1>9. CASE StandardLibraryPhase
  <2>1. pc' = "pick" /\ passCount' = 1
    BY <1>9 DEF StandardLibraryPhase, StdlibPending
  <2> QED
    BY <1>2, <2>1 DEF Passing
<1>10. CASE FollowIncomplete
  <2>1. pc = "pick" /\ pc' = "pick" /\ passCount' = passCount
    BY <1>10 DEF FollowIncomplete
  <2> QED
    BY <1>3, <1>10, <2>1, FollowIncompletePasses DEF FinalInv
<1>11. CASE EndPass
  <2>1. pc = "pick" /\ pc' \in {"demote", "start", "finished"}
        /\ (pc' = "finished" => passCount # 1)
    BY <1>11 DEF EndPass, PassesDone
  <2>2. CASE pc' = "finished"
    <3>1. Passing
      BY <2>1, <2>2 DEF Passing
    <3>2. FinalSetExact'
      BY <1>11, <3>1, EndPassExact DEF FinalInv
    <3> QED
      BY <2>2, <3>2 DEF FinalInv, ClosedInv, LeastInv, Passing
  <2>3. CASE pc' # "finished"
    BY <1>2, <2>1, <2>3 DEF Passing
  <2> QED
    BY <2>2, <2>3
<1>12. CASE MicroPassOfFinalized
  BY <1>2, <1>12 DEF MicroPassOfFinalized, Passing
<1>13. CASE DemoteModule
  BY <1>2, <1>13 DEF DemoteModule, Passing
<1>14. CASE DemotionDone
  <2>1. pc' = "start"
    BY <1>14 DEF DemotionDone, PassesDone, MainInv
  <2> QED
    BY <1>2, <2>1 DEF Passing
<1>15. CASE Terminating \/ UNCHANGED vars
  <2>1. UNCHANGED <<roots, stdlibOnly, active, done, pc, passCount, cur, uses>>
    BY <1>15 DEF Terminating, vars, tables, traversal, body
  <2>2. Held' = Held /\ Settled' = Settled /\ RootNames' = RootNames
    BY <2>1 DEF Held, Settled, RootNames
  <2>3. \A n : WantedImports(n)' = WantedImports(n) /\ UsageAttempts(n)' = UsageAttempts(n)
    BY <2>1 DEF WantedImports, UsageAttempts
  <2>4. ClosedInv'
    BY <2>1, <2>2, <2>3 DEF FinalInv, ClosedInv, Passing, Given, Followed, Parents
  <2>5. LeastInv'
    BY <2>1, <2>2, <2>3 DEF FinalInv, LeastInv, Closed, Passing, Given, Followed, Parents
  <2>6. \A S : Wanted(S)' = Wanted(S)
    BY <2>3 DEF Wanted, Asks, Followed
  <2>7. FinalSetExact'
    BY <2>1, <2>6 DEF FinalInv, FinalSetExact, FinalSetClosed, FinalSetMinimal
  <2> QED
    BY <2>4, <2>5, <2>7 DEF FinalInv
<1> QED
  BY <1>4, <1>5, <1>6, <1>7, <1>8, <1>9, <1>10, <1>11, <1>12, <1>13, <1>14, <1>15 DEF Next

(***************************************************************************)
(* The set that is compiled is closed under what its modules ask for, and  *)
(* no smaller set with the roots is: whatever the order in which modules   *)
(* are found, and whenever imports come and go.                            *)
(***************************************************************************)
THEOREM FinalSetExactHolds == Spec => []FinalSetExact
<1>1. IInv /\ MainInv /\ FinalInv /\ [Next]_vars => FinalInv'
  BY NextFinalInv
<1>2. FinalInv => FinalSetExact
  BY DEF FinalInv
<1> QED
  BY <1>1, <1>2, InitFinalInv, IInvHolds, MainInvHolds, PTL DEF Spec

-----------------------------------------------------------------------------
(***************************************************************************)
(* The retry of debug mode: a module whose micro pass had no tag is        *)
(* complete, so that the driver adds no tag of its own in the next one.    *)
(***************************************************************************)
RetryInv ==
    /\ pc = "micro" => unchanged = 0 \/ (unchanged = 1 /\ tags = {} /\ cur[1] \in complete)
    /\ GivesUpForChangesOnly

LEMMA NextRetryInv == RetryInv /\ [Next]_vars => RetryInv'
<1> SUFFICES ASSUME RetryInv, [Next]_vars PROVE RetryInv'
  OBVIOUS
<1> USE DEF RetryInv, GivesUpForChangesOnly
<1>1. CASE MicroPass
  <2>1. PICK s \in SUBSET Signals, again \in BOOLEAN :
           /\ Propagation(s, again) /\ MarkAsComplete(cur[1], again)
           /\ tags' = s \cup VarUsage(cur[1])
    BY <1>1 DEF MicroPass, ComputeModule
  <2>2. cur' = cur /\ pc = "micro" /\ (unchanged = 0 \/ unchanged = 1)
    BY <1>1 DEF MicroPass
  <2>3. tags' = {} => cur[1] \in complete'
    BY <2>1 DEF Propagation, MarkAsComplete
  <2>4. unchanged = 1 => tags' = s
    BY <2>1, <2>2 DEF VarUsage
  <2>5. CASE pc' = "sysexit"
    <3>1. unchanged = 1 /\ tags' # {}
      BY <1>1, <2>5 DEF MicroPass
    <3> QED
      BY <2>4, <2>5, <3>1
  <2>6. CASE pc' = "micro"
    <3>1. unchanged' = 0 \/ (unchanged' = 1 /\ tags' = {})
      BY <1>1, <2>6 DEF MicroPass
    <3> QED
      BY <2>2, <2>3, <2>6, <3>1
  <2>7. CASE pc' = "consider"
    BY <2>7
  <2> QED
    BY <1>1, <2>5, <2>6, <2>7 DEF MicroPass
<1>2. CASE NextModule
  BY <1>2 DEF NextModule
<1>3. CASE StartPass \/ MicroPassOfFinalized \/ AttemptParent \/ ConsiderModules
  BY <1>3 DEF StartPass, MicroPassOfFinalized, AttemptParent, ConsiderModules
<1>4. CASE StandardLibraryPhase \/ FollowIncomplete \/ EndPass \/ DemoteModule \/ DemotionDone
  BY <1>4 DEF StandardLibraryPhase, FollowIncomplete, EndPass, DemoteModule, DemotionDone, PassesDone
<1>5. CASE Terminating \/ UNCHANGED vars
  BY <1>5 DEF Terminating, vars, body
<1> QED
  BY <1>1, <1>2, <1>3, <1>4, <1>5 DEF Next

(***************************************************************************)
(* Debug mode gives up on a module for changes of its body only.           *)
(***************************************************************************)
THEOREM GivesUpForChangesOnlyHolds == Spec => []GivesUpForChangesOnly
<1>1. Init => RetryInv
  BY DEF Init, RetryInv, GivesUpForChangesOnly
<1>2. RetryInv => GivesUpForChangesOnly
  BY DEF RetryInv
<1> QED
  BY <1>1, <1>2, NextRetryInv, PTL DEF Spec

-----------------------------------------------------------------------------
(***************************************************************************)
(* The refinement of Traversal.  What a module wants has its type, and     *)
(* changes in the steps of that module only.                               *)
(***************************************************************************)
Whole == active \cup done

SettledObjects == IF AtModule THEN done \ {cur} ELSE done

WantsTyped == AllAsk \in [Names -> SUBSET Names] /\ AllMention \in [Names -> SUBSET Names]

LEMMA WantsType == IInv => WantsTyped
<1> SUFFICES ASSUME IInv PROVE WantsTyped
  OBVIOUS
<1>1. uses \in [Names -> SUBSET Names]
  BY DEF IInv, TypeOK
<1>2. ASSUME NEW n \in Names PROVE Asks(n) \subseteq Names
  <2>1. WantedImports(n) \subseteq Names /\ Implicit[n] \subseteq Names
    BY <1>1, ConstantsAssumption DEF WantedImports
  <2> QED
    BY <2>1, ConstantFacts DEF Asks, Followed
<1>3. ASSUME NEW n \in Names PROVE UsageAttempts(n) \subseteq Names
  BY <1>1, ConstantsAssumption DEF UsageAttempts, StdlibUsages
<1> QED
  BY <1>2, <1>3 DEF WantsTyped, AllAsk, AllMention

LEMMA SettledNames ==
    ASSUME IInv
    PROVE  \A n \in Traversals!NamesOf(SettledObjects) :
              n \in Names /\ n \in Held /\ (AtModule => n # cur[1])
<1>1. active \subseteq Objects /\ done \subseteq Objects /\ OneObjectPerName
  BY DEF IInv, TypeOK
<1>2. AtModule => cur \in done
  BY DEF IInv, TraversalInv, AtModule, InPass
<1> QED
  BY <1>1, <1>2 DEF Traversals!NamesOf, SettledObjects, Held, NamesOf, OneObjectPerName, Objects

(***************************************************************************)
(* To show for a step that includes: what it changes, and for what name.   *)
(***************************************************************************)
LEMMA IncludeStep ==
    ASSUME IInv, IInv', WantsTyped', NEW names,
           Whole \subseteq Whole', Held' \subseteq Held \cup names,
           \A n \in Held : (n \in stdlibOnly') <=> (n \in stdlibOnly),
           \A n \in Names : (AtModule => n # cur[1]) => uses'[n] = uses[n]
    PROVE  Traversals!Include(names)
<1>1. Traversals!OneEach(Whole')
  BY DEF Traversals!OneEach, Whole, IInv, OneObjectPerName
<1>2. Traversals!NamesOf(Whole') \subseteq Traversals!NamesOf(Whole) \cup names
  BY DEF Traversals!NamesOf, Whole, Held, NamesOf
<1>3. AllAsk' \in [Names -> SUBSET Names] /\ AllMention' \in [Names -> SUBSET Names]
  BY DEF WantsTyped
<1>4. ASSUME NEW n \in Traversals!NamesOf(SettledObjects)
      PROVE  AllAsk'[n] = AllAsk[n] /\ AllMention'[n] = AllMention[n]
  <2>1. n \in Names /\ n \in Held /\ uses'[n] = uses[n]
    BY SettledNames
  <2>2. WantedImports(n)' = WantedImports(n) /\ UsageAttempts(n)' = UsageAttempts(n)
    BY <2>1 DEF WantedImports, UsageAttempts
  <2>3. Asks(n)' = Asks(n)
    BY <2>2 DEF Asks, Followed
  <2> QED
    BY <2>1, <2>2, <2>3 DEF AllAsk, AllMention
<1> QED
  BY <1>1, <1>2, <1>3, <1>4 DEF Traversals!Include, Whole, SettledObjects

(***************************************************************************)
(* The roots are in every traversal, and when the standard library phase   *)
(* is pending then the main module, which it is for, is done.              *)
(***************************************************************************)
RootsInv ==
    /\ pc \in InPass => Roots \subseteq Held
    /\ stdlibPhase = "pending" => Main \in NamesOf(done)

LEMMA NextRootsInv ==
    ASSUME IInv, RootsInv, [Next]_vars
    PROVE  RootsInv'
<1>1. Roots \subseteq Names
  BY ConstantsAssumption
<1>2. ASSUME pc \in InPass, Whole \subseteq Whole', NamesOf(done) \subseteq NamesOf(done'),
             stdlibPhase' = "pending" => stdlibPhase = "pending" \/ Main \in NamesOf(done')
      PROVE  RootsInv'
  <2>1. Held \subseteq Held'
    BY <1>2 DEF Held, NamesOf, Whole
  <2> QED
    BY <1>2, <2>1 DEF RootsInv
<1>3. CASE StartPass
  <2>1. \A n \in Roots : roots[n] # "none"
    BY <1>1 DEF IInv, TablesInv
  <2>2. \A n \in Roots : <<n, roots[n]>> \in active'
    BY <1>1, <1>3, <2>1 DEF StartPass
  <2>3. ASSUME NEW n \in Roots PROVE n \in Held'
    <3>1. PICK o \in active' : n = o[1]
      BY <2>2
    <3> QED
      BY <3>1 DEF Held, NamesOf
  <2> QED
    BY <1>3, <2>3 DEF StartPass, RootsInv
<1>4. CASE NextModule
  <2>1. Whole \subseteq Whole' /\ NamesOf(done) \subseteq NamesOf(done')
    BY <1>4 DEF NextModule, Whole, NamesOf
  <2>2. stdlibPhase' = "pending" => stdlibPhase = "pending" \/ Main \in NamesOf(done')
    BY <1>4 DEF NextModule, NamesOf
  <2> QED
    BY <1>2, <1>4, <2>1, <2>2 DEF NextModule, InPass
<1>5. CASE MicroPass \/ AttemptParent \/ ConsiderModules
  BY <1>2, <1>5 DEF MicroPass, ComputeModule, AttemptParent, AttemptRecursion, ConsiderModules,
                    AddUsed, Whole, InPass
<1>6. CASE StandardLibraryPhase \/ FollowIncomplete
  BY <1>2, <1>6 DEF StandardLibraryPhase, FollowIncomplete, AddUsed, Whole, InPass
<1>7. CASE EndPass \/ DemoteModule \/ DemotionDone \/ MicroPassOfFinalized
  BY <1>7 DEF EndPass, DemoteModule, DemotionDone, MicroPassOfFinalized, PassesDone, traversal,
              RootsInv, Held, InPass
<1>8. CASE Terminating \/ UNCHANGED vars
  BY <1>8 DEF Terminating, vars, traversal, RootsInv, Held
<1> QED
  BY <1>3, <1>4, <1>5, <1>6, <1>7, <1>8 DEF Next

(***************************************************************************)
(* The view of a state that Traversal is about.                            *)
(***************************************************************************)
LEMMA SameWants ==
    ASSUME UNCHANGED <<uses, stdlibOnly>>
    PROVE  UNCHANGED <<AllAsk, AllMention>>
<1>1. \A n : WantedImports(n)' = WantedImports(n) /\ UsageAttempts(n)' = UsageAttempts(n)
  BY DEF WantedImports, UsageAttempts
<1>2. \A n : Asks(n)' = Asks(n)
  BY <1>1 DEF Asks, Followed
<1> QED
  BY <1>1, <1>2 DEF AllAsk, AllMention

LEMMA SameView ==
    ASSUME UNCHANGED <<Whole, SettledObjects, uses, stdlibOnly, Phase>>
    PROVE  UNCHANGED Traversals!vars
BY SameWants DEF Traversals!vars, Traversals!wants, Whole, SettledObjects

LEMMA AskedIsWanted ==
    ASSUME NEW S \in SUBSET Names
    PROVE  Traversals!Asked(S) = Wanted(S)
<1>1. ASSUME NEW x PROVE x \in Traversals!Asked(S) <=> x \in Wanted(S)
  <2>1. \A n \in S : AllAsk[n] = Asks(n) /\ AllMention[n] = UsageAttempts(n)
    BY DEF AllAsk, AllMention
  <2>2. x \in Traversals!Asked(S) <=>
          \/ \E n \in S : x \in AllAsk[n]
          \/ (\E n \in S : x \in AllMention[n]) /\ (\E c \in S : x \in AutoFollow[c])
    <3> DEFINE asked == UNION {AllAsk[n] : n \in S}
               mentioned == UNION {AllMention[n] : n \in S}
               draws == UNION {AutoFollow[c] : c \in S}
    <3>1. Traversals!Asked(S) = asked \cup (mentioned \cap draws)
      BY DEF Traversals!Asked, Traversals!Drawn
    <3>2. x \in asked <=> \E n \in S : x \in AllAsk[n]
      OBVIOUS
    <3>3. x \in mentioned <=> \E n \in S : x \in AllMention[n]
      OBVIOUS
    <3>4. x \in draws <=> \E c \in S : x \in AutoFollow[c]
      OBVIOUS
    <3> HIDE DEF asked, mentioned, draws
    <3> QED
      BY <3>1, <3>2, <3>3, <3>4
  <2>3. (\E n \in S : x \in UsageAttempts(n)) /\ (\E c \in S : x \in AutoFollow[c])
          <=> \E n \in S, c \in S : x \in UsageAttempts(n) \cap AutoFollow[c]
    OBVIOUS
  <2> QED
    BY <2>1, <2>2, <2>3, WantedMembers
<1> QED
  BY <1>1

LEMMA WholeFacts ==
    ASSUME IInv
    PROVE  /\ Whole \subseteq Objects /\ Traversals!NamesOf(Whole) = Held
           /\ Held \subseteq Names /\ RootNames = Roots
           /\ AtModule => cur \in done /\ cur \in Whole \ SettledObjects /\ cur[1] \in Names
           /\ pc = "pick" /\ active = {} => SettledObjects = Whole /\ Held = NamesOf(done)
<1>1. active \subseteq Objects /\ done \subseteq Objects
  BY DEF IInv, TypeOK
<1>2. AtModule => cur \in done
  BY DEF IInv, TraversalInv, AtModule, InPass
<1>3. Traversals!NamesOf(Whole) = Held
  BY DEF Traversals!NamesOf, Whole, Held, NamesOf
<1>4. RootNames = Roots
  BY ConstantsAssumption DEF RootNames, IInv, TablesInv
<1> QED
  BY <1>1, <1>2, <1>3, <1>4, NamesFacts DEF Whole, SettledObjects, Objects, AtModule, Held

(***************************************************************************)
(* The steps of the driver, as steps of Traversal.                         *)
(***************************************************************************)
LEMMA BeginsTraversal ==
    ASSUME IInv, IInv', StartPass
    PROVE  Traversals!Begin
<1>1. /\ pc = "start" /\ pc' = "pick" /\ done' = {}
      /\ active' = {<<n, roots[n]>> : n \in {m \in Names : roots[m] # "none"}}
      /\ UNCHANGED <<uses, stdlibOnly>>
  BY DEF StartPass, tables, body
<1>2. UNCHANGED <<AllAsk, AllMention>>
  BY <1>1, SameWants
<1>3. Phase = "between" /\ Phase' = "running"
  BY <1>1 DEF Phase
<1>4. Whole' = active' /\ SettledObjects' = {}
  BY <1>1 DEF Whole, SettledObjects, AtModule
<1>5. Traversals!NamesOf(Whole') = Roots
  <2>1. Traversals!NamesOf(Whole') = RootNames
    <3>1. ASSUME NEW n \in RootNames PROVE \E o \in active' : n = o[1]
      <4>1. <<n, roots[n]>> \in active'
        BY <1>1, <3>1 DEF RootNames
      <4> QED
        BY <4>1
    <3>2. \A o \in active' : o[1] \in RootNames
      BY <1>1 DEF RootNames
    <3> QED
      BY <1>4, <3>1, <3>2 DEF Traversals!NamesOf
  <2> QED
    BY <2>1, WholeFacts
<1>6. Traversals!OneEach(Whole') /\ Whole' \subseteq Objects
  <2>1. active' \subseteq Objects /\ OneObjectPerName'
    BY DEF IInv, TypeOK
  <2> QED
    BY <1>4, <2>1 DEF Traversals!OneEach, OneObjectPerName
<1> QED
  BY <1>2, <1>3, <1>4, <1>5, <1>6
  DEF Traversals!Begin, Traversals!Objects, Traversals!wants, Objects, Whole, SettledObjects

LEMMA OptimizesModule ==
    ASSUME IInv, IInv', WantsTyped', pc \in {"micro", "attempt"},
           pc' \in {"micro", "consider", "sysexit"}, AttemptRecursion(cur[1]),
           UNCHANGED <<done, cur>>, \A n \in Names \ {cur[1]} : uses'[n] = uses[n]
    PROVE  \E o \in Whole : Traversals!Optimize(o) \/ Traversals!GiveUp(o)
<1>1. AtModule /\ AtModule' /\ Phase = "running" /\ SettledObjects' = SettledObjects
  BY DEF AtModule, Phase, SettledObjects
<1>2. cur \in Whole \ SettledObjects /\ cur[1] \in Names
  BY <1>1, WholeFacts
<1>3. Held' = Held \cup Parents(cur[1])
  BY AttemptRecursionNames
<1>4. Parents(cur[1]) \subseteq AllAsk'[cur[1]]
  <2>1. PICK n \in Names : n = cur[1]
    BY <1>2
  <2>2. AllAsk'[n] = Asks(n)'
    BY DEF AllAsk
  <2>3. Parents(n) \subseteq Asks(n)'
    BY DEF Asks, Parents
  <2> QED
    BY <2>1, <2>2, <2>3
<1>5. Whole \subseteq Whole' /\ stdlibOnly' = stdlibOnly
  BY DEF AttemptRecursion, AddUsed, Whole
<1>6. Traversals!Include(AllAsk'[cur[1]])
  <2>1. Held' \subseteq Held \cup AllAsk'[cur[1]]
    BY <1>3, <1>4
  <2> QED
    BY <1>1, <1>5, <2>1, IncludeStep
<1>7. CASE pc' = "sysexit"
  <2>1. Phase' = "stopped"
    BY <1>7 DEF Phase
  <2>2. Traversals!GiveUp(cur)
    BY <1>1, <1>2, <1>6, <2>1 DEF Traversals!GiveUp, Whole, SettledObjects
  <2> QED
    BY <1>2, <2>2
<1>8. CASE pc' # "sysexit"
  <2>1. Phase' = "running"
    BY <1>8 DEF Phase
  <2>2. Traversals!Optimize(cur)
    BY <1>1, <1>2, <1>6, <2>1 DEF Traversals!Optimize, Whole, SettledObjects
  <2> QED
    BY <1>2, <2>2
<1> QED
  BY <1>7, <1>8

LEMMA SettlesModule ==
    ASSUME IInv, IInv', WantsTyped', ConsiderModules
    PROVE  \E o \in Whole : Traversals!Optimize(o)
<1>0. PICK n : n = cur[1]
  OBVIOUS
<1> DEFINE used == Followed(UsedModules(n, passCount))
           all == used \cup ImplicitImports(n)
<1>1. /\ pc = "consider" /\ pc' = "pick"
      /\ stdlibOnly' = stdlibOnly \cup (New(used) \ uses[n])
      /\ AddUsed(Cached(all) \cup {<<a, attached'[a]>> : a \in Attached(n)})
      /\ UNCHANGED <<done, cur, uses>>
  BY <1>0 DEF ConsiderModules, body
<1>2. Held' = Held \cup all \cup Attached(n)
  <2> HIDE DEF all
  <2> QED
    BY <1>1, AddUsedNames
<1>3. AtModule /\ Phase = "running" /\ Phase' = "running" /\ pc \in InPass
  BY <1>1 DEF AtModule, Phase, InPass
<1>4. cur \in Whole \ SettledObjects /\ n \in Names /\ SettledObjects' = SettledObjects \cup {cur}
  <2>1. cur \in done /\ cur \in Whole \ SettledObjects /\ n \in Names
    BY <1>0, <1>3, WholeFacts
  <2> QED
    BY <1>1, <2>1 DEF SettledObjects, AtModule
<1>5. New(used) \cap Held = {}
  <2>1. TypeOK /\ UsesInv
    BY DEF IInv
  <2>2. used \subseteq Importable \cap Names
    BY <1>4, <2>1, UsedModulesFacts, FollowedFacts
  <2> QED
    BY <1>3, <2>2, HeldIsNotNew
<1>6. n \in Held
  BY <1>0, <1>4 DEF Whole, Held, NamesOf
<1>7. WantedImports(n)' = WantedImports(n)
  BY <1>1, <1>5, <1>6 DEF WantedImports
<1>8. all \cup Attached(n) \subseteq AllAsk'[n]
  <2>1. UsedModules(n, passCount) \subseteq WantedImports(n)
    BY DEF UsedModules, WantedImports, StdlibUsages
  <2>2. AllAsk'[n] = Asks(n)'
    BY <1>4 DEF AllAsk
  <2> QED
    BY <1>7, <2>1, <2>2 DEF Asks, Followed, ImplicitImports
<1>9. Whole \subseteq Whole'
  BY <1>1 DEF AddUsed, Whole
<1>10. \A m \in Held : m \in stdlibOnly' <=> m \in stdlibOnly
  BY <1>1, <1>5
<1>11. Traversals!Include(AllAsk'[n])
  <2>1. Held' \subseteq Held \cup AllAsk'[n]
    BY <1>2, <1>8
  <2> QED
    BY <1>1, <1>9, <1>10, <2>1, IncludeStep
<1> QED
  BY <1>0, <1>3, <1>4, <1>11 DEF Traversals!Optimize, Whole, SettledObjects

LEMMA CompletesTraversal ==
    ASSUME IInv, IInv', WantsTyped', RootsInv, StandardLibraryPhase \/ FollowIncomplete
    PROVE  Traversals!Complete
<1>1. /\ pc = "pick" /\ pc' = "pick" /\ active = {} /\ UNCHANGED <<done, cur, uses>>
      /\ TypeOK /\ UsesInv /\ pc \in InPass
  BY DEF StandardLibraryPhase, FollowIncomplete, body, IInv, InPass
<1>2. /\ SettledObjects = Whole /\ Held = NamesOf(done) /\ Held \in SUBSET Names
      /\ Traversals!NamesOf(Whole) = Held
  BY <1>1, WholeFacts
<1>3. /\ Phase = "running" /\ Phase' = "running" /\ SettledObjects' = SettledObjects
  BY <1>1 DEF Phase, SettledObjects, AtModule
<1>4. ASSUME NEW S \in SUBSET Importable, S \subseteq Wanted(Held), S \subseteq Names,
             AddUsed(Cached(S)), \A m \in Held : m \in stdlibOnly' <=> m \in stdlibOnly
      PROVE  Traversals!Complete
  <2>1. AddUsed(Cached(S) \cup {<<a, attached'[a]>> : a \in {}})
    BY <1>4
  <2>2. Held' = Held \cup S \cup {}
    BY <1>1, <2>1, AddUsedNames
  <2>3. S \subseteq Traversals!Asked(Held)
    BY <1>2, <1>4, AskedIsWanted
  <2>4. Whole \subseteq Whole'
    BY <1>1, <1>4 DEF AddUsed, Whole
  <2>5. Traversals!Include(Traversals!Asked(Held))
    <3>1. Held' \subseteq Held \cup Traversals!Asked(Held)
      BY <2>2, <2>3
    <3> QED
      BY <1>1, <1>4, <2>4, <3>1, IncludeStep
  <2> QED
    BY <1>2, <1>3, <2>5 DEF Traversals!Complete, Whole, SettledObjects
<1>5. CASE StandardLibraryPhase
  <2> DEFINE used == Followed(UsedModules(Main, -1))
  <2>1. /\ AddUsed(Cached(used)) /\ stdlibOnly' = stdlibOnly \cup New(used)
        /\ Main \in NamesOf(done) /\ Main \in Names
    BY <1>5, ConstantFacts DEF StandardLibraryPhase, StdlibPending, RootsInv
  <2>2. used \subseteq Importable \cap Names
    BY <1>1, <2>1, UsedModulesFacts, FollowedFacts
  <2>3. used \subseteq Asks(Main)
    <3>1. UsedModules(Main, -1) \subseteq WantedImports(Main)
      BY DEF UsedModules, WantedImports, StdlibUsages
    <3> QED
      BY <3>1 DEF Asks, Followed
  <2>4. used \subseteq Wanted(Held)
    BY <1>2, <2>1, <2>3, WantedMembers
  <2>5. New(used) \cap Held = {}
    BY <1>1, <2>2, HeldIsNotNew
  <2>6. \A m \in Held : m \in stdlibOnly' <=> m \in stdlibOnly
    BY <2>1, <2>5
  <2> QED
    BY <1>4, <2>1, <2>2, <2>4, <2>6
<1>6. CASE FollowIncomplete
  <2>1. AddUsed(Cached(Incomplete)) /\ stdlibOnly' = stdlibOnly
    BY <1>6 DEF FollowIncomplete
  <2>2. ASSUME NEW u \in Incomplete
        PROVE  u \in Wanted(Held) /\ u \in Importable \cap Names
    <3>1. PICK n \in Held, c \in Held : u \in UsageAttempts(n) \cap AutoFollow[c]
      BY <1>2 DEF Incomplete
    <3>2. UsageAttempts(n) \subseteq Importable \cap Names
      BY <1>1, <1>2, UsedModulesFacts
    <3> QED
      BY <3>1, <3>2, WantedMembers
  <2> QED
    BY <1>4, <2>1, <2>2
<1> QED
  BY <1>5, <1>6

LEMMA EndsTraversal ==
    ASSUME IInv, RootsInv, FinalSetExact', EndPass
    PROVE  Traversals!End \/ Traversals!Finish
<1>1. /\ pc = "pick" /\ active = {} /\ pc' \in {"demote", "start", "finished"}
      /\ UNCHANGED <<roots, stdlibOnly, active, done, uses, cur>>
  BY DEF EndPass, PassesDone, tables, traversal, body
<1>2. /\ SettledObjects = Whole /\ Held = NamesOf(done) /\ Held \in SUBSET Names
      /\ Traversals!NamesOf(Whole) = Held /\ RootNames = Roots
  BY <1>1, WholeFacts
<1>3. Phase = "running" /\ UNCHANGED <<Whole, SettledObjects>> /\ UNCHANGED <<AllAsk, AllMention>>
  BY <1>1, SameWants DEF Phase, Whole, SettledObjects, AtModule
<1>4. CASE pc' # "finished"
  <2>1. Phase' = "between"
    BY <1>1, <1>4 DEF Phase
  <2> QED
    BY <1>2, <1>3, <2>1 DEF Traversals!End, Traversals!wants, Whole, SettledObjects
<1>5. CASE pc' = "finished"
  <2>1. Phase' = "finished"
    BY <1>5 DEF Phase
  <2>2. \A n : WantedImports(n)' = WantedImports(n) /\ UsageAttempts(n)' = UsageAttempts(n)
    BY <1>1 DEF WantedImports, UsageAttempts
  <2>3. \A S : Wanted(S)' = Wanted(S)
    BY <2>2 DEF Wanted, Asks, Followed
  <2>4. Wanted(Held) \subseteq Held
    BY <1>1, <1>2, <1>5, <2>3 DEF FinalSetExact, FinalSetClosed
  <2>5. ASSUME NEW S \in SUBSET Held, Roots \subseteq S, Wanted(S) \subseteq S
        PROVE  S = Held
    BY <1>1, <1>2, <1>5, <2>3, <2>5 DEF FinalSetExact, FinalSetMinimal, RootNames
  <2>6. Roots \subseteq Held
    BY <1>1 DEF RootsInv, InPass
  <2>7. Traversals!Closed(Held)
    BY <1>2, <2>4, <2>6, AskedIsWanted DEF Traversals!Closed
  <2>8. ASSUME NEW S \in SUBSET Held, Traversals!Closed(S) PROVE S = Held
    <3>1. S \in SUBSET Names
      BY <1>2
    <3>2. Roots \subseteq S /\ Wanted(S) \subseteq S
      BY <2>8, <3>1, AskedIsWanted DEF Traversals!Closed
    <3> QED
      BY <2>5, <3>2
  <2> QED
    BY <1>2, <1>3, <2>1, <2>7, <2>8
    DEF Traversals!Finish, Traversals!wants, Whole, SettledObjects
<1> QED
  BY <1>4, <1>5

LEMMA TraversalStep ==
    ASSUME IInv, IInv', MainInv, RootsInv, WantsTyped', FinalSetExact', [Next]_vars
    PROVE  [Traversals!Next]_(Traversals!vars)
<1>1. CASE StartPass
  BY <1>1, BeginsTraversal DEF Traversals!Next
<1>2. CASE NextModule
  <2>1. PICK o \in active :
           /\ cur' = o /\ active' = active \ {o} /\ done' = done \cup {o}
           /\ pc = "pick" /\ pc' \in {"micro", "attempt"}
           /\ UNCHANGED <<uses, stdlibOnly>>
    BY <1>2 DEF NextModule, tables
  <2>2. o \notin done
    BY DEF IInv, TraversalInv
  <2>3. UNCHANGED <<Whole, SettledObjects, Phase>>
    BY <2>1, <2>2 DEF Whole, SettledObjects, Phase, AtModule
  <2> QED
    BY <2>1, <2>3, SameView
<1>3. CASE MicroPass
  <2>1. /\ pc = "micro" /\ pc' \in {"micro", "consider", "sysexit"}
        /\ UNCHANGED <<done, cur>> /\ AttemptRecursion(cur[1])
        /\ \E u : uses' = [uses EXCEPT ![cur[1]] = u]
    BY <1>3 DEF MicroPass, ComputeModule
  <2>2. \A n \in Names \ {cur[1]} : uses'[n] = uses[n]
    BY <2>1 DEF IInv, TypeOK
  <2> QED
    BY <2>1, <2>2, OptimizesModule DEF Traversals!Next, Whole
<1>4. CASE AttemptParent
  <2>1. /\ pc = "attempt" /\ pc' = "consider"
        /\ UNCHANGED <<done, cur, uses>> /\ AttemptRecursion(cur[1])
    BY <1>4 DEF AttemptParent, body
  <2> QED
    BY <2>1, OptimizesModule DEF Traversals!Next, Whole
<1>5. CASE ConsiderModules
  BY <1>5, SettlesModule DEF Traversals!Next, Whole
<1>6. CASE StandardLibraryPhase \/ FollowIncomplete
  BY <1>6, CompletesTraversal DEF Traversals!Next
<1>7. CASE EndPass
  BY <1>7, EndsTraversal DEF Traversals!Next
<1>8. CASE MicroPassOfFinalized
  <2>1. /\ pc = "micro" /\ pc' = "crashed"
        /\ UNCHANGED <<active, done, cur, uses, stdlibOnly>>
    BY <1>8 DEF MicroPassOfFinalized, tables, traversal, body
  <2>2. /\ AtModule /\ Phase = "running" /\ Phase' = "stopped"
        /\ UNCHANGED <<Whole, SettledObjects, Held>>
    BY <2>1 DEF AtModule, Phase, Whole, SettledObjects, Held
  <2>3. cur \in Whole \ SettledObjects
    BY <2>2, WholeFacts
  <2>4. Traversals!Include(AllAsk'[cur[1]])
    BY <2>1, <2>2, IncludeStep
  <2>5. Traversals!GiveUp(cur)
    BY <2>2, <2>3, <2>4 DEF Traversals!GiveUp, Whole, SettledObjects
  <2> QED
    BY <2>3, <2>5 DEF Traversals!Next, Whole
<1>9. CASE DemoteModule
  <2>1. UNCHANGED <<active, done, cur, pc, uses, stdlibOnly>>
    BY <1>9 DEF DemoteModule, traversal, body
  <2> QED
    BY <2>1, SameView DEF Whole, SettledObjects, Phase, AtModule
<1>10. CASE DemotionDone
  <2>1. /\ UNCHANGED <<active, done, cur, uses, stdlibOnly>>
        /\ pc = "demote" /\ pc' = "start"
    BY <1>10 DEF DemotionDone, PassesDone, MainInv, tables, traversal, body
  <2> QED
    BY <2>1, SameView DEF Whole, SettledObjects, Phase, AtModule
<1>11. CASE Terminating \/ UNCHANGED vars
  <2>1. UNCHANGED <<active, done, cur, pc, uses, stdlibOnly>>
    BY <1>11 DEF Terminating, vars, tables, traversal, body
  <2> QED
    BY <2>1, SameView DEF Whole, SettledObjects, Phase, AtModule
<1> QED
  BY <1>1, <1>2, <1>3, <1>4, <1>5, <1>6, <1>7, <1>8, <1>9, <1>10, <1>11 DEF Next

(***************************************************************************)
(* The driver, with its queue, its tables, the import cache, the delayed   *)
(* standard library and the demotion, is a Traversal: modules are found    *)
(* for a reason, settle once in a traversal, and the last traversal ends   *)
(* with the least closed set that has the roots.                           *)
(***************************************************************************)
THEOREM IsTraversalHolds == Spec => IsTraversal
<1>1. Init => Traversals!Init
  <2> SUFFICES ASSUME Init PROVE Traversals!Init
    OBVIOUS
  <2>1. WantsTyped
    BY InitIInv, WantsType
  <2>2. active = {} /\ done = {} /\ pc = "start"
    BY DEF Init
  <2> QED
    BY <2>1, <2>2 DEF Traversals!Init, WantsTyped, Phase, AtModule
<1>2. Init => RootsInv
  BY DEF Init, RootsInv, InPass
<1>3. IInv /\ RootsInv /\ [Next]_vars => RootsInv'
  BY NextRootsInv
<1>4. IInv /\ MainInv /\ FinalInv /\ [Next]_vars => FinalInv'
  BY NextFinalInv
<1>5. IInv /\ IInv' /\ MainInv /\ RootsInv /\ WantsTyped' /\ FinalSetExact' /\ [Next]_vars
        => [Traversals!Next]_(Traversals!vars)
  BY TraversalStep
<1>6. FinalInv => FinalSetExact
  BY DEF FinalInv
<1> QED
  BY <1>1, <1>2, <1>3, <1>4, <1>5, <1>6, IInvHolds, MainInvHolds, InitFinalInv, WantsType, PTL
  DEF Spec, IsTraversal, Traversals!Spec
===============================================================================
