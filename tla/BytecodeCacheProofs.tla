-------------------------- MODULE BytecodeCacheProofs --------------------------
(***************************************************************************)
(* Theorems about the bytecode cache, for any number of compilations, any  *)
(* modules, packages, import statements and installations.                 *)
(***************************************************************************)
EXTENDS BytecodeCache, TLAPS

-----------------------------------------------------------------------------
(***************************************************************************)
(* The usages that a compilation traces, and those that plugins add.       *)
(***************************************************************************)
LEMMA AttemptFacts ==
    ASSUME NEW where \in Installations, NEW n \in Names, NEW r \in BOOLEAN
    PROVE  /\ Attempt(where, n, r) \in Usages
           /\ ~Attempt(where, n, r).synthetic
           /\ Attempt(where, n, r).name = n
           /\ Attempt(where, n, r).location = Locate(where, n, r)
BY DEF Attempt, Locate, Usages

LEMMA TracedAreAttempts ==
    ASSUME NEW k \in Keys, NEW where \in Installations
    PROVE  \A u \in Traced(k, where) :
               \E n \in Names, r \in BOOLEAN : u = Attempt(where, n, r)
<1> SUFFICES ASSUME NEW s \in Imports[k], NEW u \in UsageAttempts(where, s)
             PROVE  \E n \in Names, r \in BOOLEAN : u = Attempt(where, n, r)
  BY DEF Traced
<1>1. s.module \in Names /\ s.items \subseteq Names
  BY ConstantsAssumption DEF Statements
<1>2. WithParents(s.module) \subseteq Names
  BY <1>1, ConstantsAssumption DEF WithParents
<1>3. CASE \E n \in WithParents(s.module) : u = Attempt(where, n, FALSE)
  BY <1>2, <1>3
<1>4. CASE \E i \in s.items : u = Attempt(where, i, TRUE)
  BY <1>1, <1>4
<1> QED
  BY <1>3, <1>4 DEF UsageAttempts

LEMMA TracedType ==
    ASSUME NEW k \in Keys, NEW where \in Installations
    PROVE  Traced(k, where) \subseteq Usages /\ Stored(Traced(k, where)) = Traced(k, where)
BY TracedAreAttempts, AttemptFacts DEF Stored

LEMMA SyntheticType ==
    ASSUME TypeOK, NEW c \in Compilations, NEW names \in SUBSET Synthetic
    PROVE  /\ SyntheticUsages(c, names) \subseteq Usages
           /\ \A u \in SyntheticUsages(c, names) : u.synthetic
<1> SUFFICES ASSUME NEW n \in names
             PROVE  LET u == [Attempt(inst[c], n, FALSE) EXCEPT !.synthetic = TRUE]
                    IN  u \in Usages /\ u.synthetic
  BY DEF SyntheticUsages
<1>1. Attempt(inst[c], n, FALSE) \in Usages
  BY AttemptFacts, ConstantsAssumption DEF TypeOK
<1> QED
  BY <1>1 DEF Usages

LEMMA StoredOfAll ==
    ASSUME TypeOK, NEW c \in Compilations, NEW names \in SUBSET Synthetic,
           NEW k \in Keys, NEW where \in Installations
    PROVE  Stored(Traced(k, where) \cup SyntheticUsages(c, names)) = Traced(k, where)
BY TracedType, SyntheticType DEF Stored

(***************************************************************************)
(* The question that is asked again on a hit is the one that was answered: *)
(* the finding "relative" tells how a name was looked for, but for one     *)
(* that was not found, and for that one it makes no difference.            *)
(***************************************************************************)
LEMMA AnsweredAgain ==
    ASSUME NEW was \in Installations, NEW now \in Installations, NEW n \in Names,
           NEW r \in BOOLEAN,
           LET found == Locate(was, n, r)
           IN  Locate(now, n, found.finding = "relative") = found
    PROVE  Locate(now, n, r) = Locate(was, n, r)
BY DEF Locate

LEMMA OwnAnswer ==
    ASSUME NEW k \in Keys, NEW where \in Installations
    PROVE  SameResult(where, Traced(k, where))
<1> SUFFICES ASSUME NEW u \in Traced(k, where)
             PROVE  Locate(where, u.name, u.location.finding = "relative") = u.location
  BY DEF SameResult
<1>1. PICK n \in Names, r \in BOOLEAN : u = Attempt(where, n, r)
  BY TracedAreAttempts
<1>2. u.name = n /\ u.location = Locate(where, n, r)
  BY <1>1, AttemptFacts
<1> QED
  BY <1>2 DEF Locate

LEMMA SameAttempt ==
    ASSUME NEW was \in Installations, NEW now \in Installations, NEW n \in Names,
           NEW r \in BOOLEAN, NEW usages_, Attempt(was, n, r) \in usages_,
           SameResult(now, usages_)
    PROVE  Attempt(now, n, r) = Attempt(was, n, r) /\ Locate(now, n, r) = Locate(was, n, r)
<1>1. Locate(now, n, Locate(was, n, r).finding = "relative") = Locate(was, n, r)
  BY AttemptFacts DEF SameResult
<1> QED
  BY <1>1, AnsweredAgain DEF Attempt

(***************************************************************************)
(* A file that becomes a package, of which a module in it is imported, is  *)
(* of kind "py" before and after.  This is the one change that a hit does  *)
(* not notice, and there HitAsCompiled is false.                           *)
(***************************************************************************)
NoFileBecomesPackage ==
    \A k \in Keys : \A s \in Imports[k] : s.items # {} =>
        \A was, now \in Installations :
            now[s.module] = "package" => was[s.module] # "file"

LEMMA SameTrace ==
    ASSUME NoFileBecomesPackage, NEW k \in Keys, NEW was \in Installations,
           NEW now \in Installations, SameResult(now, Traced(k, was))
    PROVE  Traced(k, was) = Traced(k, now)
<1> SUFFICES ASSUME NEW s \in Imports[k]
             PROVE  UsageAttempts(was, s) = UsageAttempts(now, s)
  BY DEF Traced
<1>1. s.module \in Names /\ s.items \subseteq Names
  BY ConstantsAssumption DEF Statements
<1>2. WithParents(s.module) \subseteq Names /\ s.module \in WithParents(s.module)
  BY <1>1, ConstantsAssumption DEF WithParents
<1>3. UsageAttempts(was, s) \subseteq Traced(k, was)
  BY DEF Traced
<1>4. \A n \in WithParents(s.module) :
          /\ Attempt(now, n, FALSE) = Attempt(was, n, FALSE)
          /\ Locate(now, n, FALSE) = Locate(was, n, FALSE)
  BY <1>2, <1>3, SameAttempt DEF UsageAttempts
<1>5. s.items # {} => (was[s.module] = "package" <=> now[s.module] = "package")
  <2> SUFFICES ASSUME s.items # {}
               PROVE  was[s.module] = "package" <=> now[s.module] = "package"
    OBVIOUS
  <2>1. Locate(now, s.module, FALSE) = Locate(was, s.module, FALSE)
    BY <1>2, <1>4
  <2>2. was[s.module] \in Forms /\ now[s.module] \in Forms
    BY <1>1, ConstantsAssumption
  <2>3. /\ now[s.module] = "package" => was[s.module] # "file"
        /\ was[s.module] = "package" => now[s.module] # "file"
    BY DEF NoFileBecomesPackage
  <2> QED
    BY <2>1, <2>2, <2>3 DEF Locate, Forms
<1>6. was[s.module] = "package" =>
          \A i \in s.items : Attempt(now, i, TRUE) = Attempt(was, i, TRUE)
  BY <1>1, <1>3, SameAttempt DEF UsageAttempts
<1>7. {Attempt(now, n, FALSE) : n \in WithParents(s.module)}
        = {Attempt(was, n, FALSE) : n \in WithParents(s.module)}
  BY <1>4
<1>8. CASE s.items = {}
  BY <1>7, <1>8 DEF UsageAttempts
<1>9. CASE s.items # {} /\ was[s.module] = "package"
  <2>1. {Attempt(now, i, TRUE) : i \in s.items} = {Attempt(was, i, TRUE) : i \in s.items}
    BY <1>6, <1>9
  <2> QED
    BY <1>5, <1>7, <1>9, <2>1 DEF UsageAttempts
<1>10. CASE s.items # {} /\ was[s.module] # "package"
  BY <1>5, <1>7, <1>10 DEF UsageAttempts
<1> QED
  BY <1>8, <1>9, <1>10

-----------------------------------------------------------------------------
(***************************************************************************)
(* Types.                                                                  *)
(***************************************************************************)
LEMMA InitTypeOK == Init => TypeOK
BY DEF Init, TypeOK

LEMMA FileFacts ==
    ASSUME TypeOK, NEW k \in Keys, file[k] # Absent
    PROVE  /\ file[k] \in [Parts -> Part]
           /\ 1 \in Parts /\ 2 \in Parts /\ \A p \in Parts : p = 1 \/ p = 2
           /\ DOMAIN file[k] = Parts
           /\ \A p \in Parts : file[k][p] \in Part
BY DEF TypeOK, Parts

LEMMA EntriesFacts ==
    ASSUME TypeOK, NEW c \in Compilations, NEW u \in Entries(c)
    PROVE  /\ Content(c) # Absent
           /\ Content(c) \in [Parts -> Part] /\ 1 \in Parts
           /\ Content(c)[1] # Unwritten /\ u = Content(c)[1].usages
           /\ u \subseteq Usages /\ SameResult(inst[c], u)
<1>1. key[c] \in Keys
  BY DEF TypeOK
<1>2. u \in Loads(Content(c)) /\ SameResult(inst[c], u)
  BY DEF Entries
<1>3. Content(c) # Absent
  BY <1>2 DEF Loads
<1>4. /\ Content(c) \in [Parts -> Part] /\ DOMAIN Content(c) = Parts
      /\ 1 \in Parts /\ Content(c)[1] \in Part
  BY <1>1, <1>3, FileFacts DEF Content, CacheName
<1>5. Content(c)[1] # Unwritten /\ u = Content(c)[1].usages
  BY <1>2, <1>4 DEF Loads
<1> QED
  BY <1>2, <1>3, <1>4, <1>5 DEF Part

LEMMA NewUsages ==
    ASSUME TypeOK, NEW c \in Compilations, NEW found \in SUBSET Usages,
           AddImplicit(c, found)
    PROVE  /\ implicit' \in [Compilations -> SUBSET Synthetic]
           /\ used' \in [Compilations -> SUBSET Usages]
           /\ used'[c] = found \cup SyntheticUsages(c, implicit'[c])
           /\ \A d \in Compilations \ {c} :
                  used'[d] = used[d] /\ implicit'[d] = implicit[d]
<1>1. PICK names \in SUBSET {n \in Synthetic : inst[c][n] # "absent"} :
          /\ implicit' = [implicit EXCEPT ![c] = names]
          /\ used' = [used EXCEPT ![c] = found \cup SyntheticUsages(c, names)]
  BY DEF AddImplicit
<1>2. SyntheticUsages(c, names) \subseteq Usages
  BY SyntheticType
<1>3. implicit'[c] = names
  BY <1>1 DEF TypeOK
<1>4. found \cup SyntheticUsages(c, names) \in SUBSET Usages
  BY <1>2
<1> HIDE DEF SyntheticUsages, Usages
<1> QED
  BY <1>1, <1>3, <1>4 DEF TypeOK

\* What a writer puts into a part of the file.
Mine(c) == [usages |-> Stored(used[c]), length |-> length[c]]

LEMMA WrittenType ==
    ASSUME TypeOK, NEW c \in Compilations, NEW p \in Parts, WritePart(c, p),
           c \notin unlinked => Content(c) # Absent
    PROVE  /\ file' \in [Keys -> {Absent} \cup [Parts -> Part]]
           /\ c \in unlinked => file' = file
           /\ c \notin unlinked =>
                file' = [file EXCEPT ![key[c]] = [file[key[c]] EXCEPT ![p] = Mine(c)]]
<1>1. CASE c \in unlinked
  BY <1>1 DEF WritePart, TypeOK
<1>2. CASE c \notin unlinked
  <2>1. key[c] \in Keys /\ file[key[c]] # Absent
    BY <1>2 DEF TypeOK, Content, CacheName
  <2>2. file[key[c]] \in [Parts -> Part]
    BY <2>1, FileFacts
  <2>3. Mine(c) \in Part
    BY DEF Mine, Part, Stored, TypeOK
  <2>4. [file[key[c]] EXCEPT ![p] = Mine(c)] \in [Parts -> Part]
    BY <2>2, <2>3
  <2>5. file' = [file EXCEPT ![key[c]] = [file[key[c]] EXCEPT ![p] = Mine(c)]]
    BY <1>2 DEF WritePart, CacheName, Mine
  <2> HIDE DEF Mine, Part, Parts
  <2> QED
    BY <1>2, <2>1, <2>4, <2>5 DEF TypeOK
<1> QED
  BY <1>1, <1>2

(***************************************************************************)
(* A writer whose file is in the directory has it; nobody else is unlinked,*)
(* and what is in the directory needs the directory.                       *)
(***************************************************************************)
Writing == {"write1", "write2"}

StoreInv ==
    /\ \A c \in unlinked : pc[c] \in Writing
    /\ \A c \in Compilations : pc[c] \in Writing /\ c \notin unlinked => Content(c) # Absent
    /\ \A k \in Keys : file[k] # Absent => directory

(***************************************************************************)
(* A part of a file, whoever wrote it, and in whatever compilation, holds  *)
(* what tracing that source gives with something installed; the lengths of *)
(* a written text are those of a text.                                     *)
(***************************************************************************)
ContentInv ==
    /\ \A k \in Keys : file[k] # Absent => \A p \in Parts :
           file[k][p] # Unwritten =>
               \E where \in Installations : file[k][p].usages = Traced(k, where)
    /\ \A c \in Compilations : pc[c] \in Writing => length[c] \in Lengths

(***************************************************************************)
(* Whoever is to write has the usages that tracing gives in its process.   *)
(***************************************************************************)
UsagesTraced(c) ==
    used[c] = Traced(key[c], inst[c]) \cup SyntheticUsages(c, implicit[c])

TracedInv == \A c \in Compilations : pc[c] \in Writing \cup {"open"} => UsagesTraced(c)

(***************************************************************************)
(* What a compilation found out is still so when it acts on it, and the    *)
(* first part of what it writes is there when it writes the second one,    *)
(* unless another process has disturbed it.  Of one that failed, this      *)
(* leaves the assertion as the reason.                                     *)
(***************************************************************************)
Undisturbed(c) ==
    /\ pc[c] = "has" => Content(c) # Absent
    /\ pc[c] \in {"get", "load"} => Content(c) # Absent /\ HasHit(c)
    /\ pc[c] \in {"trace", "open"} => directory
    /\ pc[c] = "failed" => key[c] \in Asserted
    /\ pc[c] \in Writing => c \notin unlinked
    /\ pc[c] = "write2" => Content(c) # Absent /\ Content(c)[1] = Mine(c)

UndisturbedInv == \A c \in Compilations \ disturbed : Undisturbed(c)

\* The parts of the invariant but TracedInv.
Kept == TypeOK /\ StoreInv /\ ContentInv /\ UndisturbedInv

IInv == Kept /\ TracedInv

LEMMA InitIInv == Init => IInv
BY InitTypeOK DEF IInv, Kept, Init, StoreInv, ContentInv, TracedInv, UndisturbedInv,
   Undisturbed, Writing

(***************************************************************************)
(* One compilation moves: what this leaves to show.                        *)
(***************************************************************************)
LEMMA OthersUndisturbed ==
    ASSUME IInv, NEW c \in Compilations, UNCHANGED inputs,
           \A d \in Compilations \ {c} :
               /\ pc'[d] = pc[d] /\ used'[d] = used[d] /\ length'[d] = length[d]
               /\ d \in disturbed => d \in disturbed'
               /\ d \in unlinked' => d \in unlinked
               /\ d \in disturbed' \/ Content(d)' = Content(d)
                    \/ pc[d] \notin Writing \cup {"has", "get", "load"},
           directory => directory',
           c \in disturbed' \/ Undisturbed(c)'
    PROVE  UndisturbedInv'
<1> SUFFICES ASSUME NEW d \in Compilations, d \notin disturbed', d # c
             PROVE  Undisturbed(d)'
  BY DEF UndisturbedInv
<1>1. Undisturbed(d) /\ d \notin disturbed
  BY DEF IInv, Kept, UndisturbedInv
<1>2. Mine(d)' = Mine(d)
  BY DEF Mine
<1>3. Content(d)' = Content(d) => (HasHit(d) => HasHit(d)')
  BY DEF HasHit, Entries, inputs
<1> HIDE DEF HasHit, Content, Mine
<1> QED
  BY <1>1, <1>2, <1>3 DEF Undisturbed, Writing, inputs

LEMMA FilesStay ==
    ASSUME IInv, NEW c \in Compilations, UNCHANGED <<inputs, file, unlinked>>,
           directory => directory',
           c \notin unlinked, pc'[c] \notin Writing,
           \A d \in Compilations \ {c} : pc'[d] = pc[d] /\ length'[d] = length[d]
    PROVE  StoreInv' /\ ContentInv'
BY DEF IInv, Kept, StoreInv, ContentInv, TypeOK, inputs, Content, CacheName

LEMMA HasCachedKept == ASSUME IInv, NEW c \in Compilations, HasCached(c) PROVE Kept'
<1> USE DEF inputs, usages
<1>1. TypeOK'
  BY DEF IInv, Kept, TypeOK, HasCached, Goto
<1>2. /\ UNCHANGED <<inputs, usages, length, file, unlinked, disturbed>> /\ directory'
      /\ pc[c] = "idle" /\ pc'[c] = IF Content(c) = Absent THEN "trace" ELSE "has"
      /\ \A d \in Compilations \ {c} : pc'[d] = pc[d]
  BY DEF IInv, Kept, TypeOK, HasCached, Goto
<1>3. c \notin unlinked
  BY <1>2 DEF IInv, Kept, StoreInv, Writing
<1>4. StoreInv' /\ ContentInv'
  BY <1>2, <1>3, FilesStay DEF Writing
<1>5. \A d \in Compilations : Content(d)' = Content(d)
  BY <1>2 DEF Content, CacheName
<1>6. Undisturbed(c)'
  BY <1>2, <1>5 DEF Undisturbed, Writing
<1>7. UndisturbedInv'
  BY <1>2, <1>5, <1>6, OthersUndisturbed
<1> QED
  BY <1>1, <1>4, <1>7 DEF IInv, Kept

LEMMA HasLoadedKept == ASSUME IInv, NEW c \in Compilations, HasLoaded(c) PROVE Kept'
<1> USE DEF inputs, usages
<1>1. TypeOK'
  BY DEF IInv, Kept, TypeOK, HasLoaded, Fail, store
<1>2. /\ UNCHANGED <<inputs, usages, length, file, directory, unlinked>>
      /\ pc[c] = "has"
      /\ \A d \in Compilations \ {c} : pc'[d] = pc[d] /\ (d \in disturbed' <=> d \in disturbed)
      /\ \/ Content(c) = Absent /\ pc'[c] = "failed" /\ disturbed' = disturbed
         \/ Raises(c) /\ pc'[c] = "failed"
         \/ Content(c) # Absent /\ pc'[c] = "get" /\ HasHit(c)
         \/ Content(c) # Absent /\ pc'[c] = "trace"
  BY DEF IInv, Kept, TypeOK, HasLoaded, Fail, store
<1>3. c \notin unlinked
  BY <1>2 DEF IInv, Kept, StoreInv, Writing
<1>4. StoreInv' /\ ContentInv'
  BY <1>2, <1>3, FilesStay DEF Writing
<1>5. \A d \in Compilations : Content(d)' = Content(d)
  BY <1>2 DEF Content, CacheName
<1>6. c \in disturbed' \/ Undisturbed(c)'
  <2>1. CASE Content(c) = Absent /\ disturbed' = disturbed
    BY <1>2, <2>1 DEF IInv, Kept, UndisturbedInv, Undisturbed
  <2>2. CASE pc'[c] = "get" /\ Content(c) # Absent /\ HasHit(c)
    <3>1. HasHit(c)'
      BY <1>2, <1>5, <2>2 DEF HasHit, Entries
    <3> QED
      BY <1>5, <2>2, <3>1 DEF Undisturbed, Writing
  <2>3. CASE pc'[c] = "trace" /\ Content(c) # Absent
    <3>1. directory
      BY <2>3 DEF IInv, Kept, StoreInv, TypeOK, Content, CacheName
    <3> QED
      BY <1>2, <2>3, <3>1 DEF Undisturbed, Writing
  <2>4. CASE Raises(c) /\ pc'[c] = "failed"
    BY <1>2, <2>4 DEF Raises, Undisturbed, Writing
  <2> QED
    BY <1>2, <2>1, <2>2, <2>3, <2>4
<1>7. UndisturbedInv'
  BY <1>2, <1>5, <1>6, OthersUndisturbed
<1> QED
  BY <1>1, <1>4, <1>7 DEF IInv, Kept

LEMMA GetCachedKept == ASSUME IInv, NEW c \in Compilations, GetCached(c) PROVE Kept'
<1> USE DEF inputs, usages
<1>1. TypeOK'
  BY DEF IInv, Kept, TypeOK, GetCached, store
<1>2. /\ UNCHANGED <<inputs, usages, length, store>>
      /\ pc[c] = "get"
      /\ \A d \in Compilations \ {c} : pc'[d] = pc[d]
      /\ \/ Content(c) # Absent /\ pc'[c] = "load"
         \/ Content(c) = Absent /\ pc'[c] = "failed"
  BY DEF IInv, Kept, TypeOK, GetCached
<1> USE DEF store
<1>3. c \notin unlinked
  BY <1>2 DEF IInv, Kept, StoreInv, Writing
<1>4. StoreInv' /\ ContentInv'
  BY <1>2, <1>3, FilesStay DEF Writing
<1>5. \A d \in Compilations : Content(d)' = Content(d)
  BY <1>2 DEF Content, CacheName
<1>6. c \in disturbed' \/ Undisturbed(c)'
  <2>1. HasHit(c) => HasHit(c)'
    BY <1>2, <1>5 DEF HasHit, Entries
  <2>2. c \in disturbed \/ Undisturbed(c)
    BY DEF IInv, Kept, UndisturbedInv
  <2> QED
    BY <1>2, <1>5, <2>1, <2>2 DEF Undisturbed, Writing
<1>7. UndisturbedInv'
  BY <1>2, <1>5, <1>6, OthersUndisturbed
<1> QED
  BY <1>1, <1>4, <1>7 DEF IInv, Kept

LEMMA GetLoadedKept == ASSUME IInv, NEW c \in Compilations, GetLoaded(c) PROVE Kept'
<1> USE DEF inputs
<1>1. CASE Entries(c) = {} /\ Fail(c) /\ UNCHANGED inputs
  <2>1. TypeOK'
    BY <1>1 DEF IInv, Kept, TypeOK, Fail, usages, store
  <2>2. c \in disturbed
    BY <1>1 DEF IInv, Kept, UndisturbedInv, Undisturbed, GetLoaded, HasHit
  <2>3. pc[c] = "load" /\ pc'[c] = "failed" /\ \A d \in Compilations \ {c} : pc'[d] = pc[d]
    BY <1>1 DEF IInv, Kept, TypeOK, GetLoaded, Fail
  <2>4. UNCHANGED <<used, length, directory, file, unlinked, disturbed>>
    BY <1>1 DEF Fail, usages, store
  <2>5. c \notin unlinked
    BY <2>3 DEF IInv, Kept, StoreInv, Writing
  <2>6. StoreInv' /\ ContentInv'
    BY <1>1, <2>3, <2>4, <2>5, FilesStay DEF Writing
  <2>7. \A d \in Compilations : Content(d)' = Content(d)
    BY <1>1, <2>4 DEF Content, CacheName
  <2>8. UndisturbedInv'
    BY <1>1, <2>2, <2>3, <2>4, <2>7, OthersUndisturbed
  <2> QED
    BY <2>1, <2>6, <2>8 DEF IInv, Kept
<1>2. ASSUME NEW u \in Entries(c), AddImplicit(c, u), pc' = [pc EXCEPT ![c] = "done"],
             disturbed' = disturbed \ {c},
             UNCHANGED <<inputs, length, directory, file, unlinked>>
      PROVE  Kept'
  <2>1. u \subseteq Usages
    BY EntriesFacts DEF IInv, Kept
  <2>2. /\ implicit' \in [Compilations -> SUBSET Synthetic]
        /\ used' \in [Compilations -> SUBSET Usages]
        /\ \A d \in Compilations \ {c} : used'[d] = used[d]
    BY <1>2, <2>1, NewUsages DEF IInv, Kept
  <2>3. TypeOK'
    BY <1>2, <2>2 DEF IInv, Kept, TypeOK
  <2>4. pc[c] = "load" /\ pc'[c] = "done" /\ \A d \in Compilations \ {c} : pc'[d] = pc[d]
    BY <1>2 DEF IInv, Kept, TypeOK, GetLoaded
  <2>5. c \notin unlinked
    BY <2>4 DEF IInv, Kept, StoreInv, Writing
  <2>6. StoreInv' /\ ContentInv'
    BY <1>2, <2>4, <2>5, FilesStay DEF Writing
  <2>7. \A d \in Compilations : Content(d)' = Content(d)
    BY <1>2 DEF Content, CacheName
  <2>8. Undisturbed(c)'
    BY <2>4 DEF Undisturbed, Writing
  <2>9. UndisturbedInv'
    BY <1>2, <2>2, <2>4, <2>7, <2>8, OthersUndisturbed
  <2> QED
    BY <2>3, <2>6, <2>9 DEF IInv, Kept
<1> QED
  BY <1>1, <1>2 DEF GetLoaded

LEMMA TraceKept == ASSUME IInv, NEW c \in Compilations, Trace(c) PROVE Kept'
<1>1. Traced(key[c], inst[c]) \subseteq Usages
  BY TracedType DEF IInv, Kept, TypeOK
<1>2. /\ implicit' \in [Compilations -> SUBSET Synthetic]
      /\ used' \in [Compilations -> SUBSET Usages]
      /\ \A d \in Compilations \ {c} : used'[d] = used[d]
  BY <1>1, NewUsages DEF IInv, Kept, Trace
<1>3. /\ pc[c] = "trace" /\ pc' = [pc EXCEPT ![c] = "open"] /\ UNCHANGED <<inputs, length, store>>
      /\ pc'[c] = "open" /\ \A d \in Compilations \ {c} : pc'[d] = pc[d]
  BY DEF Trace, Goto, IInv, Kept, TypeOK
<1> USE DEF inputs, store
<1>4. TypeOK'
  BY <1>2, <1>3 DEF IInv, Kept, TypeOK
<1>5. c \notin unlinked
  BY <1>3 DEF IInv, Kept, StoreInv, Writing
<1>6. StoreInv' /\ ContentInv'
  BY <1>3, <1>5, FilesStay DEF Writing
<1>7. \A d \in Compilations : Content(d)' = Content(d)
  BY <1>3 DEF Content, CacheName
<1>8. c \in disturbed' \/ Undisturbed(c)'
  BY <1>3 DEF IInv, Kept, UndisturbedInv, Undisturbed, Writing
<1>9. UndisturbedInv'
  BY <1>2, <1>3, <1>7, <1>8, OthersUndisturbed
<1> QED
  BY <1>4, <1>6, <1>9 DEF IInv, Kept

LEMMA OpenKept == ASSUME IInv, NEW c \in Compilations, Open(c) PROVE Kept'
<1> USE DEF inputs, usages
<1>1. /\ pc[c] = "open" /\ c \notin unlinked
      /\ \A d \in Compilations \ {c} : pc'[d] = pc[d]
      /\ UNCHANGED <<inputs, used, implicit, directory, unlinked>>
  BY DEF IInv, Kept, StoreInv, TypeOK, Writing, Open, Fail, store
<1>2. CASE ~directory /\ Fail(c)
  <2>1. TypeOK'
    BY <1>1, <1>2 DEF IInv, Kept, TypeOK, Fail, store
  <2>2. pc'[c] = "failed" /\ UNCHANGED <<length, file, disturbed>>
    BY <1>2 DEF IInv, Kept, TypeOK, Fail, store
  <2>3. StoreInv' /\ ContentInv'
    BY <1>1, <2>2, FilesStay DEF Writing
  <2>4. \A d \in Compilations : Content(d)' = Content(d)
    BY <1>1, <2>2 DEF Content, CacheName
  <2>5. c \in disturbed
    BY <1>1, <1>2 DEF IInv, Kept, UndisturbedInv, Undisturbed
  <2>6. UndisturbedInv'
    BY <1>1, <2>2, <2>4, <2>5, OthersUndisturbed
  <2> QED
    BY <2>1, <2>3, <2>6 DEF IInv, Kept
<1>3. CASE directory /\ ~Fail(c)
  <2>1. PICK l \in Lengths :
           /\ pc' = [pc EXCEPT ![c] = "write1"]
           /\ file' = [file EXCEPT ![key[c]] = Truncated]
           /\ disturbed' = (disturbed \ {c}) \cup Concerned(c)
           /\ length' = [length EXCEPT ![c] = l]
    BY <1>3 DEF Open, CacheName
  <2>2. /\ Truncated \in [Parts -> Part] /\ Truncated # Absent
        /\ \A p \in Parts : Truncated[p] = Unwritten
    BY DEF Truncated, Unwritten, Part, Parts, Absent
  <2>3. /\ pc'[c] = "write1" /\ length'[c] \in Lengths
        /\ \A d \in Compilations \ {c} : length'[d] = length[d]
        /\ key[c] \in Keys /\ file'[key[c]] = Truncated
        /\ \A k \in Keys \ {key[c]} : file'[k] = file[k]
    BY <2>1 DEF IInv, Kept, TypeOK
  <2>4. TypeOK'
    <3>1. file' \in [Keys -> {Absent} \cup [Parts -> Part]]
      BY <2>1, <2>2, Zenon DEF IInv, Kept, TypeOK
    <3> QED
      BY <1>1, <2>1, <3>1 DEF IInv, Kept, TypeOK, Concerned
  <2>5. StoreInv'
    BY <1>1, <1>3, <2>2, <2>3 DEF IInv, Kept, StoreInv, TypeOK, Content, CacheName
  <2>6. ContentInv'
    <3>1. ASSUME NEW k \in Keys, file'[k] # Absent, NEW p \in Parts,
                 file'[k][p] # Unwritten
          PROVE  \E where \in Installations : file'[k][p].usages = Traced(k, where)
      <4>1. k # key[c]
        BY <2>2, <2>3, <3>1
      <4> QED
        BY <2>3, <3>1, <4>1 DEF IInv, Kept, ContentInv
    <3> QED
      BY <1>1, <2>3, <3>1 DEF IInv, Kept, ContentInv
  <2>7. Undisturbed(c)'
    BY <1>1, <2>3 DEF Undisturbed, Writing
  <2>8. ASSUME NEW d \in Compilations \ {c}
        PROVE  \/ d \in disturbed' \/ Content(d)' = Content(d)
               \/ pc[d] \notin Writing \cup {"has", "get", "load"}
    <3>1. CASE key[d] = key[c]
      BY <2>1, <3>1 DEF Concerned, CacheName, Writing
    <3>2. CASE key[d] # key[c]
      BY <1>1, <2>3, <3>2 DEF Content, CacheName, IInv, Kept, TypeOK
    <3> QED
      BY <3>1, <3>2
  <2>9. UndisturbedInv'
    BY <1>1, <2>1, <2>3, <2>7, <2>8, OthersUndisturbed
  <2> QED
    BY <2>4, <2>5, <2>6, <2>9 DEF IInv, Kept
<1>4. CASE directory /\ Fail(c)
  BY <1>4 DEF IInv, Kept, TypeOK, Open, Fail
<1> QED
  BY <1>2, <1>3, <1>4 DEF Open

(***************************************************************************)
(* Writing a part keeps what is in files meaningful, and disturbs whoever  *)
(* is at the same file.                                                    *)
(***************************************************************************)
LEMMA WritingFacts ==
    ASSUME IInv, NEW c \in Compilations, NEW p \in Parts, pc[c] \in Writing,
           WritePart(c, p), UNCHANGED inputs
    PROVE  /\ file' \in [Keys -> {Absent} \cup [Parts -> Part]]
           /\ \A k \in Keys : file'[k] # Absent <=> file[k] # Absent
           /\ \A k \in Keys : file'[k] # Absent => \A q \in Parts :
                  file'[k][q] # Unwritten =>
                      \E where \in Installations : file'[k][q].usages = Traced(k, where)
           /\ c \notin unlinked =>
                  /\ Content(c)' \in [Parts -> Part]
                  /\ Content(c)'[p] = Mine(c)
                  /\ \A q \in Parts \ {p} : Content(c)'[q] = Content(c)[q]
           /\ \A d \in Compilations \ {c} :
                  \/ d \in Noticed(c) \/ Content(d)' = Content(d)
                  \/ pc[d] \notin Writing \cup {"has", "get", "load"}
           /\ Mine(c) # Unwritten /\ Mine(c).usages = Traced(key[c], inst[c])
<1>1. c \notin unlinked => Content(c) # Absent
  BY DEF IInv, Kept, StoreInv
<1>2. /\ file' \in [Keys -> {Absent} \cup [Parts -> Part]]
      /\ c \in unlinked => file' = file
      /\ c \notin unlinked =>
             file' = [file EXCEPT ![key[c]] = [file[key[c]] EXCEPT ![p] = Mine(c)]]
  BY <1>1, WrittenType DEF IInv, Kept
<1>3. key[c] \in Keys /\ inst[c] \in Installations /\ implicit[c] \in SUBSET Synthetic
  BY DEF IInv, Kept, TypeOK
<1>4. Mine(c).usages = Traced(key[c], inst[c])
  <2>1. used[c] = Traced(key[c], inst[c]) \cup SyntheticUsages(c, implicit[c])
    BY DEF IInv, Kept, TracedInv, UsagesTraced
  <2> QED
    BY <1>3, <2>1, StoredOfAll DEF IInv, Kept, Mine
<1>5. Mine(c) # Unwritten
  BY ConstantsAssumption DEF IInv, Kept, ContentInv, Mine, Unwritten
<1>6. CASE c \in unlinked
  BY <1>2, <1>4, <1>5, <1>6 DEF IInv, Kept, ContentInv, inputs, Content, CacheName
<1>7. CASE c \notin unlinked
  <2>1. file[key[c]] \in [Parts -> Part] /\ file[key[c]] # Absent
    BY <1>1, <1>3, <1>7, FileFacts DEF IInv, Kept, Content, CacheName
  <2>2. /\ file'[key[c]] = [file[key[c]] EXCEPT ![p] = Mine(c)]
        /\ \A k \in Keys \ {key[c]} : file'[k] = file[k]
    BY <1>2, <1>3, <1>7 DEF IInv, Kept, TypeOK
  <2>3. Mine(c) \in Part
    BY DEF Mine, Part, Stored, IInv, Kept, TypeOK
  <2>4. /\ file'[key[c]] \in [Parts -> Part] /\ file'[key[c]][p] = Mine(c)
        /\ \A q \in Parts \ {p} : file'[key[c]][q] = file[key[c]][q]
    BY <2>1, <2>2, <2>3
  <2>5. file'[key[c]] # Absent
    BY <2>4 DEF Absent, Parts
  <2>6. \A k \in Keys : file'[k] # Absent <=> file[k] # Absent
    BY <2>1, <2>2, <2>5
  <2>7. ASSUME NEW k \in Keys, file'[k] # Absent, NEW q \in Parts, file'[k][q] # Unwritten
        PROVE  \E where \in Installations : file'[k][q].usages = Traced(k, where)
    <3>1. CASE k = key[c] /\ q = p
      BY <1>3, <1>4, <2>4, <3>1
    <3>2. CASE ~(k = key[c] /\ q = p)
      BY <2>2, <2>4, <2>6, <2>7, <3>2 DEF IInv, Kept, ContentInv
    <3> QED
      BY <3>1, <3>2
  <2>8. ASSUME NEW d \in Compilations \ {c}
        PROVE  \/ d \in Noticed(c) \/ Content(d)' = Content(d)
               \/ pc[d] \notin Writing \cup {"has", "get", "load"}
    <3>1. CASE key[d] = key[c]
      BY <1>7, <3>1 DEF Noticed, Concerned, CacheName, Writing
    <3>2. CASE key[d] # key[c]
      BY <2>2, <3>2 DEF Content, CacheName, IInv, Kept, TypeOK, inputs
    <3> QED
      BY <3>1, <3>2
  <2>9. /\ Content(c)' \in [Parts -> Part] /\ Content(c)'[p] = Mine(c)
        /\ \A q \in Parts \ {p} : Content(c)'[q] = Content(c)[q]
    BY <2>4 DEF Content, CacheName, inputs
  <2> QED
    BY <1>2, <1>4, <1>5, <2>6, <2>7, <2>8, <2>9
<1> QED
  BY <1>6, <1>7

LEMMA WriteFirstKept ==
    ASSUME IInv, NEW c \in Compilations, WriteFirst(c) PROVE Kept'
<1> USE DEF inputs, usages
<1>1. /\ pc[c] = "write1" /\ pc'[c] = "write2" /\ 1 \in Parts
      /\ pc' = [pc EXCEPT ![c] = "write2"]
      /\ \A d \in Compilations \ {c} : pc'[d] = pc[d]
      /\ disturbed' = disturbed \cup Noticed(c)
      /\ UNCHANGED <<inputs, usages, length, directory, unlinked>>
  BY DEF WriteFirst, Goto, IInv, Kept, TypeOK, Parts
<1>2. pc[c] \in Writing
  BY <1>1 DEF Writing
<1>3. /\ file' \in [Keys -> {Absent} \cup [Parts -> Part]]
      /\ \A k \in Keys : file'[k] # Absent <=> file[k] # Absent
      /\ \A k \in Keys : file'[k] # Absent => \A q \in Parts :
             file'[k][q] # Unwritten =>
                 \E where \in Installations : file'[k][q].usages = Traced(k, where)
      /\ c \notin unlinked => Content(c)'[1] = Mine(c)
      /\ \A d \in Compilations \ {c} :
             \/ d \in Noticed(c) \/ Content(d)' = Content(d)
             \/ pc[d] \notin Writing \cup {"has", "get", "load"}
  BY <1>1, <1>2, WritingFacts DEF WriteFirst
<1>4. TypeOK'
  BY <1>1, <1>3 DEF IInv, Kept, TypeOK, Noticed, Concerned
<1>5. StoreInv'
  BY <1>1, <1>3 DEF IInv, Kept, StoreInv, TypeOK, Writing, Content, CacheName
<1>6. ContentInv'
  BY <1>1, <1>3 DEF IInv, Kept, ContentInv, Writing
<1>7. c \in disturbed' \/ Undisturbed(c)'
  <2> SUFFICES ASSUME c \notin disturbed PROVE Undisturbed(c)'
    BY <1>1
  <2>1. c \notin unlinked /\ Content(c) # Absent
    BY <1>2 DEF IInv, Kept, StoreInv, UndisturbedInv, Undisturbed
  <2>2. Content(c)' # Absent
    BY <1>1, <1>3, <2>1 DEF Content, CacheName, IInv, Kept, TypeOK
  <2>3. Mine(c)' = Mine(c)
    BY <1>1 DEF Mine
  <2> QED
    BY <1>1, <1>3, <2>1, <2>2, <2>3 DEF Undisturbed, Writing
<1>8. UndisturbedInv'
  BY <1>1, <1>3, <1>7, OthersUndisturbed
<1> QED
  BY <1>4, <1>5, <1>6, <1>8 DEF IInv, Kept

LEMMA WriteLastKept ==
    ASSUME IInv, NEW c \in Compilations, WriteLast(c) PROVE Kept'
<1> USE DEF inputs, usages
<1>1. /\ pc[c] = "write2" /\ pc'[c] = "done" /\ 2 \in Parts
      /\ pc' = [pc EXCEPT ![c] = "done"]
      /\ length' = [length EXCEPT ![c] = 0]
      /\ \A d \in Compilations \ {c} : pc'[d] = pc[d] /\ length'[d] = length[d]
      /\ disturbed' = (disturbed \ {c}) \cup Noticed(c)
      /\ unlinked' = unlinked \ {c}
      /\ UNCHANGED <<inputs, usages, directory>>
  BY DEF WriteLast, Goto, IInv, Kept, TypeOK, Parts
<1>2. pc[c] \in Writing
  BY <1>1 DEF Writing
<1>3. /\ file' \in [Keys -> {Absent} \cup [Parts -> Part]]
      /\ \A k \in Keys : file'[k] # Absent <=> file[k] # Absent
      /\ \A k \in Keys : file'[k] # Absent => \A q \in Parts :
             file'[k][q] # Unwritten =>
                 \E where \in Installations : file'[k][q].usages = Traced(k, where)
      /\ \A d \in Compilations \ {c} :
             \/ d \in Noticed(c) \/ Content(d)' = Content(d)
             \/ pc[d] \notin Writing \cup {"has", "get", "load"}
  BY <1>1, <1>2, WritingFacts DEF WriteLast
<1>4. TypeOK'
  BY <1>1, <1>3 DEF IInv, Kept, TypeOK, Noticed, Concerned
<1>5. StoreInv'
  BY <1>1, <1>3 DEF IInv, Kept, StoreInv, TypeOK, Writing, Content, CacheName
<1>6. ContentInv'
  BY <1>1, <1>3 DEF IInv, Kept, ContentInv, Writing
<1>7. Undisturbed(c)'
  BY <1>1 DEF Undisturbed, Writing
<1>8. UndisturbedInv'
  BY <1>1, <1>3, <1>7, OthersUndisturbed
<1> QED
  BY <1>4, <1>5, <1>6, <1>8 DEF IInv, Kept

LEMMA KillKept == ASSUME IInv, NEW c \in Compilations, Kill(c) PROVE Kept'
<1> USE DEF inputs, usages
<1>1. /\ pc'[c] = "dead" /\ pc' = [pc EXCEPT ![c] = "dead"]
      /\ length' = [length EXCEPT ![c] = 0]
      /\ \A d \in Compilations \ {c} : pc'[d] = pc[d] /\ length'[d] = length[d]
      /\ disturbed' = disturbed \ {c} /\ unlinked' = unlinked \ {c}
      /\ UNCHANGED <<inputs, usages, directory, file>>
  BY DEF Kill, IInv, Kept, TypeOK
<1>2. TypeOK'
  BY <1>1 DEF IInv, Kept, TypeOK
<1>3. \A d \in Compilations : Content(d)' = Content(d)
  BY <1>1 DEF Content, CacheName
<1>4. StoreInv'
  BY <1>1, <1>3 DEF IInv, Kept, StoreInv, Writing
<1>5. ContentInv'
  BY <1>1 DEF IInv, Kept, ContentInv, Writing
<1>6. Undisturbed(c)'
  BY <1>1 DEF Undisturbed, Writing
<1>7. UndisturbedInv'
  BY <1>1, <1>3, <1>6, OthersUndisturbed
<1> QED
  BY <1>2, <1>4, <1>5, <1>7 DEF IInv, Kept

LEMMA CleanCachesKept == ASSUME IInv, CleanCaches PROVE Kept'
<1> USE DEF inputs, usages
<1>1. /\ directory' = FALSE /\ file' = [k \in Keys |-> Absent]
      /\ unlinked' = unlinked \cup {c \in Compilations : pc[c] \in Writing}
      /\ disturbed' = disturbed
             \cup {c \in Compilations : pc[c] \notin {"idle", "done", "dead"}}
      /\ UNCHANGED <<inputs, pc, usages, length>>
  BY DEF CleanCaches, Writing
<1>2. TypeOK'
  BY <1>1 DEF IInv, Kept, TypeOK
<1>3. StoreInv'
  BY <1>1 DEF IInv, Kept, StoreInv
<1>4. ContentInv'
  BY <1>1 DEF IInv, Kept, ContentInv
<1>5. UndisturbedInv'
  BY <1>1 DEF UndisturbedInv, Undisturbed, Writing
<1> QED
  BY <1>2, <1>3, <1>4, <1>5 DEF IInv, Kept

(***************************************************************************)
(* A step gives a compilation new usages by tracing or by a hit, or leaves *)
(* it those it has.                                                        *)
(***************************************************************************)
LEMMA UsagesStay ==
    ASSUME UNCHANGED inputs, NEW c \in Compilations, UsagesTraced(c),
           used'[c] = used[c], implicit'[c] = implicit[c]
    PROVE  UsagesTraced(c)'
<1>1. SyntheticUsages(c, implicit[c])' = SyntheticUsages(c, implicit[c])
  BY DEF inputs, SyntheticUsages
<1> QED
  BY <1>1 DEF UsagesTraced, inputs

LEMMA UsagesCome ==
    ASSUME TypeOK, UNCHANGED inputs, NEW c \in Compilations,
           AddImplicit(c, Traced(key[c], inst[c]))
    PROVE  UsagesTraced(c)'
<1>1. key[c] \in Keys /\ inst[c] \in Installations
  BY DEF TypeOK
<1>2. used'[c] = Traced(key[c], inst[c]) \cup SyntheticUsages(c, implicit'[c])
  BY <1>1, TracedType, NewUsages
<1>3. SyntheticUsages(c, implicit[c])' = SyntheticUsages(c, implicit'[c])
  BY DEF inputs, SyntheticUsages
<1> QED
  BY <1>2, <1>3 DEF UsagesTraced, inputs

LEMMA UsagesMove ==
    ASSUME TypeOK, [Next]_vars, NEW c \in Compilations
    PROVE  /\ UNCHANGED inputs
           /\ \/ /\ used'[c] = used[c] /\ implicit'[c] = implicit[c]
                 /\ \/ pc'[c] = pc[c]
                    \/ pc'[c] \in Writing /\ pc[c] \in Writing \cup {"open"}
                    \/ pc'[c] = "done" /\ pc[c] \in Writing
                    \/ pc'[c] \notin Writing \cup {"open", "done"}
              \/ AddImplicit(c, Traced(key[c], inst[c])) /\ pc'[c] = "open"
              \/ (\E u \in Entries(c) : AddImplicit(c, u)) /\ pc'[c] = "done"
<1> USE DEF inputs, usages, Writing
<1>1. CASE CleanCaches \/ UNCHANGED vars
  BY <1>1 DEF CleanCaches, vars
<1>2. ASSUME NEW d \in Compilations, HasCached(d) \/ HasLoaded(d) \/ GetCached(d)
      PROVE  /\ UNCHANGED <<inputs, usages>>
             /\ pc'[c] = pc[c] \/ pc'[c] \notin Writing \cup {"open", "done"}
  BY <1>2 DEF HasCached, HasLoaded, GetCached, Fail, Goto, TypeOK
<1>3. ASSUME NEW d \in Compilations, Open(d) \/ WriteFirst(d) \/ WriteLast(d) \/ Kill(d)
      PROVE  /\ UNCHANGED <<inputs, usages>>
             /\ \/ pc'[c] = pc[c]
                \/ pc'[c] \in Writing /\ pc[c] \in Writing \cup {"open"}
                \/ pc'[c] = "done" /\ pc[c] \in Writing
                \/ pc'[c] \notin Writing \cup {"open", "done"}
  BY <1>3 DEF Open, WriteFirst, WriteLast, Kill, Fail, Goto, TypeOK
<1>4. ASSUME NEW d \in Compilations, Trace(d) \/ GetLoaded(d), d # c
      PROVE  UNCHANGED inputs /\ pc'[c] = pc[c] /\ used'[c] = used[c] /\ implicit'[c] = implicit[c]
  BY <1>4 DEF Trace, GetLoaded, Fail, Goto, AddImplicit, TypeOK
<1>5. CASE Trace(c)
  BY <1>5 DEF Trace, Goto, TypeOK
<1>6. CASE GetLoaded(c)
  BY <1>6 DEF GetLoaded, Fail, TypeOK
<1> HIDE DEF inputs, usages, Writing
<1> QED
  BY <1>1, <1>2, <1>3, <1>4, <1>5, <1>6 DEF Next, Step, usages

LEMMA NextTracedInv == TypeOK /\ TracedInv /\ [Next]_vars => TracedInv'
BY UsagesMove, UsagesStay, UsagesCome DEF TracedInv, Writing

(***************************************************************************)
(* A hit gives what tracing does, by SameTrace.                            *)
(***************************************************************************)
LEMMA HitIsTraced ==
    ASSUME NoFileBecomesPackage, IInv, NEW c \in Compilations, NEW u \in Entries(c)
    PROVE  u = Traced(key[c], inst[c])
<1>1. /\ Content(c) # Absent /\ 1 \in Parts /\ Content(c)[1] # Unwritten
      /\ u = Content(c)[1].usages /\ SameResult(inst[c], u)
  BY EntriesFacts DEF IInv, Kept
<1>2. key[c] \in Keys /\ inst[c] \in Installations
  BY DEF IInv, Kept, TypeOK
<1>3. PICK where \in Installations : u = Traced(key[c], where)
  BY <1>1, <1>2 DEF IInv, Kept, ContentInv, Content, CacheName
<1> QED
  BY <1>1, <1>2, <1>3, SameTrace

LEMMA NextHitAsCompiled ==
    ASSUME NoFileBecomesPackage, IInv, HitAsCompiled, [Next]_vars PROVE HitAsCompiled'
<1> SUFFICES ASSUME NEW c \in Compilations, pc'[c] = "done" PROVE UsagesTraced(c)'
  BY DEF HitAsCompiled, UsagesTraced
<1>1. pc[c] \in Writing \cup {"done"} => UsagesTraced(c)
  BY DEF IInv, Kept, TracedInv, HitAsCompiled, UsagesTraced
<1>2. \A u \in Entries(c) : u = Traced(key[c], inst[c])
  BY HitIsTraced
<1> QED
  BY <1>1, <1>2, UsagesMove, UsagesStay, UsagesCome DEF IInv, Kept, Writing

-----------------------------------------------------------------------------
(***************************************************************************)
(* The theorems.                                                           *)
(***************************************************************************)
LEMMA NextIInv == IInv /\ [Next]_vars => IInv'
<1> SUFFICES ASSUME IInv, [Next]_vars PROVE IInv'
  OBVIOUS
<1>1. TracedInv'
  BY NextTracedInv DEF IInv, Kept
<1>2. CASE CleanCaches
  BY <1>1, <1>2, CleanCachesKept DEF IInv, Kept
<1>3. ASSUME NEW c \in Compilations, Step(c) \/ Kill(c) PROVE IInv'
  BY <1>1, <1>3, HasCachedKept, HasLoadedKept, GetCachedKept, GetLoadedKept, TraceKept,
     OpenKept, WriteFirstKept, WriteLastKept, KillKept DEF Step, IInv, Kept
<1>4. CASE UNCHANGED vars
  <2>1. \A c \in Compilations : Undisturbed(c) => Undisturbed(c)'
    BY <1>4 DEF vars, Undisturbed, HasHit, Entries, Content, CacheName, Mine
  <2> QED
    BY <1>1, <1>4, <2>1 DEF vars, IInv, Kept, TypeOK, StoreInv, ContentInv, UndisturbedInv, Content,
         CacheName
<1> QED
  BY <1>2, <1>3, <1>4 DEF Next

\* The inductive invariant holds in every state of every behaviour.
THEOREM IInvHolds == Spec => []IInv
BY InitIInv, NextIInv, PTL DEF Spec

\* Types: in particular whatever a file holds, in whatever state it was left, are usages.
THEOREM TypeCorrect == Spec => []TypeOK
<1>1. IInv => TypeOK
  BY DEF IInv, Kept
<1> QED
  BY <1>1, IInvHolds, PTL

\* The cache makes no compilation of another module than the asserted one fail,
\* unless another process disturbed its file: no crash, no other source, no other
\* installation is enough for that.
THEOREM FailsOnlyIfDisturbedHolds == Spec => []FailsOnlyIfDisturbed
<1>1. IInv => FailsOnlyIfDisturbed
  BY DEF IInv, Kept, UndisturbedInv, Undisturbed, FailsOnlyIfDisturbed
<1> QED
  BY <1>1, IInvHolds, PTL

\* Usages are those that compiling in this process gives, with a hit or without,
\* unless a file became a package (see NoFileBecomesPackage).
THEOREM HitAsCompiledHolds == NoFileBecomesPackage => (Spec => []HitAsCompiled)
<1> SUFFICES ASSUME NoFileBecomesPackage PROVE Spec => []HitAsCompiled
  OBVIOUS
<1>1. Init => HitAsCompiled
  BY DEF Init, HitAsCompiled
<1>2. IInv /\ HitAsCompiled /\ [Next]_vars => HitAsCompiled'
  BY NextHitAsCompiled
<1> QED
  BY <1>1, <1>2, IInvHolds, PTL DEF Spec

(***************************************************************************)
(* What was written is a hit: the first part is still there.               *)
(***************************************************************************)
LEMMA WrittenStep ==
    ASSUME IInv, NEW c \in Compilations, [Next]_vars,
           pc[c] = "write2", pc'[c] = "done", c \notin disturbed
    PROVE  /\ Loads(file'[key[c]]) = {Stored(used[c])}
           /\ SameResult(inst[c], Stored(used[c]))
<1>1. WriteLast(c)
  BY DEF Next, Step, vars, CleanCaches, HasCached, HasLoaded, GetCached, GetLoaded, Trace,
       Open, WriteFirst, WriteLast, Kill, Fail, Goto, IInv, Kept, TypeOK
<1>2. 2 \in Parts /\ 1 \in Parts \ {2} /\ \A p \in Parts : p = 1 \/ p = 2
  BY DEF Parts
<1>3. c \notin unlinked /\ Content(c)[1] = Mine(c)
  BY DEF IInv, Kept, UndisturbedInv, Undisturbed, Writing
<1>4. /\ Content(c)' \in [Parts -> Part] /\ Content(c)'[2] = Mine(c)
      /\ \A q \in Parts \ {2} : Content(c)'[q] = Content(c)[q]
      /\ Mine(c) # Unwritten /\ Mine(c).usages = Traced(key[c], inst[c])
  BY <1>1, <1>2, <1>3, WritingFacts DEF WriteLast, Writing
<1>5. Content(c)' = file'[key[c]]
  BY <1>1 DEF WriteLast, inputs, Content, CacheName
<1>6. /\ DOMAIN file'[key[c]] = Parts /\ file'[key[c]] # Absent
      /\ \A p \in Parts : file'[key[c]][p] = Mine(c)
  BY <1>2, <1>3, <1>4, <1>5 DEF Absent, Parts
<1>7. Loads(file'[key[c]]) = {Mine(c).usages}
  BY <1>2, <1>4, <1>6 DEF Loads
<1>8. Mine(c).usages = Stored(used[c])
  BY DEF Mine
<1>9. SameResult(inst[c], Traced(key[c], inst[c]))
  BY OwnAnswer DEF IInv, Kept, TypeOK
<1> QED
  BY <1>4, <1>7, <1>8, <1>9

\* An undisturbed writer leaves an entry that is a hit where the same is installed.
THEOREM WrittenIsHitHolds == Spec => WrittenIsHit
<1>1. IInv /\ [Next]_vars =>
         [\A c \in Compilations :
            pc[c] = "write2" /\ pc'[c] = "done" /\ c \notin disturbed
              => Loads(file'[key[c]]) = {Stored(used[c])}
                 /\ SameResult(inst[c], Stored(used[c]))]_vars
  BY WrittenStep
<1> QED
  BY <1>1, IInvHolds, PTL DEF Spec, WrittenIsHit

-----------------------------------------------------------------------------
(***************************************************************************)
(* The refinement: how the steps of the code change what SharedCache sees. *)
(***************************************************************************)
LEMMA StatusFacts ==
    ASSUME TypeOK, NEW c \in Compilations
    PROVE  /\ Statuses[c] = Status(c)
           /\ Statuses[c] = "looking" <=> pc[c] \in {"has", "get", "load"}
           /\ Statuses[c] = "saving" <=> pc[c] \in Writing
           /\ Statuses[c] \in {"new", "done", "dead"} <=> pc[c] \in {"idle", "done", "dead"}
<1>1. Statuses[c] = Status(c)
  BY DEF Statuses
<1>2. pc[c] \in {"idle", "has", "get", "load", "trace", "open", "write1", "write2",
                 "done", "failed", "dead"}
  BY DEF TypeOK
<1> QED
  BY <1>1, <1>2 DEF Status, Writing

LEMMA StatusMoves ==
    ASSUME TypeOK, NEW c \in Compilations, NEW to, pc' = [pc EXCEPT ![c] = to]
    PROVE  Statuses' = [Statuses EXCEPT ![c] = Status(c)'] /\ pc'[c] = to
<1>1. \A d \in Compilations \ {c} : pc'[d] = pc[d]
  BY DEF TypeOK
<1>2. pc'[c] = to
  BY DEF TypeOK
<1>3. \A d \in Compilations \ {c} : Status(d)' = Status(d)
  BY <1>1 DEF Status
<1> HIDE DEF Status
<1> QED
  BY <1>2, <1>3 DEF Statuses

LEMMA AnswersMove ==
    ASSUME NEW c \in Compilations, \A d \in Compilations \ {c} : used'[d] = used[d]
    PROVE  Answers' = [Answers EXCEPT ![c] = Stored(used'[c])]
BY DEF Answers, Stored

LEMMA AnswersStay == ASSUME UNCHANGED used PROVE UNCHANGED Answers
BY DEF Answers, Stored

LEMMA EntriesStay == ASSUME UNCHANGED file PROVE UNCHANGED EntryOf
BY DEF EntryOf, Loads

LEMMA EntryMoves ==
    ASSUME NEW k \in Keys, \A j \in Keys \ {k} : file'[j] = file[j]
    PROVE  EntryOf' = [EntryOf EXCEPT ![k] = Loads(file'[k])]
<1>1. EntryOf' = [j \in Keys |-> Loads(file'[j])]
  BY DEF EntryOf, Loads
<1>2. \A j \in Keys \ {k} : Loads(file'[j]) = Loads(file[j])
  OBVIOUS
<1> QED
  BY <1>1, <1>2 DEF EntryOf

LEMMA OwnAnswerFacts ==
    ASSUME TypeOK, NEW c \in Compilations
    PROVE  /\ Shared!Own(c) = Traced(key[c], inst[c])
           /\ key[c] \in Keys /\ inst[c] \in Installations
<1>1. key[c] \in Keys /\ inst[c] \in Installations
  BY DEF TypeOK
<1> QED
  BY <1>1 DEF Shared!Own, TracedAnswers

LEMMA OthersConcerned ==
    ASSUME TypeOK, NEW c \in Compilations
    PROVE  Shared!Others(c) = Concerned(c)
<1>1. \A d \in Compilations : Statuses[d] \in {"looking", "saving"} <=>
          pc[d] \in {"has", "get", "load", "write1", "write2"}
  BY StatusFacts DEF Writing
<1> QED
  BY <1>1 DEF Shared!Others, Concerned, CacheName

LEMMA SharedInit == Init => Shared!Init
<1> SUFFICES ASSUME Init PROVE Shared!Init
  OBVIOUS
<1>1. TypeOK
  BY InitTypeOK
<1>2. Statuses = [c \in Compilations |-> "new"]
  BY DEF Statuses, Status, Init
<1>3. Answers = [c \in Compilations |-> {}]
  BY DEF Answers, Stored, Init
<1>4. EntryOf = [k \in Keys |-> {}]
  BY DEF EntryOf, Loads, Init
<1> QED
  BY <1>2, <1>3, <1>4 DEF Shared!Init, Init

(***************************************************************************)
(* The steps that leave the files alone.                                   *)
(***************************************************************************)
LEMMA FailMoves ==
    ASSUME TypeOK, NEW c \in Compilations, Fail(c), UNCHANGED inputs,
           pc[c] \in {"has", "get", "load", "open"}
    PROVE  /\ Shared!Goto(c, {Status(c)}, "failed")
           /\ Status(c) = IF pc[c] = "open" THEN "computed" ELSE "looking"
           /\ UNCHANGED <<Answers, EntryOf, disturbed>>
<1>1. /\ pc' = [pc EXCEPT ![c] = "failed"]
      /\ UNCHANGED <<used, file, disturbed, key, inst>>
  BY DEF Fail, usages, store, inputs
<1>2. Statuses' = [Statuses EXCEPT ![c] = Status(c)'] /\ pc'[c] = "failed"
  BY <1>1, StatusMoves
<1>3. Status(c)' = "failed" /\ Status(c) = IF pc[c] = "open" THEN "computed" ELSE "looking"
  BY <1>2 DEF Status
<1>4. Statuses[c] = Status(c)
  BY StatusFacts
<1> QED
  BY <1>1, <1>2, <1>3, <1>4, AnswersStay, EntriesStay DEF Shared!Goto, Shared!questions

LEMMA FailRefines ==
    ASSUME TypeOK, NEW c \in Compilations, Fail(c), UNCHANGED inputs, c \in disturbed,
           pc[c] \in {"has", "get", "load", "open"}
    PROVE  Shared!Fail(c)
BY FailMoves DEF Shared!Fail, Shared!Goto

(***************************************************************************)
(* What raises for the asserted module is shared and is not what it would  *)
(* find itself: this is found the same again, by OwnAnswer.                *)
(***************************************************************************)
LEMMA RaisesRefines ==
    ASSUME TypeOK, NEW c \in Compilations, Fail(c), UNCHANGED inputs, Raises(c),
           pc[c] = "has"
    PROVE  Shared!Reject(c)
<1>1. PICK u \in Loads(Content(c)) : ~SameResult(inst[c], u)
  BY DEF Raises
<1>2. key[c] \in Asserted /\ key[c] \in Keys /\ inst[c] \in Installations
  BY OwnAnswerFacts DEF Raises
<1>3. u # Shared!Own(c)
  BY <1>1, <1>2, OwnAnswer, OwnAnswerFacts
<1>4. EntryOf[key[c]] = {u}
  BY <1>1, <1>2 DEF EntryOf, Content, CacheName, Loads
<1>5. EntryOf[key[c]] \notin {{}, {Shared!Own(c)}}
  BY <1>3, <1>4
<1> QED
  BY <1>2, <1>5, FailMoves DEF Shared!Reject, Shared!Goto

LEMMA HasCachedRefines ==
    ASSUME TypeOK, NEW c \in Compilations, HasCached(c) PROVE Shared!Look(c)
<1>1. PICK to \in {"trace", "has"} :
          pc[c] = "idle" /\ pc' = [pc EXCEPT ![c] = to]
            /\ UNCHANGED <<used, file, disturbed, key, inst>>
  BY DEF HasCached, Goto, usages, inputs
<1>2. Statuses' = [Statuses EXCEPT ![c] = Status(c)'] /\ pc'[c] = to
  BY <1>1, StatusMoves
<1>3. Status(c)' \in {"looking", "computing"} /\ Status(c) = "new"
  BY <1>1, <1>2 DEF Status
<1>4. Statuses[c] = Status(c)
  BY StatusFacts
<1> QED
  BY <1>1, <1>2, <1>3, <1>4, AnswersStay, EntriesStay
     DEF Shared!Look, Shared!Goto, Shared!questions

LEMMA HasLoadedRefines ==
    ASSUME IInv, NEW c \in Compilations, HasLoaded(c)
    PROVE  Shared!Miss(c) \/ Shared!Fail(c) \/ Shared!Reject(c) \/ UNCHANGED Shared!vars
<1>1. pc[c] = "has" /\ UNCHANGED <<key, inst>> /\ TypeOK
  BY DEF HasLoaded, inputs, IInv, Kept
<1>2. Statuses[c] = Status(c) /\ Status(c) = "looking"
  BY <1>1, StatusFacts DEF Status
<1>3. CASE Content(c) = Absent
  <2>1. Fail(c) /\ c \in disturbed
    BY <1>1, <1>3 DEF HasLoaded, IInv, Kept, UndisturbedInv, Undisturbed
  <2> QED
    BY <1>1, <2>1, FailRefines DEF inputs
<1>4. CASE Content(c) # Absent /\ ~Raises(c) /\ HasHit(c)
  <2>1. /\ pc' = [pc EXCEPT ![c] = "get"]
        /\ UNCHANGED <<used, file, disturbed>>
    BY <1>4 DEF HasLoaded, usages
  <2>2. Statuses' = [Statuses EXCEPT ![c] = Status(c)'] /\ pc'[c] = "get"
    BY <1>1, <2>1, StatusMoves
  <2>3. Status(c)' = "looking"
    BY <2>2 DEF Status
  <2>4. Statuses' = Statuses
    BY <1>2, <2>2, <2>3 DEF Statuses
  <2> QED
    BY <1>1, <2>1, <2>4, AnswersStay, EntriesStay DEF Shared!vars, Shared!questions
<1>5. CASE Content(c) # Absent /\ ~Raises(c) /\ ~HasHit(c)
  <2>1. /\ pc' = [pc EXCEPT ![c] = "trace"]
        /\ disturbed' = disturbed \ {c}
        /\ UNCHANGED <<used, file>>
    BY <1>5 DEF HasLoaded, usages
  <2>2. Statuses' = [Statuses EXCEPT ![c] = Status(c)'] /\ pc'[c] = "trace"
    BY <1>1, <2>1, StatusMoves
  <2>3. Status(c)' = "computing"
    BY <2>2 DEF Status
  <2> QED
    BY <1>1, <1>2, <2>1, <2>2, <2>3, AnswersStay, EntriesStay
       DEF Shared!Miss, Shared!Goto, Shared!questions
<1>6. CASE Content(c) # Absent /\ Raises(c)
  <2>1. Fail(c)
    BY <1>6 DEF HasLoaded
  <2> QED
    BY <1>1, <1>6, <2>1, RaisesRefines DEF inputs
<1> QED
  BY <1>3, <1>4, <1>5, <1>6

LEMMA GetCachedRefines ==
    ASSUME IInv, NEW c \in Compilations, GetCached(c)
    PROVE  Shared!Fail(c) \/ UNCHANGED Shared!vars
<1>1. /\ pc[c] = "get" /\ TypeOK
      /\ UNCHANGED <<inputs, usages, length, store>>
  BY DEF GetCached, IInv, Kept
<1>2. CASE Content(c) = Absent
  <2>1. Fail(c) /\ c \in disturbed
    BY <1>1, <1>2 DEF GetCached, Fail, IInv, Kept, UndisturbedInv, Undisturbed
  <2> QED
    BY <1>1, <2>1, FailRefines
<1>3. CASE Content(c) # Absent
  <2>1. pc' = [pc EXCEPT ![c] = "load"]
    BY <1>3 DEF GetCached
  <2>2. Statuses' = [Statuses EXCEPT ![c] = Status(c)'] /\ pc'[c] = "load"
    BY <1>1, <2>1, StatusMoves
  <2>3. Status(c)' = "looking" /\ Status(c) = "looking"
    BY <1>1, <2>2 DEF Status
  <2>4. Statuses' = Statuses
    BY <2>2, <2>3 DEF Statuses
  <2> QED
    BY <1>1, <2>4, AnswersStay, EntriesStay
       DEF Shared!vars, Shared!questions, inputs, usages, store
<1> QED
  BY <1>2, <1>3

(***************************************************************************)
(* A hit is the answer: this needs what is in the file, and SameTrace.     *)
(***************************************************************************)
LEMMA EntryIsOwn ==
    ASSUME NoFileBecomesPackage, IInv, NEW c \in Compilations, NEW u \in Entries(c)
    PROVE  /\ u = Traced(key[c], inst[c])
           /\ EntryOf[key[c]] = {Traced(key[c], inst[c])}
<1>1. u = Traced(key[c], inst[c])
  BY HitIsTraced
<1>2. u \in Loads(Content(c))
  BY DEF Entries
<1>3. Loads(Content(c)) = {u}
  BY <1>2 DEF Loads
<1>4. EntryOf[key[c]] = Loads(Content(c))
  BY OwnAnswerFacts DEF EntryOf, Content, CacheName, IInv, Kept
<1> QED
  BY <1>1, <1>3, <1>4

LEMMA NewAnswer ==
    ASSUME TypeOK, NEW c \in Compilations, AddImplicit(c, Traced(key[c], inst[c]))
    PROVE  Answers' = [Answers EXCEPT ![c] = Traced(key[c], inst[c])]
<1>1. key[c] \in Keys /\ inst[c] \in Installations
  BY OwnAnswerFacts
<1>2. Traced(key[c], inst[c]) \in SUBSET Usages
  BY <1>1, TracedType
<1>3. /\ implicit'[c] \in SUBSET Synthetic
      /\ used'[c] = Traced(key[c], inst[c]) \cup SyntheticUsages(c, implicit'[c])
      /\ \A d \in Compilations \ {c} : used'[d] = used[d]
  BY <1>2, NewUsages
<1>4. Stored(used'[c]) = Traced(key[c], inst[c])
  BY <1>1, <1>3, StoredOfAll
<1> QED
  BY <1>3, <1>4, AnswersMove

LEMMA GetLoadedRefines ==
    ASSUME NoFileBecomesPackage, IInv, NEW c \in Compilations, GetLoaded(c)
    PROVE  Shared!Hit(c) \/ Shared!Fail(c)
<1>1. pc[c] = "load" /\ UNCHANGED inputs /\ TypeOK
  BY DEF GetLoaded, IInv, Kept
<1>2. CASE Entries(c) = {}
  <2>1. Fail(c) /\ c \in disturbed
    BY <1>1, <1>2 DEF GetLoaded, IInv, Kept, UndisturbedInv, Undisturbed, HasHit
  <2> QED
    BY <1>1, <2>1, FailRefines
<1>3. CASE Entries(c) # {}
  <2>1. PICK u \in Entries(c) :
          /\ AddImplicit(c, u)
          /\ pc' = [pc EXCEPT ![c] = "done"]
          /\ disturbed' = disturbed \ {c}
          /\ UNCHANGED file
    BY <1>3 DEF GetLoaded
  <2>2. u = Traced(key[c], inst[c]) /\ EntryOf[key[c]] = {Traced(key[c], inst[c])}
    BY EntryIsOwn
  <2>3. Statuses' = [Statuses EXCEPT ![c] = Status(c)'] /\ pc'[c] = "done"
    BY <1>1, <2>1, StatusMoves
  <2>4. Status(c)' = "done" /\ Status(c) = "looking" /\ Statuses[c] = Status(c)
    BY <1>1, <2>3, StatusFacts DEF Status
  <2>5. Answers' = [Answers EXCEPT ![c] = Shared!Own(c)]
    BY <1>1, <2>1, <2>2, NewAnswer, OwnAnswerFacts
  <2>6. EntryOf' = EntryOf /\ EntryOf[key[c]] = {Shared!Own(c)}
    BY <1>1, <2>1, <2>2, EntriesStay, OwnAnswerFacts
  <2> QED
    BY <1>1, <2>1, <2>3, <2>4, <2>5, <2>6
       DEF Shared!Hit, Shared!Goto, Shared!questions, inputs
<1> QED
  BY <1>2, <1>3

LEMMA TraceRefines ==
    ASSUME TypeOK, NEW c \in Compilations, Trace(c) PROVE Shared!Compute(c)
<1>1. /\ pc[c] = "trace" /\ pc' = [pc EXCEPT ![c] = "open"]
      /\ AddImplicit(c, Traced(key[c], inst[c]))
      /\ UNCHANGED <<key, inst, file, disturbed>>
  BY DEF Trace, Goto, inputs, store
<1>2. Statuses' = [Statuses EXCEPT ![c] = Status(c)'] /\ pc'[c] = "open"
  BY <1>1, StatusMoves
<1>3. Status(c)' = "computed" /\ Status(c) = "computing" /\ Statuses[c] = Status(c)
  BY <1>1, <1>2, StatusFacts DEF Status
<1>4. Answers' = [Answers EXCEPT ![c] = Shared!Own(c)]
  BY <1>1, NewAnswer, OwnAnswerFacts
<1> QED
  BY <1>1, <1>2, <1>3, <1>4, EntriesStay
     DEF Shared!Compute, Shared!Goto, Shared!questions

(***************************************************************************)
(* The steps that change files.                                            *)
(***************************************************************************)
LEMMA OpenRefines ==
    ASSUME IInv, NEW c \in Compilations, Open(c) PROVE Shared!Save(c) \/ Shared!Fail(c)
<1>1. pc[c] = "open" /\ UNCHANGED <<key, inst>> /\ TypeOK
  BY DEF Open, inputs, IInv, Kept
<1>2. CASE ~directory
  <2>1. Fail(c) /\ c \in disturbed
    BY <1>1, <1>2 DEF Open, IInv, Kept, UndisturbedInv, Undisturbed
  <2> QED
    BY <1>1, <2>1, FailRefines DEF inputs
<1>3. CASE directory
  <2>1. /\ pc' = [pc EXCEPT ![c] = "write1"]
        /\ file' = [file EXCEPT ![key[c]] = Truncated]
        /\ disturbed' = (disturbed \ {c}) \cup Concerned(c)
        /\ UNCHANGED used
    BY <1>3 DEF Open, CacheName, usages
  <2>2. Statuses' = [Statuses EXCEPT ![c] = Status(c)'] /\ pc'[c] = "write1"
    BY <1>1, <2>1, StatusMoves
  <2>3. Status(c)' = "saving" /\ Status(c) = "computed" /\ Statuses[c] = Status(c)
    BY <1>1, <2>2, StatusFacts DEF Status
  <2>4. /\ key[c] \in Keys /\ file'[key[c]] = Truncated
        /\ \A k \in Keys \ {key[c]} : file'[k] = file[k]
    BY <1>1, <2>1 DEF TypeOK
  <2>5. Loads(Truncated) = {}
    <3>1. 1 \in DOMAIN Truncated /\ Truncated[1] = Unwritten
      BY DEF Truncated, Parts
    <3> QED
      BY <3>1 DEF Loads
  <2>6. EntryOf' = [EntryOf EXCEPT ![key[c]] = {}]
    BY <2>4, <2>5, EntryMoves
  <2> QED
    BY <1>1, <2>1, <2>2, <2>3, <2>6, AnswersStay, OthersConcerned
       DEF Shared!Save, Shared!Share, Shared!Goto, Shared!questions
<1> QED
  BY <1>2, <1>3

\* A file that c writes a part of holds nothing after that, or what c writes.
LEMMA WrittenEntry ==
    ASSUME IInv, NEW c \in Compilations, NEW p \in Parts, pc[c] \in Writing,
           WritePart(c, p), UNCHANGED inputs, c \notin unlinked
    PROVE  /\ \/ EntryOf' = [EntryOf EXCEPT ![key[c]] = {}]
              \/ EntryOf' = [EntryOf EXCEPT ![key[c]] = {Answers[c]}]
           /\ EntryOf' = [EntryOf EXCEPT ![key[c]] = Loads(file'[key[c]])]
<1>1. /\ Content(c)' \in [Parts -> Part] /\ Content(c)'[p] = Mine(c)
      /\ Mine(c).usages = Answers[c]
  BY WritingFacts DEF Mine, Answers
<1>2. /\ Content(c)' = file'[key[c]] /\ key[c] \in Keys
      /\ \A k \in Keys \ {key[c]} : file'[k] = file[k]
  BY DEF Content, CacheName, inputs, WritePart, IInv, Kept, TypeOK
<1>3. Loads(file'[key[c]]) \in {{}, {Answers[c]}}
  BY <1>1, <1>2 DEF Loads, Parts
<1>4. EntryOf' = [EntryOf EXCEPT ![key[c]] = Loads(file'[key[c]])]
  BY <1>2, EntryMoves
<1> QED
  BY <1>3, <1>4

LEMMA WriteFirstRefines ==
    ASSUME IInv, NEW c \in Compilations, WriteFirst(c)
    PROVE  Shared!Write(c) \/ UNCHANGED Shared!vars
<1>1. /\ pc[c] = "write1" /\ pc' = [pc EXCEPT ![c] = "write2"]
      /\ WritePart(c, 1) /\ disturbed' = disturbed \cup Noticed(c)
      /\ UNCHANGED <<key, inst, used>> /\ TypeOK
  BY DEF WriteFirst, Goto, inputs, usages, IInv, Kept
<1>2. Statuses' = [Statuses EXCEPT ![c] = Status(c)'] /\ pc'[c] = "write2"
  BY <1>1, StatusMoves
<1>3. Status(c)' = "saving" /\ Status(c) = "saving" /\ Statuses[c] = Status(c)
  BY <1>1, <1>2, StatusFacts DEF Status
<1>4. CASE c \in unlinked
  <2>1. file' = file /\ disturbed' = disturbed
    BY <1>1, <1>4 DEF WritePart, Noticed
  <2>2. Statuses' = Statuses
    BY <1>2, <1>3 DEF Statuses
  <2> QED
    BY <1>1, <2>1, <2>2, AnswersStay, EntriesStay DEF Shared!vars, Shared!questions
<1>5. CASE c \notin unlinked
  <2>1. \/ EntryOf' = [EntryOf EXCEPT ![key[c]] = {}]
        \/ EntryOf' = [EntryOf EXCEPT ![key[c]] = {Answers[c]}]
    BY <1>1, <1>5, WrittenEntry DEF Parts, Writing, inputs
  <2>2. disturbed' = disturbed \cup Shared!Others(c)
    BY <1>1, <1>5, OthersConcerned DEF Noticed
  <2> QED
    BY <1>1, <1>2, <1>3, <2>1, <2>2, AnswersStay
       DEF Shared!Write, Shared!Share, Shared!Goto, Shared!questions
<1> QED
  BY <1>4, <1>5

LEMMA WriteLastRefines ==
    ASSUME IInv, NEW c \in Compilations, WriteLast(c)
    PROVE  Shared!Saved(c) \/ Shared!SavedNothing(c)
<1>1. /\ pc[c] = "write2" /\ pc' = [pc EXCEPT ![c] = "done"]
      /\ WritePart(c, 2) /\ disturbed' = (disturbed \ {c}) \cup Noticed(c)
      /\ UNCHANGED <<key, inst, used>> /\ TypeOK
  BY DEF WriteLast, Goto, inputs, usages, IInv, Kept
<1>2. Statuses' = [Statuses EXCEPT ![c] = Status(c)'] /\ pc'[c] = "done"
  BY <1>1, StatusMoves
<1>3. Status(c)' = "done" /\ Status(c) = "saving" /\ Statuses[c] = Status(c)
  BY <1>1, <1>2, StatusFacts DEF Status
<1>4. CASE c \in unlinked
  <2>1. file' = file /\ disturbed' = disturbed \ {c}
    BY <1>1, <1>4 DEF WritePart, Noticed
  <2>2. c \in disturbed
    BY <1>1, <1>4 DEF IInv, Kept, UndisturbedInv, Undisturbed, Writing
  <2> QED
    BY <1>1, <1>2, <1>3, <2>1, <2>2, AnswersStay, EntriesStay
       DEF Shared!SavedNothing, Shared!Goto, Shared!questions
<1>5. CASE c \notin unlinked
  <2>1. /\ \/ EntryOf' = [EntryOf EXCEPT ![key[c]] = {}]
           \/ EntryOf' = [EntryOf EXCEPT ![key[c]] = {Answers[c]}]
        /\ EntryOf' = [EntryOf EXCEPT ![key[c]] = Loads(file'[key[c]])]
    BY <1>1, <1>5, WrittenEntry DEF Parts, Writing, inputs
  <2>2. disturbed' = (disturbed \ {c}) \cup Shared!Others(c)
    BY <1>1, <1>5, OthersConcerned DEF Noticed
  <2>3. c \notin disturbed => Loads(file'[key[c]]) = {Answers[c]}
    BY <1>1, <1>2, WrittenStep DEF Next, Step, Answers
  <2> QED
    BY <1>1, <1>2, <1>3, <2>1, <2>2, <2>3, AnswersStay
       DEF Shared!Saved, Shared!Share, Shared!Goto, Shared!questions
<1> QED
  BY <1>4, <1>5

LEMMA KillRefines ==
    ASSUME TypeOK, NEW c \in Compilations, Kill(c) PROVE Shared!Kill(c)
<1>1. /\ pc[c] \in Writing /\ pc' = [pc EXCEPT ![c] = "dead"]
      /\ disturbed' = disturbed \ {c}
      /\ UNCHANGED <<key, inst, used, file>>
  BY DEF Kill, inputs, usages, Writing
<1>2. Statuses' = [Statuses EXCEPT ![c] = Status(c)'] /\ pc'[c] = "dead"
  BY <1>1, StatusMoves
<1>3. Status(c)' = "dead" /\ Statuses[c] = "saving"
  BY <1>1, <1>2, StatusFacts DEF Status
<1> QED
  BY <1>1, <1>2, <1>3, AnswersStay, EntriesStay
     DEF Shared!Kill, Shared!Goto, Shared!questions

LEMMA CleanCachesRefines == ASSUME TypeOK, CleanCaches PROVE Shared!Clean
<1>1. /\ file' = [k \in Keys |-> Absent]
      /\ disturbed' = disturbed
             \cup {c \in Compilations : pc[c] \notin {"idle", "done", "dead"}}
      /\ UNCHANGED <<key, inst, pc, used>>
  BY DEF CleanCaches, inputs, usages
<1>2. EntryOf' = [k \in Keys |-> {}]
  BY <1>1 DEF EntryOf, Loads
<1>3. Statuses' = Statuses
  BY <1>1 DEF Statuses, Status
<1>4. {c \in Compilations : pc[c] \notin {"idle", "done", "dead"}}
        = {c \in Compilations : Statuses[c] \notin {"new", "done", "dead"}}
  BY StatusFacts
<1> QED
  BY <1>1, <1>2, <1>3, <1>4, AnswersStay DEF Shared!Clean, Shared!questions

(***************************************************************************)
(* The cache implements SharedCache where no file became a package: in the *)
(* other case a hit is not the answer, see NoFileBecomesPackage.           *)
(***************************************************************************)
LEMMA NextRefines ==
    ASSUME NoFileBecomesPackage, IInv, [Next]_vars PROVE [Shared!Next]_Shared!vars
<1>1. CASE CleanCaches
  BY <1>1, CleanCachesRefines DEF IInv, Kept, Shared!Next
<1>2. ASSUME NEW c \in Compilations, Step(c) \/ Kill(c)
      PROVE  [Shared!Next]_Shared!vars
  BY <1>2, HasCachedRefines, HasLoadedRefines, GetCachedRefines, GetLoadedRefines,
     TraceRefines, OpenRefines, WriteFirstRefines, WriteLastRefines, KillRefines
     DEF IInv, Kept, Step, Shared!Next
<1>3. CASE UNCHANGED vars
  <2>1. UNCHANGED Statuses
    BY <1>3 DEF vars, Statuses, Status
  <2> QED
    BY <1>3, <2>1, AnswersStay, EntriesStay DEF vars, Shared!vars, Shared!questions
<1> QED
  BY <1>1, <1>2, <1>3 DEF Next

\* Whatever the interleaving, the crashes and the clean ups: a hit is what this
\* compilation would find, what was saved undisturbed is shared, what was cut
\* short is not, and one fails only for another process that came in between or,
\* of the asserted module, for an answer that is not its own.
THEOREM IsSharedCacheHolds == NoFileBecomesPackage => (Spec => IsSharedCache)
<1> SUFFICES ASSUME NoFileBecomesPackage PROVE Spec => IsSharedCache
  OBVIOUS
<1>1. Init => Shared!Init
  BY SharedInit
<1>2. IInv /\ [Next]_vars => [Shared!Next]_Shared!vars
  BY NextRefines
<1> QED
  BY <1>1, <1>2, IInvHolds, PTL DEF Spec, IsSharedCache, Shared!Spec
===============================================================================
