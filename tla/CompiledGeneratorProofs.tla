------------------------ MODULE CompiledGeneratorProofs ------------------------
(***************************************************************************)
(* Theorems about compiled generators, for any number of generators and    *)
(* threads.  But for the types they need that no throw comes to a          *)
(* generator that passes another one on (~ReentrantThrow): the C code does *)
(* not check for it, and is not a coroutine's there.                       *)
(***************************************************************************)
EXTENDS CompiledGenerator, SequenceTheorems, WellFoundedInduction, TLAPS

Frame == [do : Functions \cup Waits, gen : Generators, exc : Kinds,
          to : Generators \cup {None}]

Results == {"none", "yield", "return", "exit", "error"}

-----------------------------------------------------------------------------
(***************************************************************************)
(* The stack of a thread.                                                  *)
(***************************************************************************)
LEMMA TopFacts ==
    ASSUME TypeOK, NEW t \in Threads, calls[t] # <<>>
    PROVE  /\ calls[t] \in Seq(Frame) /\ Len(calls[t]) \in Nat \ {0}
           /\ Top(t) \in Frame /\ Top(t) = calls[t][Len(calls[t])]
           /\ Below(t) \in Seq(Frame) /\ Len(Below(t)) = Len(calls[t]) - 1
           /\ \A i \in 1..(Len(calls[t]) - 1) : Below(t)[i] = calls[t][i]
<1>1. calls[t] \in Seq(Frame)
  BY DEF TypeOK, Frame
<1>2. Len(calls[t]) \in Nat \ {0}
  BY <1>1, EmptySeq, LenProperties
<1>3. \A i \in 1..Len(calls[t]) : calls[t][i] \in Frame
  BY <1>1, ElementOfSeq
<1>4. \A i \in 1..(Len(calls[t]) - 1) : calls[t][1 + i - 1] = calls[t][i]
  OBVIOUS
<1>5. /\ Below(t) \in Seq(Frame) /\ Len(Below(t)) = Len(calls[t]) - 1
      /\ \A i \in 1..(Len(calls[t]) - 1) : Below(t)[i] = calls[t][i]
  BY <1>1, <1>2, <1>3, <1>4, SubSeqProperties DEF Below
<1> QED
  BY <1>1, <1>2, <1>3, <1>5 DEF Top

\* What the step leaves of the stacks: all but the top of one.
CallsKept(t) ==
    /\ calls' \in [Threads -> Seq(Frame)]
    /\ \A u \in Threads \ {t} : calls'[u] = calls[u]
    /\ \A i \in 1..(Len(calls[t]) - 1) : calls'[t][i] = calls[t][i]

ResultsKept(t) ==
    /\ result' \in [Threads -> Results]
    /\ \A u \in Threads \ {t} : result'[u] = result[u]

Kept(t) == CallsKept(t) /\ ResultsKept(t)

LEMMA Becomes ==
    ASSUME TypeOK, NEW t \in Threads, calls[t] # <<>>, NEW new \in Seq(Frame),
           BecomesCalls(t, new)
    PROVE  /\ CallsKept(t)
           /\ Len(calls'[t]) = Len(calls[t]) - 1 + Len(new) /\ Len(calls'[t]) \in Nat
           /\ \A i \in 1..Len(new) : calls'[t][Len(calls[t]) - 1 + i] = new[i]
<1>1. /\ Below(t) \in Seq(Frame) /\ Len(Below(t)) = Len(calls[t]) - 1
      /\ \A i \in 1..(Len(calls[t]) - 1) : Below(t)[i] = calls[t][i]
      /\ Len(calls[t]) \in Nat \ {0}
  BY TopFacts
<1> DEFINE s == Below(t) \o new
<1>2. /\ s \in Seq(Frame) /\ Len(s) = Len(Below(t)) + Len(new) /\ Len(new) \in Nat
      /\ \A i \in 1..(Len(Below(t)) + Len(new)) :
             s[i] = IF i <= Len(Below(t)) THEN Below(t)[i] ELSE new[i - Len(Below(t))]
  BY <1>1, ConcatProperties, LenProperties
<1>3. calls \in [Threads -> Seq(Frame)]
  BY DEF TypeOK, Frame
<1>4. calls' = [calls EXCEPT ![t] = s]
  BY DEF BecomesCalls
<1> HIDE DEF s, Frame, Below
<1>5. calls'[t] = s /\ calls' \in [Threads -> Seq(Frame)]
      /\ \A u \in Threads \ {t} : calls'[u] = calls[u]
  BY <1>2, <1>3, <1>4
<1>6. Len(s) = Len(calls[t]) - 1 + Len(new) /\ Len(s) \in Nat
  BY <1>1, <1>2
<1>7. ASSUME NEW i \in 1..(Len(calls[t]) - 1) PROVE s[i] = calls[t][i]
  <2>1. i \in 1..(Len(Below(t)) + Len(new)) /\ i <= Len(Below(t))
    BY <1>1, <1>2
  <2> QED
    BY <1>1, <1>2, <2>1
<1>8. ASSUME NEW i \in 1..Len(new) PROVE s[Len(calls[t]) - 1 + i] = new[i]
  <2> DEFINE k == Len(Below(t))
             m == Len(new)
             l == Len(calls[t])
  <2>1. l \in Nat /\ k = l - 1 /\ k \in Nat /\ m \in Nat /\ i \in 1..m
    BY <1>1, <1>2
  <2>2. \A j \in 1..(k + m) : s[j] = IF j <= k THEN Below(t)[j] ELSE new[j - k]
    BY <1>2
  <2> HIDE DEF k, m, l
  <2>3. k + i \in 1..(k + m) /\ ~(k + i <= k) /\ (k + i) - k = i /\ l - 1 + i = k + i
    BY <2>1
  <2>4. s[l - 1 + i] = new[i]
    BY <2>2, <2>3
  <2> QED
    BY <2>4 DEF l
<1> QED
  BY <1>5, <1>6, <1>7, <1>8 DEF CallsKept

LEMMA GoesOne ==
    ASSUME TypeOK, NEW t \in Threads, calls[t] # <<>>, NEW a \in Frame,
           Goes(t, <<a>>)
    PROVE  /\ Kept(t) /\ result'[t] = "none" /\ Len(calls'[t]) = Len(calls[t]) /\ calls'[t][Len(calls[t])] = a
<1>1. <<a>> \in Seq(Frame) /\ Len(<<a>>) = 1 /\ <<a>>[1] = a
  OBVIOUS
<1>2. Len(calls[t]) \in Nat
  BY TopFacts
<1>r. ResultsKept(t) /\ result'[t] = "none"
  BY DEF Goes, TypeOK, Results, ResultsKept
<1> HIDE DEF Frame
<1>3. /\ CallsKept(t) /\ Len(calls'[t]) = Len(calls[t]) - 1 + 1
      /\ \A i \in 1..1 : calls'[t][Len(calls[t]) - 1 + i] = <<a>>[i]
  BY <1>1, Becomes DEF Goes
<1> QED
  BY <1>r, <1>1, <1>2, <1>3 DEF Kept

LEMMA GoesTwo ==
    ASSUME TypeOK, NEW t \in Threads, calls[t] # <<>>, NEW a \in Frame, NEW b \in Frame,
           Goes(t, <<a, b>>)
    PROVE  /\ Kept(t) /\ result'[t] = "none" /\ Len(calls'[t]) = Len(calls[t]) + 1
           /\ calls'[t][Len(calls[t])] = a /\ calls'[t][Len(calls[t]) + 1] = b
<1>1. <<a, b>> \in Seq(Frame) /\ Len(<<a, b>>) = 2 /\ <<a, b>>[1] = a /\ <<a, b>>[2] = b
  OBVIOUS
<1>2. Len(calls[t]) \in Nat
  BY TopFacts
<1>r. ResultsKept(t) /\ result'[t] = "none"
  BY DEF Goes, TypeOK, Results, ResultsKept
<1> HIDE DEF Frame
<1>3. /\ CallsKept(t) /\ Len(calls'[t]) = Len(calls[t]) - 1 + 2
      /\ \A i \in 1..2 : calls'[t][Len(calls[t]) - 1 + i] = <<a, b>>[i]
  BY <1>1, Becomes DEF Goes
<1>4. /\ calls'[t][Len(calls[t]) - 1 + 1] = <<a, b>>[1]
      /\ calls'[t][Len(calls[t]) - 1 + 2] = <<a, b>>[2]
  BY <1>3
<1> QED
  BY <1>r, <1>1, <1>2, <1>3, <1>4 DEF Kept

LEMMA Pops ==
    ASSUME TypeOK, NEW t \in Threads, calls[t] # <<>>, NEW r \in Results, Returns(t, r)
    PROVE  /\ Kept(t) /\ Len(calls'[t]) = Len(calls[t]) - 1
           /\ result'[t] = IF Len(calls[t]) > 1 /\ calls[t][Len(calls[t]) - 1].do \in Waits
                           THEN r ELSE "none"
<1>1. /\ Below(t) \in Seq(Frame) /\ Len(Below(t)) = Len(calls[t]) - 1
      /\ \A i \in 1..(Len(calls[t]) - 1) : Below(t)[i] = calls[t][i]
      /\ Len(calls[t]) \in Nat \ {0}
  BY TopFacts
<1>2. calls \in [Threads -> Seq(Frame)] /\ result \in [Threads -> Results]
  BY DEF TypeOK, Frame, Results
<1>3. Below(t) # <<>> <=> Len(calls[t]) > 1
  BY <1>1, EmptySeq
<1>4. Below(t) # <<>> => Below(t)[Len(calls[t]) - 1] = calls[t][Len(calls[t]) - 1]
  BY <1>1, <1>3
<1>5. /\ calls' = [calls EXCEPT ![t] = Below(t)]
      /\ result' = [result EXCEPT ![t] =
            IF Below(t) # <<>> /\ Below(t)[Len(calls[t]) - 1].do \in Waits THEN r ELSE "none"]
  BY DEF Returns
<1> HIDE DEF Frame, Below
<1>6. CallsKept(t) /\ calls'[t] = Below(t)
  BY <1>1, <1>2, <1>5 DEF CallsKept
<1>7. ResultsKept(t)
  BY <1>2, <1>5 DEF ResultsKept, Results
<1>8. result'[t] = IF Below(t) # <<>> /\ Below(t)[Len(calls[t]) - 1].do \in Waits THEN r ELSE "none"
  BY <1>2, <1>5
<1> QED
  BY <1>1, <1>3, <1>4, <1>6, <1>7, <1>8 DEF Kept

LEMMA Pushes ==
    ASSUME TypeOK, NEW t \in Threads, NEW a \in Frame, calls' = [calls EXCEPT ![t] = Append(@, a)]
    PROVE  /\ calls' \in [Threads -> Seq(Frame)]
           /\ \A u \in Threads \ {t} : calls'[u] = calls[u]
           /\ Len(calls[t]) \in Nat /\ Len(calls'[t]) = Len(calls[t]) + 1
           /\ \A i \in 1..Len(calls[t]) : calls'[t][i] = calls[t][i]
           /\ calls'[t][Len(calls[t]) + 1] = a
<1>1. calls \in [Threads -> Seq(Frame)]
  BY DEF TypeOK, Frame
<1> HIDE DEF Frame
<1> DEFINE s == Append(calls[t], a)
<1>2. /\ s \in Seq(Frame) /\ Len(s) = Len(calls[t]) + 1 /\ s[Len(calls[t]) + 1] = a
      /\ \A i \in 1..Len(calls[t]) : s[i] = calls[t][i]
      /\ Len(calls[t]) \in Nat
  BY <1>1, AppendProperties, LenProperties
<1>3. calls' = [calls EXCEPT ![t] = s]
  OBVIOUS
<1> HIDE DEF s
<1> QED
  BY <1>1, <1>2, <1>3

-----------------------------------------------------------------------------
(***************************************************************************)
(* The chains of delegations: f gives what each generator delegates to.    *)
(***************************************************************************)
Follow(f, g) ==
    {h \in Generators : \A S \in SUBSET Generators :
        g \in S /\ (\A x \in S : f[x] \in S \cup {None}) => h \in S}

Acyclic(f) == \A g \in Generators : f[g] # None => g \notin Follow(f, f[g])

Delegations == [Generators -> Generators \cup {None}]

LEMMA FollowSelf ==
    ASSUME NEW f, NEW g \in Generators
    PROVE  g \in Follow(f, g)
BY DEF Follow

LEMMA FollowNext ==
    ASSUME NEW f, NEW g, NEW x \in Follow(f, g), f[x] \in Generators
    PROVE  f[x] \in Follow(f, g)
BY GeneratorsAssumption DEF Follow

LEMMA FollowLeast ==
    ASSUME NEW f, NEW g, NEW S \in SUBSET Generators, g \in S,
           \A x \in S : f[x] \in S \cup {None}
    PROVE  Follow(f, g) \subseteq S
BY DEF Follow

LEMMA FollowClosed ==
    ASSUME NEW f \in Delegations, NEW g
    PROVE  /\ Follow(f, g) \in SUBSET Generators
           /\ \A x \in Follow(f, g) : f[x] \in Follow(f, g) \cup {None}
<1>1. Follow(f, g) \in SUBSET Generators
  BY DEF Follow
<1> QED
  BY <1>1, FollowNext DEF Delegations

LEMMA FollowTransitive ==
    ASSUME NEW f \in Delegations, NEW g, NEW h \in Follow(f, g)
    PROVE  Follow(f, h) \subseteq Follow(f, g)
BY FollowClosed, FollowLeast

LEMMA FollowNone ==
    ASSUME NEW f, NEW g \in Generators, f[g] = None
    PROVE  Follow(f, g) = {g}
<1>1. {g} \in SUBSET Generators /\ g \in {g} /\ \A x \in {g} : f[x] \in {g} \cup {None}
  OBVIOUS
<1>2. Follow(f, g) \subseteq {g}
  BY <1>1, FollowLeast
<1> QED
  BY <1>2, FollowSelf

LEMMA FollowStep ==
    ASSUME NEW f \in Delegations, NEW g \in Generators, f[g] \in Generators
    PROVE  /\ Follow(f, g) \subseteq {g} \cup Follow(f, f[g])
           /\ Follow(f, f[g]) \subseteq Follow(f, g)
<1> DEFINE S == {g} \cup Follow(f, f[g])
<1>1. S \in SUBSET Generators
  BY FollowClosed
<1>2. \A x \in S : f[x] \in S \cup {None}
  BY FollowClosed, FollowSelf
<1>3. g \in S
  OBVIOUS
<1>4. Follow(f, g) \subseteq S
  <2> HIDE DEF S
  <2> QED
    BY <1>1, <1>2, <1>3, FollowLeast
<1>5. f[g] \in Follow(f, g)
  BY FollowSelf, FollowNext
<1> QED
  BY <1>4, <1>5, FollowTransitive

\* Another function that differs for g only gives the same chains without g.
LEMMA FollowWithout ==
    ASSUME NEW f \in Delegations, NEW e \in Delegations, NEW g, NEW h \in Generators,
           \A x \in Generators \ {g} : e[x] = f[x], g \notin Follow(f, h)
    PROVE  Follow(e, h) \subseteq Follow(f, h)
<1>1. Follow(f, h) \in SUBSET Generators /\ h \in Follow(f, h)
  BY FollowClosed, FollowSelf
<1>2. \A x \in Follow(f, h) : e[x] \in Follow(f, h) \cup {None}
  BY <1>1, FollowClosed
<1> QED
  BY <1>1, <1>2, FollowLeast

LEMMA FollowLess ==
    ASSUME NEW f \in Delegations, NEW e \in Delegations, NEW g, NEW h \in Generators,
           \A x \in Generators \ {g} : e[x] = f[x], g \in Generators => e[g] = None
    PROVE  Follow(e, h) \subseteq Follow(f, h)
<1>1. Follow(f, h) \in SUBSET Generators /\ h \in Follow(f, h)
  BY FollowClosed, FollowSelf
<1>2. \A x \in Follow(f, h) : e[x] \in Follow(f, h) \cup {None}
  BY <1>1, FollowClosed
<1> QED
  BY <1>1, <1>2, FollowLeast

LEMMA AcyclicLess ==
    ASSUME NEW f \in Delegations, Acyclic(f), NEW e \in Delegations, NEW g,
           \A x \in Generators \ {g} : e[x] = f[x], g \in Generators => e[g] = None
    PROVE  Acyclic(e)
<1> SUFFICES ASSUME NEW x \in Generators, e[x] # None PROVE x \notin Follow(e, e[x])
  BY DEF Acyclic
<1>1. e[x] = f[x] /\ f[x] \in Generators
  BY DEF Delegations
<1>2. Follow(e, e[x]) \subseteq Follow(f, e[x])
  BY <1>1, FollowLess
<1> QED
  BY <1>1, <1>2 DEF Acyclic

LEMMA AcyclicMore ==
    ASSUME NEW f \in Delegations, Acyclic(f), NEW e \in Delegations, NEW g \in Generators,
           \A x \in Generators \ {g} : e[x] = f[x], e[g] \in Generators,
           g \notin Follow(f, e[g])
    PROVE  Acyclic(e)
<1> SUFFICES ASSUME NEW x \in Generators, e[x] # None, x \in Follow(e, e[x]) PROVE FALSE
  BY DEF Acyclic
<1>1. e[x] \in Generators
  BY DEF Delegations
<1>2. x # g
  BY <1>1, FollowWithout
<1>3. e[x] = f[x] /\ x \notin Follow(f, f[x])
  BY <1>1, <1>2 DEF Acyclic
<1>4. g \in Follow(f, f[x])
  BY <1>1, <1>3, FollowWithout
<1> DEFINE S == Follow(f, f[x]) \cup Follow(f, e[g])
<1>5. S \in SUBSET Generators /\ e[x] \in S
  BY <1>1, <1>3, FollowClosed, FollowSelf
<1>6. \A y \in S : e[y] \in S \cup {None}
  <2> TAKE y \in S
  <2>1. CASE y = g
    BY <2>1, FollowSelf
  <2>2. CASE y # g
    <3>1. e[y] = f[y]
      BY <2>2, <1>5
    <3> QED
      BY <3>1, FollowClosed
  <2> QED
    BY <2>1, <2>2
<1>7. x \in Follow(f, e[g])
  <2> HIDE DEF S
  <2>1. Follow(e, e[x]) \subseteq S
    BY <1>5, <1>6, FollowLeast
  <2> QED
    BY <2>1, <1>3 DEF S
<1>8. f[x] \in Follow(f, e[g])
  BY <1>1, <1>3, <1>7, FollowNext
<1> QED
  BY <1>4, <1>8, FollowTransitive

-----------------------------------------------------------------------------
(***************************************************************************)
(* Types.                                                                  *)
(***************************************************************************)
LEMMA CallIsFrame ==
    ASSUME NEW do \in Functions, NEW g \in Generators, NEW exc \in Kinds
    PROVE  Call(do, g, exc) \in Frame
BY DEF Call, Frame

LEMMA WaitIsFrame ==
    ASSUME NEW do \in Waits, NEW g \in Generators, NEW exc \in Kinds,
           NEW h \in Generators \cup {None}
    PROVE  Wait(do, g, exc, h) \in Frame
BY DEF Wait, Frame

LEMMA PassToIsFrame ==
    ASSUME NEW h \in Generators, NEW exc \in Kinds
    PROVE  PassTo(h, exc) \in Frame
BY CallIsFrame DEF PassTo, Functions, Kinds

ObjectType ==
    /\ status \in [Generators -> {"Unused", "Running", "Finished"}]
    /\ running \in [Generators -> BOOLEAN]
    /\ yieldFrom \in Delegations
    /\ awaits \in Delegations

LEMMA TypeParts ==
    TypeOK <=> /\ ObjectType /\ calls \in [Threads -> Seq(Frame)]
               /\ result \in [Threads -> Results] /\ closed \subseteq Generators
BY DEF TypeOK, ObjectType, Delegations, Frame, Results

\* The call that acts.
LEMMA InFacts ==
    ASSUME TypeOK, NEW t \in Threads, NEW do, In(t, do)
    PROVE  /\ calls[t] # <<>> /\ Top(t).do = do /\ Top(t) \in Frame /\ Turn(t)
           /\ Top(t).gen \in Generators /\ Top(t).exc \in Kinds
           /\ Top(t).to \in Generators \cup {None}
BY TopFacts DEF In, Frame

LEMMA Marks ==
    ASSUME TypeOK, NEW g \in Generators
    PROVE  /\ MarkAsRunning(g) => running' \in [Generators -> BOOLEAN]
           /\ MarkAsNotRunning(g) => running' \in [Generators -> BOOLEAN]
BY DEF TypeOK, MarkAsRunning, MarkAsNotRunning

LEMMA OutcomeIsKind ==
    ASSUME NEW w, NEW r \in {"return", "exit", "error"}
    PROVE  Outcome(w, r) \in Kinds
BY DEF Outcome, Kinds

LEMMA KeptType ==
    ASSUME NEW t, Kept(t), ObjectType', closed' \subseteq Generators
    PROVE  TypeOK'
BY DEF Kept, CallsKept, ResultsKept, TypeOK, ObjectType, Delegations, Frame, Results

LEMMA TypeStep ==
    ASSUME TypeOK, Next
    PROVE  TypeOK'
<1> USE TypeParts
<1>0. PICK t \in Threads :
        \/ \E g \in Generators : CallSend(t, g) \/ CallClose(t, g) \/ BodyDelegates(t, g)
        \/ \E g \in Generators, exc \in {"exit", "error"} : CallThrow(t, g, exc)
        \/ BodyYields(t)
        \/ \E r \in {"return", "exit", "error"} : BodyEnds(t, r)
        \/ SendToFinished(t) \/ SendToRunning(t) \/ SendToBody(t) \/ SendToDelegate(t)
        \/ DelegateYields(t) \/ DelegateEnds(t)
        \/ ThrowToDelegate(t) \/ ThrowToBody(t)
        \/ ClosingReturns(t) \/ ThrowingYields(t) \/ ThrowingEnds(t)
        \/ Close(t) \/ CloseReturns(t)
  BY DEF Next
<1>1. ASSUME NEW call \in Frame, Calls(t, call) PROVE TypeOK'
  <2>1. calls' \in [Threads -> Seq(Frame)]
    BY <1>1, Pushes DEF Calls
  <2> QED
    BY <1>1, <2>1 DEF Calls, object, TypeOK, Frame
<1> DEFINE g == Top(t).gen
<1>2. CASE \E h \in Generators : CallSend(t, h)
  BY <1>1, <1>2, CallIsFrame DEF CallSend, Functions, Kinds
<1>3. CASE \E h \in Generators : CallClose(t, h)
  BY <1>1, <1>3, CallIsFrame DEF CallClose, Functions, Kinds
<1>4. CASE \E h \in Generators, exc \in {"exit", "error"} : CallThrow(t, h, exc)
  BY <1>1, <1>4, CallIsFrame DEF CallThrow, Functions, Kinds
<1>5. ASSUME NEW h \in Generators, BodyDelegates(t, h) PROVE TypeOK'
  <2>1. In(t, "body")
    BY <1>5 DEF BodyDelegates
  <2>2. /\ Wait("delegate", g, "none", h) \in Frame /\ Call("send", h, "none") \in Frame
        /\ calls[t] # <<>> /\ g \in Generators
    BY <2>1, InFacts, WaitIsFrame, CallIsFrame DEF Waits, Functions, Kinds
  <2>3. Kept(t)
    BY <1>5, <2>2, GoesTwo DEF BodyDelegates
  <2> QED
    BY <1>5, <2>2, <2>3, KeptType DEF BodyDelegates, ObjectType, Delegations
<1>6. CASE BodyYields(t)
  <2>1. In(t, "body")
    BY <1>6 DEF BodyYields
  <2>2. g \in Generators /\ Kept(t)
    BY <1>6, <2>1, InFacts, Pops DEF BodyYields, Results
  <2> QED
    BY <1>6, <2>2, Marks, KeptType DEF BodyYields, ObjectType
<1>7. ASSUME NEW r \in {"return", "exit", "error"}, BodyEnds(t, r) PROVE TypeOK'
  <2>1. In(t, "body")
    BY <1>7 DEF BodyEnds
  <2>2. g \in Generators /\ Kept(t)
    BY <1>7, <2>1, InFacts, Pops DEF BodyEnds, Results
  <2> QED
    BY <1>7, <2>2, Marks, KeptType DEF BodyEnds, ObjectType
<1>8. CASE SendToFinished(t)
  <2>1. In(t, "send") \/ In(t, "resume")
    BY <1>8 DEF SendToFinished, Sends
  <2> DEFINE r == IF Top(t).do = "resume" /\ Top(t).exc # "none" THEN Top(t).exc ELSE "return"
  <2>2. calls[t] # <<>> /\ r \in Results
    BY <2>1, InFacts DEF Results, Kinds
  <2>3. Kept(t)
    BY <1>8, <2>2, Pops DEF SendToFinished
  <2> QED
    BY <1>8, <2>3, KeptType DEF SendToFinished, ObjectType, object
<1>9. CASE SendToRunning(t)
  <2>1. In(t, "send") \/ In(t, "resume")
    BY <1>9 DEF SendToRunning, Sends
  <2>2. Kept(t)
    BY <1>9, <2>1, InFacts, Pops DEF SendToRunning, Results
  <2> QED
    BY <1>9, <2>2, KeptType DEF SendToRunning, ObjectType, object
<1>10. ASSUME NEW exc \in Kinds, calls[t] # <<>>, EntersBody(t, exc)
       PROVE  Kept(t) /\ awaits' \in Delegations
  <2>1. Call("body", g, exc) \in Frame
    BY <1>10, TopFacts, CallIsFrame DEF Frame, Functions
  <2> QED
    BY <1>10, <2>1, GoesOne DEF EntersBody, ObjectType, Delegations
<1>11. CASE SendToBody(t)
  <2>1. In(t, "send") \/ In(t, "resume")
    BY <1>11 DEF SendToBody, Sends
  <2>2. g \in Generators /\ Top(t).exc \in Kinds /\ calls[t] # <<>>
    BY <2>1, InFacts
  <2>3. Kept(t) /\ awaits' \in Delegations
    BY <1>10, <1>11, <2>2 DEF SendToBody
  <2> QED
    BY <1>11, <2>2, <2>3, Marks, KeptType DEF SendToBody, ObjectType
<1>12. CASE SendToDelegate(t)
  <2>1. In(t, "send") \/ In(t, "resume")
    BY <1>12 DEF SendToDelegate, Sends
  <2>2. g \in Generators /\ Top(t).exc \in Kinds /\ calls[t] # <<>> /\ yieldFrom[g] \in Generators
    BY <1>12, <2>1, InFacts DEF SendToDelegate, ObjectType, Delegations
  <2>3. /\ Wait("delegate", g, Top(t).exc, yieldFrom[g]) \in Frame
        /\ PassTo(yieldFrom[g], Top(t).exc) \in Frame
    BY <2>2, WaitIsFrame, PassToIsFrame DEF Waits
  <2>4. Kept(t)
    BY <1>12, <2>2, <2>3, GoesTwo DEF SendToDelegate
  <2> QED
    BY <1>12, <2>2, <2>4, Marks, KeptType DEF SendToDelegate, ObjectType, Delegations
<1>13. CASE DelegateYields(t)
  <2>1. In(t, "delegate")
    BY <1>13 DEF DelegateYields
  <2>2. g \in Generators /\ Top(t).to \in Generators \cup {None} /\ Kept(t)
    BY <1>13, <2>1, InFacts, Pops DEF DelegateYields, Results
  <2> QED
    BY <1>13, <2>2, Marks, KeptType DEF DelegateYields, ObjectType, Delegations
<1>14. CASE DelegateEnds(t)
  <2>1. In(t, "delegate")
    BY <1>14 DEF DelegateEnds
  <2>2. calls[t] # <<>> /\ Outcome(Top(t), result[t]) \in Kinds
    BY <1>14, <2>1, InFacts, OutcomeIsKind DEF DelegateEnds
  <2>3. Kept(t) /\ awaits' \in Delegations
    BY <1>10, <1>14, <2>2 DEF DelegateEnds
  <2> QED
    BY <1>14, <2>3, KeptType DEF DelegateEnds, ObjectType
<1>15. CASE ThrowToDelegate(t)
  <2>1. In(t, "throw")
    BY <1>15 DEF ThrowToDelegate
  <2>2. g \in Generators /\ calls[t] # <<>> /\ yieldFrom[g] \in Generators
    BY <1>15, <2>1, InFacts DEF ThrowToDelegate, ObjectType, Delegations
  <2>3. /\ Wait("closing", g, "exit", yieldFrom[g]) \in Frame
        /\ Wait("throwing", g, "error", yieldFrom[g]) \in Frame
        /\ Call("close", yieldFrom[g], "none") \in Frame
        /\ Call("throw", yieldFrom[g], "error") \in Frame
    BY <2>2, WaitIsFrame, CallIsFrame DEF Waits, Functions, Kinds
  <2>4. CASE Top(t).exc = "exit"
    <3>1. Goes(t, <<Wait("closing", g, "exit", yieldFrom[g]), Call("close", yieldFrom[g], "none")>>)
      BY <1>15, <2>4 DEF ThrowToDelegate
    <3>2. Kept(t)
      BY <2>2, <2>3, <3>1, GoesTwo
    <3> QED
      BY <1>15, <2>2, <3>2, Marks, KeptType DEF ThrowToDelegate, ObjectType
  <2>5. CASE Top(t).exc # "exit"
    <3>1. Goes(t, <<Wait("throwing", g, "error", yieldFrom[g]), Call("throw", yieldFrom[g], "error")>>)
      BY <1>15, <2>5 DEF ThrowToDelegate
    <3>2. Kept(t)
      BY <2>2, <2>3, <3>1, GoesTwo
    <3> QED
      BY <1>15, <2>2, <3>2, Marks, KeptType DEF ThrowToDelegate, ObjectType
  <2> QED
    BY <2>4, <2>5
<1>16. CASE ThrowToBody(t)
  <2>1. In(t, "throw")
    BY <1>16 DEF ThrowToBody
  <2>2. /\ g \in Generators /\ calls[t] # <<>> /\ Call("send", g, Top(t).exc) \in Frame
        /\ Top(t).exc \in Results
    BY <2>1, InFacts, CallIsFrame DEF Functions, Kinds, Results
  <2>3. CASE Goes(t, <<Call("send", g, Top(t).exc)>>) /\ UNCHANGED status
    <3>1. Kept(t)
      BY <2>2, <2>3, GoesOne
    <3> QED
      BY <1>16, <2>3, <3>1, KeptType DEF ThrowToBody, ObjectType
  <2>4. CASE Returns(t, Top(t).exc) /\ status' = [status EXCEPT ![g] = "Finished"]
    <3>1. Kept(t)
      BY <2>2, <2>4, Pops
    <3> QED
      BY <1>16, <2>2, <2>4, <3>1, KeptType DEF ThrowToBody, ObjectType
  <2> QED
    BY <1>16, <2>3, <2>4 DEF ThrowToBody
<1>17. CASE ClosingReturns(t)
  <2>1. In(t, "closing")
    BY <1>17 DEF ClosingReturns
  <2>2. /\ g \in Generators /\ calls[t] # <<>>
        /\ Call("send", g, IF result[t] = "error" THEN "error" ELSE "exit") \in Frame
    BY <2>1, InFacts, CallIsFrame DEF Functions, Kinds
  <2>3. Kept(t)
    BY <1>17, <2>2, GoesOne DEF ClosingReturns
  <2> QED
    BY <1>17, <2>2, <2>3, Marks, KeptType DEF ClosingReturns, ObjectType
<1>18. CASE ThrowingYields(t)
  <2>1. In(t, "throwing")
    BY <1>18 DEF ThrowingYields
  <2>2. g \in Generators /\ Kept(t)
    BY <1>18, <2>1, InFacts, Pops DEF ThrowingYields, Results
  <2> QED
    BY <1>18, <2>2, Marks, KeptType DEF ThrowingYields, ObjectType
<1>19. CASE ThrowingEnds(t)
  <2>1. In(t, "throwing")
    BY <1>19 DEF ThrowingEnds
  <2>2. /\ g \in Generators /\ calls[t] # <<>>
        /\ Call("resume", g, IF result[t] = "return" THEN "none" ELSE result[t]) \in Frame
    BY <1>19, <2>1, InFacts, CallIsFrame DEF ThrowingEnds, Functions, Kinds
  <2>3. Kept(t)
    BY <1>19, <2>2, GoesOne DEF ThrowingEnds
  <2> QED
    BY <1>19, <2>2, <2>3, Marks, KeptType DEF ThrowingEnds, ObjectType, Delegations
<1>20. CASE Close(t)
  <2>1. In(t, "close")
    BY <1>20 DEF Close
  <2>2. /\ g \in Generators /\ calls[t] # <<>>
        /\ Wait("closed", g, "exit", None) \in Frame /\ Call("send", g, "exit") \in Frame
    BY <2>1, InFacts, WaitIsFrame, CallIsFrame DEF Waits, Functions, Kinds
  <2>3. Kept(t) /\ closed' \subseteq Generators
    <3>1. CASE Goes(t, <<Wait("closed", g, "exit", None), Call("send", g, "exit")>>) /\ UNCHANGED closed
      BY <2>2, <3>1, GoesTwo
    <3>2. CASE closed' \in {closed, closed \cup {g}} /\ Returns(t, "return")
      BY <2>2, <3>2, Pops DEF Results
    <3> QED
      BY <1>20, <3>1, <3>2 DEF Close
  <2> QED
    BY <1>20, <2>3, KeptType DEF Close, ObjectType, object
<1>21. CASE CloseReturns(t)
  <2>1. In(t, "closed")
    BY <1>21 DEF CloseReturns
  <2>2. g \in Generators /\ calls[t] # <<>>
    BY <2>1, InFacts
  <2>3. (IF CloseFails(result[t]) THEN "error" ELSE "return") \in Results
    BY DEF Results
  <2>4. Kept(t)
    BY <1>21, <2>2, <2>3, Pops DEF CloseReturns
  <2> QED
    BY <1>21, <2>2, <2>4, KeptType DEF CloseReturns, ObjectType, object
<1> QED
  BY <1>0, <1>2, <1>3, <1>4, <1>5, <1>6, <1>7, <1>8, <1>9, <1>11, <1>12, <1>13, <1>14,
     <1>15, <1>16, <1>17, <1>18, <1>19, <1>20, <1>21

(***************************************************************************)
(* Every variable keeps its type, with any throws.                         *)
(***************************************************************************)
THEOREM TypeCorrect == Spec => []TypeOK
<1>1. Init => TypeOK
  BY GeneratorsAssumption, EmptySeq DEF Init, TypeOK
<1>2. TypeOK /\ [Next]_vars => TypeOK'
  BY TypeStep DEF vars, object, TypeOK
<1> QED
  BY <1>1, <1>2, PTL DEF Spec

-----------------------------------------------------------------------------
(***************************************************************************)
(* The inductive invariant.                                                *)
(***************************************************************************)
Runs(t, i, g) == i \in 1..Len(calls[t]) /\ IsActivation(calls[t][i]) /\ calls[t][i].gen = g

\* A generator runs in one call, and is marked as running for that long.
RunningInv ==
    /\ \A t \in Threads, g \in Generators : \A i \in 1..Len(calls[t]) :
           Runs(t, i, g) => running[g]
    /\ \A g \in Generators : running[g] =>
           \E t \in Threads : \E i \in 1..Len(calls[t]) : Runs(t, i, g)
    /\ \A t, u \in Threads, g \in Generators :
           \A i \in 1..Len(calls[t]), j \in 1..Len(calls[u]) :
               Runs(t, i, g) /\ Runs(u, j, g) => t = u /\ i = j

\* The generator that the function is called on which is waited for.
Target(c) == IF c.do = "closed" THEN c.gen ELSE c.to

\* What a call may wait for.
Supports(c, next) ==
    /\ c.do \in {"body"} \cup Waits
    /\ c.do \in Waits => next.gen = Target(c)
    /\ c.do = "closed" => next.do \in {"send", "body", "delegate"}
    /\ c.do = "closing" => next.do \in {"close", "closed"}

FrameInv(c) ==
    /\ IsActivation(c) => status[c.gen] = "Running"
    /\ c.do = "closed" => status[c.gen] # "Unused"
    /\ c.do = "body" => yieldFrom[c.gen] = None /\ awaits[c.gen] = None
    /\ c.do = "delegate" =>
           c.to \in Generators /\ yieldFrom[c.gen] = None /\ awaits[c.gen] = c.to
    /\ c.do \in {"throwing", "closing"} =>
           c.to \in Generators /\ yieldFrom[c.gen] = c.to /\ awaits[c.gen] = c.to

StackInv(t) ==
    /\ \A i \in 1..Len(calls[t]) : FrameInv(calls[t][i])
    /\ \A i \in 1..(Len(calls[t]) - 1) : Supports(calls[t][i], calls[t][i + 1])

\* The generator is about to be resumed behind its delegate.
Resuming(t, g) == calls[t] # <<>> /\ Top(t).do = "resume" /\ Top(t).gen = g

ObjectInv(g) ==
    /\ status[g] # "Running" => yieldFrom[g] = None /\ awaits[g] = None
    /\ yieldFrom[g] = awaits[g] \/ running[g] \/ \E t \in Threads : Resuming(t, g)

\* Nothing in the chain of g passes an exception on.
Clean(g) == \A x \in Follow(yieldFrom, g) : running[x] => yieldFrom[x] = None

\* Nothing in the chain of g runs.
Quiet(g) == \A x \in Follow(yieldFrom, g) : ~running[x]

\* The call is a step of the closing of a delegate.
ForClosing(t, i) == i > 1 /\ calls[t][i - 1].do = "closing"

CalledInv(t) ==
    LET n == Len(calls[t])
        c == Top(t)
    IN  /\ c.do = "resume" =>
              /\ status[c.gen] = "Running" /\ ~running[c.gen] /\ yieldFrom[c.gen] = None
              /\ c.exc # "error" /\ awaits[c.gen] # None => status[awaits[c.gen]] # "Running"
        /\ c.do = "throw" \/ (c.do = "send" /\ c.exc = "error") => Clean(c.gen)
        /\ c.do = "close" /\ ForClosing(t, n) => Clean(c.gen)
        /\ c.do = "send" /\ n > 1 /\ calls[t][n - 1].do = "closed" /\ ForClosing(t, n - 1) =>
              Clean(c.gen)

ResultInv(t) ==
    LET n == Len(calls[t])
        c == Top(t)
    IN  /\ c.do = "closed" /\ ForClosing(t, n) /\ result[t] = "error" => Clean(c.gen)
        /\ c.do = "closing" /\ result[t] = "error" => Clean(c.to)
        /\ c.do \in {"delegate", "throwing", "closed"} /\ result[t] = "yield" => Quiet(Target(c))
        /\ c.do \in Waits /\ result[t] \in {"return", "exit"} => status[Target(c)] # "Running"

TopInv(t) == calls[t] # <<>> => CalledInv(t) /\ ResultInv(t)

OneActs == \A t, u \in Threads : t = u \/ AtPython(t) \/ AtPython(u)

IInv ==
    /\ TypeOK /\ OneActs /\ RunningInv /\ Acyclic(yieldFrom)
    /\ \A t \in Threads : StackInv(t) /\ TopInv(t)
    /\ \A g \in Generators : ObjectInv(g)

-----------------------------------------------------------------------------
(***************************************************************************)
(* What a step leaves alone.                                               *)
(***************************************************************************)
OnlyAt(g) ==
    /\ \A x \in Generators \ {g} :
           /\ status'[x] = status[x] /\ running'[x] = running[x]
           /\ yieldFrom'[x] = yieldFrom[x] /\ awaits'[x] = awaits[x]
    /\ status[g] # "Unused" => status'[g] # "Unused"

\* No call but the one on top is one in which its generator runs.
Alone(t) == \A u \in Threads : \A i \in 1..Len(calls[u]) :
    Runs(u, i, Top(t).gen) => u = t /\ i = Len(calls[t])

LEMMA CallFacts ==
    ASSUME TypeOK, NEW t \in Threads, NEW i \in 1..Len(calls[t])
    PROVE  calls[t][i] \in Frame /\ calls[t][i].gen \in Generators /\ calls[t] # <<>>
<1>1. calls[t] \in Seq(Frame)
  BY TypeParts
<1>2. calls[t][i] \in Frame
  BY <1>1, ElementOfSeq
<1>3. calls[t] # <<>>
  BY EmptySeq
<1> QED
  BY <1>2, <1>3 DEF Frame

LEMMA IsAlone ==
    ASSUME IInv, NEW t \in Threads, calls[t] # <<>>,
           \/ IsActivation(Top(t))
           \/ ~running[Top(t).gen]
           \/ status[Top(t).gen] # "Running"
    PROVE  Alone(t)
<1>1. /\ Len(calls[t]) \in 1..Len(calls[t]) /\ Top(t) = calls[t][Len(calls[t])]
      /\ Top(t).gen \in Generators
  BY TopFacts DEF IInv, Frame
<1> SUFFICES ASSUME NEW u \in Threads, NEW i \in 1..Len(calls[u]), Runs(u, i, Top(t).gen)
             PROVE  u = t /\ i = Len(calls[t])
  BY DEF Alone
<1>2. running[Top(t).gen]
  BY <1>1 DEF IInv, RunningInv
<1>3. FrameInv(calls[u][i]) /\ IsActivation(calls[u][i]) /\ calls[u][i].gen = Top(t).gen
  BY DEF IInv, StackInv, Runs
<1>4. status[Top(t).gen] = "Running"
  BY <1>3 DEF FrameInv
<1>5. IsActivation(Top(t))
  BY <1>2, <1>4
<1>6. Runs(t, Len(calls[t]), Top(t).gen)
  BY <1>1, <1>5 DEF Runs
<1> QED
  BY <1>1, <1>6 DEF IInv, RunningInv

\* The frames that are not the one on top.
LEMMA OthersKeep ==
    ASSUME IInv, NEW t \in Threads, calls[t] # <<>>, Kept(t), OnlyAt(Top(t).gen),
           Alone(t) \/ UNCHANGED object,
           NEW u \in Threads, NEW i \in 1..Len(calls[u]), u # t \/ i < Len(calls[t])
    PROVE  calls'[u][i] = calls[u][i] /\ FrameInv(calls[u][i])'
<1>1. calls'[u][i] = calls[u][i]
  <2>1. CASE u # t
    BY <2>1 DEF Kept, CallsKept
  <2>2. CASE u = t
    <3>1. i \in 1..(Len(calls[t]) - 1)
      BY <2>2, TopFacts DEF IInv
    <3> QED
      BY <2>2, <3>1 DEF Kept, CallsKept
  <2> QED
    BY <2>1, <2>2
<1>2. PICK c : c = calls[u][i]
  OBVIOUS
<1>3. FrameInv(c) /\ c.gen \in Generators
  BY <1>2, CallFacts DEF IInv, StackInv
<1>4. CASE UNCHANGED object
  BY <1>1, <1>2, <1>3, <1>4 DEF FrameInv, object
<1>5. CASE Alone(t) /\ c.gen = Top(t).gen
  <2>1. ~IsActivation(c)
    BY <1>2, <1>5 DEF Alone, Runs
  <2> QED
    BY <1>1, <1>2, <1>3, <1>5, <2>1 DEF FrameInv, IsActivation, OnlyAt
<1>6. CASE c.gen # Top(t).gen
  BY <1>1, <1>2, <1>3, <1>6 DEF FrameInv, OnlyAt
<1> QED
  BY <1>4, <1>5, <1>6

LEMMA OtherStacks ==
    ASSUME IInv, NEW t \in Threads, calls[t] # <<>>, Kept(t), OnlyAt(Top(t).gen),
           Alone(t) \/ UNCHANGED object,
           NEW u \in Threads, u # t
    PROVE  StackInv(u)'
<1>1. calls'[u] = calls[u]
  BY DEF Kept, CallsKept
<1>2. \A i \in 1..Len(calls[u]) : FrameInv(calls[u][i])'
  BY OthersKeep
<1>3. StackInv(u)
  BY DEF IInv
<1> QED
  BY <1>1, <1>2, <1>3 DEF StackInv, Supports, Target

LEMMA AtPythonTop ==
    ASSUME NEW t, AtPython(t), calls[t] \in Seq(Frame)
    PROVE  TopInv(t) /\ \A g : ~Resuming(t, g)
<1>1. calls[t] # <<>> => Top(t).do = "body"
  BY EmptySeq, LenProperties DEF AtPython, Top
<1> QED
  BY <1>1 DEF TopInv, CalledInv, ResultInv, Waits, Resuming

LEMMA OtherTops ==
    ASSUME TypeOK, NEW t \in Threads, Turn(t), TypeOK',
           NEW u \in Threads, u # t, calls'[u] = calls[u]
    PROVE  AtPython(u)' /\ TopInv(u)' /\ \A g : ~Resuming(u, g) /\ ~Resuming(u, g)'
<1>1. AtPython(u) /\ calls[u] \in Seq(Frame)
  BY TypeParts DEF Turn
<1>2. calls'[u] # <<>> => Top(u)'.do = "body"
  BY <1>1, EmptySeq, LenProperties DEF AtPython, Top
<1>3. TopInv(u)' /\ \A g : ~Resuming(u, g)'
  BY <1>2 DEF TopInv, CalledInv, ResultInv, Waits, Resuming
<1>4. \A g : ~Resuming(u, g)
  BY <1>1, AtPythonTop
<1> QED
  BY <1>1, <1>3, <1>4 DEF AtPython

\* It is enough to look at the thread that acts and at its generator.
LEMMA TheRest ==
    ASSUME IInv, NEW t \in Threads, calls[t] # <<>>, Turn(t), Kept(t), TypeOK',
           NEW g \in Generators, g = Top(t).gen, OnlyAt(g), Alone(t) \/ UNCHANGED object,
           RunningInv', StackInv(t)', TopInv(t)', ObjectInv(g)', Acyclic(yieldFrom)'
    PROVE  IInv'
<1>1. \A u \in Threads \ {t} : calls'[u] = calls[u]
  BY DEF Kept, CallsKept
<1>2. \A u \in Threads \ {t} : /\ AtPython(u)' /\ TopInv(u)' /\ StackInv(u)'
                               /\ \A x : ~Resuming(u, x)
  BY <1>1, OtherTops, OtherStacks DEF IInv
<1>3. OneActs'
  BY <1>2 DEF OneActs
<1>4. ASSUME NEW x \in Generators, x # g PROVE ObjectInv(x)'
  <2>1. \A u \in Threads : ~Resuming(u, x)
    BY <1>2, <1>4 DEF Resuming
  <2>2. /\ status[x] # "Running" => yieldFrom[x] = None /\ awaits[x] = None
        /\ yieldFrom[x] = awaits[x] \/ running[x]
    BY <2>1 DEF IInv, ObjectInv
  <2>3. /\ status'[x] = status[x] /\ running'[x] = running[x]
        /\ yieldFrom'[x] = yieldFrom[x] /\ awaits'[x] = awaits[x]
    BY <1>4 DEF OnlyAt
  <2> QED
    BY <2>2, <2>3 DEF ObjectInv
<1> QED
  BY <1>2, <1>3, <1>4 DEF IInv

-----------------------------------------------------------------------------
(***************************************************************************)
(* The calls in which generators run, after a step of t.                   *)
(***************************************************************************)
LEMMA RunningSame ==
    ASSUME IInv, calls' \in [Threads -> Seq(Frame)], UNCHANGED running,
           \A u \in Threads, i \in Nat, x \in Generators : Runs(u, i, x)' <=> Runs(u, i, x)
    PROVE  RunningInv'
<1>1. \A u \in Threads, x \in Generators : \A i : Runs(u, i, x)' <=> Runs(u, i, x)
  <2>1. \A u \in Threads, x \in Generators : \A i :
            (Runs(u, i, x) => i \in Nat) /\ (Runs(u, i, x)' => i \in Nat)
    <3>1. \A u \in Threads : Len(calls[u]) \in Nat /\ Len(calls'[u]) \in Nat
      BY LenProperties, TypeParts DEF IInv
    <3> QED
      BY <3>1 DEF Runs
  <2> QED
    BY <2>1
<1>2. \A u \in Threads, x \in Generators : \A i :
          (Runs(u, i, x) => i \in 1..Len(calls[u])) /\ (Runs(u, i, x)' => i \in 1..Len(calls'[u]))
  BY DEF Runs
<1>3. RunningInv
  BY DEF IInv
<1> QED
  BY <1>1, <1>2, <1>3 DEF RunningInv

LEMMA RunningKept ==
    ASSUME IInv, NEW t \in Threads, calls[t] # <<>>, CallsKept(t), UNCHANGED running,
           NEW n \in Nat, n = Len(calls[t]), NEW m \in Nat, m = Len(calls'[t]), m + 1 >= n,
           ~IsActivation(calls[t][n]), \A i \in n..m : ~IsActivation(calls'[t][i])
    PROVE  RunningInv'
<1>1. \A u \in Threads \ {t} : calls'[u] = calls[u]
  BY DEF CallsKept
<1>2. \A i \in 1..(n - 1) : calls'[t][i] = calls[t][i]
  BY DEF CallsKept
<1>3. \A u \in Threads, i \in Nat, x \in Generators : Runs(u, i, x)' <=> Runs(u, i, x)
  <2> TAKE u \in Threads, i \in Nat, x \in Generators
  <2>1. CASE u # t
    BY <1>1, <2>1 DEF Runs, IsActivation
  <2>2. CASE u = t /\ i < n
    <3>1. i \in 1..n <=> i \in 1..(n - 1)
      BY <2>2
    <3>2. i \in 1..m <=> i \in 1..(n - 1)
      BY <2>2
    <3> QED
      BY <1>2, <2>2, <3>1, <3>2 DEF Runs, IsActivation
  <2>3. CASE u = t /\ i >= n
    <3>1. i \in 1..n => i = n
      BY <2>3
    <3>2. i \in 1..m => i \in n..m
      BY <2>3
    <3> QED
      BY <2>3, <3>1, <3>2 DEF Runs
  <2> QED
    BY <2>1, <2>2, <2>3
<1> QED
  BY <1>3, RunningSame DEF CallsKept

LEMMA RunningMoves ==
    ASSUME IInv, NEW t \in Threads, calls[t] # <<>>, CallsKept(t), Alone(t),
           NEW n \in Nat, n = Len(calls[t]), NEW m \in Nat, m = Len(calls'[t]), m + 1 >= n,
           NEW g \in Generators, g = Top(t).gen,
           \A x \in Generators \ {g} : running'[x] = running[x],
           \A i \in (n + 1)..m : ~IsActivation(calls'[t][i]),
           n <= m /\ IsActivation(calls'[t][n]) => calls'[t][n].gen = g,
           running'[g] <=> n <= m /\ IsActivation(calls'[t][n])
    PROVE  RunningInv'
<1>1. \A u \in Threads \ {t} : calls'[u] = calls[u]
  BY DEF CallsKept
<1>2. \A i \in 1..(n - 1) : calls'[t][i] = calls[t][i]
  BY DEF CallsKept
<1>3. \A u \in Threads, i \in Nat, x \in Generators :
          Runs(u, i, x)' <=> IF x = g
                             THEN u = t /\ i = n /\ n <= m /\ IsActivation(calls'[t][n])
                             ELSE Runs(u, i, x)
  <2> TAKE u \in Threads, i \in Nat, x \in Generators
  <2>0. Runs(u, i, g) => u = t /\ i = n
    BY DEF Alone, Runs
  <2>n. n \in 1..n /\ n >= 1 /\ calls[t][n].gen = g
    BY TopFacts DEF IInv
  <2>1. CASE u # t
    BY <1>1, <2>0, <2>1 DEF Runs, IsActivation
  <2>2. CASE u = t /\ i < n
    <3>1. i \in 1..n <=> i \in 1..(n - 1)
      BY <2>2
    <3>2. i \in 1..m <=> i \in 1..(n - 1)
      BY <2>2
    <3>3. Runs(u, i, x)' <=> Runs(u, i, x)
      BY <1>2, <2>2, <3>1, <3>2 DEF Runs, IsActivation
    <3>4. i # n
      BY <2>2
    <3> QED
      BY <2>0, <3>3, <3>4
  <2>3. CASE u = t /\ i = n
    <3>1. Runs(u, i, x) => x = g
      BY <2>3, <2>n DEF Runs
    <3>2. n \in 1..m <=> n <= m
      BY <2>n
    <3> QED
      BY <2>3, <3>1, <3>2 DEF Runs, IsActivation
  <2>4. CASE u = t /\ i > n
    <3>1. i \notin 1..n /\ i # n
      BY <2>4
    <3>2. i \in 1..m => i \in (n + 1)..m
      BY <2>4
    <3> QED
      BY <2>4, <3>1, <3>2 DEF Runs
  <2> QED
    BY <2>1, <2>2, <2>3, <2>4
<1>4. \A u \in Threads : Len(calls[u]) \in Nat /\ Len(calls'[u]) \in Nat
  BY LenProperties, TypeParts DEF IInv, CallsKept
<1>5. \A u \in Threads, x \in Generators : \A i :
          /\ Runs(u, i, x) => i \in 1..Len(calls[u]) /\ i \in Nat
          /\ Runs(u, i, x)' => i \in 1..Len(calls'[u]) /\ i \in Nat
  BY <1>4 DEF Runs
<1>6. RunningInv
  BY DEF IInv
<1>7. ASSUME NEW u \in Threads, NEW x \in Generators, NEW i, Runs(u, i, x)' PROVE running'[x]
  <2>1. CASE x = g
    BY <1>3, <1>5, <1>7, <2>1
  <2>2. CASE x # g
    <3>1. Runs(u, i, x)
      BY <1>3, <1>5, <1>7, <2>2
    <3>2. running[x]
      BY <1>5, <1>6, <3>1 DEF RunningInv
    <3> QED
      BY <2>2, <3>2
  <2> QED
    BY <2>1, <2>2
<1>8. ASSUME NEW x \in Generators, running'[x]
      PROVE  \E u \in Threads : \E i \in 1..Len(calls'[u]) : Runs(u, i, x)'
  <2>1. CASE x = g
    <3>1. Runs(t, n, x)'
      BY <1>3, <1>8, <2>1
    <3> QED
      BY <1>5, <3>1
  <2>2. CASE x # g
    <3>1. PICK u \in Threads : \E i \in 1..Len(calls[u]) : Runs(u, i, x)
      BY <1>6, <1>8, <2>2 DEF RunningInv
    <3>2. PICK i \in 1..Len(calls[u]) : Runs(u, i, x)
      BY <3>1
    <3>3. Runs(u, i, x)'
      BY <1>3, <1>5, <2>2, <3>2
    <3> QED
      BY <1>5, <3>3
  <2> QED
    BY <2>1, <2>2
<1>9. ASSUME NEW u \in Threads, NEW v \in Threads, NEW x \in Generators, NEW i, NEW j,
             Runs(u, i, x)', Runs(v, j, x)'
      PROVE  u = v /\ i = j
  <2>1. CASE x = g
    BY <1>3, <1>5, <1>9, <2>1
  <2>2. CASE x # g
    <3>1. Runs(u, i, x) /\ Runs(v, j, x)
      BY <1>3, <1>5, <1>9, <2>2
    <3> QED
      BY <1>5, <1>6, <3>1 DEF RunningInv
  <2> QED
    BY <2>1, <2>2
<1> QED
  BY <1>7, <1>8, <1>9 DEF RunningInv

-----------------------------------------------------------------------------
(***************************************************************************)
(* The stack after a step of t: a call has returned, was replaced by       *)
(* another one of the same generator, or waits for a new one.              *)
(***************************************************************************)
LEMMA BelowTop ==
    ASSUME IInv, NEW t \in Threads, NEW n \in Nat, n = Len(calls[t]), n > 1
    PROVE  /\ calls[t][n - 1] \in Frame /\ Supports(calls[t][n - 1], Top(t))
           /\ n - 1 \in 1..(n - 1) /\ n - 1 \in 1..n /\ calls[t] # <<>>
<1>1. n - 1 \in 1..(n - 1) /\ n - 1 \in 1..n /\ (n - 1) + 1 = n
  OBVIOUS
<1>2. calls[t][n - 1] \in Frame /\ calls[t] # <<>>
  BY <1>1, CallFacts DEF IInv
<1>3. Supports(calls[t][n - 1], calls[t][(n - 1) + 1])
  BY <1>1 DEF IInv, StackInv
<1> QED
  BY <1>1, <1>2, <1>3 DEF Top

LEMMA LowerStack ==
    ASSUME IInv, NEW t \in Threads, calls[t] # <<>>, Kept(t), OnlyAt(Top(t).gen),
           Alone(t) \/ UNCHANGED object, NEW n \in Nat, n = Len(calls[t])
    PROVE  /\ \A i \in 1..(n - 1) : calls'[t][i] = calls[t][i] /\ FrameInv(calls[t][i])'
           /\ \A i \in 1..(n - 2) : Supports(calls'[t][i], calls'[t][i + 1])
<1>1. \A i \in 1..(n - 1) : i \in 1..n /\ i < n
  OBVIOUS
<1>2. \A i \in 1..(n - 1) : calls'[t][i] = calls[t][i] /\ FrameInv(calls[t][i])'
  BY <1>1, OthersKeep
<1>3. \A i \in 1..(n - 2) : i \in 1..(n - 1) /\ i + 1 \in 1..(n - 1)
  OBVIOUS
<1>4. \A i \in 1..(n - 1) : Supports(calls[t][i], calls[t][i + 1])
  BY DEF IInv, StackInv
<1> QED
  BY <1>2, <1>3, <1>4

LEMMA StackPops ==
    ASSUME IInv, NEW t \in Threads, calls[t] # <<>>, Kept(t), OnlyAt(Top(t).gen),
           Alone(t) \/ UNCHANGED object, Len(calls'[t]) = Len(calls[t]) - 1
    PROVE  StackInv(t)'
<1>1. PICK n \in Nat \ {0} : n = Len(calls[t])
  BY TopFacts DEF IInv
<1>2. (n - 1) - 1 = n - 2
  BY <1>1
<1> QED
  BY <1>1, <1>2, LowerStack DEF StackInv

\* A call that may replace c.
Follows(c, a) ==
    /\ a.gen = c.gen
    /\ c.do \in {"send", "body", "delegate"} => a.do \in {"send", "body", "delegate"}
    /\ c.do \in {"close", "closed"} => a.do \in {"close", "closed"}

LEMMA StackOne ==
    ASSUME IInv, NEW t \in Threads, calls[t] # <<>>, Kept(t), OnlyAt(Top(t).gen),
           Alone(t) \/ UNCHANGED object, NEW n \in Nat, n = Len(calls[t]),
           Len(calls'[t]) = n, NEW a, calls'[t][n] = a,
           FrameInv(a)', Follows(Top(t), a)
    PROVE  StackInv(t)'
<1>1. /\ \A i \in 1..(n - 1) : calls'[t][i] = calls[t][i] /\ FrameInv(calls[t][i])'
      /\ \A i \in 1..(n - 2) : Supports(calls'[t][i], calls'[t][i + 1])
  BY LowerStack
<1>2. ASSUME NEW i \in 1..n PROVE FrameInv(calls[t][i])'
  <2>1. i = n \/ i \in 1..(n - 1)
    OBVIOUS
  <2> QED
    BY <1>1, <2>1
<1>3. ASSUME NEW i \in 1..(n - 1) PROVE Supports(calls'[t][i], calls'[t][i + 1])
  <2>1. CASE i \in 1..(n - 2)
    BY <1>1, <2>1
  <2>2. CASE i = n - 1
    <3>1. n > 1 /\ i + 1 = n
      BY <2>2
    <3>2. Supports(calls[t][n - 1], Top(t))
      BY <3>1, BelowTop
    <3>3. Supports(calls[t][n - 1], a)
      BY <3>2 DEF Supports, Follows
    <3> QED
      BY <1>1, <2>2, <3>1, <3>3
  <2> QED
    BY <2>1, <2>2
<1> QED
  BY <1>2, <1>3 DEF StackInv

LEMMA StackTwo ==
    ASSUME IInv, NEW t \in Threads, calls[t] # <<>>, Kept(t), OnlyAt(Top(t).gen),
           Alone(t) \/ UNCHANGED object, NEW n \in Nat, n = Len(calls[t]),
           Len(calls'[t]) = n + 1, NEW a, calls'[t][n] = a, NEW b, calls'[t][n + 1] = b,
           FrameInv(a)', Follows(Top(t), a), FrameInv(b)', Supports(a, b)
    PROVE  StackInv(t)'
<1>1. /\ \A i \in 1..(n - 1) : calls'[t][i] = calls[t][i] /\ FrameInv(calls[t][i])'
      /\ \A i \in 1..(n - 2) : Supports(calls'[t][i], calls'[t][i + 1])
  BY LowerStack
<1>2. ASSUME NEW i \in 1..(n + 1) PROVE FrameInv(calls[t][i])'
  <2>1. i = n + 1 \/ i = n \/ i \in 1..(n - 1)
    OBVIOUS
  <2> QED
    BY <1>1, <2>1
<1>3. ASSUME NEW i \in 1..n PROVE Supports(calls'[t][i], calls'[t][i + 1])
  <2>1. CASE i \in 1..(n - 2)
    BY <1>1, <2>1
  <2>2. CASE i = n - 1
    <3>1. n > 1 /\ i + 1 = n /\ i \in 1..(n - 1)
      BY <2>2
    <3>2. Supports(calls[t][n - 1], Top(t))
      BY <3>1, BelowTop
    <3>3. Supports(calls[t][n - 1], a)
      BY <3>2 DEF Supports, Follows
    <3> QED
      BY <1>1, <2>2, <3>1, <3>3
  <2>3. CASE i = n
    BY <2>3
  <2> QED
    BY <2>1, <2>2, <2>3
<1>4. (n + 1) - 1 = n
  OBVIOUS
<1> QED
  BY <1>2, <1>3, <1>4 DEF StackInv

-----------------------------------------------------------------------------
(***************************************************************************)
(* The call on top after a step of t.                                      *)
(***************************************************************************)
LEMMA TopPops ==
    ASSUME IInv, NEW t \in Threads, calls[t] # <<>>, NEW n \in Nat, n = Len(calls[t]),
           NEW g, g = Top(t).gen, NEW r \in Results, Returns(t, r),
           r = "yield" => Quiet(g)',
           r \in {"return", "exit"} => status'[g] # "Running",
           r = "error" /\ ForClosing(t, n) => Clean(g)',
           r = "error" /\ n > 1 /\ calls[t][n - 1].do = "closed" /\ ForClosing(t, n - 1) => Clean(g)'
    PROVE  TopInv(t)'
<1> SUFFICES ASSUME calls'[t] # <<>> PROVE CalledInv(t)' /\ ResultInv(t)'
  BY DEF TopInv
<1>1. /\ Kept(t) /\ Len(calls'[t]) = n - 1
      /\ result'[t] = IF n > 1 /\ calls[t][n - 1].do \in Waits THEN r ELSE "none"
  BY Pops DEF IInv
<1>2. n > 1
  <2>1. Len(calls'[t]) \in Nat /\ Len(calls'[t]) # 0
    BY <1>1, EmptySeq, LenProperties DEF Kept, CallsKept
  <2> QED
    BY <1>1, <2>1
<1>3. PICK d : d = calls[t][n - 1]
  OBVIOUS
<1>4. Supports(d, Top(t)) /\ n - 1 \in 1..(n - 1)
  BY <1>2, <1>3, BelowTop
<1>5. Top(t)' = d
  BY <1>1, <1>3, <1>4 DEF Top, Kept, CallsKept
<1>6. CalledInv(t)'
  BY <1>4, <1>5 DEF CalledInv, Supports, Waits
<1>7. ForClosing(t, n - 1)' => ForClosing(t, n - 1)
  <2>1. n - 1 > 1 => (n - 1) - 1 \in 1..(n - 1)
    BY <1>2
  <2> QED
    BY <1>1, <2>1 DEF ForClosing, Kept, CallsKept
<1>8. d.do \in Waits => g = Target(d) /\ result'[t] = r
  BY <1>1, <1>2, <1>3, <1>4 DEF Supports
<1>9. d.do = "closing" => ForClosing(t, n)
  BY <1>2, <1>3 DEF ForClosing
<1>10. ForClosing(t, Len(calls[t]))' => ForClosing(t, n - 1)
  BY <1>1, <1>7 DEF ForClosing
<1>11. d.do = "closed" /\ ForClosing(t, Len(calls[t]))' /\ result'[t] = "error" => Clean(d.gen)'
  BY <1>2, <1>3, <1>8, <1>10 DEF Waits, Target
<1>12. d.do = "closing" /\ result'[t] = "error" => Clean(d.to)'
  BY <1>8, <1>9 DEF Waits, Target
<1>13. d.do \in {"delegate", "throwing", "closed"} /\ result'[t] = "yield" => Quiet(Target(d))'
  BY <1>8 DEF Waits, Target
<1>14. d.do \in Waits /\ result'[t] \in {"return", "exit"} => status'[Target(d)] # "Running"
  BY <1>8
<1> QED
  BY <1>5, <1>6, <1>11, <1>12, <1>13, <1>14 DEF ResultInv

LEMMA TopCalls ==
    ASSUME NEW t \in Threads, result'[t] = "none", NEW m \in Nat, m = Len(calls'[t]),
           NEW b, b = calls'[t][m],
           b.do = "resume" =>
               /\ status'[b.gen] = "Running" /\ ~running'[b.gen] /\ yieldFrom'[b.gen] = None
               /\ b.exc # "error" /\ awaits'[b.gen] # None => status'[awaits'[b.gen]] # "Running",
           b.do = "throw" \/ (b.do = "send" /\ b.exc = "error") => Clean(b.gen)',
           b.do = "close" /\ ForClosing(t, m)' => Clean(b.gen)',
           b.do = "send" /\ m > 1 /\ calls'[t][m - 1].do = "closed" /\ ForClosing(t, m - 1)' =>
               Clean(b.gen)'
    PROVE  TopInv(t)'
<1>1. Top(t)' = b
  BY DEF Top
<1>2. ResultInv(t)'
  BY DEF ResultInv
<1>3. CalledInv(t)'
  BY <1>1 DEF CalledInv
<1> QED
  BY <1>2, <1>3 DEF TopInv

-----------------------------------------------------------------------------
(***************************************************************************)
(* The invariant after the three kinds of steps of a function.             *)
(***************************************************************************)
\* The generator of the top is marked, or not, as the new call says.
Marked(t, g, active) ==
    \/ Alone(t) /\ (running'[g] <=> active)
    \/ UNCHANGED object /\ ~IsActivation(Top(t)) /\ ~active

LEMMA Popped ==
    ASSUME IInv, NEW t \in Threads, calls[t] # <<>>, Turn(t), TypeOK',
           NEW n \in Nat, n = Len(calls[t]), NEW g \in Generators, g = Top(t).gen,
           NEW r \in Results, Returns(t, r), OnlyAt(g), Marked(t, g, FALSE),
           ObjectInv(g)', Acyclic(yieldFrom)',
           r = "yield" => Quiet(g)',
           r \in {"return", "exit"} => status'[g] # "Running",
           r = "error" /\ ForClosing(t, n) => Clean(g)',
           r = "error" /\ n > 1 /\ calls[t][n - 1].do = "closed" /\ ForClosing(t, n - 1) => Clean(g)'
    PROVE  IInv'
<1>1. Kept(t) /\ CallsKept(t) /\ Len(calls'[t]) = n - 1
  BY Pops DEF IInv, Kept
<1>2. n \in Nat \ {0} /\ Top(t) = calls[t][n] /\ n - 1 \in Nat
  BY TopFacts DEF IInv
<1>3. Alone(t) \/ UNCHANGED object
  BY DEF Marked
<1>4. StackInv(t)'
  BY <1>1, <1>3, StackPops
<1>5. TopInv(t)'
  BY TopPops
<1>6. PICK m \in Nat : m = n - 1
  BY <1>2
<1>7. m = Len(calls'[t]) /\ m + 1 >= n /\ ~(n <= m)
  BY <1>1, <1>6
<1>8. /\ \A i \in n..m : ~IsActivation(calls'[t][i])
      /\ \A i \in (n + 1)..m : ~IsActivation(calls'[t][i])
  BY <1>7
<1>9. CASE UNCHANGED object /\ ~IsActivation(Top(t))
  <2>1. UNCHANGED running
    BY <1>9 DEF object
  <2>2. RunningInv'
    BY <1>1, <1>2, <1>7, <1>8, <1>9, <2>1, RunningKept
  <2> QED
    BY <1>1, <1>3, <1>4, <1>5, <2>2, TheRest
<1>10. CASE Alone(t) /\ ~running'[g]
  <2>1. RunningInv'
    BY <1>1, <1>7, <1>8, <1>10, RunningMoves DEF OnlyAt
  <2> QED
    BY <1>1, <1>3, <1>4, <1>5, <2>1, TheRest
<1> QED
  BY <1>9, <1>10 DEF Marked

LEMMA Replaced ==
    ASSUME IInv, NEW t \in Threads, calls[t] # <<>>, Turn(t), TypeOK',
           NEW g \in Generators, g = Top(t).gen,
           NEW a \in Frame, Goes(t, <<a>>), OnlyAt(g), Marked(t, g, IsActivation(a)),
           ObjectInv(g)', Acyclic(yieldFrom)', FrameInv(a)', Follows(Top(t), a),
           a.do \in {"body", "send", "resume"},
           a.do = "send" => Top(t).do \in {"throw", "closing"},
           a.do = "resume" =>
               /\ status'[g] = "Running" /\ ~running'[g] /\ yieldFrom'[g] = None
               /\ a.exc # "error" /\ awaits'[g] # None => status'[awaits'[g]] # "Running",
           a.do = "send" /\ a.exc = "error" => Clean(g)'
    PROVE  IInv'
<1>1. PICK n \in Nat \ {0} : n = Len(calls[t]) /\ Top(t) = calls[t][n]
  BY TopFacts DEF IInv
<1>2. Kept(t) /\ CallsKept(t) /\ result'[t] = "none" /\ Len(calls'[t]) = n /\ calls'[t][n] = a
  BY <1>1, GoesOne DEF IInv, Kept
<1>3. Alone(t) \/ UNCHANGED object
  BY DEF Marked
<1>4. StackInv(t)'
  BY <1>1, <1>2, <1>3, StackOne
<1>5. a.gen = g
  BY DEF Follows
<1>6. a.do = "send" /\ n > 1 => calls'[t][n - 1].do # "closed"
  <2> SUFFICES ASSUME a.do = "send", n > 1 PROVE calls'[t][n - 1].do # "closed"
    OBVIOUS
  <2>1. Supports(calls[t][n - 1], Top(t)) /\ n - 1 \in 1..(n - 1)
    BY <1>1, BelowTop
  <2>2. calls'[t][n - 1] = calls[t][n - 1]
    BY <1>1, <1>2, <2>1 DEF CallsKept
  <2> QED
    BY <2>1, <2>2 DEF Supports
<1>7. TopInv(t)'
  BY <1>1, <1>2, <1>5, <1>6, TopCalls
<1>8. n + 1 >= n /\ n <= n /\ (\A i \in n..n : i = n) /\ (\A i \in (n + 1)..n : FALSE)
  BY <1>1
<1>9. CASE UNCHANGED object /\ ~IsActivation(Top(t)) /\ ~IsActivation(a)
  <2>1. UNCHANGED running
    BY <1>9 DEF object
  <2>2. RunningInv'
    BY <1>1, <1>2, <1>8, <1>9, <2>1, RunningKept
  <2> QED
    BY <1>2, <1>3, <1>4, <1>7, <2>2, TheRest
<1>10. CASE Alone(t) /\ (running'[g] <=> IsActivation(a))
  <2>1. RunningInv'
    BY <1>1, <1>2, <1>5, <1>8, <1>10, RunningMoves DEF OnlyAt
  <2> QED
    BY <1>2, <1>3, <1>4, <1>7, <2>1, TheRest
<1> QED
  BY <1>9, <1>10 DEF Marked

LEMMA Descends ==
    ASSUME IInv, NEW t \in Threads, calls[t] # <<>>, Turn(t), TypeOK',
           NEW g \in Generators, g = Top(t).gen,
           NEW a \in Frame, NEW b \in Frame, Goes(t, <<a, b>>), OnlyAt(g),
           Marked(t, g, IsActivation(a)),
           ObjectInv(g)', Acyclic(yieldFrom)', FrameInv(a)', Follows(Top(t), a), Supports(a, b),
           b.do \in {"send", "close", "throw"},
           b.do = "throw" \/ (b.do = "send" /\ b.exc = "error") => Clean(b.gen)',
           b.do = "close" /\ a.do = "closing" => Clean(b.gen)',
           b.do = "send" /\ a.do = "closed" /\ ForClosing(t, Len(calls[t])) => Clean(b.gen)'
    PROVE  IInv'
<1>1. PICK n \in Nat \ {0} : n = Len(calls[t]) /\ Top(t) = calls[t][n]
  BY TopFacts DEF IInv
<1>2. /\ Kept(t) /\ CallsKept(t) /\ result'[t] = "none" /\ Len(calls'[t]) = n + 1
      /\ calls'[t][n] = a /\ calls'[t][n + 1] = b
  BY <1>1, GoesTwo DEF IInv, Kept
<1>3. Alone(t) \/ UNCHANGED object
  BY DEF Marked
<1>4. ~IsActivation(b) /\ FrameInv(b)'
  BY DEF IsActivation, FrameInv
<1>5. StackInv(t)'
  BY <1>1, <1>2, <1>3, <1>4, StackTwo
<1>6. PICK m \in Nat : m = n + 1
  BY <1>1
<1>7. m - 1 = n /\ m > 1 /\ (n - 1 \in 1..(n - 1) \/ ~(n > 1))
  BY <1>1, <1>6
<1>8. ForClosing(t, m)' => a.do = "closing"
  BY <1>2, <1>7 DEF ForClosing
<1>9. ForClosing(t, m - 1)' => ForClosing(t, n)
  BY <1>1, <1>2, <1>7 DEF ForClosing, CallsKept
<1>10. TopInv(t)'
  BY <1>1, <1>2, <1>6, <1>7, <1>8, <1>9, TopCalls
<1>11. /\ m + 1 >= n /\ n <= m /\ (\A i \in n..m : i = n \/ i = n + 1)
       /\ (\A i \in (n + 1)..m : i = n + 1)
  BY <1>1, <1>6
<1>12. a.gen = g
  BY DEF Follows
<1>13. CASE UNCHANGED object /\ ~IsActivation(Top(t)) /\ ~IsActivation(a)
  <2>1. UNCHANGED running
    BY <1>13 DEF object
  <2>2. RunningInv'
    BY <1>1, <1>2, <1>4, <1>6, <1>11, <1>13, <2>1, RunningKept
  <2> QED
    BY <1>2, <1>3, <1>5, <1>10, <2>2, TheRest
<1>14. CASE Alone(t) /\ (running'[g] <=> IsActivation(a))
  <2>1. RunningInv'
    BY <1>1, <1>2, <1>4, <1>6, <1>11, <1>12, <1>14, RunningMoves DEF OnlyAt
  <2> QED
    BY <1>2, <1>3, <1>5, <1>10, <2>1, TheRest
<1> QED
  BY <1>13, <1>14 DEF Marked

-----------------------------------------------------------------------------
(***************************************************************************)
(* Every action keeps the invariant: first the functions that return.      *)
(***************************************************************************)
LEMMA TopKnown ==
    ASSUME IInv, NEW t \in Threads, NEW do, In(t, do)
    PROVE  /\ calls[t] # <<>> /\ Turn(t) /\ Top(t) \in Frame /\ Top(t).do = do
           /\ Top(t).gen \in Generators /\ Top(t).to \in Generators \cup {None}
           /\ Top(t).exc \in Kinds
           /\ FrameInv(Top(t)) /\ ObjectInv(Top(t).gen) /\ CalledInv(t) /\ ResultInv(t)
           /\ IsActivation(Top(t)) => running[Top(t).gen] /\ Alone(t)
           /\ do # "resume" => \A u \in Threads : \A x : ~Resuming(u, x)
<1>1. PICK n \in Nat \ {0} : n = Len(calls[t]) /\ Top(t) = calls[t][n]
  BY TopFacts, InFacts DEF IInv
<1>2. n \in 1..Len(calls[t])
  BY <1>1
<1>3. FrameInv(Top(t)) /\ (IsActivation(Top(t)) => running[Top(t).gen])
  <2>1. FrameInv(Top(t))
    BY <1>1, <1>2 DEF IInv, StackInv
  <2>2. IsActivation(Top(t)) => Runs(t, n, Top(t).gen)
    BY <1>1, <1>2 DEF Runs
  <2> QED
    BY <1>2, <2>1, <2>2, InFacts DEF IInv, RunningInv
<1>4. calls[t] # <<>> /\ Turn(t) /\ Top(t).do = do /\ Top(t).gen \in Generators
  BY InFacts DEF IInv
<1>5. CalledInv(t) /\ ResultInv(t)
  BY <1>4 DEF IInv, TopInv
<1>6. do # "resume" => \A u \in Threads : \A x : ~Resuming(u, x)
  <2>1. \A u \in Threads \ {t} : \A x : ~Resuming(u, x)
    <3>1. \A u \in Threads \ {t} : AtPython(u) /\ calls[u] \in Seq(Frame)
      BY <1>4, TypeParts DEF Turn, IInv
    <3> QED
      BY <3>1, AtPythonTop
  <2> QED
    BY <1>4, <2>1 DEF Resuming
<1> QED
  BY <1>3, <1>4, <1>5, <1>6, InFacts, IsAlone DEF IInv

\* A generator that does not run delegates to what it waits for.
LEMMA Suspended ==
    ASSUME IInv, NEW t \in Threads, NEW do, In(t, do), do # "resume", ~running[Top(t).gen]
    PROVE  yieldFrom[Top(t).gen] = awaits[Top(t).gen]
BY TopKnown DEF ObjectInv

LEMMA BodyYieldsKeeps ==
    ASSUME IInv, TypeOK', NEW t \in Threads, BodyYields(t)
    PROVE  IInv'
<1>1. In(t, "body")
  BY DEF BodyYields
<1>2. PICK g \in Generators : g = Top(t).gen
  BY <1>1, TopKnown
<1>3. /\ calls[t] # <<>> /\ Turn(t) /\ Alone(t) /\ status[g] = "Running"
      /\ yieldFrom[g] = None /\ awaits[g] = None
  BY <1>1, <1>2, TopKnown DEF IsActivation, FrameInv
<1>4. /\ Returns(t, "yield") /\ "yield" \in Results /\ OnlyAt(g) /\ ~running'[g]
      /\ UNCHANGED <<status, yieldFrom, awaits>>
  BY <1>2 DEF BodyYields, MarkAsNotRunning, OnlyAt, IInv, TypeOK, Results
<1>5. ObjectInv(g)' /\ Acyclic(yieldFrom)' /\ Marked(t, g, FALSE)
  BY <1>3, <1>4 DEF ObjectInv, IInv, Marked, Acyclic, Follow
<1>6. Quiet(g)'
  <2>1. Follow(yieldFrom', g) = {g}
    BY <1>3, <1>4, FollowNone
  <2> QED
    BY <1>4, <2>1 DEF Quiet
<1>7. Len(calls[t]) \in Nat
  BY <1>3, TopFacts DEF IInv
<1> QED
  BY <1>2, <1>3, <1>4, <1>5, <1>6, <1>7, Popped

LEMMA BodyEndsKeeps ==
    ASSUME IInv, TypeOK', NEW t \in Threads, NEW r \in {"return", "exit", "error"}, BodyEnds(t, r)
    PROVE  IInv'
<1>1. In(t, "body")
  BY DEF BodyEnds
<1>2. PICK g \in Generators : g = Top(t).gen
  BY <1>1, TopKnown
<1>3. /\ calls[t] # <<>> /\ Turn(t) /\ Alone(t) /\ yieldFrom[g] = None /\ awaits[g] = None
  BY <1>1, <1>2, TopKnown DEF IsActivation, FrameInv
<1>4. /\ Returns(t, r) /\ r \in Results /\ r # "yield" /\ OnlyAt(g) /\ ~running'[g]
      /\ status'[g] = "Finished" /\ UNCHANGED <<yieldFrom, awaits>>
  BY <1>2 DEF BodyEnds, MarkAsNotRunning, OnlyAt, IInv, TypeOK, Results
<1>5. ObjectInv(g)' /\ Acyclic(yieldFrom)' /\ Marked(t, g, FALSE)
  BY <1>3, <1>4 DEF ObjectInv, IInv, Marked, Acyclic, Follow
<1>6. Clean(g)'
  <2>1. Follow(yieldFrom', g) = {g}
    BY <1>3, <1>4, FollowNone
  <2> QED
    BY <1>4, <2>1 DEF Clean
<1>7. Len(calls[t]) \in Nat
  BY <1>3, TopFacts DEF IInv
<1> QED
  BY <1>2, <1>3, <1>4, <1>5, <1>6, <1>7, Popped

\* A step that leaves all generators as they are.
LEMMA SameObjects ==
    ASSUME IInv, NEW t \in Threads, NEW do, In(t, do), do # "resume", UNCHANGED object,
           NEW g \in Generators, g = Top(t).gen
    PROVE  /\ OnlyAt(g) /\ ObjectInv(g)' /\ Acyclic(yieldFrom)'
           /\ \A h : (Clean(h)' <=> Clean(h)) /\ (Quiet(h)' <=> Quiet(h))
<1>1. UNCHANGED <<status, running, yieldFrom, awaits>>
  BY DEF object
<1>2. OnlyAt(g) /\ \A h : (Clean(h)' <=> Clean(h)) /\ (Quiet(h)' <=> Quiet(h))
  BY <1>1 DEF OnlyAt, Clean, Quiet, Follow
<1>3. Acyclic(yieldFrom)'
  BY <1>1 DEF IInv, Acyclic, Follow
<1>4. /\ status[g] # "Running" => yieldFrom[g] = None /\ awaits[g] = None
      /\ yieldFrom[g] = awaits[g] \/ running[g]
  BY TopKnown DEF ObjectInv
<1>5. ObjectInv(g)'
  BY <1>1, <1>4 DEF ObjectInv
<1> QED
  BY <1>2, <1>3, <1>5

LEMMA CalledBy ==
    ASSUME IInv, NEW t \in Threads, NEW do, In(t, do), NEW n \in Nat, n = Len(calls[t])
    PROVE  /\ ForClosing(t, n) => do \in {"close", "closed"}
           /\ n > 1 /\ calls[t][n - 1].do = "closed" => do \in {"send", "body", "delegate"}
BY TopKnown, BelowTop DEF ForClosing, Supports

LEMMA SendToFinishedKeeps ==
    ASSUME IInv, TypeOK', NEW t \in Threads, SendToFinished(t)
    PROVE  IInv'
<1>1. In(t, "send")
  <2>1. ~In(t, "resume")
    BY TopKnown DEF SendToFinished, CalledInv
  <2> QED
    BY <2>1 DEF SendToFinished, Sends
<1>2. PICK g \in Generators : g = Top(t).gen
  BY <1>1, TopKnown
<1>3. calls[t] # <<>> /\ Turn(t) /\ Top(t).do = "send" /\ ~IsActivation(Top(t))
  BY <1>1, TopKnown DEF IsActivation
<1>4. Returns(t, "return") /\ "return" \in Results /\ UNCHANGED object /\ status[g] = "Finished"
  BY <1>2, <1>3 DEF SendToFinished, Results
<1>5. OnlyAt(g) /\ ObjectInv(g)' /\ Acyclic(yieldFrom)' /\ Marked(t, g, FALSE)
  BY <1>1, <1>2, <1>3, <1>4, SameObjects DEF Marked
<1>6. status'[g] # "Running"
  BY <1>4 DEF object
<1>7. Len(calls[t]) \in Nat
  BY <1>3, TopFacts DEF IInv
<1> QED
  BY <1>2, <1>3, <1>4, <1>5, <1>6, <1>7, Popped

LEMMA SendToRunningKeeps ==
    ASSUME IInv, TypeOK', NEW t \in Threads, SendToRunning(t)
    PROVE  IInv'
<1>1. In(t, "send")
  <2>1. ~In(t, "resume")
    BY TopKnown DEF SendToRunning, AlreadyExecuting, CalledInv
  <2> QED
    BY <2>1 DEF SendToRunning, Sends
<1>2. PICK g \in Generators : g = Top(t).gen
  BY <1>1, TopKnown
<1>3. calls[t] # <<>> /\ Turn(t) /\ Top(t).do = "send" /\ ~IsActivation(Top(t))
  BY <1>1, TopKnown DEF IsActivation
<1>4. Returns(t, "error") /\ "error" \in Results /\ UNCHANGED object
  BY DEF SendToRunning, Results
<1>5. /\ OnlyAt(g) /\ ObjectInv(g)' /\ Acyclic(yieldFrom)' /\ Marked(t, g, FALSE)
      /\ Clean(g) => Clean(g)'
  BY <1>1, <1>2, <1>3, <1>4, SameObjects DEF Marked
<1>6. PICK n \in Nat : n = Len(calls[t])
  BY <1>3, TopFacts DEF IInv
<1>7. ~ForClosing(t, n)
  BY <1>1, <1>6, CalledBy
<1>8. n > 1 /\ calls[t][n - 1].do = "closed" /\ ForClosing(t, n - 1) => Clean(g)'
  BY <1>1, <1>2, <1>3, <1>5, <1>6, TopKnown DEF CalledInv
<1> QED
  BY <1>2, <1>3, <1>4, <1>5, <1>6, <1>7, <1>8, Popped

LEMMA DelegateYieldsKeeps ==
    ASSUME IInv, TypeOK', NEW t \in Threads, DelegateYields(t)
    PROVE  IInv'
<1>1. In(t, "delegate") /\ result[t] = "yield"
  BY DEF DelegateYields
<1>2. PICK g \in Generators : g = Top(t).gen
  BY <1>1, TopKnown
<1>3. PICK h : h = Top(t).to
  OBVIOUS
<1>4. /\ calls[t] # <<>> /\ Turn(t) /\ Alone(t) /\ running[g] /\ status[g] = "Running"
      /\ h \in Generators /\ yieldFrom[g] = None /\ awaits[g] = h
  BY <1>1, <1>2, <1>3, TopKnown DEF IsActivation, FrameInv
<1>5. Quiet(h)
  BY <1>1, <1>3, TopKnown DEF ResultInv, Target
<1>6. /\ Returns(t, "yield") /\ "yield" \in Results /\ OnlyAt(g) /\ ~running'[g]
      /\ yieldFrom'[g] = h /\ \A x \in Generators \ {g} : yieldFrom'[x] = yieldFrom[x]
      /\ UNCHANGED <<status, awaits>>
  BY <1>2, <1>3 DEF DelegateYields, MarkAsNotRunning, OnlyAt, IInv, TypeOK, Results
<1>7. yieldFrom \in Delegations /\ yieldFrom' \in Delegations
  BY DEF IInv, TypeOK, Delegations
<1>8. g \notin Follow(yieldFrom, h)
  BY <1>4, <1>5 DEF Quiet
<1>9. Acyclic(yieldFrom)'
  BY <1>4, <1>6, <1>7, <1>8, AcyclicMore DEF IInv, Acyclic
<1>10. Quiet(g)'
  <2>1. Follow(yieldFrom', g) \subseteq {g} \cup Follow(yieldFrom', h)
    BY <1>4, <1>6, <1>7, FollowStep
  <2>2. Follow(yieldFrom', h) \subseteq Follow(yieldFrom, h)
    BY <1>4, <1>6, <1>7, <1>8, FollowWithout
  <2>3. Follow(yieldFrom, h) \subseteq Generators
    BY DEF Follow
  <2> QED
    BY <1>5, <1>6, <2>1, <2>2, <2>3 DEF Quiet, OnlyAt
<1>11. ObjectInv(g)' /\ Marked(t, g, FALSE)
  BY <1>4, <1>6 DEF ObjectInv, Marked
<1>12. Len(calls[t]) \in Nat
  BY <1>4, TopFacts DEF IInv
<1> QED
  BY <1>2, <1>4, <1>6, <1>9, <1>10, <1>11, <1>12, Popped

LEMMA ThrowingYieldsKeeps ==
    ASSUME IInv, TypeOK', NEW t \in Threads, ThrowingYields(t)
    PROVE  IInv'
<1>1. In(t, "throwing") /\ result[t] = "yield"
  BY DEF ThrowingYields
<1>2. PICK g \in Generators : g = Top(t).gen
  BY <1>1, TopKnown
<1>3. PICK h : h = Top(t).to
  OBVIOUS
<1>4. /\ calls[t] # <<>> /\ Turn(t) /\ Alone(t) /\ status[g] = "Running"
      /\ h \in Generators /\ yieldFrom[g] = h /\ awaits[g] = h
  BY <1>1, <1>2, <1>3, TopKnown DEF IsActivation, FrameInv
<1>5. Quiet(h)
  BY <1>1, <1>3, TopKnown DEF ResultInv, Target
<1>6. /\ Returns(t, "yield") /\ "yield" \in Results /\ OnlyAt(g) /\ ~running'[g]
      /\ UNCHANGED <<status, yieldFrom, awaits>>
  BY <1>2 DEF ThrowingYields, MarkAsNotRunning, OnlyAt, IInv, TypeOK, Results
<1>7. yieldFrom \in Delegations
  BY DEF IInv, TypeOK, Delegations
<1>8. Quiet(g)'
  <2>1. Follow(yieldFrom, g) \subseteq {g} \cup Follow(yieldFrom, h)
    BY <1>4, <1>7, FollowStep
  <2>2. Follow(yieldFrom, h) \subseteq Generators /\ Follow(yieldFrom', g) = Follow(yieldFrom, g)
    BY <1>6 DEF Follow
  <2> QED
    BY <1>5, <1>6, <2>1, <2>2 DEF Quiet, OnlyAt
<1>9. ObjectInv(g)' /\ Acyclic(yieldFrom)' /\ Marked(t, g, FALSE)
  BY <1>4, <1>6 DEF ObjectInv, IInv, Marked, Acyclic, Follow
<1>10. Len(calls[t]) \in Nat
  BY <1>4, TopFacts DEF IInv
<1> QED
  BY <1>2, <1>4, <1>6, <1>8, <1>9, <1>10, Popped

LEMMA CloseReturnsKeeps ==
    ASSUME IInv, TypeOK', NEW t \in Threads, CloseReturns(t)
    PROVE  IInv'
<1>1. In(t, "closed") /\ result[t] # "none"
  BY DEF CloseReturns
<1>2. PICK g \in Generators : g = Top(t).gen
  BY <1>1, TopKnown
<1>3. calls[t] # <<>> /\ Turn(t) /\ Top(t).do = "closed" /\ ~IsActivation(Top(t))
  BY <1>1, TopKnown DEF IsActivation
<1>4. PICK r : r = IF CloseFails(result[t]) THEN "error" ELSE "return"
  OBVIOUS
<1>5. Returns(t, r) /\ r \in Results /\ UNCHANGED object
  BY <1>4 DEF CloseReturns, Results
<1>6. /\ OnlyAt(g) /\ ObjectInv(g)' /\ Acyclic(yieldFrom)' /\ Marked(t, g, FALSE)
      /\ Clean(g) => Clean(g)'
  BY <1>1, <1>2, <1>3, <1>5, SameObjects DEF Marked
<1>7. PICK n \in Nat : n = Len(calls[t])
  BY <1>3, TopFacts DEF IInv
<1>8. r # "yield" /\ ~(n > 1 /\ calls[t][n - 1].do = "closed")
  BY <1>1, <1>4, <1>7, CalledBy
<1>9. r \in {"return", "exit"} => status'[g] # "Running"
  <2>1. r \in {"return", "exit"} => result[t] \in {"return", "exit"}
    BY <1>1, <1>4, TypeParts DEF CloseFails, IInv, Results
  <2>2. Target(Top(t)) = g /\ Top(t).do \in Waits
    BY <1>2, <1>3 DEF Target, Waits
  <2>3. result[t] \in {"return", "exit"} => status[g] # "Running"
    BY <1>1, <2>2, TopKnown DEF ResultInv
  <2> QED
    BY <1>5, <2>1, <2>3 DEF object
<1>10. r = "error" /\ ForClosing(t, n) => Clean(g)'
  <2> SUFFICES ASSUME r = "error", ForClosing(t, n) PROVE Clean(g)
    BY <1>6
  <2>1. result[t] = "yield" \/ result[t] = "error"
    BY <1>4 DEF CloseFails
  <2>2. result[t] = "error" => Clean(g)
    BY <1>1, <1>2, <1>3, <1>7, TopKnown DEF ResultInv
  <2>3. result[t] = "yield" => Quiet(g)
    BY <1>1, <1>2, <1>3, TopKnown DEF ResultInv, Target
  <2> QED
    BY <2>1, <2>2, <2>3 DEF Clean, Quiet
<1> QED
  BY <1>2, <1>3, <1>5, <1>6, <1>7, <1>8, <1>9, <1>10, Popped

-----------------------------------------------------------------------------
(***************************************************************************)
(* The functions that go on to the body, or to _Nuitka_Generator_send.     *)
(***************************************************************************)
LEMMA SendToBodyKeeps ==
    ASSUME IInv, TypeOK', NEW t \in Threads, SendToBody(t)
    PROVE  IInv'
<1>1. In(t, "send") \/ In(t, "resume")
  BY DEF SendToBody, Sends
<1>2. PICK c \in Frame : c = Top(t)
  BY <1>1, TopKnown
<1>3. PICK g \in Generators : g = c.gen
  BY <1>1, <1>2, TopKnown
<1>4. /\ calls[t] # <<>> /\ Turn(t) /\ c.exc \in Kinds /\ c.do \in {"send", "resume"}
      /\ ~running[g] /\ yieldFrom[g] = None
  BY <1>1, <1>2, <1>3, TopKnown DEF SendToBody, MayRun
<1>5. Alone(t)
  BY <1>2, <1>3, <1>4, IsAlone
<1>6. PICK a \in Frame : a = Call("body", g, c.exc)
  BY <1>4, CallIsFrame DEF Functions
<1>7. a.do = "body" /\ a.gen = g
  BY <1>6 DEF Call
<1>8. /\ Goes(t, <<a>>) /\ OnlyAt(g) /\ running'[g] /\ status'[g] = "Running"
      /\ awaits'[g] = None /\ UNCHANGED yieldFrom
  <2>1. /\ Goes(t, <<a>>) /\ UNCHANGED yieldFrom
        /\ status' = [status EXCEPT ![g] = "Running"]
        /\ running' = [running EXCEPT ![g] = TRUE]
        /\ awaits' = [awaits EXCEPT ![g] = None]
    BY <1>2, <1>3, <1>6 DEF SendToBody, EntersBody, MarkAsRunning
  <2> QED
    BY <2>1 DEF OnlyAt, IInv, TypeOK
<1>9. /\ ObjectInv(g)' /\ Acyclic(yieldFrom)' /\ FrameInv(a)' /\ Follows(Top(t), a)
      /\ Marked(t, g, IsActivation(a))
  BY <1>2, <1>3, <1>4, <1>5, <1>7, <1>8
     DEF ObjectInv, IInv, Acyclic, Follow, FrameInv, Follows, Marked, IsActivation
<1> QED
  BY <1>2, <1>3, <1>4, <1>7, <1>8, <1>9, Replaced

LEMMA DelegateEndsKeeps ==
    ASSUME IInv, TypeOK', NEW t \in Threads, DelegateEnds(t)
    PROVE  IInv'
<1>1. In(t, "delegate") /\ result[t] \in {"return", "exit", "error"}
  BY DEF DelegateEnds
<1>2. PICK c \in Frame : c = Top(t)
  BY <1>1, TopKnown
<1>3. PICK g \in Generators : g = c.gen
  BY <1>1, <1>2, TopKnown
<1>4. /\ calls[t] # <<>> /\ Turn(t) /\ Alone(t) /\ c.do = "delegate" /\ running[g]
      /\ status[g] = "Running" /\ yieldFrom[g] = None
  BY <1>1, <1>2, <1>3, TopKnown DEF FrameInv, IsActivation
<1>5. PICK exc \in Kinds : exc = Outcome(c, result[t])
  BY <1>1, OutcomeIsKind
<1>6. PICK a \in Frame : a = Call("body", g, exc)
  BY <1>4, CallIsFrame DEF Functions
<1>7. a.do = "body" /\ a.gen = g
  BY <1>6 DEF Call
<1>8. /\ Goes(t, <<a>>) /\ OnlyAt(g) /\ awaits'[g] = None /\ UNCHANGED <<status, running, yieldFrom>>
  BY <1>2, <1>3, <1>5, <1>6 DEF DelegateEnds, EntersBody, OnlyAt, IInv, TypeOK
<1>9. /\ ObjectInv(g)' /\ Acyclic(yieldFrom)' /\ FrameInv(a)' /\ Follows(Top(t), a)
      /\ Marked(t, g, IsActivation(a))
  BY <1>2, <1>3, <1>4, <1>7, <1>8
     DEF ObjectInv, IInv, Acyclic, Follow, FrameInv, Follows, Marked, IsActivation
<1> QED
  BY <1>2, <1>3, <1>4, <1>7, <1>8, <1>9, Replaced

LEMMA ThrowToBodyKeeps ==
    ASSUME IInv, TypeOK', NEW t \in Threads, ThrowToBody(t)
    PROVE  IInv'
<1>1. In(t, "throw")
  BY DEF ThrowToBody
<1>2. PICK c \in Frame : c = Top(t)
  BY <1>1, TopKnown
<1>3. PICK g \in Generators : g = c.gen
  BY <1>1, <1>2, TopKnown
<1>4. /\ calls[t] # <<>> /\ Turn(t) /\ c.do = "throw" /\ c.exc \in Kinds /\ yieldFrom[g] = None
      /\ ~IsActivation(c) /\ Clean(g)
  BY <1>1, <1>2, <1>3, TopKnown DEF ThrowToBody, CalledInv, IsActivation
<1>5. CASE Goes(t, <<Call("send", g, c.exc)>>) /\ UNCHANGED status
  <2>1. PICK a \in Frame : a = Call("send", g, c.exc)
    BY <1>4, CallIsFrame DEF Functions
  <2>2. a.do = "send" /\ a.gen = g
    BY <2>1 DEF Call
  <2>3. Goes(t, <<a>>) /\ UNCHANGED object
    BY <1>5, <2>1 DEF ThrowToBody, object
  <2>4. OnlyAt(g) /\ ObjectInv(g)' /\ Acyclic(yieldFrom)' /\ Clean(g)'
    BY <1>1, <1>2, <1>3, <1>4, <2>3, SameObjects
  <2>5. FrameInv(a)' /\ Follows(Top(t), a) /\ Marked(t, g, IsActivation(a))
    BY <1>2, <1>3, <1>4, <2>2, <2>3 DEF FrameInv, Follows, Marked, IsActivation
  <2> QED
    BY <1>2, <1>3, <1>4, <2>2, <2>3, <2>4, <2>5, Replaced
<1>6. CASE /\ status[g] # "Running" /\ status' = [status EXCEPT ![g] = "Finished"]
           /\ Returns(t, c.exc)
  <2>1. Alone(t)
    BY <1>2, <1>3, <1>4, <1>6, IsAlone
  <2>2. ~running[g]
    <3> SUFFICES ASSUME running[g] PROVE FALSE
      OBVIOUS
    <3>1. PICK u \in Threads : \E i \in 1..Len(calls[u]) : Runs(u, i, g)
      BY DEF IInv, RunningInv
    <3>2. PICK i \in 1..Len(calls[u]) : Runs(u, i, g)
      BY <3>1
    <3>3. FrameInv(calls[u][i])
      BY DEF IInv, StackInv
    <3> QED
      BY <1>6, <3>2, <3>3 DEF FrameInv, Runs
  <2>3. /\ OnlyAt(g) /\ status'[g] = "Finished" /\ UNCHANGED <<running, yieldFrom, awaits>>
        /\ c.exc \in Results /\ c.exc # "yield"
    BY <1>4, <1>6 DEF ThrowToBody, OnlyAt, IInv, TypeOK, Results, Kinds
  <2>4. awaits[g] = None
    BY <1>1, <1>2, <1>3, <1>6, TopKnown DEF ObjectInv
  <2>5. ObjectInv(g)' /\ Acyclic(yieldFrom)' /\ Marked(t, g, FALSE)
    BY <1>4, <2>1, <2>2, <2>3, <2>4 DEF ObjectInv, IInv, Acyclic, Follow, Marked
  <2>6. PICK n \in Nat : n = Len(calls[t])
    BY <1>4, TopFacts DEF IInv
  <2>7. ~ForClosing(t, n) /\ ~(n > 1 /\ calls[t][n - 1].do = "closed")
    BY <1>1, <2>6, CalledBy
  <2> QED
    BY <1>2, <1>3, <1>4, <1>6, <2>3, <2>5, <2>6, <2>7, Popped
<1> QED
  BY <1>2, <1>3, <1>5, <1>6 DEF ThrowToBody

LEMMA ClosingReturnsKeeps ==
    ASSUME IInv, TypeOK', NEW t \in Threads, ClosingReturns(t)
    PROVE  IInv'
<1>1. In(t, "closing")
  BY DEF ClosingReturns
<1>2. PICK c \in Frame : c = Top(t)
  BY <1>1, TopKnown
<1>3. PICK g \in Generators : g = c.gen
  BY <1>1, <1>2, TopKnown
<1>4. /\ calls[t] # <<>> /\ Turn(t) /\ Alone(t) /\ c.do = "closing" /\ c.to \in Generators
      /\ status[g] = "Running" /\ yieldFrom[g] = c.to /\ awaits[g] = c.to
  BY <1>1, <1>2, <1>3, TopKnown DEF FrameInv, IsActivation
<1>5. PICK exc \in Kinds : exc = IF result[t] = "error" THEN "error" ELSE "exit"
  BY DEF Kinds
<1>6. PICK a \in Frame : a = Call("send", g, exc)
  BY <1>4, CallIsFrame DEF Functions
<1>7. a.do = "send" /\ a.gen = g /\ a.exc = exc
  BY <1>6 DEF Call
<1>8. Goes(t, <<a>>) /\ OnlyAt(g) /\ ~running'[g] /\ UNCHANGED <<status, yieldFrom, awaits>>
  BY <1>2, <1>3, <1>5, <1>6 DEF ClosingReturns, MarkAsNotRunning, OnlyAt, IInv, TypeOK
<1>9. /\ ObjectInv(g)' /\ Acyclic(yieldFrom)' /\ FrameInv(a)' /\ Follows(Top(t), a)
      /\ Marked(t, g, IsActivation(a))
  BY <1>2, <1>3, <1>4, <1>7, <1>8
     DEF ObjectInv, IInv, Acyclic, Follow, FrameInv, Follows, Marked, IsActivation
<1>10. a.exc = "error" => Clean(g)'
  <2> SUFFICES ASSUME result[t] = "error" PROVE Clean(g)'
    BY <1>5, <1>7
  <2>1. Clean(c.to)
    BY <1>1, <1>2, <1>4, TopKnown DEF ResultInv
  <2>2. Follow(yieldFrom, g) \subseteq {g} \cup Follow(yieldFrom, c.to)
    BY <1>4, FollowStep DEF IInv, TypeOK, Delegations
  <2>3. Follow(yieldFrom, c.to) \subseteq Generators /\ Follow(yieldFrom', g) = Follow(yieldFrom, g)
    BY <1>8 DEF Follow
  <2> QED
    BY <1>8, <2>1, <2>2, <2>3 DEF Clean, OnlyAt
<1> QED
  BY <1>2, <1>3, <1>4, <1>7, <1>8, <1>9, <1>10, Replaced

LEMMA ThrowingEndsKeeps ==
    ASSUME IInv, TypeOK', NEW t \in Threads, ThrowingEnds(t)
    PROVE  IInv'
<1>1. In(t, "throwing") /\ result[t] \in {"return", "exit", "error"}
  BY DEF ThrowingEnds
<1>2. PICK c \in Frame : c = Top(t)
  BY <1>1, TopKnown
<1>3. PICK g \in Generators : g = c.gen
  BY <1>1, <1>2, TopKnown
<1>4. /\ calls[t] # <<>> /\ Turn(t) /\ Alone(t) /\ c.do = "throwing" /\ c.to \in Generators
      /\ status[g] = "Running" /\ awaits[g] = c.to
  BY <1>1, <1>2, <1>3, TopKnown DEF FrameInv, IsActivation
<1>5. PICK exc \in Kinds : exc = IF result[t] = "return" THEN "none" ELSE result[t]
  BY <1>1 DEF Kinds
<1>6. PICK a \in Frame : a = Call("resume", g, exc)
  BY <1>4, CallIsFrame DEF Functions
<1>7. a.do = "resume" /\ a.gen = g /\ a.exc = exc
  BY <1>6 DEF Call
<1>8. /\ Goes(t, <<a>>) /\ OnlyAt(g) /\ ~running'[g] /\ yieldFrom'[g] = None
      /\ UNCHANGED <<status, awaits>>
  <2>1. Goes(t, <<a>>) /\ UNCHANGED <<status, awaits>>
    BY <1>2, <1>3, <1>5, <1>6 DEF ThrowingEnds
  <2>2. /\ running' = [running EXCEPT ![g] = FALSE]
        /\ yieldFrom' = [yieldFrom EXCEPT ![g] = None]
    BY <1>2, <1>3 DEF ThrowingEnds, MarkAsNotRunning
  <2> QED
    BY <2>1, <2>2 DEF OnlyAt, IInv, TypeOK
<1>9. Acyclic(yieldFrom)'
  <2>1. yieldFrom \in Delegations /\ yieldFrom' \in Delegations
    BY DEF IInv, TypeOK, Delegations
  <2> QED
    BY <1>8, <2>1, AcyclicLess DEF IInv, Acyclic, OnlyAt
<1>10. ObjectInv(g)'
  <2>1. Len(calls'[t]) = Len(calls[t]) /\ calls'[t][Len(calls[t])] = a /\ Len(calls[t]) # 0
    BY <1>4, <1>8, GoesOne, TopFacts DEF IInv
  <2>2. Resuming(t, g)'
    BY <1>7, <2>1, EmptySeq DEF Resuming, Top
  <2> QED
    BY <1>4, <1>8, <2>2 DEF ObjectInv
<1>11. exc # "error" /\ awaits'[g] # None => status'[awaits'[g]] # "Running"
  <2>1. exc # "error" => result[t] \in {"return", "exit"}
    BY <1>1, <1>5
  <2>2. result[t] \in {"return", "exit"} => status[c.to] # "Running"
    BY <1>1, <1>2, <1>4, TopKnown DEF ResultInv, Waits, Target
  <2> QED
    BY <1>4, <1>8, <2>1, <2>2
<1>12. FrameInv(a)' /\ Follows(Top(t), a) /\ Marked(t, g, IsActivation(a))
  BY <1>2, <1>3, <1>4, <1>7, <1>8 DEF FrameInv, Follows, Marked, IsActivation
<1> QED
  BY <1>2, <1>3, <1>4, <1>7, <1>8, <1>9, <1>10, <1>11, <1>12, Replaced

-----------------------------------------------------------------------------
(***************************************************************************)
(* The functions that call another one, and the calls of Python code.      *)
(***************************************************************************)
LEMMA CloseKeeps ==
    ASSUME IInv, TypeOK', NEW t \in Threads, Close(t)
    PROVE  IInv'
<1>1. In(t, "close") /\ UNCHANGED object
  BY DEF Close
<1>2. PICK c \in Frame : c = Top(t)
  BY <1>1, TopKnown
<1>3. PICK g \in Generators : g = c.gen
  BY <1>1, <1>2, TopKnown
<1>4. calls[t] # <<>> /\ Turn(t) /\ c.do = "close" /\ ~IsActivation(c)
  BY <1>1, <1>2, TopKnown DEF IsActivation
<1>5. /\ OnlyAt(g) /\ ObjectInv(g)' /\ Acyclic(yieldFrom)'
      /\ Clean(g)' <=> Clean(g)
  BY <1>1, <1>2, <1>3, SameObjects
<1>6. PICK n \in Nat : n = Len(calls[t])
  BY <1>4, TopFacts DEF IInv
<1>7. CASE status[g] = "Running"
             /\ Goes(t, <<Wait("closed", g, "exit", None), Call("send", g, "exit")>>)
  <2>1. PICK a \in Frame : a = Wait("closed", g, "exit", None)
    BY WaitIsFrame DEF Waits, Kinds
  <2>2. PICK b \in Frame : b = Call("send", g, "exit")
    BY CallIsFrame DEF Functions, Kinds
  <2>3. a.do = "closed" /\ a.gen = g /\ b.do = "send" /\ b.gen = g /\ b.exc = "exit"
    BY <2>1, <2>2 DEF Call, Wait
  <2>4. Goes(t, <<a, b>>)
    BY <1>7, <2>1, <2>2
  <2>5. /\ FrameInv(a)' /\ Follows(Top(t), a) /\ Supports(a, b) /\ Marked(t, g, IsActivation(a))
    BY <1>1, <1>2, <1>3, <1>4, <1>7, <2>3
       DEF FrameInv, Follows, Supports, Waits, Target, Marked, IsActivation, object
  <2>6. ForClosing(t, Len(calls[t])) => Clean(b.gen)'
    BY <1>1, <1>2, <1>3, <1>4, <1>5, <2>3, TopKnown DEF CalledInv
  <2> QED
    BY <1>2, <1>3, <1>4, <1>5, <2>3, <2>4, <2>5, <2>6, Descends
<1>8. CASE status[g] # "Running" /\ Returns(t, "return")
  <2>1. status'[g] # "Running" /\ "return" \in Results /\ Marked(t, g, FALSE)
    BY <1>1, <1>2, <1>4, <1>8 DEF object, Results, Marked
  <2> QED
    BY <1>2, <1>3, <1>4, <1>5, <1>6, <1>8, <2>1, Popped
<1> QED
  BY <1>2, <1>3, <1>7, <1>8 DEF Close

LEMMA BodyDelegatesKeeps ==
    ASSUME IInv, TypeOK', NEW t \in Threads, NEW h \in Generators, BodyDelegates(t, h)
    PROVE  IInv'
<1>1. In(t, "body")
  BY DEF BodyDelegates
<1>2. PICK c \in Frame : c = Top(t)
  BY <1>1, TopKnown
<1>3. PICK g \in Generators : g = c.gen
  BY <1>1, <1>2, TopKnown
<1>4. /\ calls[t] # <<>> /\ Turn(t) /\ Alone(t) /\ c.do = "body" /\ running[g]
      /\ status[g] = "Running" /\ yieldFrom[g] = None
  BY <1>1, <1>2, <1>3, TopKnown DEF FrameInv, IsActivation
<1>5. PICK a \in Frame : a = Wait("delegate", g, "none", h)
  BY WaitIsFrame DEF Waits, Kinds
<1>6. PICK b \in Frame : b = Call("send", h, "none")
  BY CallIsFrame DEF Functions, Kinds
<1>7. /\ a.do = "delegate" /\ a.gen = g /\ a.to = h
      /\ b.do = "send" /\ b.gen = h /\ b.exc = "none"
  BY <1>5, <1>6 DEF Call, Wait
<1>8. Goes(t, <<a, b>>) /\ OnlyAt(g) /\ awaits'[g] = h /\ UNCHANGED <<status, running, yieldFrom>>
  BY <1>2, <1>3, <1>5, <1>6 DEF BodyDelegates, OnlyAt, IInv, TypeOK
<1>9. /\ ObjectInv(g)' /\ Acyclic(yieldFrom)' /\ FrameInv(a)' /\ Follows(Top(t), a)
      /\ Supports(a, b) /\ Marked(t, g, IsActivation(a))
  BY <1>2, <1>3, <1>4, <1>7, <1>8
     DEF ObjectInv, IInv, Acyclic, Follow, FrameInv, Follows, Supports, Waits, Target, Marked,
         IsActivation
<1> QED
  BY <1>2, <1>3, <1>4, <1>7, <1>8, <1>9, Descends

LEMMA PassToFacts ==
    ASSUME NEW h, NEW exc \in Kinds, NEW b, b = PassTo(h, exc)
    PROVE  /\ b.gen = h /\ b.do \in {"send", "close", "throw"}
           /\ b.do = "throw" => exc = "error"
           /\ b.do = "send" => b.exc = "none"
BY DEF PassTo, Call, Kinds

LEMMA SendToDelegateKeeps ==
    ASSUME IInv, TypeOK', NEW t \in Threads, SendToDelegate(t)
    PROVE  IInv'
<1>1. In(t, "send")
  <2>1. ~In(t, "resume")
    BY TopKnown DEF SendToDelegate, CalledInv
  <2> QED
    BY <2>1 DEF SendToDelegate, Sends
<1>2. PICK c \in Frame : c = Top(t)
  BY <1>1, TopKnown
<1>3. PICK g \in Generators : g = c.gen
  BY <1>1, <1>2, TopKnown
<1>4. yieldFrom \in Delegations /\ yieldFrom' \in Delegations
  BY DEF IInv, TypeOK, Delegations
<1>5. PICK h \in Generators : h = yieldFrom[g]
  BY <1>2, <1>3, <1>4 DEF SendToDelegate, Delegations
<1>6. /\ calls[t] # <<>> /\ Turn(t) /\ c.do = "send" /\ c.exc \in Kinds
      /\ ~running[g] /\ status[g] = "Running" /\ awaits[g] = h
  BY <1>1, <1>2, <1>3, <1>5, TopKnown, Suspended, GeneratorsAssumption
     DEF SendToDelegate, MayRun, ObjectInv
<1>7. Alone(t)
  BY <1>2, <1>3, <1>6, IsAlone
<1>8. PICK a \in Frame : a = Wait("delegate", g, c.exc, h)
  BY <1>6, WaitIsFrame DEF Waits
<1>9. PICK b \in Frame : b = PassTo(h, c.exc)
  BY <1>6, PassToIsFrame
<1>10. a.do = "delegate" /\ a.gen = g /\ a.to = h
  BY <1>8 DEF Wait
<1>11. /\ Goes(t, <<a, b>>) /\ UNCHANGED <<status, awaits>>
       /\ running' = [running EXCEPT ![g] = TRUE]
       /\ yieldFrom' = [yieldFrom EXCEPT ![g] = None]
  BY <1>2, <1>3, <1>5, <1>8, <1>9 DEF SendToDelegate, MarkAsRunning
<1>12. OnlyAt(g) /\ running'[g] /\ yieldFrom'[g] = None
  BY <1>11 DEF OnlyAt, IInv, TypeOK
<1>13. Acyclic(yieldFrom)'
  BY <1>4, <1>12, AcyclicLess DEF IInv, Acyclic, OnlyAt
<1>14. /\ ObjectInv(g)' /\ FrameInv(a)' /\ Follows(Top(t), a) /\ Supports(a, b)
       /\ Marked(t, g, IsActivation(a))
  BY <1>2, <1>3, <1>6, <1>7, <1>9, <1>10, <1>11, <1>12, PassToFacts
     DEF ObjectInv, FrameInv, Follows, Supports, Waits, Target, Marked, IsActivation
<1>15. b.do = "throw" => Clean(b.gen)'
  <2> SUFFICES ASSUME c.exc = "error" PROVE Clean(h)'
    BY <1>6, <1>9, PassToFacts
  <2>1. Clean(g)
    BY <1>1, <1>2, <1>3, <1>6, TopKnown DEF CalledInv
  <2>2. Follow(yieldFrom', h) \subseteq Follow(yieldFrom, h)
    BY <1>4, <1>12, FollowLess DEF OnlyAt
  <2>3. /\ Follow(yieldFrom, h) \subseteq Follow(yieldFrom, g)
        /\ Follow(yieldFrom, h) \subseteq Generators
    BY <1>4, <1>5, FollowStep, FollowClosed
  <2>4. g \notin Follow(yieldFrom, h)
    BY <1>5, GeneratorsAssumption DEF IInv, Acyclic
  <2> QED
    BY <1>12, <2>1, <2>2, <2>3, <2>4 DEF Clean, OnlyAt
<1>16. /\ b.do \in {"send", "close", "throw"} /\ (b.do = "send" => b.exc = "none")
  BY <1>6, <1>9, PassToFacts
<1> QED
  BY <1>2, <1>3, <1>6, <1>10, <1>11, <1>12, <1>13, <1>14, <1>15, <1>16, Descends

LEMMA ThrowToDelegateKeeps ==
    ASSUME IInv, TypeOK', NEW t \in Threads, ThrowToDelegate(t)
    PROVE  IInv'
<1>1. In(t, "throw")
  BY DEF ThrowToDelegate
<1>2. PICK c \in Frame : c = Top(t)
  BY <1>1, TopKnown
<1>3. PICK g \in Generators : g = c.gen
  BY <1>1, <1>2, TopKnown
<1>4. yieldFrom \in Delegations
  BY DEF IInv, TypeOK, Delegations
<1>5. PICK h \in Generators : h = yieldFrom[g]
  BY <1>2, <1>3, <1>4 DEF ThrowToDelegate, Delegations
<1>6. calls[t] # <<>> /\ Turn(t) /\ c.do = "throw" /\ Clean(g) /\ h # None
  BY <1>1, <1>2, <1>3, TopKnown, GeneratorsAssumption DEF CalledInv
<1>7. ~running[g]
  BY <1>5, <1>6, FollowSelf DEF Clean
<1>8. Alone(t) /\ status[g] = "Running" /\ awaits[g] = h
  BY <1>1, <1>2, <1>3, <1>5, <1>6, <1>7, TopKnown, Suspended, IsAlone DEF ObjectInv
<1>9. PICK a \in Frame, b \in Frame :
          /\ Goes(t, <<a, b>>) /\ a.gen = g /\ a.to = h /\ b.gen = h
          /\ \/ a.do = "closing" /\ b.do = "close"
             \/ a.do = "throwing" /\ b.do = "throw"
  <2>1. CASE c.exc = "exit"
    <3>1. /\ Wait("closing", g, "exit", h) \in Frame /\ Call("close", h, "none") \in Frame
          /\ Goes(t, <<Wait("closing", g, "exit", h), Call("close", h, "none")>>)
      BY <1>2, <1>3, <1>5, <2>1, WaitIsFrame, CallIsFrame
         DEF ThrowToDelegate, Waits, Functions, Kinds
    <3> QED
      BY <3>1 DEF Wait, Call
  <2>2. CASE c.exc # "exit"
    <3>1. /\ Wait("throwing", g, "error", h) \in Frame /\ Call("throw", h, "error") \in Frame
          /\ Goes(t, <<Wait("throwing", g, "error", h), Call("throw", h, "error")>>)
      BY <1>2, <1>3, <1>5, <2>2, WaitIsFrame, CallIsFrame
         DEF ThrowToDelegate, Waits, Functions, Kinds
    <3> QED
      BY <3>1 DEF Wait, Call
  <2> QED
    BY <2>1, <2>2
<1>10. /\ UNCHANGED <<status, yieldFrom, awaits>>
       /\ running' = [running EXCEPT ![g] = TRUE]
  BY <1>2, <1>3 DEF ThrowToDelegate, MarkAsRunning
<1>11. OnlyAt(g) /\ running'[g]
  BY <1>10 DEF OnlyAt, IInv, TypeOK
<1>12. Acyclic(yieldFrom)' /\ ObjectInv(g)'
  BY <1>8, <1>10, <1>11 DEF IInv, Acyclic, Follow, ObjectInv
<1>13. FrameInv(a)'
  BY <1>5, <1>8, <1>9, <1>10 DEF FrameInv, IsActivation
<1>14. Follows(Top(t), a) /\ Supports(a, b) /\ Marked(t, g, IsActivation(a))
  BY <1>2, <1>3, <1>6, <1>8, <1>9, <1>11 DEF Follows, Supports, Waits, Target, Marked, IsActivation
<1>15. Clean(b.gen)'
  <2>1. /\ Follow(yieldFrom, h) \subseteq Follow(yieldFrom, g)
        /\ Follow(yieldFrom, h) \subseteq Generators
    BY <1>4, <1>5, FollowStep, FollowClosed
  <2>2. g \notin Follow(yieldFrom, h)
    BY <1>5, <1>6 DEF IInv, Acyclic
  <2>3. Clean(h)'
    <3>1. Follow(yieldFrom', h) = Follow(yieldFrom, h)
      BY <1>10 DEF Follow
    <3> QED
      BY <1>6, <1>10, <1>11, <2>1, <2>2, <3>1 DEF Clean, OnlyAt
  <2> QED
    BY <1>9, <2>3
<1> QED
  BY <1>2, <1>3, <1>6, <1>9, <1>11, <1>12, <1>13, <1>14, <1>15, Descends

LEMMA CallsKeeps ==
    ASSUME IInv, TypeOK', NEW t \in Threads, NEW b \in Frame, Calls(t, b),
           b.do \in {"send", "close", "throw"}, b.do = "send" => b.exc = "none",
           b.do = "throw" => Clean(b.gen)
    PROVE  IInv'
<1>1. /\ calls' \in [Threads -> Seq(Frame)]
      /\ \A u \in Threads \ {t} : calls'[u] = calls[u]
      /\ Len(calls[t]) \in Nat /\ Len(calls'[t]) = Len(calls[t]) + 1
      /\ \A i \in 1..Len(calls[t]) : calls'[t][i] = calls[t][i]
      /\ calls'[t][Len(calls[t]) + 1] = b
  BY Pushes DEF Calls, IInv
<1>2. PICK n \in Nat : n = Len(calls[t])
  BY <1>1
<1>3. UNCHANGED <<status, running, yieldFrom, awaits, result>> /\ Turn(t) /\ AtPython(t)
  BY DEF Calls, object
<1>4. n > 0 => calls[t][n].do = "body" /\ calls'[t][n].do = "body"
  <2>1. n > 0 => n \in 1..n
    BY <1>2
  <2>2. DOMAIN calls[t] = 1..n
    BY <1>2, LenProperties, TypeParts DEF IInv
  <2> QED
    BY <1>1, <1>2, <1>3, <2>1, <2>2 DEF AtPython
<1>5. ~IsActivation(b)
  BY DEF IsActivation
<1>6. RunningInv'
  <2>1. ASSUME NEW u \in Threads, NEW i \in Nat, NEW x \in Generators
        PROVE  Runs(u, i, x)' <=> Runs(u, i, x)
    <3>1. CASE u # t
      BY <1>1, <3>1 DEF Runs, IsActivation
    <3>2. CASE u = t /\ i <= n
      <4>1. i \in 1..n <=> i \in 1..(n + 1)
        BY <1>2, <3>2
      <4> QED
        BY <1>1, <1>2, <3>2, <4>1 DEF Runs, IsActivation
    <3>3. CASE u = t /\ i > n
      <4>1. i \notin 1..n /\ (i \in 1..(n + 1) => i = n + 1)
        BY <1>2, <3>3
      <4> QED
        BY <1>1, <1>2, <1>5, <3>3, <4>1 DEF Runs, IsActivation
    <3> QED
      BY <1>2, <3>1, <3>2, <3>3
  <2> QED
    BY <1>1, <1>3, <2>1, RunningSame
<1>7. ASSUME NEW c, FrameInv(c) PROVE FrameInv(c)'
  BY <1>3, <1>7 DEF FrameInv
<1>8. StackInv(t)'
  <2>1. ASSUME NEW i \in 1..(n + 1) PROVE FrameInv(calls[t][i])'
    <3>1. CASE i = n + 1
      BY <1>1, <1>2, <1>5, <3>1 DEF FrameInv, IsActivation
    <3>2. CASE i \in 1..n
      <4>1. PICK c : c = calls[t][i] /\ FrameInv(c)
        BY <1>2, <3>2 DEF IInv, StackInv
      <4>2. FrameInv(c)' /\ calls'[t][i] = c
        BY <1>1, <1>2, <1>7, <3>2, <4>1
      <4> QED
        BY <4>2
    <3> QED
      BY <1>2, <3>1, <3>2
  <2>2. ASSUME NEW i \in 1..n PROVE Supports(calls'[t][i], calls'[t][i + 1])
    <3>1. CASE i = n
      <4>1. calls'[t][i].do = "body"
        BY <1>4, <3>1
      <4> QED
        BY <4>1 DEF Supports, Waits
    <3>2. CASE i \in 1..(n - 1)
      <4>1. i \in 1..n /\ i + 1 \in 1..n
        BY <1>2, <3>2
      <4>2. Supports(calls[t][i], calls[t][i + 1])
        BY <1>2, <3>2 DEF IInv, StackInv
      <4> QED
        BY <1>1, <1>2, <4>1, <4>2
    <3> QED
      BY <1>2, <3>1, <3>2
  <2>3. Len(calls'[t]) = n + 1 /\ (n + 1) - 1 = n
    BY <1>1, <1>2
  <2> QED
    BY <2>1, <2>2, <2>3 DEF StackInv
<1>9. ASSUME NEW u \in Threads, u # t PROVE StackInv(u)' /\ AtPython(u)' /\ TopInv(u)'
  <2>1. calls'[u] = calls[u]
    BY <1>1, <1>9
  <2>2. StackInv(u)
    BY DEF IInv
  <2>3. \A i \in 1..Len(calls[u]) : FrameInv(calls[u][i])'
    <3> TAKE i \in 1..Len(calls[u])
    <3>1. PICK c : c = calls[u][i] /\ FrameInv(c)
      BY <2>2 DEF StackInv
    <3>2. FrameInv(c)' /\ calls'[u][i] = c
      BY <1>7, <2>1, <3>1
    <3> QED
      BY <3>2
  <2>4. StackInv(u)'
    BY <2>1, <2>2, <2>3 DEF StackInv
  <2> QED
    BY <1>3, <1>9, <2>1, <2>4, OtherTops DEF IInv
<1>10. TopInv(t)'
  <2>1. PICK m \in Nat : m = n + 1
    BY <1>2
  <2>2. /\ m = Len(calls'[t]) /\ b = calls'[t][m] /\ m - 1 = n /\ (m > 1 => n > 0)
    BY <1>1, <1>2, <2>1
  <2>3. ~ForClosing(t, m)' /\ (m > 1 => calls'[t][m - 1].do # "closed")
    BY <1>4, <2>2 DEF ForClosing
  <2>4. b.do = "throw" => Clean(b.gen)'
    BY <1>3 DEF Clean, Follow
  <2>5. Top(t)' = b
    BY <2>2 DEF Top
  <2> QED
    BY <2>2, <2>3, <2>4, <2>5 DEF TopInv, CalledInv, ResultInv, Waits
<1>11. OneActs'
  BY <1>9 DEF OneActs
<1>12. ASSUME NEW x \in Generators PROVE ObjectInv(x)'
  <2>1. \A u \in Threads : ~Resuming(u, x)
    <3>1. \A u \in Threads : AtPython(u) /\ calls[u] \in Seq(Frame)
      BY <1>3, TypeParts DEF Turn, IInv
    <3> QED
      BY <3>1, AtPythonTop
  <2>2. /\ status[x] # "Running" => yieldFrom[x] = None /\ awaits[x] = None
        /\ yieldFrom[x] = awaits[x] \/ running[x]
    BY <2>1 DEF IInv, ObjectInv
  <2> QED
    BY <1>3, <2>2 DEF ObjectInv
<1>13. Acyclic(yieldFrom)'
  BY <1>3 DEF IInv, Acyclic, Follow
<1> QED
  BY <1>6, <1>8, <1>9, <1>10, <1>11, <1>12, <1>13 DEF IInv

LEMMA ChainIsFollow ==
    ASSUME NEW g
    PROVE  Chain(g) = Follow(yieldFrom, g)
BY DEF Chain, Follow

LEMMA CallThrowKeeps ==
    ASSUME ~ReentrantThrow, IInv, TypeOK', NEW t \in Threads, NEW g \in Generators,
           NEW exc \in {"exit", "error"}, CallThrow(t, g, exc)
    PROVE  IInv'
<1>1. Clean(g)
  <2> SUFFICES ASSUME NEW x \in Follow(yieldFrom, g), running[x] PROVE yieldFrom[x] = None
    BY DEF Clean
  <2>1. x \in Chain(g) /\ x \in Generators
    BY ChainIsFollow DEF Follow
  <2>2. PICK u \in Threads : \E i \in 1..Len(calls[u]) : Runs(u, i, x)
    BY <2>1 DEF IInv, RunningInv
  <2>3. DOMAIN calls[u] = 1..Len(calls[u])
    BY LenProperties, TypeParts DEF IInv
  <2>4. OnStack(x)
    BY <2>2, <2>3 DEF OnStack, Runs
  <2> QED
    BY <2>1, <2>4 DEF CallThrow
<1>2. PICK b \in Frame : b = Call("throw", g, exc)
  BY CallIsFrame DEF Functions, Kinds
<1>3. b.do = "throw" /\ b.gen = g
  BY <1>2 DEF Call
<1> QED
  BY <1>1, <1>2, <1>3, CallsKeeps DEF CallThrow

LEMMA InitKeeps ==
    ASSUME Init
    PROVE  IInv
<1>1. TypeOK
  BY GeneratorsAssumption, EmptySeq DEF Init, TypeOK
<1>2. \A t \in Threads : calls[t] = <<>> /\ Len(calls[t]) = 0
  BY EmptySeq DEF Init
<1>3. \A t \in Threads : AtPython(t) /\ StackInv(t) /\ TopInv(t)
  BY <1>2 DEF AtPython, StackInv, TopInv
<1>4. RunningInv /\ \A g \in Generators : ObjectInv(g)
  BY <1>2 DEF Init, RunningInv, ObjectInv
<1>5. Acyclic(yieldFrom)
  BY DEF Init, Acyclic
<1> QED
  BY <1>1, <1>3, <1>4, <1>5 DEF IInv, OneActs

LEMMA StepKeeps ==
    ASSUME ~ReentrantThrow, IInv, Next
    PROVE  IInv'
<1>1. TypeOK'
  BY TypeStep DEF IInv
<1>2. ASSUME NEW t \in Threads, NEW g \in Generators, NEW do \in {"send", "close"},
             Calls(t, Call(do, g, "none"))
      PROVE  IInv'
  <2>1. PICK b \in Frame : b = Call(do, g, "none")
    BY CallIsFrame DEF Functions, Kinds
  <2>2. b.do = do /\ b.exc = "none"
    BY <2>1 DEF Call
  <2> QED
    BY <1>1, <1>2, <2>1, <2>2, CallsKeeps
<1>3. PICK t \in Threads :
        \/ \E g \in Generators : CallSend(t, g) \/ CallClose(t, g) \/ BodyDelegates(t, g)
        \/ \E g \in Generators, exc \in {"exit", "error"} : CallThrow(t, g, exc)
        \/ BodyYields(t)
        \/ \E r \in {"return", "exit", "error"} : BodyEnds(t, r)
        \/ SendToFinished(t) \/ SendToRunning(t) \/ SendToBody(t) \/ SendToDelegate(t)
        \/ DelegateYields(t) \/ DelegateEnds(t)
        \/ ThrowToDelegate(t) \/ ThrowToBody(t)
        \/ ClosingReturns(t) \/ ThrowingYields(t) \/ ThrowingEnds(t)
        \/ Close(t) \/ CloseReturns(t)
  BY DEF Next
<1>4. CASE \E g \in Generators : CallSend(t, g) \/ CallClose(t, g)
  BY <1>2, <1>4 DEF CallSend, CallClose
<1>5. CASE \E g \in Generators : BodyDelegates(t, g)
  BY <1>1, <1>5, BodyDelegatesKeeps
<1>6. CASE \E g \in Generators, exc \in {"exit", "error"} : CallThrow(t, g, exc)
  BY <1>1, <1>6, CallThrowKeeps
<1>7. CASE BodyYields(t) \/ \E r \in {"return", "exit", "error"} : BodyEnds(t, r)
  BY <1>1, <1>7, BodyYieldsKeeps, BodyEndsKeeps
<1>8. CASE SendToFinished(t) \/ SendToRunning(t) \/ SendToBody(t) \/ SendToDelegate(t)
  BY <1>1, <1>8, SendToFinishedKeeps, SendToRunningKeeps, SendToBodyKeeps, SendToDelegateKeeps
<1>9. CASE DelegateYields(t) \/ DelegateEnds(t) \/ ThrowToDelegate(t) \/ ThrowToBody(t)
  BY <1>1, <1>9, DelegateYieldsKeeps, DelegateEndsKeeps, ThrowToDelegateKeeps, ThrowToBodyKeeps
<1>10. CASE ClosingReturns(t) \/ ThrowingYields(t) \/ ThrowingEnds(t) \/ Close(t) \/ CloseReturns(t)
  BY <1>1, <1>10, ClosingReturnsKeeps, ThrowingYieldsKeeps, ThrowingEndsKeeps, CloseKeeps,
     CloseReturnsKeeps
<1> QED
  BY <1>3, <1>4, <1>5, <1>6, <1>7, <1>8, <1>9, <1>10

-----------------------------------------------------------------------------
(***************************************************************************)
(* The invariant holds, and what follows from it.                          *)
(***************************************************************************)
THEOREM IInvHolds == ~ReentrantThrow => (Spec => []IInv)
<1> SUFFICES ASSUME ~ReentrantThrow PROVE Spec => []IInv
  OBVIOUS
<1>1. Init => IInv
  BY InitKeeps
<1>2. IInv /\ [Next]_vars => IInv'
  <2> SUFFICES ASSUME IInv, [Next]_vars PROVE IInv'
    OBVIOUS
  <2>1. CASE Next
    BY <2>1, StepKeeps
  <2>2. CASE UNCHANGED vars
    <3>1. UNCHANGED <<status, running, yieldFrom, awaits, calls, result, closed>>
      BY <2>2 DEF vars, object
    <3>2. TypeOK' /\ OneActs'
      BY <3>1 DEF IInv, TypeOK, OneActs, AtPython
    <3>3. RunningInv'
      BY <3>1 DEF IInv, RunningInv, Runs, IsActivation
    <3>4. Acyclic(yieldFrom)'
      BY <3>1 DEF IInv, Acyclic, Follow
    <3>5. ASSUME NEW t \in Threads PROVE StackInv(t)'
      BY <3>1 DEF IInv, StackInv, FrameInv, Supports, Target, IsActivation
    <3>6. ASSUME NEW t \in Threads PROVE TopInv(t)'
      <4>1. \A g : (Clean(g)' <=> Clean(g)) /\ (Quiet(g)' <=> Quiet(g))
        BY <3>1 DEF Clean, Quiet, Follow
      <4>2. TopInv(t) /\ Top(t)' = Top(t) /\ \A i : ForClosing(t, i)' <=> ForClosing(t, i)
        BY <3>1 DEF IInv, Top, ForClosing
      <4>3. calls[t] # <<>> => CalledInv(t)'
        BY <3>1, <4>1, <4>2 DEF TopInv, CalledInv, ForClosing
      <4>4. calls[t] # <<>> => ResultInv(t)'
        BY <3>1, <4>1, <4>2 DEF TopInv, ResultInv, ForClosing, Target
      <4> QED
        BY <3>1, <4>3, <4>4 DEF TopInv
    <3>7. ASSUME NEW g \in Generators PROVE ObjectInv(g)'
      BY <3>1 DEF IInv, ObjectInv, Resuming, Top
    <3> QED
      BY <3>2, <3>3, <3>4, <3>5, <3>6, <3>7 DEF IInv
  <2> QED
    BY <2>1, <2>2
<1> QED
  BY <1>1, <1>2, PTL DEF Spec

LEMMA Indices ==
    ASSUME TypeOK, NEW t \in Threads
    PROVE  DOMAIN calls[t] = 1..Len(calls[t])
BY LenProperties, TypeParts

(***************************************************************************)
(* The body of a generator is in one call of one thread at most, and not   *)
(* while the generator waits for the one it delegates to: calls of it that *)
(* have not come back are found out by m_running.                          *)
(***************************************************************************)
THEOREM NoRecursionHolds == ~ReentrantThrow => (Spec => []NoRecursion)
<1> SUFFICES ASSUME ~ReentrantThrow PROVE Spec => []NoRecursion
  OBVIOUS
<1>1. ASSUME IInv PROVE NoRecursion
  <2> SUFFICES ASSUME NEW t \in Threads, NEW u \in Threads, NEW i \in DOMAIN calls[t],
                      NEW j \in DOMAIN calls[u],
                      calls[t][i].do = "body", IsActivation(calls[u][j]),
                      calls[t][i].gen = calls[u][j].gen
               PROVE  t = u /\ i = j
    BY DEF NoRecursion
  <2>1. i \in 1..Len(calls[t]) /\ j \in 1..Len(calls[u])
    BY <1>1, Indices DEF IInv
  <2>2. PICK g \in Generators : g = calls[t][i].gen
    BY <1>1, <2>1, CallFacts DEF IInv
  <2>3. Runs(t, i, g) /\ Runs(u, j, g)
    BY <2>1, <2>2 DEF Runs, IsActivation
  <2> QED
    BY <1>1, <2>1, <2>3 DEF IInv, RunningInv
<1> QED
  BY <1>1, IInvHolds, PTL

(***************************************************************************)
(* A generator that is suspended has in m_yield_from what it delegates to, *)
(* and nothing else, however the exceptions went that were passed to it.   *)
(***************************************************************************)
THEOREM DelegateKeptHolds == ~ReentrantThrow => (Spec => []DelegateKept)
<1> SUFFICES ASSUME ~ReentrantThrow PROVE Spec => []DelegateKept
  OBVIOUS
<1>1. ASSUME IInv PROVE DelegateKept
  <2> SUFFICES ASSUME NEW g \in Generators, ~OnStack(g), \A t \in Threads : AtPython(t)
               PROVE  yieldFrom[g] = awaits[g]
    BY DEF DelegateKept
  <2>1. ~running[g]
    <3> SUFFICES ASSUME running[g] PROVE FALSE
      OBVIOUS
    <3>1. PICK t \in Threads : \E i \in 1..Len(calls[t]) : Runs(t, i, g)
      BY <1>1 DEF IInv, RunningInv
    <3>2. DOMAIN calls[t] = 1..Len(calls[t])
      BY <1>1, Indices DEF IInv
    <3> QED
      BY <3>1, <3>2 DEF OnStack, Runs
  <2>2. \A t \in Threads : calls[t] \in Seq(Frame)
    BY <1>1, TypeParts DEF IInv
  <2>3. \A t \in Threads : ~Resuming(t, g)
    BY <2>2, AtPythonTop
  <2> QED
    BY <1>1, <2>1, <2>3 DEF IInv, ObjectInv
<1> QED
  BY <1>1, IInvHolds, PTL

\* Only these two go to a body.
LEMMA EntersBy ==
    ASSUME TypeOK, NEW t \in Threads, Entered(t), Next
    PROVE  SendToBody(t) \/ DelegateEnds(t)
<1>1. calls[t] # <<>> /\ Top(t).do # "body" /\ Len(calls'[t]) = Len(calls[t]) /\ Top(t)'.do = "body"
  BY DEF Entered
<1>2. PICK n \in Nat \ {0} : n = Len(calls[t])
  BY <1>1, TopFacts
<1>3. Top(t)' = calls'[t][n] /\ calls'[t] # calls[t]
  BY <1>1, <1>2 DEF Top
<1>4. ASSUME NEW u \in Threads, NEW s, calls' = [calls EXCEPT ![u] = s] PROVE u = t
  BY <1>3, <1>4 DEF TypeOK
<1>5. ASSUME NEW u \in Threads, NEW r \in Results, Returns(u, r) PROVE FALSE
  <2>1. u = t
    BY <1>4, <1>5 DEF Returns
  <2>2. Len(calls'[t]) = Len(calls[t]) - 1
    BY <1>1, <1>5, <2>1, Pops
  <2> QED
    BY <1>1, <1>2, <2>2
<1>6. ASSUME NEW u \in Threads, NEW a \in Frame, Goes(u, <<a>>), a.do # "body" PROVE FALSE
  <2>1. u = t
    BY <1>4, <1>6 DEF Goes, BecomesCalls
  <2>2. calls'[t][n] = a
    BY <1>1, <1>2, <1>6, <2>1, GoesOne
  <2> QED
    BY <1>1, <1>3, <1>6, <2>2
<1>7. ASSUME NEW u \in Threads, NEW a \in Frame, NEW b \in Frame, Goes(u, <<a, b>>) PROVE FALSE
  <2>1. u = t
    BY <1>4, <1>7 DEF Goes, BecomesCalls
  <2>2. Len(calls'[t]) = Len(calls[t]) + 1
    BY <1>1, <1>7, <2>1, GoesTwo
  <2> QED
    BY <1>1, <1>2, <2>2
<1>8. ASSUME NEW u \in Threads, NEW b \in Frame, Calls(u, b) PROVE FALSE
  <2>1. u = t
    BY <1>4, <1>8 DEF Calls
  <2>2. Len(calls'[t]) = Len(calls[t]) + 1
    BY <1>8, <2>1, Pushes DEF Calls
  <2> QED
    BY <1>1, <1>2, <2>2
<1>9. ASSUME NEW u \in Threads, EntersBody(u, Top(u).exc) \/ EntersBody(u, Outcome(Top(u), result[u]))
      PROVE  u = t
  BY <1>4, <1>9 DEF EntersBody, Goes, BecomesCalls
<1>10. PICK u \in Threads :
        \/ \E g \in Generators : CallSend(u, g) \/ CallClose(u, g) \/ BodyDelegates(u, g)
        \/ \E g \in Generators, exc \in {"exit", "error"} : CallThrow(u, g, exc)
        \/ BodyYields(u)
        \/ \E r \in {"return", "exit", "error"} : BodyEnds(u, r)
        \/ SendToFinished(u) \/ SendToRunning(u) \/ SendToBody(u) \/ SendToDelegate(u)
        \/ DelegateYields(u) \/ DelegateEnds(u)
        \/ ThrowToDelegate(u) \/ ThrowToBody(u)
        \/ ClosingReturns(u) \/ ThrowingYields(u) \/ ThrowingEnds(u)
        \/ Close(u) \/ CloseReturns(u)
  BY DEF Next
<1>11. CASE SendToBody(u) \/ DelegateEnds(u)
  BY <1>9, <1>11 DEF SendToBody, DelegateEnds
<1>12. ~\E g \in Generators : CallSend(u, g) \/ CallClose(u, g)
  BY <1>8, CallIsFrame DEF CallSend, CallClose, Functions, Kinds
<1>13. ~\E g \in Generators, exc \in {"exit", "error"} : CallThrow(u, g, exc)
  BY <1>8, CallIsFrame DEF CallThrow, Functions, Kinds
<1>14. ~\E h \in Generators : BodyDelegates(u, h)
  <2> SUFFICES ASSUME NEW h \in Generators, BodyDelegates(u, h) PROVE FALSE
    OBVIOUS
  <2>1. /\ Wait("delegate", Top(u).gen, "none", h) \in Frame /\ Call("send", h, "none") \in Frame
    BY InFacts, WaitIsFrame, CallIsFrame DEF BodyDelegates, Waits, Functions, Kinds
  <2> QED
    BY <1>7, <2>1 DEF BodyDelegates
<1>15. ~BodyYields(u) /\ (~\E r \in {"return", "exit", "error"} : BodyEnds(u, r))
  BY <1>5 DEF BodyYields, BodyEnds, Results
<1>16. ~SendToFinished(u)
  <2> SUFFICES ASSUME SendToFinished(u) PROVE FALSE
    OBVIOUS
  <2>1. (IF Top(u).do = "resume" /\ Top(u).exc # "none" THEN Top(u).exc ELSE "return") \in Results
    BY InFacts DEF SendToFinished, Sends, Results, Kinds
  <2> QED
    BY <1>5, <2>1 DEF SendToFinished
<1>17. ~SendToRunning(u) /\ ~DelegateYields(u) /\ ~ThrowingYields(u)
  BY <1>5 DEF SendToRunning, DelegateYields, ThrowingYields, Results
<1>18. ~CloseReturns(u)
  <2> SUFFICES ASSUME CloseReturns(u) PROVE FALSE
    OBVIOUS
  <2>1. (IF CloseFails(result[u]) THEN "error" ELSE "return") \in Results
    BY DEF Results
  <2> QED
    BY <1>5, <2>1 DEF CloseReturns
<1>19. ~SendToDelegate(u)
  <2> SUFFICES ASSUME SendToDelegate(u) PROVE FALSE
    OBVIOUS
  <2>1. Top(u).gen \in Generators /\ Top(u).exc \in Kinds /\ yieldFrom[Top(u).gen] \in Generators
    BY InFacts DEF SendToDelegate, Sends, TypeOK
  <2>2. /\ Wait("delegate", Top(u).gen, Top(u).exc, yieldFrom[Top(u).gen]) \in Frame
        /\ PassTo(yieldFrom[Top(u).gen], Top(u).exc) \in Frame
    BY <2>1, WaitIsFrame, PassToIsFrame DEF Waits
  <2> QED
    BY <1>7, <2>2 DEF SendToDelegate
<1>20. ~ThrowToDelegate(u)
  <2> SUFFICES ASSUME ThrowToDelegate(u) PROVE FALSE
    OBVIOUS
  <2> DEFINE g == Top(u).gen
  <2>1. g \in Generators /\ yieldFrom[g] \in Generators
    BY InFacts DEF ThrowToDelegate, TypeOK
  <2>2. /\ Wait("closing", g, "exit", yieldFrom[g]) \in Frame
        /\ Wait("throwing", g, "error", yieldFrom[g]) \in Frame
        /\ Call("close", yieldFrom[g], "none") \in Frame
        /\ Call("throw", yieldFrom[g], "error") \in Frame
    BY <2>1, WaitIsFrame, CallIsFrame DEF Waits, Functions, Kinds
  <2>3. \/ Goes(u, <<Wait("closing", g, "exit", yieldFrom[g]), Call("close", yieldFrom[g], "none")>>)
        \/ Goes(u, <<Wait("throwing", g, "error", yieldFrom[g]), Call("throw", yieldFrom[g], "error")>>)
    BY DEF ThrowToDelegate
  <2> HIDE DEF g
  <2> QED
    BY <1>7, <2>2, <2>3
<1>21. ~ThrowToBody(u)
  <2> SUFFICES ASSUME ThrowToBody(u) PROVE FALSE
    OBVIOUS
  <2>1. Top(u).exc \in Results /\ Call("send", Top(u).gen, Top(u).exc) \in Frame
    BY InFacts, CallIsFrame DEF ThrowToBody, Results, Kinds, Functions
  <2>2. Call("send", Top(u).gen, Top(u).exc).do # "body"
    BY DEF Call
  <2> QED
    BY <1>5, <1>6, <2>1, <2>2 DEF ThrowToBody
<1>22. ~ClosingReturns(u)
  <2> SUFFICES ASSUME ClosingReturns(u) PROVE FALSE
    OBVIOUS
  <2>1. PICK a : a = Call("send", Top(u).gen, IF result[u] = "error" THEN "error" ELSE "exit")
    OBVIOUS
  <2>2. a \in Frame /\ a.do # "body"
    BY <2>1, InFacts, CallIsFrame DEF ClosingReturns, Kinds, Functions, Call
  <2> QED
    BY <1>6, <2>1, <2>2 DEF ClosingReturns
<1>23. ~ThrowingEnds(u)
  <2> SUFFICES ASSUME ThrowingEnds(u) PROVE FALSE
    OBVIOUS
  <2>1. PICK a : a = Call("resume", Top(u).gen, IF result[u] = "return" THEN "none" ELSE result[u])
    OBVIOUS
  <2>2. a \in Frame /\ a.do # "body"
    BY <2>1, InFacts, CallIsFrame DEF ThrowingEnds, Kinds, Functions, Call
  <2> QED
    BY <1>6, <2>1, <2>2 DEF ThrowingEnds
<1>24. ~Close(u)
  <2> SUFFICES ASSUME Close(u) PROVE FALSE
    OBVIOUS
  <2>1. Wait("closed", Top(u).gen, "exit", None) \in Frame /\ Call("send", Top(u).gen, "exit") \in Frame
    BY InFacts, WaitIsFrame, CallIsFrame DEF Close, Waits, Kinds, Functions
  <2> QED
    BY <1>5, <1>7, <2>1 DEF Close, Results
<1> QED
  BY <1>10, <1>11, <1>12, <1>13, <1>14, <1>15, <1>16, <1>17, <1>18, <1>19, <1>20, <1>21, <1>22,
     <1>23, <1>24

(***************************************************************************)
(* A body that has delegated is not entered again, but with an exception,  *)
(* before its delegate has come to its end.                                *)
(***************************************************************************)
THEOREM ResumedAfterDelegateHolds == ~ReentrantThrow => (Spec => ResumedAfterDelegate)
<1> SUFFICES ASSUME ~ReentrantThrow PROVE Spec => ResumedAfterDelegate
  OBVIOUS
<1>1. ASSUME IInv, NEW t \in Threads, SendToBody(t), awaits[Top(t).gen] # None, Top(t)'.exc # "error"
      PROVE  status[awaits[Top(t).gen]] # "Running"
  <2>1. In(t, "send") \/ In(t, "resume")
    BY <1>1 DEF SendToBody, Sends
  <2>2. PICK c \in Frame : c = Top(t)
    BY <1>1, <2>1, TopKnown
  <2>3. PICK g \in Generators : g = c.gen
    BY <1>1, <2>1, <2>2, TopKnown
  <2>4. ~running[g] /\ yieldFrom[g] = None /\ Goes(t, <<Call("body", g, c.exc)>>)
    BY <1>1, <2>2, <2>3 DEF SendToBody, MayRun, EntersBody
  <2>5. c.exc \in Kinds /\ calls[t] # <<>>
    BY <1>1, <2>1, <2>2, TopKnown
  <2>6. PICK a \in Frame : a = Call("body", g, c.exc)
    BY <2>5, CallIsFrame DEF Functions
  <2>7. Top(t)' = a
    BY <1>1, <2>4, <2>5, <2>6, GoesOne DEF IInv, Top
  <2>8. c.exc # "error"
    BY <1>1, <2>6, <2>7 DEF Call
  <2>9. CASE In(t, "send")
    BY <1>1, <2>2, <2>3, <2>4, <2>9, Suspended
  <2>10. CASE In(t, "resume")
    BY <1>1, <2>2, <2>3, <2>8, <2>10, TopKnown DEF CalledInv
  <2> QED
    BY <2>1, <2>9, <2>10
<1>2. ASSUME IInv, NEW t \in Threads, DelegateEnds(t), awaits[Top(t).gen] # None, Top(t)'.exc # "error"
      PROVE  status[awaits[Top(t).gen]] # "Running"
  <2>1. In(t, "delegate") /\ result[t] \in {"return", "exit", "error"}
    BY <1>2 DEF DelegateEnds
  <2>2. PICK c \in Frame : c = Top(t)
    BY <1>2, <2>1, TopKnown
  <2>3. PICK g \in Generators : g = c.gen
    BY <1>2, <2>1, <2>2, TopKnown
  <2>4. calls[t] # <<>> /\ c.do = "delegate" /\ awaits[g] = c.to
    BY <1>2, <2>1, <2>2, <2>3, TopKnown DEF FrameInv
  <2>5. PICK exc \in Kinds : exc = Outcome(c, result[t])
    BY <2>1, OutcomeIsKind
  <2>6. PICK a \in Frame : a = Call("body", g, exc)
    BY CallIsFrame DEF Functions
  <2>7. Goes(t, <<a>>)
    BY <1>2, <2>2, <2>3, <2>5, <2>6 DEF DelegateEnds, EntersBody
  <2>8. Top(t)' = a
    BY <1>2, <2>4, <2>7, GoesOne DEF IInv, Top
  <2>9. Outcome(c, result[t]) # "error"
    BY <1>2, <2>5, <2>6, <2>8 DEF Call
  <2>10. result[t] \in {"return", "exit"}
    BY <2>1, <2>9 DEF Outcome
  <2> QED
    BY <1>2, <2>1, <2>2, <2>3, <2>4, <2>10, TopKnown DEF ResultInv, Waits, Target
<1>3. ASSUME IInv, [Next]_vars
      PROVE  [\A t \in Threads :
                Entered(t) /\ awaits[Top(t).gen] # None /\ Top(t)'.exc # "error" =>
                    status[awaits[Top(t).gen]] # "Running"]_vars
  <2>1. CASE UNCHANGED vars
    BY <2>1
  <2>2. CASE Next
    BY <1>1, <1>2, <1>3, <2>2, EntersBy DEF IInv
  <2> QED
    BY <1>3, <2>1, <2>2
<1> QED
  BY <1>3, IInvHolds, PTL DEF Spec, ResumedAfterDelegate

(***************************************************************************)
(* When close has succeeded for a generator that had begun, it is at its   *)
(* end: it is in no call any more, and is never resumed.                   *)
(***************************************************************************)
FinishedInv == \A g \in closed : status[g] = "Finished"

\* A generator that is finished stays so.
LEMMA StaysFinished ==
    ASSUME TypeOK, [Next]_vars, NEW g \in Generators, status[g] = "Finished"
    PROVE  status'[g] = "Finished"
<1> USE DEF TypeOK, object
<1>1. CASE UNCHANGED vars
  BY <1>1 DEF vars
<1>2. CASE Next
  BY <1>2 DEF Next, CallSend, CallClose, CallThrow, Calls, BodyDelegates, BodyYields, BodyEnds,
     SendToFinished, SendToRunning, SendToBody, MayRun, SendToDelegate, DelegateYields,
     DelegateEnds, ThrowToDelegate, ThrowToBody, ClosingReturns, ThrowingYields, ThrowingEnds,
     Close, CloseReturns
<1> QED
  BY <1>1, <1>2

LEMMA CloseFinishes ==
    ASSUME IInv, [Next]_vars, NEW g \in closed' \ closed
    PROVE  status'[g] = "Finished"
<1>1. PICK t \in Threads : Close(t) \/ CloseReturns(t)
  BY DEF Next, CallSend, CallClose, CallThrow, Calls, BodyDelegates, BodyYields, BodyEnds,
     SendToFinished, SendToRunning, SendToBody, SendToDelegate, DelegateYields, DelegateEnds,
     ThrowToDelegate, ThrowToBody, ClosingReturns, ThrowingYields, ThrowingEnds, vars
<1>2. CASE Close(t)
  <2>1. g = Top(t).gen /\ status[g] \notin {"Unused", "Running"} /\ UNCHANGED status
    BY <1>2 DEF Close, object
  <2>2. g \in Generators
    BY <1>2, <2>1, TopKnown DEF Close
  <2> QED
    BY <2>1, <2>2 DEF IInv, TypeOK
<1>3. CASE CloseReturns(t)
  <2>1. In(t, "closed") /\ result[t] # "none" /\ ~CloseFails(result[t]) /\ g = Top(t).gen
        /\ UNCHANGED status
    BY <1>3 DEF CloseReturns, object
  <2>2. result[t] \in {"return", "exit"}
    BY <2>1, TypeParts DEF IInv, Results, CloseFails
  <2>3. Top(t).do = "closed" /\ ResultInv(t) /\ g \in Generators /\ FrameInv(Top(t))
    BY <2>1, TopKnown
  <2>4. status[g] # "Running"
    BY <2>1, <2>2, <2>3 DEF ResultInv, Waits, Target
  <2>5. status[g] # "Unused"
    BY <2>1, <2>3 DEF FrameInv
  <2> QED
    BY <2>1, <2>3, <2>4, <2>5 DEF IInv, TypeOK
<1> QED
  BY <1>1, <1>2, <1>3

THEOREM CloseEndsHolds == ~ReentrantThrow => (Spec => []CloseEnds)
<1> SUFFICES ASSUME ~ReentrantThrow PROVE Spec => []CloseEnds
  OBVIOUS
<1>1. Init => FinishedInv
  BY DEF Init, FinishedInv
<1>2. IInv /\ FinishedInv /\ [Next]_vars => FinishedInv'
  <2> SUFFICES ASSUME IInv, FinishedInv, [Next]_vars, NEW g \in closed'
               PROVE  status'[g] = "Finished"
    BY DEF FinishedInv
  <2>1. CASE g \in closed
    BY <2>1, StaysFinished DEF FinishedInv, IInv, TypeOK
  <2>2. CASE g \notin closed
    BY <2>2, CloseFinishes
  <2> QED
    BY <2>1, <2>2
<1>3. IInv /\ FinishedInv => CloseEnds
  <2> SUFFICES ASSUME IInv, NEW g \in closed, status[g] = "Finished" PROVE ~OnStack(g)
    BY DEF FinishedInv, CloseEnds
  <2> SUFFICES ASSUME NEW t \in Threads, NEW i \in DOMAIN calls[t], calls[t][i].gen = g,
                      IsActivation(calls[t][i])
               PROVE  FALSE
    BY DEF OnStack
  <2>1. i \in 1..Len(calls[t])
    BY TypeParts, LenProperties DEF IInv
  <2>2. FrameInv(calls[t][i])
    BY <2>1 DEF IInv, StackInv
  <2> QED
    BY <2>2 DEF FrameInv
<1> QED
  BY <1>1, <1>2, <1>3, IInvHolds, PTL DEF Spec

-----------------------------------------------------------------------------
(***************************************************************************)
(* Which generator runs in which, as functions of a stack s, and of the    *)
(* stacks c of all threads.                                                *)
(***************************************************************************)
InnermostOf(s, n) ==
    LET active == {i \in 1..n : IsActivation(s[i])}
    IN  IF active = {} THEN None
        ELSE s[CHOOSE i \in active : \A j \in active : j <= i].gen

RunsIn(c, t, i, g) == i \in 1..Len(c[t]) /\ IsActivation(c[t][i]) /\ c[t][i].gen = g

ResumerOf(c, g) ==
    IF ~\E t \in Threads : \E i \in DOMAIN c[t] : c[t][i].gen = g /\ IsActivation(c[t][i])
    THEN None
    ELSE CHOOSE h \in Generators \cup {None} :
            \E t \in Threads : \E i \in DOMAIN c[t] :
                /\ c[t][i].gen = g /\ IsActivation(c[t][i])
                /\ h = InnermostOf(c[t], i - 1)

Stacks == [Threads -> Seq(Frame)]

\* g runs in the i-th call of t, and in no other.
RunsOnlyIn(c, t, i, g) ==
    /\ RunsIn(c, t, i, g)
    /\ \A u \in Threads : \A j \in Nat : RunsIn(c, u, j, g) => u = t /\ j = i

LEMMA LeastOfNat ==
    ASSUME NEW T \in SUBSET Nat, T # {}
    PROVE  \E n \in T : \A m \in T : n <= m
<1>1. \E x \in T : \A y \in T : ~(<<y, x>> \in OpToRel(<, Nat))
  BY WFMin, NatLessThanWellFounded
<1>2. PICK x \in T : \A y \in T : ~(<<y, x>> \in OpToRel(<, Nat))
  BY <1>1
<1>3. \A y \in T : ~(y < x)
  BY <1>2 DEF OpToRel
<1> QED
  BY <1>3

LEMMA GreatestUpTo ==
    ASSUME NEW n \in Nat, NEW S \in SUBSET (1..n), S # {}
    PROVE  \E i \in S : \A j \in S : j <= i
<1> DEFINE T == {n - i : i \in S}
<1>1. T \in SUBSET Nat /\ T # {}
  <2>1. \A i \in S : i \in Nat /\ n - i \in Nat
    OBVIOUS
  <2>2. PICK i : i \in S
    OBVIOUS
  <2>3. n - i \in T
    BY <2>2
  <2> QED
    BY <2>1, <2>3
<1>2. PICK k \in T : \A m \in T : k <= m
  BY <1>1, LeastOfNat
<1>3. PICK i \in S : k = n - i
  BY <1>2
<1>4. \A j \in S : n - i <= n - j
  BY <1>2, <1>3
<1> QED
  BY <1>4

LEMMA InnermostIs ==
    ASSUME NEW s, NEW n \in Nat, NEW i \in 1..n, IsActivation(s[i]),
           \A j \in 1..n : IsActivation(s[j]) => j <= i
    PROVE  InnermostOf(s, n) = s[i].gen
<1> DEFINE active == {j \in 1..n : IsActivation(s[j])}
<1>1. i \in active /\ \A j \in active : j <= i
  OBVIOUS
<1>2. \A k \in active : (\A j \in active : j <= k) => k = i
  BY <1>1
<1>3. (CHOOSE k \in active : \A j \in active : j <= k) = i
  BY <1>1, <1>2
<1> QED
  BY <1>1, <1>3 DEF InnermostOf

LEMMA InnermostType ==
    ASSUME NEW s, NEW n \in Nat, \A i \in 1..n : s[i].gen \in Generators
    PROVE  InnermostOf(s, n) \in Generators \cup {None}
<1> DEFINE active == {j \in 1..n : IsActivation(s[j])}
<1>1. CASE active = {}
  BY <1>1 DEF InnermostOf
<1>2. CASE active # {}
  <2>1. PICK i \in active : \A j \in active : j <= i
    BY <1>2, GreatestUpTo
  <2> QED
    BY <2>1, InnermostIs
<1> QED
  BY <1>1, <1>2

LEMMA InnermostSkips ==
    ASSUME NEW s, NEW n \in Nat \ {0}, ~IsActivation(s[n])
    PROVE  InnermostOf(s, n) = InnermostOf(s, n - 1)
<1> DEFINE S == {j \in 1..n : IsActivation(s[j])}
           R == {j \in 1..(n - 1) : IsActivation(s[j])}
<1>1. (\A j \in 1..n : j = n \/ j \in 1..(n - 1)) /\ (\A j \in 1..(n - 1) : j \in 1..n)
  OBVIOUS
<1>2. S = R
  BY <1>1
<1>3. CASE S = {}
  BY <1>2, <1>3 DEF InnermostOf
<1>4. CASE S # {}
  <2>1. PICK i \in S : \A j \in S : j <= i
    BY <1>4, GreatestUpTo
  <2>2. n - 1 \in Nat /\ i \in R /\ \A j \in R : j <= i
    BY <1>2, <2>1
  <2>3. InnermostOf(s, n) = s[i].gen /\ InnermostOf(s, n - 1) = s[i].gen
    BY <2>1, <2>2, InnermostIs
  <2> QED
    BY <2>3
<1> QED
  BY <1>3, <1>4

LEMMA InnermostSame ==
    ASSUME NEW s, NEW r, NEW n \in Nat, \A i \in 1..n : s[i] = r[i]
    PROVE  InnermostOf(s, n) = InnermostOf(r, n)
<1> DEFINE S == {j \in 1..n : IsActivation(s[j])}
           R == {j \in 1..n : IsActivation(r[j])}
<1>1. S = R
  OBVIOUS
<1>2. CASE S = {}
  BY <1>1, <1>2 DEF InnermostOf
<1>3. CASE S # {}
  <2>1. PICK i \in S : \A j \in S : j <= i
    BY <1>3, GreatestUpTo
  <2>2. InnermostOf(s, n) = s[i].gen /\ InnermostOf(r, n) = r[i].gen
    BY <2>1, InnermostIs
  <2> QED
    BY <2>1, <2>2
<1> QED
  BY <1>2, <1>3

LEMMA ResumerIs ==
    ASSUME NEW c \in Stacks, NEW t \in Threads, NEW i \in Nat, NEW g,
           RunsOnlyIn(c, t, i, g)
    PROVE  ResumerOf(c, g) = InnermostOf(c[t], i - 1)
<1>1. \A u \in Threads : c[u] \in Seq(Frame)
  BY DEF Stacks
<1>2. \A u \in Threads : DOMAIN c[u] = 1..Len(c[u]) /\ Len(c[u]) \in Nat
  BY <1>1, LenProperties
<1>3. InnermostOf(c[t], i - 1) \in Generators \cup {None}
  <2>1. i - 1 \in Nat /\ \A j \in 1..(i - 1) : j \in 1..Len(c[t])
    BY <1>2 DEF RunsOnlyIn, RunsIn
  <2>2. \A j \in 1..Len(c[t]) : c[t][j] \in Frame
    BY <1>1, ElementOfSeq
  <2>3. \A j \in 1..(i - 1) : c[t][j].gen \in Generators
    BY <2>1, <2>2 DEF Frame
  <2> QED
    BY <2>1, <2>3, InnermostType
<1>4. \A u \in Threads : \A j \in DOMAIN c[u] :
          c[u][j].gen = g /\ IsActivation(c[u][j]) => u = t /\ j = i
  BY <1>2 DEF RunsOnlyIn, RunsIn
<1>5. i \in DOMAIN c[t] /\ c[t][i].gen = g /\ IsActivation(c[t][i])
  BY <1>2 DEF RunsOnlyIn, RunsIn
<1> DEFINE P(h) == \E u \in Threads : \E j \in DOMAIN c[u] :
                      /\ c[u][j].gen = g /\ IsActivation(c[u][j])
                      /\ h = InnermostOf(c[u], j - 1)
<1>6. \A h : P(h) <=> h = InnermostOf(c[t], i - 1)
  BY <1>4, <1>5
<1>7. (CHOOSE h \in Generators \cup {None} : P(h)) = InnermostOf(c[t], i - 1)
  BY <1>3, <1>6
<1> QED
  BY <1>5, <1>7 DEF ResumerOf

LEMMA ResumerNone ==
    ASSUME NEW c \in Stacks, NEW g,
           \A u \in Threads : \A j \in Nat : ~RunsIn(c, u, j, g)
    PROVE  ResumerOf(c, g) = None
<1>1. \A u \in Threads : c[u] \in Seq(Frame)
  BY DEF Stacks
<1>2. \A u \in Threads : DOMAIN c[u] = 1..Len(c[u]) /\ Len(c[u]) \in Nat
  BY <1>1, LenProperties
<1> QED
  BY <1>2 DEF ResumerOf, RunsIn

-----------------------------------------------------------------------------
(***************************************************************************)
(* What a step of t changes of it.                                         *)
(***************************************************************************)
LEMMA RunsOnce ==
    ASSUME IInv
    PROVE  \A g \in Generators, u \in Threads, v \in Threads : \A i \in Nat, j \in Nat :
               RunsIn(calls, u, i, g) /\ RunsIn(calls, v, j, g) => u = v /\ i = j
BY DEF IInv, RunningInv, Runs, RunsIn

LEMMA RunsOnceNext ==
    ASSUME IInv'
    PROVE  \A g \in Generators, u \in Threads, v \in Threads : \A i \in Nat, j \in Nat :
               RunsIn(calls', u, i, g) /\ RunsIn(calls', v, j, g) => u = v /\ i = j
BY DEF IInv, RunningInv, Runs, RunsIn

LEMMA ResumerKept ==
    ASSUME IInv, IInv', NEW t \in Threads, NEW n \in Nat \ {0}, NEW x \in Generators,
           \A u \in Threads \ {t} : calls'[u] = calls[u],
           \A i \in 1..(n - 1) : calls'[t][i] = calls[t][i],
           \A u \in Threads, i \in Nat : RunsIn(calls', u, i, x) <=> RunsIn(calls, u, i, x),
           \A i \in Nat : RunsIn(calls, t, i, x) => i <= n
    PROVE  ResumerOf(calls', x) = ResumerOf(calls, x)
<1>1. calls \in Stacks /\ calls' \in Stacks
  BY DEF IInv, TypeOK, Frame, Stacks
<1>2. CASE \A u \in Threads, i \in Nat : ~RunsIn(calls, u, i, x)
  BY <1>1, <1>2, ResumerNone
<1>3. ASSUME NEW u \in Threads, NEW i \in Nat, RunsIn(calls, u, i, x)
      PROVE  ResumerOf(calls', x) = ResumerOf(calls, x)
  <2>1. RunsIn(calls', u, i, x) /\ (u = t => i <= n)
    BY <1>3
  <2>2. ResumerOf(calls, x) = InnermostOf(calls[u], i - 1)
    <3>1. RunsOnlyIn(calls, u, i, x)
      BY <1>3, RunsOnce DEF RunsOnlyIn
    <3> QED
      BY <1>1, <3>1, ResumerIs
  <2>3. ResumerOf(calls', x) = InnermostOf(calls'[u], i - 1)
    <3>1. RunsOnlyIn(calls', u, i, x)
      BY <2>1, RunsOnceNext DEF RunsOnlyIn
    <3> QED
      BY <1>1, <3>1, ResumerIs
  <2>4. i - 1 \in Nat /\ \A j \in 1..(i - 1) : calls'[u][j] = calls[u][j]
    <3>1. i - 1 \in Nat
      BY <1>3 DEF RunsIn
    <3>2. CASE u = t
      <4>1. \A j \in 1..(i - 1) : j \in 1..(n - 1)
        BY <2>1, <3>2
      <4> QED
        BY <3>1, <3>2, <4>1
    <3>3. CASE u # t
      BY <3>1, <3>3
    <3> QED
      BY <3>2, <3>3
  <2> QED
    BY <2>2, <2>3, <2>4, InnermostSame
<1> QED
  BY <1>2, <1>3

\* The generator of the top runs in it before the step, or after it.
RunsBefore(t) == IsActivation(calls[t][Len(calls[t])])
RunsAfter(t) ==
    /\ Len(calls[t]) <= Len(calls'[t])
    /\ IsActivation(calls'[t][Len(calls[t])])

Around(t) == InnermostOf(calls[t], Len(calls[t]) - 1)

TopChanges(t, g) ==
    /\ \A u \in Threads \ {t} :
           InnermostOf(calls'[u], Len(calls'[u])) = InnermostOf(calls[u], Len(calls[u]))
    /\ InnermostOf(calls[t], Len(calls[t])) = IF RunsBefore(t) THEN g ELSE Around(t)
    /\ InnermostOf(calls'[t], Len(calls'[t])) = IF RunsAfter(t) THEN g ELSE Around(t)
    /\ \A x \in Generators \ {g} : ResumerOf(calls', x) = ResumerOf(calls, x)
    /\ RunsBefore(t) => ResumerOf(calls, g) = Around(t)
    /\ RunsAfter(t) => ResumerOf(calls', g) = Around(t)
    /\ RunsBefore(t) /\ ~RunsAfter(t) => ResumerOf(calls', g) = None
    /\ ~RunsBefore(t) /\ ~RunsAfter(t) => ResumerOf(calls', g) = ResumerOf(calls, g)

LEMMA TopChangesOnly ==
    ASSUME IInv, IInv', NEW t \in Threads, calls[t] # <<>>, CallsKept(t),
           NEW g \in Generators, g = Top(t).gen,
           NEW n \in Nat \ {0}, n = Len(calls[t]), NEW m \in Nat, m = Len(calls'[t]),
           m \in {n - 1, n, n + 1},
           n <= m => calls'[t][n].gen = g,
           m = n + 1 => ~IsActivation(calls'[t][n + 1])
    PROVE  TopChanges(t, g)
<1>1. \A u \in Threads \ {t} : calls'[u] = calls[u]
  BY DEF CallsKept
<1>2. \A i \in 1..(n - 1) : calls'[t][i] = calls[t][i]
  BY DEF CallsKept
<1>3. calls[t][n].gen = g
  BY DEF Top
<1>4. n - 1 \in Nat /\ n \in 1..n /\ (n <= m => n \in 1..m) /\ n \in Nat
  OBVIOUS
<1>5. InnermostOf(calls'[t], n - 1) = Around(t)
  <2>1. InnermostOf(calls'[t], n - 1) = InnermostOf(calls[t], n - 1)
    BY <1>2, <1>4, InnermostSame
  <2> QED
    BY <2>1 DEF Around
<1>6. InnermostOf(calls[t], n) = IF RunsBefore(t) THEN g ELSE Around(t)
  <2>1. CASE RunsBefore(t)
    <3>1. \A j \in 1..n : IsActivation(calls[t][j]) => j <= n
      OBVIOUS
    <3> QED
      BY <1>3, <1>4, <2>1, <3>1, InnermostIs DEF RunsBefore
  <2>2. CASE ~RunsBefore(t)
    BY <2>2, InnermostSkips DEF RunsBefore, Around
  <2> QED
    BY <2>1, <2>2
<1>7. n <= m => InnermostOf(calls'[t], n) = IF RunsAfter(t) THEN g ELSE Around(t)
  <2> SUFFICES ASSUME n <= m PROVE InnermostOf(calls'[t], n) = IF RunsAfter(t) THEN g ELSE Around(t)
    OBVIOUS
  <2>1. CASE RunsAfter(t)
    <3>1. \A j \in 1..n : IsActivation(calls'[t][j]) => j <= n
      OBVIOUS
    <3> QED
      BY <1>4, <2>1, <3>1, InnermostIs DEF RunsAfter
  <2>2. CASE ~RunsAfter(t)
    BY <1>5, <2>2, InnermostSkips DEF RunsAfter
  <2> QED
    BY <2>1, <2>2
<1>8. InnermostOf(calls'[t], m) = IF RunsAfter(t) THEN g ELSE Around(t)
  <2>1. CASE m = n - 1
    <3>1. ~RunsAfter(t)
      BY <2>1 DEF RunsAfter
    <3> QED
      BY <1>5, <2>1, <3>1
  <2>2. CASE m = n
    BY <1>7, <2>2
  <2>3. CASE m = n + 1
    <3>1. m \in Nat \ {0} /\ m - 1 = n /\ n <= m
      BY <2>3
    <3>2. InnermostOf(calls'[t], m) = InnermostOf(calls'[t], n)
      BY <2>3, <3>1, InnermostSkips
    <3> QED
      BY <1>7, <3>1, <3>2
  <2> QED
    BY <2>1, <2>2, <2>3
<1>9. \A x \in Generators, u \in Threads, i \in Nat :
          RunsIn(calls', u, i, x) <=>
              IF u = t /\ i = n THEN RunsAfter(t) /\ x = g ELSE RunsIn(calls, u, i, x)
  <2> TAKE x \in Generators, u \in Threads, i \in Nat
  <2>1. CASE u # t
    BY <1>1, <2>1 DEF RunsIn
  <2>2. CASE u = t /\ i = n
    <3>1. n \in 1..m <=> n <= m
      OBVIOUS
    <3> QED
      BY <2>2, <3>1 DEF RunsIn, RunsAfter
  <2>3. CASE u = t /\ i < n
    <3>1. /\ i \in 1..m <=> i \in 1..(n - 1)
          /\ i \in 1..n <=> i \in 1..(n - 1)
      BY <2>3
    <3>2. i # n
      BY <2>3
    <3> QED
      BY <1>2, <2>3, <3>1, <3>2 DEF RunsIn
  <2>4. CASE u = t /\ i > n
    <3>1. i \notin 1..n /\ i # n /\ (i \in 1..m => m = n + 1 /\ i = n + 1)
      BY <2>4
    <3> QED
      BY <2>4, <3>1 DEF RunsIn
  <2> QED
    BY <2>1, <2>2, <2>3, <2>4
<1>10. RunsBefore(t) <=> RunsIn(calls, t, n, g)
  BY <1>3, <1>4 DEF RunsBefore, RunsIn
<1>11. RunsAfter(t) <=> RunsIn(calls', t, n, g)
  BY <1>9
<1>12. \A i \in Nat, x \in Generators : RunsIn(calls, t, i, x) => i <= n
  BY DEF RunsIn
<1>13. ASSUME NEW x \in Generators, x # g \/ (~RunsBefore(t) /\ ~RunsAfter(t))
       PROVE  ResumerOf(calls', x) = ResumerOf(calls, x)
  <2>1. \A u \in Threads, i \in Nat : RunsIn(calls', u, i, x) <=> RunsIn(calls, u, i, x)
    <3>1. ~RunsIn(calls, t, n, x) /\ ~(RunsAfter(t) /\ x = g)
      BY <1>3, <1>10, <1>13 DEF RunsIn
    <3> QED
      BY <1>9, <3>1
  <2> QED
    BY <1>1, <1>2, <1>12, <2>1, ResumerKept
<1>14. calls \in Stacks /\ calls' \in Stacks
  BY DEF IInv, TypeOK, Frame, Stacks
<1>15. RunsBefore(t) => ResumerOf(calls, g) = Around(t)
  <2> SUFFICES ASSUME RunsBefore(t) PROVE ResumerOf(calls, g) = Around(t)
    OBVIOUS
  <2>1. RunsOnlyIn(calls, t, n, g)
    BY <1>4, <1>10, RunsOnce DEF RunsOnlyIn
  <2>2. ResumerOf(calls, g) = InnermostOf(calls[t], n - 1)
    BY <1>4, <1>14, <2>1, ResumerIs
  <2> QED
    BY <2>2 DEF Around
<1>16. RunsAfter(t) => ResumerOf(calls', g) = Around(t)
  <2> SUFFICES ASSUME RunsAfter(t) PROVE ResumerOf(calls', g) = Around(t)
    OBVIOUS
  <2>1. RunsOnlyIn(calls', t, n, g)
    BY <1>4, <1>11, RunsOnceNext DEF RunsOnlyIn
  <2>2. ResumerOf(calls', g) = InnermostOf(calls'[t], n - 1)
    BY <1>4, <1>14, <2>1, ResumerIs
  <2> QED
    BY <1>5, <2>2
<1>17. RunsBefore(t) /\ ~RunsAfter(t) => ResumerOf(calls', g) = None
  <2> SUFFICES ASSUME RunsBefore(t), ~RunsAfter(t) PROVE ResumerOf(calls', g) = None
    OBVIOUS
  <2>1. \A u \in Threads, i \in Nat : ~RunsIn(calls', u, i, g)
    <3>1. \A u \in Threads, i \in Nat : RunsIn(calls, u, i, g) => u = t /\ i = n
      BY <1>4, <1>10, RunsOnce
    <3> QED
      BY <1>9, <3>1
  <2> QED
    BY <1>14, <2>1, ResumerNone
<1> QED
  BY <1>1, <1>6, <1>8, <1>13, <1>15, <1>16, <1>17 DEF TopChanges

-----------------------------------------------------------------------------
(***************************************************************************)
(* The refinement, step by step.                                           *)
(***************************************************************************)
LEMMA Maps ==
    /\ \A t \in Threads : /\ Innermost(t, Len(calls[t])) = InnermostOf(calls[t], Len(calls[t]))
                          /\ Innermost(t, Len(calls[t]))' = InnermostOf(calls'[t], Len(calls'[t]))
    /\ \A g \in Generators : /\ Resumer(g) = ResumerOf(calls, g)
                             /\ Resumer(g)' = ResumerOf(calls', g)
<1>1. \A t, n : Innermost(t, n) = InnermostOf(calls[t], n)
  BY DEF Innermost, InnermostOf
<1>2. \A t : Innermost(t, Len(calls[t]))' = InnermostOf(calls'[t], Len(calls'[t]))
  BY DEF Innermost, InnermostOf
<1>3. \A g : Resumer(g) = ResumerOf(calls, g)
  BY DEF Resumer, ResumerOf, OnStack, Innermost, InnermostOf
<1>4. \A g : Resumer(g)' = ResumerOf(calls', g)
  BY DEF Resumer, ResumerOf, OnStack, Innermost, InnermostOf
<1> QED
  BY <1>1, <1>2, <1>3, <1>4

SameState(g) == \A x \in Generators \ {g} : GeneratorState(x)' = GeneratorState(x)

LEMMA OthersSameState ==
    ASSUME TypeOK, NEW g, OnlyAt(g)
    PROVE  SameState(g)
<1> SUFFICES ASSUME NEW x \in Generators \ {g} PROVE GeneratorState(x)' = GeneratorState(x)
  BY DEF SameState
<1>1. /\ status'[x] = status[x] /\ running'[x] = running[x]
      /\ status[x] \in {"Unused", "Running", "Finished"}
  BY DEF OnlyAt, TypeOK
<1> QED
  BY <1>1 DEF GeneratorState

LEMMA Resumes ==
    ASSUME TypeOK, NEW t \in Threads, NEW g \in Generators, TopChanges(t, g), SameState(g),
           ~RunsBefore(t), RunsAfter(t), ~running[g], status[g] # "Finished", running'[g]
    PROVE  States!Resume(t, g)
<1>1. GeneratorState(g) \in {"GEN_CREATED", "GEN_SUSPENDED"} /\ GeneratorState(g)' = "GEN_RUNNING"
  BY DEF GeneratorState, TypeOK
<1>2. /\ \A u \in Threads \ {t} : Innermost(u, Len(calls[u]))' = Innermost(u, Len(calls[u]))
      /\ Innermost(t, Len(calls[t]))' = g
      /\ \A x \in Generators \ {g} : Resumer(x)' = Resumer(x)
      /\ Resumer(g)' = Innermost(t, Len(calls[t]))
  BY Maps DEF TopChanges
<1> QED
  BY <1>1, <1>2 DEF States!Resume, SameState

LEMMA Leaves ==
    ASSUME TypeOK', NEW t \in Threads, NEW g \in Generators, TopChanges(t, g), SameState(g),
           RunsBefore(t), ~RunsAfter(t), running[g], ~running'[g], status'[g] # "Unused"
    PROVE  States!Leave(t, g)
<1>1. GeneratorState(g) = "GEN_RUNNING" /\ GeneratorState(g)' \in {"GEN_SUSPENDED", "GEN_CLOSED"}
  BY DEF GeneratorState, TypeOK
<1>2. /\ \A u \in Threads \ {t} : Innermost(u, Len(calls[u]))' = Innermost(u, Len(calls[u]))
      /\ Innermost(t, Len(calls[t])) = g /\ Innermost(t, Len(calls[t]))' = Resumer(g)
      /\ \A x \in Generators \ {g} : Resumer(x)' = Resumer(x)
      /\ Resumer(g)' = None
  BY Maps DEF TopChanges
<1> QED
  BY <1>1, <1>2 DEF States!Leave, SameState

LEMMA Stays ==
    ASSUME NEW t \in Threads, NEW g \in Generators, TopChanges(t, g), SameState(g),
           RunsBefore(t) <=> RunsAfter(t)
    PROVE  /\ \A u \in Threads : Innermost(u, Len(calls[u]))' = Innermost(u, Len(calls[u]))
           /\ \A x \in Generators : Resumer(x)' = Resumer(x)
           /\ GeneratorState(g)' = GeneratorState(g) => UNCHANGED States!vars
<1>1. /\ \A u \in Threads : Innermost(u, Len(calls[u]))' = Innermost(u, Len(calls[u]))
      /\ \A x \in Generators : Resumer(x)' = Resumer(x)
  BY Maps DEF TopChanges
<1> QED
  BY <1>1 DEF SameState, States!vars

LEMMA PopMaps ==
    ASSUME IInv, IInv', NEW t \in Threads, calls[t] # <<>>, NEW g \in Generators, g = Top(t).gen,
           NEW r \in Results, Returns(t, r)
    PROVE  TopChanges(t, g) /\ ~RunsAfter(t) /\ (RunsBefore(t) <=> IsActivation(Top(t)))
<1>1. PICK n \in Nat \ {0} : n = Len(calls[t])
  BY TopFacts DEF IInv
<1>2. CallsKept(t) /\ Len(calls'[t]) = n - 1
  BY <1>1, Pops DEF IInv, Kept
<1>3. PICK m \in Nat : m = n - 1
  <2>1. n - 1 \in Nat
    BY SMT
  <2> QED
    BY <2>1, Zenon
<1>4. m \in {n - 1, n, n + 1} /\ ~(n <= m) /\ m # n + 1
  BY <1>1, <1>3
<1> QED
  BY <1>1, <1>2, <1>3, <1>4, TopChangesOnly DEF RunsAfter, RunsBefore, Top

LEMMA OneMaps ==
    ASSUME IInv, IInv', NEW t \in Threads, calls[t] # <<>>, NEW g \in Generators, g = Top(t).gen,
           NEW a \in Frame, a.gen = g, Goes(t, <<a>>)
    PROVE  /\ TopChanges(t, g) /\ (RunsAfter(t) <=> IsActivation(a))
           /\ RunsBefore(t) <=> IsActivation(Top(t))
<1>1. PICK n \in Nat \ {0} : n = Len(calls[t])
  BY TopFacts DEF IInv
<1>2. CallsKept(t) /\ Len(calls'[t]) = n /\ calls'[t][n] = a
  BY <1>1, GoesOne DEF IInv, Kept
<1>3. n \in {n - 1, n, n + 1} /\ n # n + 1 /\ n <= n /\ n \in Nat
  BY <1>1
<1>4. TopChanges(t, g)
  BY <1>1, <1>2, <1>3, TopChangesOnly
<1> QED
  BY <1>1, <1>2, <1>3, <1>4 DEF RunsAfter, RunsBefore, Top

LEMMA TwoMaps ==
    ASSUME IInv, IInv', NEW t \in Threads, calls[t] # <<>>, NEW g \in Generators, g = Top(t).gen,
           NEW a \in Frame, a.gen = g, NEW b \in Frame, ~IsActivation(b), Goes(t, <<a, b>>)
    PROVE  /\ TopChanges(t, g) /\ (RunsAfter(t) <=> IsActivation(a))
           /\ RunsBefore(t) <=> IsActivation(Top(t))
<1>1. PICK n \in Nat \ {0} : n = Len(calls[t])
  BY TopFacts DEF IInv
<1>2. CallsKept(t) /\ Len(calls'[t]) = n + 1 /\ calls'[t][n] = a /\ calls'[t][n + 1] = b
  BY <1>1, GoesTwo DEF IInv, Kept
<1>3. PICK m \in Nat : m = n + 1
  BY <1>1
<1>4. m \in {n - 1, n, n + 1} /\ n <= m
  BY <1>1, <1>3
<1>5. TopChanges(t, g)
  BY <1>1, <1>2, <1>3, <1>4, TopChangesOnly
<1> QED
  BY <1>1, <1>2, <1>3, <1>4, <1>5 DEF RunsAfter, RunsBefore, Top

LEMMA PushMaps ==
    ASSUME IInv, IInv', NEW t \in Threads, NEW b \in Frame, ~IsActivation(b), Calls(t, b)
    PROVE  UNCHANGED States!vars
<1>1. /\ calls' \in [Threads -> Seq(Frame)]
      /\ \A u \in Threads \ {t} : calls'[u] = calls[u]
      /\ Len(calls[t]) \in Nat /\ Len(calls'[t]) = Len(calls[t]) + 1
      /\ \A i \in 1..Len(calls[t]) : calls'[t][i] = calls[t][i]
      /\ calls'[t][Len(calls[t]) + 1] = b
  BY Pushes DEF Calls, IInv
<1>2. PICK n \in Nat : n = Len(calls[t])
  BY <1>1
<1>3. UNCHANGED <<status, running>>
  BY DEF Calls, object
<1>4. InnermostOf(calls'[t], n + 1) = InnermostOf(calls[t], n)
  <2>1. n + 1 \in Nat \ {0} /\ (n + 1) - 1 = n
    OBVIOUS
  <2>2. InnermostOf(calls'[t], n + 1) = InnermostOf(calls'[t], n)
    BY <1>1, <1>2, <2>1, InnermostSkips
  <2>3. InnermostOf(calls'[t], n) = InnermostOf(calls[t], n)
    BY <1>1, <1>2, InnermostSame
  <2> QED
    BY <2>2, <2>3
<1>5. PICK k \in Nat \ {0} : k = n + 1
  OBVIOUS
<1>6. \A x \in Generators, u \in Threads, i \in Nat : RunsIn(calls', u, i, x) <=> RunsIn(calls, u, i, x)
  <2> TAKE x \in Generators, u \in Threads, i \in Nat
  <2>1. CASE u # t
    BY <1>1, <2>1 DEF RunsIn
  <2>2. CASE u = t /\ i <= n
    <3>1. i \in 1..n <=> i \in 1..(n + 1)
      BY <2>2
    <3> QED
      BY <1>1, <1>2, <2>2, <3>1 DEF RunsIn
  <2>3. CASE u = t /\ i > n
    <3>1. i \notin 1..n /\ (i \in 1..(n + 1) => i = n + 1)
      BY <2>3
    <3> QED
      BY <1>1, <1>2, <2>3, <3>1 DEF RunsIn
  <2> QED
    BY <2>1, <2>2, <2>3
<1>7. \A x \in Generators, i \in Nat : RunsIn(calls, t, i, x) => i <= k
  BY <1>2, <1>5 DEF RunsIn
<1>8. \A i \in 1..(k - 1) : calls'[t][i] = calls[t][i]
  BY <1>1, <1>2, <1>5
<1>9. \A x \in Generators : ResumerOf(calls', x) = ResumerOf(calls, x)
  <2> TAKE x \in Generators
  <2>1. \A u \in Threads, i \in Nat : RunsIn(calls', u, i, x) <=> RunsIn(calls, u, i, x)
    BY <1>6
  <2>2. \A i \in Nat : RunsIn(calls, t, i, x) => i <= k
    BY <1>7
  <2> QED
    BY <1>1, <1>8, <2>1, <2>2, ResumerKept
<1>10. \A u \in Threads : Innermost(u, Len(calls[u]))' = Innermost(u, Len(calls[u]))
  BY <1>1, <1>2, <1>4, Maps
<1>11. \A x \in Generators : Resumer(x)' = Resumer(x)
  BY <1>9, Maps
<1>12. \A x \in Generators : GeneratorState(x)' = GeneratorState(x)
  <2> TAKE x \in Generators
  <2>1. status'[x] = status[x] /\ running'[x] = running[x] /\ status[x] \in {"Unused", "Running", "Finished"}
    BY <1>3 DEF IInv, TypeOK
  <2> QED
    BY <2>1 DEF GeneratorState
<1> QED
  BY <1>10, <1>11, <1>12 DEF States!vars

LEMMA SameStateAt ==
    ASSUME TypeOK, NEW g \in Generators, status'[g] = status[g], running'[g] = running[g]
    PROVE  GeneratorState(g)' = GeneratorState(g)
<1>1. status[g] \in {"Unused", "Running", "Finished"}
  BY DEF TypeOK
<1> QED
  BY <1>1 DEF GeneratorState

LEMMA PopLeaves ==
    ASSUME IInv, IInv', NEW t \in Threads, NEW do, In(t, do),
           do \in {"body", "delegate", "throwing"}, NEW r \in Results, Returns(t, r),
           MarkAsNotRunning(Top(t).gen), NEW g \in Generators, g = Top(t).gen,
           \A x \in Generators \ {g} : status'[x] = status[x], status'[g] # "Unused"
    PROVE  States!Leave(t, g)
<1>1. calls[t] # <<>> /\ IsActivation(Top(t)) /\ running[g] /\ status[g] = "Running"
  BY TopKnown DEF IsActivation, FrameInv
<1>2. TopChanges(t, g) /\ ~RunsAfter(t) /\ RunsBefore(t)
  BY <1>1, PopMaps
<1>3. ~running'[g] /\ \A x \in Generators \ {g} : running'[x] = running[x]
  BY DEF MarkAsNotRunning, IInv, TypeOK
<1>4. SameState(g)
  BY <1>3, SameStateAt DEF SameState, IInv
<1> QED
  BY <1>1, <1>2, <1>3, <1>4, Leaves DEF IInv

LEMMA PopStays ==
    ASSUME IInv, IInv', NEW t \in Threads, NEW do, In(t, do), do \in {"send", "resume", "close", "closed"},
           NEW r \in Results, Returns(t, r), UNCHANGED object
    PROVE  UNCHANGED States!vars
<1>1. PICK g \in Generators : g = Top(t).gen
  BY TopKnown
<1>2. calls[t] # <<>> /\ ~IsActivation(Top(t))
  BY TopKnown DEF IsActivation
<1>3. TopChanges(t, g) /\ ~RunsAfter(t) /\ ~RunsBefore(t)
  BY <1>1, <1>2, PopMaps
<1>4. SameState(g) /\ GeneratorState(g)' = GeneratorState(g)
  BY SameStateAt DEF SameState, object, IInv
<1> QED
  BY <1>3, <1>4, Stays

LEMMA BodyDelegatesMaps ==
    ASSUME IInv, IInv', NEW t \in Threads, NEW h \in Generators, BodyDelegates(t, h)
    PROVE  UNCHANGED States!vars
<1>1. In(t, "body")
  BY DEF BodyDelegates
<1>2. PICK g \in Generators : g = Top(t).gen
  BY <1>1, TopKnown
<1>3. calls[t] # <<>> /\ IsActivation(Top(t))
  BY <1>1, TopKnown DEF IsActivation
<1>4. PICK a \in Frame : a = Wait("delegate", g, "none", h)
  BY WaitIsFrame DEF Waits, Kinds
<1>5. PICK b \in Frame : b = Call("send", h, "none")
  BY CallIsFrame DEF Functions, Kinds
<1>6. a.gen = g /\ IsActivation(a) /\ ~IsActivation(b)
  BY <1>4, <1>5 DEF Wait, Call, IsActivation
<1>7. Goes(t, <<a, b>>) /\ UNCHANGED <<status, running>>
  BY <1>2, <1>4, <1>5 DEF BodyDelegates
<1>8. TopChanges(t, g) /\ RunsAfter(t) /\ RunsBefore(t)
  BY <1>2, <1>3, <1>6, <1>7, TwoMaps
<1>9. SameState(g) /\ GeneratorState(g)' = GeneratorState(g)
  BY <1>7, SameStateAt DEF SameState, IInv
<1> QED
  BY <1>8, <1>9, Stays

LEMMA SendToBodyMaps ==
    ASSUME IInv, IInv', NEW t \in Threads, SendToBody(t)
    PROVE  \E g \in Generators : States!Resume(t, g)
<1>1. In(t, "send") \/ In(t, "resume")
  BY DEF SendToBody, Sends
<1>2. PICK g \in Generators : g = Top(t).gen
  BY <1>1, TopKnown
<1>3. /\ calls[t] # <<>> /\ ~IsActivation(Top(t)) /\ Top(t).exc \in Kinds
      /\ status[g] # "Finished" /\ ~running[g]
  BY <1>1, <1>2, TopKnown DEF IsActivation, SendToBody, MayRun
<1>4. PICK a \in Frame : a = Call("body", g, Top(t).exc)
  BY <1>3, CallIsFrame DEF Functions
<1>5. a.gen = g /\ IsActivation(a)
  BY <1>4 DEF Call, IsActivation
<1>6. /\ Goes(t, <<a>>) /\ status' = [status EXCEPT ![g] = "Running"]
      /\ running' = [running EXCEPT ![g] = TRUE]
  BY <1>2, <1>4 DEF SendToBody, EntersBody, MarkAsRunning
<1>7. TopChanges(t, g) /\ RunsAfter(t) /\ ~RunsBefore(t)
  BY <1>2, <1>3, <1>5, <1>6, OneMaps
<1>8. running'[g] /\ \A x \in Generators \ {g} : status'[x] = status[x] /\ running'[x] = running[x]
  BY <1>6 DEF IInv, TypeOK
<1>9. SameState(g)
  BY <1>8, SameStateAt DEF SameState, IInv
<1> QED
  BY <1>3, <1>7, <1>8, <1>9, Resumes DEF IInv

LEMMA SendToDelegateMaps ==
    ASSUME IInv, IInv', NEW t \in Threads, SendToDelegate(t)
    PROVE  \E g \in Generators : States!Resume(t, g)
<1>1. In(t, "send") \/ In(t, "resume")
  BY DEF SendToDelegate, Sends
<1>2. PICK g \in Generators : g = Top(t).gen
  BY <1>1, TopKnown
<1>3. /\ calls[t] # <<>> /\ ~IsActivation(Top(t)) /\ Top(t).exc \in Kinds
      /\ status[g] # "Finished" /\ ~running[g]
  BY <1>1, <1>2, TopKnown DEF IsActivation, SendToDelegate, MayRun
<1>4. PICK h \in Generators : h = yieldFrom[g]
  BY <1>2 DEF SendToDelegate, IInv, TypeOK
<1>5. PICK a \in Frame : a = Wait("delegate", g, Top(t).exc, h)
  BY <1>3, WaitIsFrame DEF Waits
<1>6. PICK b \in Frame : b = PassTo(h, Top(t).exc)
  BY <1>3, PassToIsFrame
<1>7. a.gen = g /\ IsActivation(a) /\ ~IsActivation(b)
  BY <1>3, <1>5, <1>6, PassToFacts DEF Wait, IsActivation
<1>8. Goes(t, <<a, b>>) /\ UNCHANGED status /\ running' = [running EXCEPT ![g] = TRUE]
  BY <1>2, <1>4, <1>5, <1>6 DEF SendToDelegate, MarkAsRunning
<1>9. TopChanges(t, g) /\ RunsAfter(t) /\ ~RunsBefore(t)
  BY <1>2, <1>3, <1>7, <1>8, TwoMaps
<1>10. running'[g] /\ \A x \in Generators \ {g} : status'[x] = status[x] /\ running'[x] = running[x]
  BY <1>8 DEF IInv, TypeOK
<1>11. SameState(g)
  BY <1>10, SameStateAt DEF SameState, IInv
<1> QED
  BY <1>3, <1>9, <1>10, <1>11, Resumes DEF IInv

LEMMA DelegateEndsMaps ==
    ASSUME IInv, IInv', NEW t \in Threads, DelegateEnds(t)
    PROVE  UNCHANGED States!vars
<1>1. In(t, "delegate") /\ result[t] \in {"return", "exit", "error"}
  BY DEF DelegateEnds
<1>2. PICK g \in Generators : g = Top(t).gen
  BY <1>1, TopKnown
<1>3. calls[t] # <<>> /\ IsActivation(Top(t))
  BY <1>1, TopKnown DEF IsActivation
<1>4. PICK exc \in Kinds : exc = Outcome(Top(t), result[t])
  BY <1>1, OutcomeIsKind
<1>5. PICK a \in Frame : a = Call("body", g, exc)
  BY CallIsFrame DEF Functions
<1>6. a.gen = g /\ IsActivation(a)
  BY <1>5 DEF Call, IsActivation
<1>7. Goes(t, <<a>>) /\ UNCHANGED <<status, running>>
  BY <1>2, <1>4, <1>5 DEF DelegateEnds, EntersBody
<1>8. TopChanges(t, g) /\ RunsAfter(t) /\ RunsBefore(t)
  BY <1>2, <1>3, <1>6, <1>7, OneMaps
<1>9. SameState(g) /\ GeneratorState(g)' = GeneratorState(g)
  BY <1>7, SameStateAt DEF SameState, IInv
<1> QED
  BY <1>8, <1>9, Stays

LEMMA ThrowToDelegateMaps ==
    ASSUME IInv, IInv', NEW t \in Threads, ThrowToDelegate(t)
    PROVE  \E g \in Generators : States!Resume(t, g)
<1>1. In(t, "throw")
  BY DEF ThrowToDelegate
<1>2. PICK g \in Generators : g = Top(t).gen
  BY <1>1, TopKnown
<1>3. PICK h \in Generators : h = yieldFrom[g] /\ h # None
  BY <1>2, GeneratorsAssumption DEF ThrowToDelegate, IInv, TypeOK
<1>4. /\ calls[t] # <<>> /\ ~IsActivation(Top(t)) /\ Clean(g) /\ ObjectInv(g)
  BY <1>1, <1>2, TopKnown DEF IsActivation, CalledInv
<1>5. ~running[g] /\ status[g] = "Running"
  BY <1>3, <1>4, FollowSelf DEF Clean, ObjectInv
<1>6. PICK a \in Frame, b \in Frame :
          Goes(t, <<a, b>>) /\ a.gen = g /\ IsActivation(a) /\ ~IsActivation(b)
  <2>1. CASE Top(t).exc = "exit"
    <3>1. /\ Wait("closing", g, "exit", h) \in Frame /\ Call("close", h, "none") \in Frame
          /\ Goes(t, <<Wait("closing", g, "exit", h), Call("close", h, "none")>>)
      BY <1>2, <1>3, <2>1, WaitIsFrame, CallIsFrame DEF ThrowToDelegate, Waits, Functions, Kinds
    <3> QED
      BY <3>1 DEF Wait, Call, IsActivation
  <2>2. CASE Top(t).exc # "exit"
    <3>1. /\ Wait("throwing", g, "error", h) \in Frame /\ Call("throw", h, "error") \in Frame
          /\ Goes(t, <<Wait("throwing", g, "error", h), Call("throw", h, "error")>>)
      BY <1>2, <1>3, <2>2, WaitIsFrame, CallIsFrame DEF ThrowToDelegate, Waits, Functions, Kinds
    <3> QED
      BY <3>1 DEF Wait, Call, IsActivation
  <2> QED
    BY <2>1, <2>2
<1>7. UNCHANGED status /\ running' = [running EXCEPT ![g] = TRUE]
  BY <1>2 DEF ThrowToDelegate, MarkAsRunning
<1>8. TopChanges(t, g) /\ RunsAfter(t) /\ ~RunsBefore(t)
  BY <1>2, <1>4, <1>6, TwoMaps
<1>9. running'[g] /\ \A x \in Generators \ {g} : status'[x] = status[x] /\ running'[x] = running[x]
  BY <1>7 DEF IInv, TypeOK
<1>10. SameState(g)
  BY <1>9, SameStateAt DEF SameState, IInv
<1> QED
  BY <1>5, <1>8, <1>9, <1>10, Resumes DEF IInv

LEMMA ThrowToBodyMaps ==
    ASSUME IInv, IInv', NEW t \in Threads, ThrowToBody(t)
    PROVE  UNCHANGED States!vars \/ \E g \in Generators : States!ThrowFirst(g)
<1>1. In(t, "throw")
  BY DEF ThrowToBody
<1>2. PICK g \in Generators : g = Top(t).gen
  BY <1>1, TopKnown
<1>3. calls[t] # <<>> /\ ~IsActivation(Top(t)) /\ Top(t).exc \in Kinds /\ UNCHANGED running
  BY <1>1, <1>2, TopKnown DEF IsActivation, ThrowToBody
<1>4. CASE Goes(t, <<Call("send", g, Top(t).exc)>>) /\ UNCHANGED status
  <2>1. PICK a \in Frame : a = Call("send", g, Top(t).exc)
    BY <1>3, CallIsFrame DEF Functions
  <2>2. a.gen = g /\ ~IsActivation(a)
    BY <2>1 DEF Call, IsActivation
  <2>3. TopChanges(t, g) /\ ~RunsAfter(t) /\ ~RunsBefore(t)
    BY <1>2, <1>3, <1>4, <2>1, <2>2, OneMaps
  <2>4. SameState(g) /\ GeneratorState(g)' = GeneratorState(g)
    BY <1>3, <1>4, SameStateAt DEF SameState, IInv
  <2> QED
    BY <2>3, <2>4, Stays
<1>5. CASE /\ status[g] # "Running" /\ status' = [status EXCEPT ![g] = "Finished"]
           /\ Returns(t, Top(t).exc)
  <2>1. Top(t).exc \in Results
    BY <1>3 DEF Kinds, Results
  <2>2. TopChanges(t, g) /\ ~RunsAfter(t) /\ ~RunsBefore(t)
    BY <1>2, <1>3, <1>5, <2>1, PopMaps
  <2>3. SameState(g) /\ status'[g] = "Finished"
    <3>1. status'[g] = "Finished" /\ \A x \in Generators \ {g} : status'[x] = status[x]
      BY <1>5 DEF IInv, TypeOK
    <3> QED
      BY <1>3, <3>1, SameStateAt DEF SameState, IInv
  <2>4. /\ \A u \in Threads : Innermost(u, Len(calls[u]))' = Innermost(u, Len(calls[u]))
        /\ \A x \in Generators : Resumer(x)' = Resumer(x)
        /\ GeneratorState(g)' = GeneratorState(g) => UNCHANGED States!vars
    BY <2>2, <2>3, Stays
  <2>5. CASE status[g] = "Finished" \/ running[g]
    <3>1. GeneratorState(g)' = GeneratorState(g)
      BY <1>3, <2>3, <2>5 DEF GeneratorState
    <3> QED
      BY <2>4, <3>1
  <2>6. CASE status[g] = "Unused" /\ ~running[g]
    <3>1. GeneratorState(g) = "GEN_CREATED" /\ GeneratorState(g)' = "GEN_CLOSED"
      BY <1>3, <2>3, <2>6 DEF GeneratorState
    <3>2. States!ThrowFirst(g)
      BY <2>3, <2>4, <3>1 DEF States!ThrowFirst, SameState
    <3> QED
      BY <3>2
  <2> QED
    BY <1>5, <2>5, <2>6 DEF IInv, TypeOK
<1> QED
  BY <1>2, <1>4, <1>5 DEF ThrowToBody

\* The steps that go on in the same call, but no more as the generator.
LEMMA OneLeaves ==
    ASSUME IInv, IInv', NEW t \in Threads, NEW do, In(t, do), do \in {"closing", "throwing"},
           NEW g \in Generators, g = Top(t).gen,
           NEW a \in Frame, a.gen = g, ~IsActivation(a), Goes(t, <<a>>),
           MarkAsNotRunning(g), UNCHANGED status
    PROVE  States!Leave(t, g)
<1>1. calls[t] # <<>> /\ IsActivation(Top(t)) /\ running[g] /\ status[g] = "Running"
  BY TopKnown DEF IsActivation, FrameInv
<1>2. TopChanges(t, g) /\ ~RunsAfter(t) /\ RunsBefore(t)
  BY <1>1, OneMaps
<1>3. ~running'[g] /\ \A x \in Generators \ {g} : running'[x] = running[x]
  BY DEF MarkAsNotRunning, IInv, TypeOK
<1>4. SameState(g)
  BY <1>3, SameStateAt DEF SameState, IInv
<1> QED
  BY <1>1, <1>2, <1>3, <1>4, Leaves DEF IInv

LEMMA CloseMaps ==
    ASSUME IInv, IInv', NEW t \in Threads, Close(t)
    PROVE  UNCHANGED States!vars
<1>1. In(t, "close") /\ UNCHANGED object
  BY DEF Close
<1>2. PICK g \in Generators : g = Top(t).gen
  BY <1>1, TopKnown
<1>3. CASE Returns(t, "return")
  BY <1>1, <1>3, PopStays DEF Results
<1>4. CASE Goes(t, <<Wait("closed", g, "exit", None), Call("send", g, "exit")>>)
  <2>1. PICK a \in Frame, b \in Frame : a = Wait("closed", g, "exit", None) /\ b = Call("send", g, "exit")
    BY WaitIsFrame, CallIsFrame DEF Waits, Functions, Kinds
  <2>2. a.gen = g /\ ~IsActivation(a) /\ ~IsActivation(b)
    BY <2>1 DEF Wait, Call, IsActivation
  <2>3. calls[t] # <<>> /\ ~IsActivation(Top(t))
    BY <1>1, TopKnown DEF IsActivation
  <2>4. TopChanges(t, g) /\ ~RunsAfter(t) /\ ~RunsBefore(t)
    BY <1>2, <1>4, <2>1, <2>2, <2>3, TwoMaps
  <2>5. SameState(g) /\ GeneratorState(g)' = GeneratorState(g)
    BY <1>1, SameStateAt DEF SameState, IInv, object
  <2> QED
    BY <2>4, <2>5, Stays
<1> QED
  BY <1>2, <1>3, <1>4 DEF Close
\* Each step of the generators is one of the coroutines, or none.
Mapped == States!Next \/ UNCHANGED States!vars

LEMMA StepMaps ==
    ASSUME IInv, IInv', Next
    PROVE  Mapped
<1>1. ASSUME NEW t \in Threads, NEW g \in Generators, States!Resume(t, g) \/ States!Leave(t, g)
      PROVE  Mapped
  BY <1>1 DEF States!Next, Mapped
<1>2. ASSUME NEW t \in Threads, NEW g \in Generators, NEW do \in {"send", "close", "throw"},
             NEW exc \in Kinds, Calls(t, Call(do, g, exc))
      PROVE  UNCHANGED States!vars
  <2>1. PICK b \in Frame : b = Call(do, g, exc)
    BY CallIsFrame DEF Functions
  <2>2. ~IsActivation(b)
    BY <2>1 DEF Call, IsActivation
  <2> QED
    BY <1>2, <2>1, <2>2, PushMaps
<1>3. ASSUME NEW t \in Threads, NEW do \in {"body", "delegate", "throwing"}, In(t, do),
             NEW r \in Results, Returns(t, r), MarkAsNotRunning(Top(t).gen),
             \/ UNCHANGED status
             \/ status' = [status EXCEPT ![Top(t).gen] = "Finished"]
      PROVE  Mapped
  <2>1. PICK g \in Generators : g = Top(t).gen
    BY <1>3, TopKnown
  <2>2. IsActivation(Top(t)) /\ status[g] = "Running"
    BY <1>3, <2>1, TopKnown DEF IsActivation, FrameInv
  <2>3. status'[g] # "Unused" /\ \A x \in Generators \ {g} : status'[x] = status[x]
    BY <1>3, <2>1, <2>2 DEF IInv, TypeOK
  <2>4. States!Leave(t, g)
    BY <1>3, <2>1, <2>3, PopLeaves
  <2> QED
    BY <1>1, <2>4
<1>4. ASSUME NEW t \in Threads, ClosingReturns(t) \/ ThrowingEnds(t)
      PROVE  Mapped
  <2>1. PICK do \in {"closing", "throwing"} :
            In(t, do) /\ (do = "closing" => ClosingReturns(t)) /\ (do = "throwing" => ThrowingEnds(t))
    BY <1>4 DEF ClosingReturns, ThrowingEnds
  <2>2. PICK g \in Generators : g = Top(t).gen
    BY <2>1, TopKnown
  <2>3. PICK a \in Frame : Goes(t, <<a>>) /\ a.gen = g /\ ~IsActivation(a)
    <3>1. CASE do = "closing"
      <4>1. PICK exc \in Kinds : exc = IF result[t] = "error" THEN "error" ELSE "exit"
        BY DEF Kinds
      <4>2. Call("send", g, exc) \in Frame /\ Goes(t, <<Call("send", g, exc)>>)
        BY <2>1, <2>2, <3>1, <4>1, CallIsFrame DEF ClosingReturns, Functions
      <4> QED
        BY <4>2 DEF Call, IsActivation
    <3>2. CASE do = "throwing"
      <4>1. PICK exc \in Kinds : exc = IF result[t] = "return" THEN "none" ELSE result[t]
        BY <2>1, <3>2 DEF ThrowingEnds, Kinds
      <4>2. Call("resume", g, exc) \in Frame /\ Goes(t, <<Call("resume", g, exc)>>)
        BY <2>1, <2>2, <3>2, <4>1, CallIsFrame DEF ThrowingEnds, Functions
      <4> QED
        BY <4>2 DEF Call, IsActivation
    <3> QED
      BY <2>1, <3>1, <3>2
  <2>4. MarkAsNotRunning(g) /\ UNCHANGED status
    BY <2>1, <2>2 DEF ClosingReturns, ThrowingEnds
  <2>5. States!Leave(t, g)
    BY <2>1, <2>2, <2>3, <2>4, OneLeaves
  <2> QED
    BY <1>1, <2>5
<1>5. ASSUME NEW t \in Threads, SendToFinished(t) \/ SendToRunning(t) \/ CloseReturns(t)
      PROVE  UNCHANGED States!vars
  <2>1. PICK do \in {"send", "resume", "closed"} : In(t, do)
    BY <1>5 DEF SendToFinished, SendToRunning, CloseReturns, Sends
  <2>2. Top(t).exc \in Kinds
    BY <2>1, TopKnown
  <2>3. PICK r \in Results : Returns(t, r) /\ UNCHANGED object
    <3>1. CASE SendToFinished(t)
      <4>1. PICK r \in Results :
                r = IF Top(t).do = "resume" /\ Top(t).exc # "none" THEN Top(t).exc ELSE "return"
        BY <2>2 DEF Results, Kinds
      <4> QED
        BY <3>1, <4>1 DEF SendToFinished
    <3>2. CASE SendToRunning(t)
      BY <3>2 DEF SendToRunning, Results
    <3>3. CASE CloseReturns(t)
      BY <3>3 DEF CloseReturns, Results
    <3> QED
      BY <1>5, <3>1, <3>2, <3>3
  <2> QED
    BY <2>1, <2>3, PopStays
<1>6. PICK t \in Threads :
        \/ \E g \in Generators : CallSend(t, g) \/ CallClose(t, g) \/ BodyDelegates(t, g)
        \/ \E g \in Generators, exc \in {"exit", "error"} : CallThrow(t, g, exc)
        \/ BodyYields(t)
        \/ \E r \in {"return", "exit", "error"} : BodyEnds(t, r)
        \/ SendToFinished(t) \/ SendToRunning(t) \/ SendToBody(t) \/ SendToDelegate(t)
        \/ DelegateYields(t) \/ DelegateEnds(t)
        \/ ThrowToDelegate(t) \/ ThrowToBody(t)
        \/ ClosingReturns(t) \/ ThrowingYields(t) \/ ThrowingEnds(t)
        \/ Close(t) \/ CloseReturns(t)
  BY DEF Next
<1>7. CASE \/ \E g \in Generators : CallSend(t, g) \/ CallClose(t, g)
           \/ \E g \in Generators, exc \in {"exit", "error"} : CallThrow(t, g, exc)
  <2>1. UNCHANGED States!vars
    BY <1>2, <1>7 DEF CallSend, CallClose, CallThrow, Kinds
  <2> QED
    BY <2>1 DEF Mapped
<1>8. CASE \E g \in Generators : BodyDelegates(t, g)
  BY <1>8, BodyDelegatesMaps DEF Mapped
<1>9. CASE BodyYields(t)
  <2>1. /\ In(t, "body") /\ "yield" \in Results /\ Returns(t, "yield")
        /\ MarkAsNotRunning(Top(t).gen) /\ UNCHANGED status
    BY <1>9 DEF BodyYields, Results
  <2> QED
    BY <1>3, <2>1
<1>10. CASE \E r \in {"return", "exit", "error"} : BodyEnds(t, r)
  <2>1. PICK r \in {"return", "exit", "error"} : BodyEnds(t, r)
    BY <1>10
  <2>2. /\ In(t, "body") /\ r \in Results /\ Returns(t, r) /\ MarkAsNotRunning(Top(t).gen)
        /\ status' = [status EXCEPT ![Top(t).gen] = "Finished"]
    BY <2>1 DEF BodyEnds, Results
  <2> QED
    BY <1>3, <2>2
<1>11. CASE SendToBody(t) \/ SendToDelegate(t) \/ ThrowToDelegate(t)
  BY <1>1, <1>11, SendToBodyMaps, SendToDelegateMaps, ThrowToDelegateMaps
<1>12. CASE DelegateYields(t)
  <2>1. /\ In(t, "delegate") /\ "yield" \in Results /\ Returns(t, "yield")
        /\ MarkAsNotRunning(Top(t).gen) /\ UNCHANGED status
    BY <1>12 DEF DelegateYields, Results
  <2> QED
    BY <1>3, <2>1
<1>13. CASE ThrowingYields(t)
  <2>1. /\ In(t, "throwing") /\ "yield" \in Results /\ Returns(t, "yield")
        /\ MarkAsNotRunning(Top(t).gen) /\ UNCHANGED status
    BY <1>13 DEF ThrowingYields, Results
  <2> QED
    BY <1>3, <2>1
<1>14. CASE DelegateEnds(t) \/ Close(t)
  BY <1>14, DelegateEndsMaps, CloseMaps DEF Mapped
<1>15. CASE ThrowToBody(t)
  BY <1>15, ThrowToBodyMaps DEF States!Next, Mapped
<1>16. CASE SendToFinished(t) \/ SendToRunning(t) \/ CloseReturns(t)
  BY <1>5, <1>16 DEF Mapped
<1>17. CASE ClosingReturns(t) \/ ThrowingEnds(t)
  BY <1>4, <1>17
<1> QED
  BY <1>6, <1>7, <1>8, <1>9, <1>10, <1>11, <1>12, <1>13, <1>14, <1>15, <1>16, <1>17

(***************************************************************************)
(* Compiled generators are coroutines, IsCoroutine, for any program and    *)
(* any number of threads: _Nuitka_Generator_send and the functions for     *)
(* throw and close resume no generator that runs or is closed, each one    *)
(* gives control back to what resumed it, and a generator that waits for   *)
(* its delegate runs as long.                                              *)
(***************************************************************************)
THEOREM IsCoroutineHolds == ~ReentrantThrow => (Spec => IsCoroutine)
<1> SUFFICES ASSUME ~ReentrantThrow PROVE Spec => IsCoroutine
  OBVIOUS
<1>1. Init => States!Init
  <2> SUFFICES ASSUME Init PROVE States!Init
    OBVIOUS
  <2>1. \A t \in Threads : calls[t] = <<>> /\ Len(calls[t]) = 0
    BY EmptySeq DEF Init
  <2>2. \A t \in Threads : Innermost(t, Len(calls[t])) = None
    BY <2>1 DEF Innermost
  <2>3. \A g \in Generators : Resumer(g) = None
    BY <2>1, EmptySeq DEF Resumer, OnStack
  <2>4. \A g \in Generators : GeneratorState(g) = "GEN_CREATED"
    BY DEF Init, GeneratorState
  <2> QED
    BY <2>2, <2>3, <2>4 DEF States!Init
<1>2. IInv /\ IInv' /\ [Next]_vars => [States!Next]_(States!vars)
  <2> SUFFICES ASSUME IInv, IInv', [Next]_vars PROVE States!Next \/ UNCHANGED States!vars
    OBVIOUS
  <2>1. CASE Next
    BY <2>1, StepMaps DEF Mapped
  <2>2. CASE UNCHANGED vars
    <3>1. UNCHANGED <<status, running, calls>>
      BY <2>2 DEF vars, object
    <3>2. \A g \in Generators : GeneratorState(g)' = GeneratorState(g)
      BY <3>1, SameStateAt DEF IInv
    <3>3. \A t \in Threads : Innermost(t, Len(calls[t]))' = Innermost(t, Len(calls[t]))
      BY <3>1, Maps
    <3>4. \A g \in Generators : Resumer(g)' = Resumer(g)
      BY <3>1, Maps
    <3> QED
      BY <3>2, <3>3, <3>4 DEF States!vars
  <2> QED
    BY <2>1, <2>2
<1>3. Spec => []IInv
  BY IInvHolds
<1> QED
  BY <1>1, <1>2, <1>3, PTL DEF Spec, IsCoroutine, States!Spec

=============================================================================
