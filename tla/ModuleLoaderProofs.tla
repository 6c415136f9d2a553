--------------------------- MODULE ModuleLoaderProofs ---------------------------
(***************************************************************************)
(* Theorems about the import of modules, for any number of modules and     *)
(* threads.  They need that there is always an object for a new module     *)
(* (Endless), which is how Copies stands for the memory of the program.    *)
(***************************************************************************)
EXTENDS ModuleLoader, FiniteSetTheorems, SequenceTheorems, TLAPS

Endless == IsFiniteSet(Names) /\ IsFiniteSet(Threads) /\ ~IsFiniteSet(Copies)

FrameType == [do : InC \cup OfImportlib \cup {"body"}, name : Names,
              obj : Objects \cup Names \cup {None}]

Results == Objects \cup {None, Error}

DataType ==
    /\ modules \in [Names -> Objects \cup {None}]
    /\ \A m \in Names : modules[m] # None => modules[m] \in {m} \X Copies
    /\ initializing \subseteq Objects /\ ended \subseteq Objects /\ partial \subseteq Objects

LEMMA TypeParts ==
    TypeOK <=> /\ DataType /\ stack \in [Threads -> Seq(FrameType)]
               /\ result \in [Threads -> Results]
<1>1. ASSUME NEW m \in Names, NEW o \in Objects PROVE o[1] = m <=> o \in {m} \X Copies
  BY DEF Objects
<1>2. (\A m \in Names : modules[m] # None => modules[m][1] = m) /\ modules \in [Names -> Objects \cup {None}]
        <=> (\A m \in Names : modules[m] # None => modules[m] \in {m} \X Copies)
            /\ modules \in [Names -> Objects \cup {None}]
  BY <1>1
<1> QED
  BY <1>2 DEF TypeOK, DataType, FrameType, Results

-----------------------------------------------------------------------------
(***************************************************************************)
(* The stack of a thread.  p calls of it are kept.                         *)
(***************************************************************************)
Moves(t, p, new, r) ==
    /\ stack' \in [Threads -> Seq(FrameType)] /\ result' \in [Threads -> Results]
    /\ \A u \in Threads \ {t} : stack'[u] = stack[u] /\ result'[u] = result[u]
    /\ result'[t] = r
    /\ Len(stack'[t]) = p + Len(new)
    /\ \A i \in 1..p : stack'[t][i] = stack[t][i]
    /\ \A i \in 1..Len(new) : stack'[t][p + i] = new[i]

LEMMA LengthOf ==
    ASSUME TypeOK, NEW t \in Threads
    PROVE  /\ stack[t] \in Seq(FrameType) /\ Len(stack[t]) \in Nat
           /\ stack[t] # <<>> <=> Len(stack[t]) # 0
           /\ \A i \in 1..Len(stack[t]) : stack[t][i] \in FrameType
<1>1. stack[t] \in Seq(FrameType)
  BY TypeParts
<1> QED
  BY <1>1, EmptySeq, LenProperties, ElementOfSeq

LEMMA TopFacts ==
    ASSUME TypeOK, NEW t \in Threads, stack[t] # <<>>
    PROVE  /\ Len(stack[t]) \in Nat \ {0} /\ Len(stack[t]) \in 1..Len(stack[t])
           /\ Top(t) \in FrameType /\ Top(t) = stack[t][Len(stack[t])]
           /\ Top(t).name \in Names /\ Top(t).obj \in Objects \cup Names \cup {None}
           /\ Below(t) \in Seq(FrameType) /\ Len(Below(t)) = Len(stack[t]) - 1
           /\ \A i \in 1..(Len(stack[t]) - 1) : Below(t)[i] = stack[t][i]
<1>1. /\ stack[t] \in Seq(FrameType) /\ Len(stack[t]) \in Nat \ {0}
      /\ \A i \in 1..Len(stack[t]) : stack[t][i] \in FrameType
  BY LengthOf
<1>2. \A i \in 1..(Len(stack[t]) - 1) : stack[t][1 + i - 1] = stack[t][i]
  OBVIOUS
<1>3. /\ Below(t) \in Seq(FrameType) /\ Len(Below(t)) = Len(stack[t]) - 1
      /\ \A i \in 1..(Len(stack[t]) - 1) : Below(t)[i] = stack[t][i]
  BY <1>1, <1>2, SubSeqProperties DEF Below
<1>4. Len(stack[t]) \in 1..Len(stack[t])
  BY <1>1
<1>5. Top(t) \in FrameType /\ Top(t) = stack[t][Len(stack[t])]
  BY <1>1, <1>4 DEF Top
<1>6. Top(t).name \in Names /\ Top(t).obj \in Objects \cup Names \cup {None}
  BY <1>5 DEF FrameType
<1> QED
  BY <1>1, <1>3, <1>4, <1>5, <1>6

LEMMA BecomesMoves ==
    ASSUME TypeOK, NEW t \in Threads, stack[t] # <<>>, NEW new \in Seq(FrameType),
           NEW r \in Results, Goes(t, Below(t) \o new, r)
    PROVE  Moves(t, Len(stack[t]) - 1, new, r)
<1>1. PICK n \in Nat \ {0} : n = Len(stack[t])
  BY TopFacts
<1>2. PICK below \in Seq(FrameType) : below = Below(t)
  BY TopFacts
<1>3. Len(below) = n - 1 /\ \A i \in 1..(n - 1) : below[i] = stack[t][i]
  BY <1>1, <1>2, TopFacts
<1>4. PICK s : s = below \o new
  OBVIOUS
<1>5. PICK p \in Nat, k \in Nat : p = n - 1 /\ k = Len(new)
  <2>1. Len(new) \in Nat
    BY LenProperties
  <2>2. n - 1 \in Nat
    OBVIOUS
  <2> QED
    BY <2>1, <2>2
<1>6. /\ s \in Seq(FrameType) /\ Len(s) = p + k
      /\ \A i \in 1..(p + k) : s[i] = IF i <= p THEN below[i] ELSE new[i - p]
  <2>1. /\ below \o new \in Seq(FrameType) /\ Len(below \o new) = Len(below) + Len(new)
        /\ \A i \in 1..(Len(below) + Len(new)) :
               (below \o new)[i] = IF i <= Len(below) THEN below[i] ELSE new[i - Len(below)]
    BY ConcatProperties
  <2> QED
    BY <1>3, <1>4, <1>5, <2>1
<1>7. \A i \in 1..p : s[i] = stack[t][i]
  BY <1>3, <1>5, <1>6
<1>8. ASSUME NEW i \in 1..k PROVE s[p + i] = new[i]
  <2>1. p + i \in 1..(p + k) /\ ~(p + i <= p) /\ (p + i) - p = i
    BY <1>5
  <2> QED
    BY <1>6, <2>1
<1>9. stack' = [stack EXCEPT ![t] = s] /\ result' = [result EXCEPT ![t] = r]
  BY <1>2, <1>4 DEF Goes
<1>10. stack \in [Threads -> Seq(FrameType)] /\ result \in [Threads -> Results]
  BY TypeParts
<1>11. /\ stack' \in [Threads -> Seq(FrameType)] /\ result' \in [Threads -> Results]
       /\ \A u \in Threads \ {t} : stack'[u] = stack[u] /\ result'[u] = result[u]
       /\ stack'[t] = s /\ result'[t] = r
  BY <1>6, <1>9, <1>10
<1> QED
  BY <1>1, <1>5, <1>6, <1>7, <1>8, <1>11 DEF Moves

LEMMA ReturnsMoves ==
    ASSUME TypeOK, NEW t \in Threads, stack[t] # <<>>, NEW r \in Results, Returns(t, r)
    PROVE  Moves(t, Len(stack[t]) - 1, <<>>, r)
<1>1. Below(t) \in Seq(FrameType)
  BY TopFacts
<1>2. Below(t) \o <<>> = Below(t) /\ <<>> \in Seq(FrameType)
  BY <1>1, ConcatEmptySeq, EmptySeq
<1> QED
  BY <1>2, BecomesMoves DEF Returns

LEMMA CallsMoves ==
    ASSUME TypeOK, NEW t \in Threads, NEW a \in FrameType, Calls(t, a)
    PROVE  Moves(t, Len(stack[t]), <<a>>, None)
<1>1. PICK n \in Nat : n = Len(stack[t])
  BY LengthOf
<1>2. PICK s : s = Append(stack[t], a)
  OBVIOUS
<1>3. /\ s \in Seq(FrameType) /\ Len(s) = n + 1 /\ s[n + 1] = a
      /\ \A i \in 1..n : s[i] = stack[t][i]
  BY <1>1, <1>2, LengthOf, AppendProperties
<1>4. stack' = [stack EXCEPT ![t] = s] /\ result' = [result EXCEPT ![t] = None]
  BY <1>2 DEF Calls, Goes
<1>5. stack \in [Threads -> Seq(FrameType)] /\ result \in [Threads -> Results]
  BY TypeParts
<1>6. /\ stack' \in [Threads -> Seq(FrameType)] /\ result' \in [Threads -> Results]
      /\ \A u \in Threads \ {t} : stack'[u] = stack[u] /\ result'[u] = result[u]
      /\ stack'[t] = s /\ result'[t] = None
  BY <1>3, <1>4, <1>5 DEF Results
<1>7. Len(<<a>>) = 1 /\ \A i \in 1..1 : <<a>>[i] = a /\ i = 1
  OBVIOUS
<1> QED
  BY <1>1, <1>3, <1>6, <1>7 DEF Moves

-----------------------------------------------------------------------------
(***************************************************************************)
(* The inductive invariant.                                                *)
(***************************************************************************)
\* What only importlib executes.
Locked == Names \ Embedded

Stages == {"execute", "load", "loaded", "post", "posted"}

\* What each call is about.
FrameInv(f) ==
    /\ f.do \in Stages \cup {"exec", "body", "ensure"} => f.obj \in {f.name} \X Copies
    /\ f.do = "embedded" => f.name \in Embedded
    /\ f.do \in {"fixed", "self", "front", "value"} => f.name \in Fixed
    /\ f.do = "fixed" => f.obj \in {f.name} \cup Ancestors[f.name]

SameRun(f, g) == f.name = g.name /\ (f.name \in Locked => f.obj = g.obj)

\* Who calls whom: an execution belongs to the importlib call that holds the lock.
Carries(f, g) ==
    /\ f.do \notin {"find", "create", "acquire", "ensure"}
    /\ f.do = "exec" => g.do \in Stages /\ SameRun(f, g)
    /\ f.do = "loaded" => g.do = "body" /\ SameRun(f, g)
    /\ g.do = "body" => f.do = "loaded" /\ SameRun(f, g)
    /\ g.do \in Stages /\ g.name \in Locked => f.do = "exec" /\ SameRun(f, g)

StartsStack(f) == f.do # "body" /\ (f.do \in Stages => f.name \notin Locked)

StackInv(s) ==
    /\ \A i \in 1..Len(s) : FrameInv(s[i])
    /\ Len(s) # 0 => StartsStack(s[1])
    /\ \A i \in 1..(Len(s) - 1) : Carries(s[i], s[i + 1])

\* What runs on top of an execution is no other one of the same module.
Entry == {"find", "create", "execute", "load", "body"}

Nests(f, g) == f.name = g.name =>
    /\ f.do = "exec" /\ f.name \in Locked => g.do \notin HasLock
    /\ f.do = "body" /\ f.name \notin Failing => g.do \notin Entry

NestInv(s) == \A i, j \in 1..Len(s) : i < j => Nests(s[i], s[j])

\* How far an execution under the lock is, with ms for modules, ini for initializing
\* and en for ended.
PhaseInv(f, top, r, ms, ini, en) ==
    f.name \in Locked =>
        /\ f.do \in {"execute", "load"} => f.obj \notin en
        /\ f.do = "loaded" => (f.obj \in en <=> top /\ r \notin {Error, None})
        /\ f.do \in {"post", "posted"} => f.obj \in en
        /\ f.do = "exec" =>
              /\ top => r # None /\ (r = Error <=> f.obj \notin en)
              /\ ms[f.name] = f.obj \/ (top /\ r = Error /\ ms[f.name] = None)
              /\ f.obj \in en \cup ini
        /\ f.do \in {"find", "create"} => ms[f.name] = None

\* A module that does not raise is not taken out of sys.modules again.
SteadyInv(f, top, r, ms) ==
    f.name \notin Failing =>
        /\ f.do \in {"loaded", "body", "post", "posted"} => ms[f.name] # None
        /\ f.do \in {"exec", "loaded"} /\ top => r \notin {Error, None}

CallInv(f, top, r, ms, ini, en) == PhaseInv(f, top, r, ms, ini, en) /\ SteadyInv(f, top, r, ms)

CallsInv(s, r, ms, ini, en) ==
    \A i \in 1..Len(s) : IF i = Len(s) THEN CallInv(s[i], TRUE, r, ms, ini, en)
                         ELSE CallInv(s[i], FALSE, r, ms, ini, en)

ThreadInv(t) ==
    /\ StackInv(stack[t]) /\ NestInv(stack[t])
    /\ CallsInv(stack[t], result[t], modules, initializing, ended)

Excludes(f, g) == ~(f.do \in HasLock /\ g.do \in HasLock /\ f.name = g.name)

LockInv ==
    \A t, u \in Threads : \A i \in 1..Len(stack[t]), j \in 1..Len(stack[u]) :
        t = u \/ Excludes(stack[t][i], stack[u][j])

Executing(s, o) == \E i \in 1..Len(s) : s[i].do = "exec" /\ s[i].obj = o

Known(m) == modules[m] \notin ended \cup {None} =>
    \E t \in Threads : Executing(stack[t], modules[m])

Latest(m) == \A o \in {m} \X Copies : o \in ended => modules[m] = o

Ready(t, m) == result[t] # None /\ modules[m] = result[t] =>
    result[t] \in ended \cup partial \/ Executing(stack[t], result[t])

ModuleInv(m) == Known(m) /\ Latest(m) /\ \A t \in Threads : Ready(t, m)

IInv ==
    /\ TypeOK /\ LockInv
    /\ \A t \in Threads : ThreadInv(t)
    /\ \A m \in Locked : ModuleInv(m)

-----------------------------------------------------------------------------
(***************************************************************************)
(* A step keeps what the invariant says of the calls.                      *)
(***************************************************************************)
\* What a step does to the modules does not change what is said of this call.
Unaffected(f, top) ==
    /\ f.name \in Locked =>
          /\ f.do \in {"exec", "find", "create"} => modules'[f.name] = modules[f.name]
          /\ f.do \in Stages \/ (f.do = "exec" /\ top) => (f.obj \in ended' <=> f.obj \in ended)
          /\ f.do = "exec" /\ f.obj \in ended \cup initializing =>
                 f.obj \in ended' \cup initializing'
    /\ /\ f.name \notin Failing /\ f.do \in {"loaded", "body", "post", "posted"}
       /\ modules[f.name] # None
       => modules'[f.name] # None

LEMMA CallKept ==
    ASSUME NEW f, NEW top \in BOOLEAN, NEW r, NEW q, top => q = r,
           CallInv(f, top, r, modules, initializing, ended), Unaffected(f, top)
    PROVE  CallInv(f, top, q, modules', initializing', ended')
<1>1. PhaseInv(f, top, q, modules', initializing', ended')
  BY DEF CallInv, PhaseInv, Unaffected, Stages
<1>2. SteadyInv(f, top, q, modules')
  BY DEF CallInv, SteadyInv, Unaffected
<1> QED
  BY <1>1, <1>2 DEF CallInv

\* The new calls are ones that may be where they are.
Fits(t, p, new) ==
    /\ \A i \in 1..Len(new) : FrameInv(new[i])
    /\ \A i \in 1..(Len(new) - 1) : Carries(new[i], new[i + 1])
    /\ new # <<>> => IF p = 0 THEN StartsStack(new[1]) ELSE Carries(stack[t][p], new[1])
    /\ \A i, j \in 1..Len(new) : i < j => Nests(new[i], new[j])
    /\ \A i \in 1..p, j \in 1..Len(new) : Nests(stack[t][i], new[j])
    /\ \A j \in 1..Len(new), u \in Threads \ {t} : \A i \in 1..Len(stack[u]) :
           Excludes(new[j], stack[u][i])

\* How far things are in the new calls, and in what has become the top.
Proceeds(t, p, new, r) ==
    /\ CallsInv(new, r, modules', initializing', ended')
    /\ new = <<>> /\ p # 0 => CallInv(stack[t][p], TRUE, r, modules', initializing', ended')
    /\ \A i \in 1..p : i = Len(stack[t]) => stack[t][i].do = "body"

NoEffect(t, p, new) ==
    \A u \in Threads : \A i \in 1..Len(stack[u]) :
        (u = t => i < p \/ (i = p /\ new # <<>>)) =>
            /\ Unaffected(stack[u][i], FALSE)
            /\ u # t /\ i = Len(stack[u]) => Unaffected(stack[u][i], TRUE)

LEMMA StackKept ==
    ASSUME IInv, NEW t \in Threads, NEW p \in Nat, p <= Len(stack[t]),
           NEW new \in Seq(FrameType), NEW r, Moves(t, p, new, r), Fits(t, p, new)
    PROVE  StackInv(stack'[t]) /\ NestInv(stack'[t])
<1>1. PICK s \in Seq(FrameType), n \in Nat : s = stack[t] /\ n = Len(s)
  BY LengthOf DEF IInv
<1>2. PICK z \in Seq(FrameType), k \in Nat : z = stack'[t] /\ k = Len(new)
  BY LenProperties DEF Moves
<1>3. p <= n /\ Len(z) = p + k /\ \A i \in 1..p : z[i] = s[i]
  BY <1>1, <1>2 DEF Moves
<1>4. \A i \in 1..k : z[p + i] = new[i]
  BY <1>2 DEF Moves
<1>5. \A j \in 1..(p + k) : ~(j \in 1..p) => j - p \in 1..k /\ z[j] = new[j - p]
  <2> SUFFICES ASSUME NEW j \in 1..(p + k), ~(j \in 1..p) PROVE j - p \in 1..k /\ z[j] = new[j - p]
    OBVIOUS
  <2>1. j - p \in 1..k /\ p + (j - p) = j
    OBVIOUS
  <2> QED
    BY <1>4, <2>1
<1>6. StackInv(s) /\ NestInv(s)
  BY <1>1 DEF IInv, ThreadInv
<1>7. new # <<>> <=> k # 0
  BY <1>2, EmptySeq
<1>8. \A i \in 1..(p + k) : FrameInv(z[i])
  <2> SUFFICES ASSUME NEW i \in 1..(p + k) PROVE FrameInv(z[i])
    OBVIOUS
  <2>1. CASE i \in 1..p
    <3>1. i \in 1..n
      BY <1>3, <2>1
    <3> QED
      BY <1>1, <1>3, <1>6, <2>1, <3>1 DEF StackInv
  <2>2. CASE ~(i \in 1..p)
    BY <1>2, <1>5, <2>2 DEF Fits
  <2> QED
    BY <2>1, <2>2
<1>9. p + k # 0 => StartsStack(z[1])
  <2>1. CASE p # 0
    <3>1. 1 \in 1..p /\ n # 0
      BY <1>3, <2>1
    <3> QED
      BY <1>1, <1>3, <1>6, <3>1 DEF StackInv
  <2>2. CASE p = 0 /\ k # 0
    <3>1. 1 \in 1..(p + k) /\ 1 \notin 1..p /\ 1 - p = 1
      BY <2>2
    <3> QED
      BY <1>5, <1>7, <2>2, <3>1 DEF Fits
  <2> QED
    BY <2>1, <2>2
<1>10. \A i \in 1..(p + k - 1) : Carries(z[i], z[i + 1])
  <2> SUFFICES ASSUME NEW i \in 1..(p + k - 1) PROVE Carries(z[i], z[i + 1])
    OBVIOUS
  <2>1. CASE i < p
    <3>1. i \in 1..p /\ i + 1 \in 1..p /\ i \in 1..(n - 1)
      BY <1>3, <2>1
    <3> QED
      BY <1>1, <1>3, <1>6, <3>1 DEF StackInv
  <2>2. CASE i = p
    <3>1. i \in 1..p /\ p # 0 /\ i + 1 \in 1..(p + k) /\ i + 1 \notin 1..p /\ (i + 1) - p = 1 /\ k # 0
      BY <2>2
    <3>2. z[i] = s[p] /\ z[i + 1] = new[1]
      BY <1>3, <1>5, <2>2, <3>1
    <3> QED
      BY <1>1, <1>7, <3>1, <3>2 DEF Fits
  <2>3. CASE i > p
    <3>1. /\ i \in 1..(p + k) /\ i \notin 1..p /\ i + 1 \in 1..(p + k) /\ i + 1 \notin 1..p
          /\ (i + 1) - p = (i - p) + 1 /\ i - p \in 1..(k - 1)
      BY <2>3
    <3>2. z[i] = new[i - p] /\ z[i + 1] = new[(i - p) + 1]
      BY <1>5, <3>1
    <3> QED
      BY <1>2, <3>1, <3>2 DEF Fits
  <2> QED
    BY <2>1, <2>2, <2>3
<1>11. \A i, j \in 1..(p + k) : i < j => Nests(z[i], z[j])
  <2> SUFFICES ASSUME NEW i \in 1..(p + k), NEW j \in 1..(p + k), i < j PROVE Nests(z[i], z[j])
    OBVIOUS
  <2>1. CASE j \in 1..p
    <3>1. i \in 1..p /\ i \in 1..n /\ j \in 1..n
      BY <1>3, <2>1
    <3> QED
      BY <1>1, <1>3, <1>6, <2>1, <3>1 DEF NestInv
  <2>2. CASE ~(j \in 1..p) /\ i \in 1..p
    BY <1>1, <1>2, <1>3, <1>5, <2>2 DEF Fits
  <2>3. CASE ~(j \in 1..p) /\ ~(i \in 1..p)
    <3>1. i - p < j - p
      OBVIOUS
    <3> QED
      BY <1>2, <1>5, <2>3, <3>1 DEF Fits
  <2> QED
    BY <2>1, <2>2, <2>3
<1>12. StackInv(z)
  BY <1>3, <1>8, <1>9, <1>10 DEF StackInv
<1>13. NestInv(z)
  BY <1>3, <1>11 DEF NestInv
<1> QED
  BY <1>2, <1>12, <1>13

LEMMA CallsKept ==
    ASSUME IInv, NEW t \in Threads, NEW p \in Nat, p <= Len(stack[t]),
           NEW new \in Seq(FrameType), NEW r, Moves(t, p, new, r), new # <<>> \/ p # Len(stack[t]),
           Proceeds(t, p, new, r), NoEffect(t, p, new)
    PROVE  CallsInv(stack'[t], r, modules', initializing', ended')
<1> DEFINE Before(f, top, x) == CallInv(f, top, x, modules, initializing, ended)
           After(f, top, x) == CallInv(f, top, x, modules', initializing', ended')
<1>1. PICK s \in Seq(FrameType), n \in Nat : s = stack[t] /\ n = Len(s)
  BY LengthOf DEF IInv
<1>2. PICK z \in Seq(FrameType), k \in Nat : z = stack'[t] /\ k = Len(new)
  BY LenProperties DEF Moves
<1>3. p <= n /\ Len(z) = p + k /\ \A i \in 1..p : z[i] = s[i]
  BY <1>1, <1>2 DEF Moves
<1>4. \A i \in 1..k : z[p + i] = new[i]
  BY <1>2 DEF Moves
<1>5. new # <<>> <=> k # 0
  BY <1>2, EmptySeq
<1>6. PICK q : q = result[t]
  OBVIOUS
<1>7. \A i \in 1..n : IF i = n THEN Before(s[i], TRUE, q) ELSE Before(s[i], FALSE, q)
  BY <1>1, <1>6 DEF IInv, ThreadInv, CallsInv
<1>8. ASSUME NEW i \in 1..p, i < p \/ k # 0
      PROVE  After(s[i], FALSE, r)
  <2>0. PICK f : f = s[i]
    OBVIOUS
  <2>1. i \in 1..n /\ (i = n => s[i].do = "body")
    BY <1>1, <1>3 DEF Proceeds
  <2>2. Unaffected(s[i], FALSE)
    <3>1. i < p \/ (i = p /\ new # <<>>)
      BY <1>5, <1>8
    <3>2. \A j \in 1..n : (j < p \/ (j = p /\ new # <<>>)) => Unaffected(s[j], FALSE)
      BY <1>1 DEF NoEffect
    <3> QED
      BY <2>1, <3>1, <3>2
  <2>3. Before(s[i], FALSE, q)
    <3>1. CASE i # n
      BY <1>7, <2>1, <3>1
    <3>2. CASE i = n
      <4>1. Before(s[i], TRUE, q) /\ s[i].do = "body"
        BY <1>7, <2>1, <3>2
      <4> QED
        BY <4>1 DEF CallInv, PhaseInv, SteadyInv
    <3> QED
      BY <3>1, <3>2
  <2>4. After(f, FALSE, r)
    BY <2>0, <2>2, <2>3, CallKept
  <2> QED
    BY <2>0, <2>4
<1>9. ASSUME NEW i \in 1..(p + k)
      PROVE  (i = p + k => After(z[i], TRUE, r)) /\ (i # p + k => After(z[i], FALSE, r))
  <2>1. CASE i \in 1..p /\ i < p + k
    <3>1. (i < p \/ k # 0) /\ z[i] = s[i]
      BY <1>3, <2>1
    <3>2. After(s[i], FALSE, r)
      BY <1>8, <2>1, <3>1
    <3>3. i # p + k
      BY <2>1
    <3> QED
      BY <3>1, <3>2, <3>3
  <2>2. CASE i \in 1..p /\ i = p + k
    <3>1. k = 0 /\ p # 0 /\ i = p /\ z[i] = s[p]
      BY <1>3, <2>2
    <3>2. p \in Nat /\ p + k = p /\ new = <<>>
      BY <1>5, <3>1
    <3>3. CallInv(s[p], TRUE, r, modules', initializing', ended')
      BY <1>1, <3>1, <3>2 DEF Proceeds
    <3>4. After(z[i], TRUE, r)
      BY <3>1, <3>3
    <3> QED
      BY <3>1, <3>2, <3>4
  <2>3. CASE ~(i \in 1..p)
    <3>1. PICK j \in 1..k : i = p + j
      <4>1. i - p \in 1..k /\ i = p + (i - p)
        BY <2>3
      <4> QED
        BY <4>1
    <3>2. z[i] = new[j] /\ (i = p + k <=> j = k)
      BY <1>4, <3>1
    <3>3. IF j = k THEN After(new[j], TRUE, r) ELSE After(new[j], FALSE, r)
      BY <1>2, <3>1 DEF Proceeds, CallsInv
    <3> QED
      BY <3>2, <3>3
  <2>4. i <= p + k
    OBVIOUS
  <2>5. \/ i \in 1..p /\ i < p + k
        \/ i \in 1..p /\ i = p + k
        \/ ~(i \in 1..p)
    BY <2>4
  <2> QED
    BY <2>1, <2>2, <2>3, <2>5
<1> QED
  BY <1>2, <1>3, <1>9 DEF CallsInv

LEMMA LockKept ==
    ASSUME IInv, NEW t \in Threads, NEW p \in Nat, p <= Len(stack[t]),
           NEW new \in Seq(FrameType), NEW r, Moves(t, p, new, r), Fits(t, p, new)
    PROVE  LockInv'
<1>1. PICK s \in Seq(FrameType), n \in Nat : s = stack[t] /\ n = Len(s)
  BY LengthOf DEF IInv
<1>2. PICK z \in Seq(FrameType), k \in Nat : z = stack'[t] /\ k = Len(new)
  BY LenProperties DEF Moves
<1>3. p <= n /\ Len(z) = p + k /\ \A i \in 1..p : z[i] = s[i]
  BY <1>1, <1>2 DEF Moves
<1>4. \A i \in 1..k : z[p + i] = new[i]
  BY <1>2 DEF Moves
<1>5. ASSUME NEW u \in Threads \ {t}, NEW j \in 1..Len(stack[u]), NEW i \in 1..(p + k)
      PROVE  Excludes(z[i], stack[u][j])
  <2>1. CASE i \in 1..p
    <3>1. i \in 1..n /\ z[i] = s[i]
      BY <1>3, <2>1
    <3> QED
      BY <1>1, <3>1 DEF IInv, LockInv
  <2>2. CASE ~(i \in 1..p)
    <3>1. i - p \in 1..k /\ p + (i - p) = i
      BY <2>2
    <3>2. z[i] = new[i - p]
      BY <1>4, <3>1
    <3> QED
      BY <1>2, <3>1, <3>2 DEF Fits
  <2> QED
    BY <2>1, <2>2
<1>6. \A f, g : Excludes(f, g) => Excludes(g, f)
  BY DEF Excludes
<1>7. ASSUME NEW u \in Threads, NEW v \in Threads, u # v,
             NEW i \in 1..Len(stack'[u]), NEW j \in 1..Len(stack'[v])
      PROVE  Excludes(stack'[u][i], stack'[v][j])
  <2>1. \A x \in Threads \ {t} : stack'[x] = stack[x]
    BY DEF Moves
  <2>2. CASE u = t
    BY <1>2, <1>3, <1>5, <1>7, <2>1, <2>2
  <2>3. CASE v = t
    BY <1>2, <1>3, <1>5, <1>6, <1>7, <2>1, <2>3
  <2>4. CASE u # t /\ v # t
    BY <1>7, <2>1, <2>4 DEF IInv, LockInv
  <2> QED
    BY <2>2, <2>3, <2>4
<1> QED
  BY <1>7 DEF LockInv, Excludes

LEMMA OthersKept ==
    ASSUME IInv, NEW t \in Threads, NEW p, NEW new, NEW r, Moves(t, p, new, r),
           NoEffect(t, p, new), NEW u \in Threads \ {t}
    PROVE  ThreadInv(u)'
<1>1. PICK s \in Seq(FrameType), n \in Nat : s = stack[u] /\ n = Len(s)
  BY LengthOf DEF IInv
<1>2. PICK q : q = result[u]
  OBVIOUS
<1>3. stack'[u] = s /\ result'[u] = q
  BY <1>1, <1>2 DEF Moves
<1>4. StackInv(s) /\ NestInv(s) /\ CallsInv(s, q, modules, initializing, ended)
  BY <1>1, <1>2 DEF IInv, ThreadInv
<1>5. \A i \in 1..n : Unaffected(s[i], FALSE) /\ (i = n => Unaffected(s[i], TRUE))
  BY <1>1 DEF NoEffect
<1>6. ASSUME NEW i \in 1..n
      PROVE  /\ i = n => CallInv(s[i], TRUE, q, modules', initializing', ended')
             /\ i # n => CallInv(s[i], FALSE, q, modules', initializing', ended')
  <2>1. PICK f : f = s[i]
    OBVIOUS
  <2>2. /\ i = n => CallInv(f, TRUE, q, modules, initializing, ended) /\ Unaffected(f, TRUE)
        /\ i # n => CallInv(f, FALSE, q, modules, initializing, ended) /\ Unaffected(f, FALSE)
    BY <1>1, <1>4, <1>5, <2>1 DEF CallsInv
  <2>3. /\ i = n => CallInv(f, TRUE, q, modules', initializing', ended')
        /\ i # n => CallInv(f, FALSE, q, modules', initializing', ended')
    BY <2>2, CallKept
  <2> QED
    BY <2>1, <2>3
<1>7. CallsInv(s, q, modules', initializing', ended')
  BY <1>1, <1>6 DEF CallsInv
<1> QED
  BY <1>3, <1>4, <1>7 DEF ThreadInv

\* All that is to be shown of the calls for a step.
LEMMA StepKept ==
    ASSUME IInv, NEW t \in Threads, NEW p \in Nat, p <= Len(stack[t]),
           NEW new \in Seq(FrameType), NEW r, Moves(t, p, new, r), new # <<>> \/ p # Len(stack[t]),
           Fits(t, p, new), Proceeds(t, p, new, r), NoEffect(t, p, new)
    PROVE  LockInv' /\ \A u \in Threads : ThreadInv(u)'
<1>1. ThreadInv(t)'
  <2>1. StackInv(stack'[t]) /\ NestInv(stack'[t])
    BY StackKept
  <2>2. CallsInv(stack'[t], r, modules', initializing', ended')
    BY CallsKept
  <2> QED
    BY <2>1, <2>2 DEF ThreadInv, Moves
<1>2. \A u \in Threads \ {t} : ThreadInv(u)'
  BY OthersKept
<1> QED
  BY <1>1, <1>2, LockKept

-----------------------------------------------------------------------------
(***************************************************************************)
(* A step keeps what the invariant says of a module.                       *)
(***************************************************************************)
LEMMA ExecutingKept ==
    ASSUME IInv, NEW t \in Threads, NEW p \in Nat, p <= Len(stack[t]),
           NEW new \in Seq(FrameType), NEW r, Moves(t, p, new, r),
           NEW o, \/ p = Len(stack[t])
                  \/ /\ p = Len(stack[t]) - 1
                     /\ ~(stack[t][Len(stack[t])].do = "exec" /\ stack[t][Len(stack[t])].obj = o)
    PROVE  \A u \in Threads : Executing(stack[u], o) => Executing(stack'[u], o)
<1>1. PICK s \in Seq(FrameType), n \in Nat : s = stack[t] /\ n = Len(s)
  BY LengthOf DEF IInv
<1>2. PICK z \in Seq(FrameType), k \in Nat : z = stack'[t] /\ k = Len(new)
  BY LenProperties DEF Moves
<1>3. p <= n /\ Len(z) = p + k /\ \A i \in 1..p : z[i] = s[i]
  BY <1>1, <1>2 DEF Moves
<1>4. \/ p = n
      \/ p = n - 1 /\ ~(s[n].do = "exec" /\ s[n].obj = o)
  BY <1>1
<1>5. \A i \in 1..n : s[i].do = "exec" /\ s[i].obj = o => i \in 1..p /\ i \in 1..(p + k)
  BY <1>3, <1>4
<1>6. Executing(s, o) => Executing(z, o)
  BY <1>1, <1>3, <1>5 DEF Executing
<1>7. \A u \in Threads \ {t} : stack'[u] = stack[u]
  BY DEF Moves
<1> QED
  BY <1>1, <1>2, <1>6, <1>7

LEMMA ModuleKept ==
    ASSUME IInv, NEW t \in Threads, NEW p \in Nat, p <= Len(stack[t]),
           NEW new \in Seq(FrameType), NEW r, Moves(t, p, new, r),
           NEW m \in Locked, modules'[m] = modules[m],
           \A o \in {m} \X Copies : o \in ended' => o \in ended \/ o = modules[m],
           modules[m] \in ended => modules[m] \in ended',
           modules[m] \in partial => modules[m] \in partial',
           \/ p = Len(stack[t])
           \/ /\ p = Len(stack[t]) - 1
              /\ \/ ~(stack[t][Len(stack[t])].do = "exec" /\ stack[t][Len(stack[t])].obj = modules[m])
                 \/ modules[m] \in ended',
           r # None /\ r = modules[m] => r \in ended' \cup partial' \/ Executing(stack'[t], r)
    PROVE  ModuleInv(m)'
<1>1. PICK o : o = modules[m]
  OBVIOUS
<1>2. o \in ended' \/ \A u \in Threads : Executing(stack[u], o) => Executing(stack'[u], o)
  BY <1>1, ExecutingKept
<1>3. Known(m) /\ Latest(m) /\ \A u \in Threads : Ready(u, m)
  BY DEF IInv, ModuleInv
<1>4. modules'[m] \notin ended' \cup {None} => \E u \in Threads : Executing(stack'[u], modules'[m])
  BY <1>1, <1>2, <1>3 DEF Known
<1>5. \A x \in {m} \X Copies : x \in ended' => modules'[m] = x
  BY <1>3 DEF Latest
<1>6. ASSUME NEW u \in Threads, result'[u] # None, modules'[m] = result'[u]
      PROVE  result'[u] \in ended' \cup partial' \/ Executing(stack'[u], result'[u])
  <2>1. CASE u = t
    BY <1>6, <2>1 DEF Moves
  <2>2. CASE u # t
    <3>1. result'[u] = result[u] /\ result[u] = o
      BY <1>1, <1>6, <2>2 DEF Moves
    <3>2. o \in ended \cup partial \/ Executing(stack[u], o)
      BY <1>1, <1>3, <1>6, <3>1 DEF Ready
    <3> QED
      BY <1>1, <1>2, <3>1, <3>2
  <2> QED
    BY <2>1, <2>2
<1>7. Known(m)' /\ Latest(m)'
  BY <1>4, <1>5 DEF Known, Latest
<1>8. \A u \in Threads : Ready(u, m)'
  BY <1>6 DEF Ready
<1> QED
  BY <1>7, <1>8 DEF ModuleInv
-----------------------------------------------------------------------------
(***************************************************************************)
(* There is a new object for each module.                                  *)
(***************************************************************************)
LEMMA TypeKept ==
    ASSUME NEW t \in Threads, NEW p \in Nat, NEW new, NEW r, Moves(t, p, new, r), DataType'
    PROVE  TypeOK'
<1>1. stack' \in [Threads -> Seq(FrameType)] /\ result' \in [Threads -> Results]
  BY DEF Moves
<1>2. PICK ms : ms = modules'
  OBVIOUS
<1>3. /\ ms \in [Names -> Objects \cup {None}]
      /\ \A m \in Names : ms[m] # None => ms[m] \in {m} \X Copies
      /\ initializing' \subseteq Objects /\ ended' \subseteq Objects /\ partial' \subseteq Objects
  BY <1>2 DEF DataType
<1>4. \A m \in Names : ms[m] # None => ms[m][1] = m
  BY <1>3
<1> QED
  BY <1>1, <1>2, <1>3, <1>4 DEF TypeOK, FrameType, Results

\* The image of a finite set is finite.
LEMMA FiniteImage ==
    ASSUME NEW S, IsFiniteSet(S), NEW f, DOMAIN f = S, f = [x \in S |-> f[x]]
    PROVE  IsFiniteSet({f[x] : x \in S})
<1>1. f \in Surjection(S, {f[x] : x \in S})
  BY DEF Surjection
<1> QED
  BY <1>1, FS_Surjection

LEMMA FiniteFrames ==
    ASSUME TypeOK, NEW t \in Threads
    PROVE  IsFiniteSet({stack[t][i].obj : i \in 1..Len(stack[t])})
<1>1. PICK n \in Nat : n = Len(stack[t])
  BY LengthOf
<1>2. PICK g : g = [i \in 1..n |-> stack[t][i].obj]
  OBVIOUS
<1>3. IsFiniteSet(1..n)
  <2>1. 1 \in Int /\ n \in Int
    OBVIOUS
  <2> QED
    BY <2>1, FS_Interval
<1>4. DOMAIN g = 1..n /\ g = [i \in 1..n |-> g[i]] /\ \A i \in 1..n : g[i] = stack[t][i].obj
  BY <1>2
<1>5. IsFiniteSet({g[i] : i \in 1..n})
  BY <1>3, <1>4, FiniteImage
<1>6. {g[i] : i \in 1..n} = {stack[t][i].obj : i \in 1..Len(stack[t])}
  BY <1>1, <1>4
<1> QED
  BY <1>5, <1>6

LEMMA NewIsNew ==
    ASSUME TypeOK, Endless, NEW m \in Names
    PROVE  New(m) \in {m} \X Copies /\ ~Shared(New(m))
<1>1. PICK objs : objs = [t \in Threads |-> {stack[t][i].obj : i \in 1..Len(stack[t])}]
  OBVIOUS
<1>2. IsFiniteSet(UNION {objs[t] : t \in Threads})
  <2>1. DOMAIN objs = Threads /\ objs = [t \in Threads |-> objs[t]]
    BY <1>1
  <2>2. IsFiniteSet({objs[t] : t \in Threads})
    BY <2>1, FiniteImage DEF Endless
  <2>3. \A t \in Threads : IsFiniteSet(objs[t])
    BY <1>1, FiniteFrames
  <2> QED
    BY <2>2, <2>3, FS_UNION
<1>3. IsFiniteSet({modules[x] : x \in Names}) /\ IsFiniteSet({result[t] : t \in Threads})
  <2>1. DOMAIN modules = Names /\ modules = [x \in Names |-> modules[x]]
    BY DEF TypeOK
  <2>2. DOMAIN result = Threads /\ result = [t \in Threads |-> result[t]]
    BY DEF TypeOK
  <2> QED
    BY <2>1, <2>2, FiniteImage DEF Endless
<1>4. PICK used : used = ({modules[x] : x \in Names} \cup {result[t] : t \in Threads})
                         \cup UNION {objs[t] : t \in Threads}
  OBVIOUS
<1>5. IsFiniteSet(used)
  BY <1>2, <1>3, <1>4, FS_Union
<1>6. ASSUME NEW o, Shared(o) PROVE o \in used
  <2>1. CASE o \in {modules[x] : x \in Names} \cup {result[t] : t \in Threads}
    BY <1>4, <2>1
  <2>2. CASE \E t \in Threads : \E f \in Frames(t) : f.obj = o
    <3>0. PICK t \in Threads : \E f \in Frames(t) : f.obj = o
      BY <2>2
    <3>1. PICK i \in DOMAIN stack[t] : stack[t][i].obj = o
      BY <3>0 DEF Frames
    <3>2. i \in 1..Len(stack[t])
      BY <3>1, LengthOf, LenProperties
    <3>3. o \in objs[t]
      BY <1>1, <3>1, <3>2
    <3> QED
      BY <1>4, <3>3
  <2> QED
    BY <1>6, <2>1, <2>2 DEF Shared
<1>7. ~IsFiniteSet({m} \X Copies)
  <2> SUFFICES ASSUME IsFiniteSet({m} \X Copies) PROVE FALSE
    OBVIOUS
  <2>1. PICK f : f = [o \in {m} \X Copies |-> o[2]]
    OBVIOUS
  <2>2. DOMAIN f = {m} \X Copies /\ f = [o \in {m} \X Copies |-> f[o]]
        /\ \A o \in {m} \X Copies : f[o] = o[2]
    BY <2>1
  <2>3. IsFiniteSet({f[o] : o \in {m} \X Copies})
    BY <2>2, FiniteImage
  <2>4. ASSUME NEW c \in Copies PROVE c \in {f[o] : o \in {m} \X Copies}
    <3>1. <<m, c>> \in {m} \X Copies /\ <<m, c>>[2] = c
      OBVIOUS
    <3> QED
      BY <2>2, <3>1
  <2>5. Copies \in SUBSET {f[o] : o \in {m} \X Copies}
    BY <2>4
  <2> QED
    BY <2>3, <2>5, FS_Subset DEF Endless
<1>8. \E o \in {m} \X Copies : ~Shared(o)
  <2> SUFFICES ASSUME \A o \in {m} \X Copies : Shared(o) PROVE FALSE
    OBVIOUS
  <2>1. {m} \X Copies \in SUBSET used
    BY <1>6
  <2> QED
    BY <1>5, <1>7, <2>1, FS_Subset
<1> QED
  BY <1>8 DEF New

-----------------------------------------------------------------------------
(***************************************************************************)
(* What runs without the lock.                                             *)
(***************************************************************************)
LEMMA AncestorsClosed ==
    ASSUME NEW m \in Names
    PROVE  /\ Ancestors[m] \subseteq Names
           /\ \A x \in {m} \cup Ancestors[m] : Parent[x] \in Ancestors[m] \cup {None}
<1>1. Ancestors[m] = {a \in Names : \A S \in SUBSET Names :
          (\A x \in S \cup {m} : Parent[x] \in S \cup {None}) => a \in S}
  BY DEF Ancestors
<1>2. Parent \in [Names -> Names \cup {None}]
  BY LoaderAssumption
<1>3. ASSUME NEW x \in {m} \cup Ancestors[m], Parent[x] # None
      PROVE  Parent[x] \in Ancestors[m]
  <2>1. x \in Names /\ Parent[x] \in Names
    BY <1>1, <1>2, <1>3
  <2>2. ASSUME NEW S \in SUBSET Names, \A y \in S \cup {m} : Parent[y] \in S \cup {None}
        PROVE  Parent[x] \in S
    <3>1. x \in S \cup {m}
      BY <1>1, <2>2
    <3> QED
      BY <1>3, <2>2, <3>1
  <2> QED
    BY <1>1, <2>1, <2>2
<1> QED
  BY <1>1, <1>3

LEMMA EmbeddedClosed ==
    /\ Fixed \subseteq Embedded /\ Embedded \subseteq Names
    /\ \A m \in Names : PreLoad[m] \in Embedded \cup {None} /\ PostLoad[m] \in Embedded \cup {None}
    /\ \A m \in Fixed : Ancestors[m] \subseteq Embedded
<1>1. /\ PreLoad \in [Names -> Names \cup {None}] /\ PostLoad \in [Names -> Names \cup {None}]
      /\ Fixed \subseteq Names /\ None \notin Names
  BY LoaderAssumption
<1>2. \A m \in Names : Ancestors[m] \subseteq Names
  BY AncestorsClosed
<1> QED
  BY <1>1, <1>2 DEF Embedded

LEMMA OutermostIsName ==
    ASSUME NEW m \in Names
    PROVE  Outermost(m) \in Names
<1>1. \E a \in {m} \cup Ancestors[m] : Parent[a] = None
  BY LoaderAssumption
<1>2. Outermost(m) \in {m} \cup Ancestors[m]
  BY <1>1 DEF Outermost
<1> QED
  BY <1>2, AncestorsClosed
-----------------------------------------------------------------------------
(***************************************************************************)
(* One call takes the place of another.                                    *)
(***************************************************************************)
Follows(f, a) ==
    /\ f.do # "body" /\ a.do # "body"
    /\ f.do \in Stages => a.do \in Stages /\ SameRun(f, a)
    /\ a.do \in Stages /\ a.name \in Locked => f.do \in Stages /\ SameRun(f, a)

\* It is no execution on top of another of the same module.
Enters(f, a) ==
    \/ a.do \notin HasLock \cup Entry
    \/ /\ a.name = f.name
       /\ a.do \in HasLock => f.do \in HasLock
       /\ a.do \in Entry => f.do \in Entry
    \/ modules[a.name] = None

HasTurn(t, f, a) == a.do \in HasLock => (f.do \in HasLock /\ f.name = a.name) \/ Free(t, a.name)

LEMMA FollowsKept ==
    ASSUME NEW f, NEW a, Follows(f, a)
    PROVE  /\ StartsStack(f) => StartsStack(a)
           /\ \A g : Carries(g, f) => Carries(g, a)
<1>1. StartsStack(f) => StartsStack(a)
  BY DEF StartsStack, Follows, SameRun
<1>2. ASSUME NEW g, Carries(g, f) PROVE Carries(g, a)
  <2>1. g.do \notin {"find", "create", "acquire", "ensure"}
    BY <1>2 DEF Carries
  <2>2. g.do = "exec" => a.do \in Stages /\ SameRun(g, a)
    BY <1>2 DEF Carries, Follows, SameRun
  <2>3. g.do # "loaded" /\ a.do # "body"
    BY <1>2 DEF Carries, Follows
  <2>4. a.do \in Stages /\ a.name \in Locked => g.do = "exec" /\ SameRun(g, a)
    BY <1>2 DEF Carries, Follows, SameRun
  <2> QED
    BY <2>1, <2>2, <2>3, <2>4 DEF Carries
<1> QED
  BY <1>1, <1>2

LEMMA TopInv ==
    ASSUME IInv, NEW t \in Threads, stack[t] # <<>>
    PROVE  /\ FrameInv(Top(t)) /\ CallInv(Top(t), TRUE, result[t], modules, initializing, ended)
           /\ Len(stack[t]) = 1 => StartsStack(Top(t))
           /\ \A i \in 1..(Len(stack[t]) - 1) :
                  /\ i \in 1..Len(stack[t]) /\ i # Len(stack[t])
                  /\ FrameInv(stack[t][i]) /\ Nests(stack[t][i], Top(t))
                  /\ CallInv(stack[t][i], FALSE, result[t], modules, initializing, ended)
           /\ Len(stack[t]) # 1 =>
                  /\ Len(stack[t]) - 1 \in 1..(Len(stack[t]) - 1)
                  /\ Carries(stack[t][Len(stack[t]) - 1], Top(t))
<1>1. PICK n \in Nat \ {0} : n = Len(stack[t])
  BY TopFacts DEF IInv
<1>2. PICK s \in Seq(FrameType) : s = stack[t]
  BY LengthOf DEF IInv
<1>3. n \in 1..n /\ Top(t) = s[n]
  BY <1>1, <1>2, TopFacts DEF IInv
<1>4. StackInv(s) /\ NestInv(s) /\ CallsInv(s, result[t], modules, initializing, ended)
  BY <1>2 DEF IInv, ThreadInv
<1>5. FrameInv(s[n]) /\ CallInv(s[n], TRUE, result[t], modules, initializing, ended)
  BY <1>1, <1>2, <1>3, <1>4 DEF StackInv, CallsInv
<1>6. n = 1 => StartsStack(s[n])
  BY <1>1, <1>2, <1>4 DEF StackInv
<1>7. ASSUME NEW i \in 1..(n - 1)
      PROVE  /\ i \in 1..n /\ i # n /\ FrameInv(s[i]) /\ Nests(s[i], s[n])
             /\ CallInv(s[i], FALSE, result[t], modules, initializing, ended)
  <2>1. i \in 1..n /\ i # n /\ i < n
    OBVIOUS
  <2> QED
    BY <1>1, <1>2, <1>3, <1>4, <2>1 DEF StackInv, NestInv, CallsInv
<1>8. n # 1 => n - 1 \in 1..(n - 1) /\ Carries(s[n - 1], s[n])
  <2> SUFFICES ASSUME n # 1 PROVE n - 1 \in 1..(n - 1) /\ Carries(s[n - 1], s[n])
    OBVIOUS
  <2>1. n - 1 \in 1..(n - 1) /\ (n - 1) + 1 = n
    OBVIOUS
  <2> QED
    BY <1>1, <1>2, <1>4, <2>1 DEF StackInv
<1> QED
  BY <1>1, <1>2, <1>3, <1>5, <1>6, <1>7, <1>8

LEMMA NestsKept ==
    ASSUME IInv, NEW t \in Threads, stack[t] # <<>>, NEW a, Enters(Top(t), a),
           NEW i \in 1..(Len(stack[t]) - 1)
    PROVE  Nests(stack[t][i], a)
<1>1. PICK g : g = stack[t][i]
  OBVIOUS
<1>2. Nests(g, Top(t)) /\ CallInv(g, FALSE, result[t], modules, initializing, ended)
      /\ g \in FrameType
  <2>1. i \in 1..Len(stack[t])
    BY TopInv
  <2> QED
    BY <1>1, <2>1, TopInv, LengthOf DEF IInv
<1>3. CASE a.do \notin HasLock \cup Entry
  BY <1>1, <1>3 DEF Nests
<1>4. CASE a.name = Top(t).name /\ (a.do \in HasLock => Top(t).do \in HasLock)
           /\ (a.do \in Entry => Top(t).do \in Entry)
  BY <1>1, <1>2, <1>4 DEF Nests
<1>5. CASE modules[a.name] = None
  <2>1. ASSUME g.name = a.name, g.do = "exec", g.name \in Locked PROVE FALSE
    <3>1. modules[g.name] = g.obj
      BY <1>2, <2>1 DEF CallInv, PhaseInv
    <3>2. g.obj \in {g.name} \X Copies /\ g.name \in Names
      BY <1>1, <1>2, <2>1, TopInv DEF FrameInv, FrameType
    <3>3. g.obj # None
      BY <3>2, LoaderAssumption DEF Objects
    <3> QED
      BY <1>5, <2>1, <3>1, <3>3
  <2>2. ASSUME g.name = a.name, g.do = "body", g.name \notin Failing PROVE FALSE
    BY <1>2, <1>5, <2>2 DEF CallInv, SteadyInv
  <2> QED
    BY <1>1, <2>1, <2>2 DEF Nests
<1> QED
  BY <1>3, <1>4, <1>5 DEF Enters

LEMMA ExcludesKept ==
    ASSUME IInv, NEW t \in Threads, stack[t] # <<>>, NEW a, HasTurn(t, Top(t), a),
           NEW u \in Threads \ {t}, NEW i \in 1..Len(stack[u])
    PROVE  Excludes(a, stack[u][i])
<1>1. CASE a.do \notin HasLock
  BY <1>1 DEF Excludes
<1>2. CASE Top(t).do \in HasLock /\ Top(t).name = a.name
  <2>1. Len(stack[t]) \in 1..Len(stack[t]) /\ Top(t) = stack[t][Len(stack[t])]
    BY TopFacts DEF IInv
  <2>2. Excludes(Top(t), stack[u][i])
    BY <2>1 DEF IInv, LockInv
  <2> QED
    BY <1>2, <2>2 DEF Excludes
<1>3. CASE Free(t, a.name)
  <2>1. i \in DOMAIN stack[u]
    BY LengthOf, LenProperties DEF IInv
  <2>2. stack[u][i] \in Frames(u)
    BY <2>1 DEF Frames
  <2> QED
    BY <1>3, <2>2 DEF Free, Holds, Excludes
<1> QED
  BY <1>1, <1>2, <1>3 DEF HasTurn

LEMMA FitsOne ==
    ASSUME IInv, NEW t \in Threads, stack[t] # <<>>, NEW a \in FrameType,
           FrameInv(a), Follows(Top(t), a), Enters(Top(t), a), HasTurn(t, Top(t), a)
    PROVE  Fits(t, Len(stack[t]) - 1, <<a>>)
<1>1. PICK n \in Nat \ {0} : n = Len(stack[t])
  BY TopFacts DEF IInv
<1>2. PICK new : new = <<a>>
  OBVIOUS
<1>3. Len(new) = 1 /\ new[1] = a
  BY <1>2
<1>4. IF n - 1 = 0 THEN StartsStack(a) ELSE Carries(stack[t][n - 1], a)
  <2>1. CASE n = 1
    <3>1. StartsStack(Top(t))
      BY <1>1, <2>1, TopInv
    <3>2. StartsStack(a)
      BY <3>1, FollowsKept
    <3> QED
      BY <2>1, <3>2
  <2>2. CASE n # 1
    <3>1. Carries(stack[t][Len(stack[t]) - 1], Top(t))
      BY <1>1, <2>2, TopInv
    <3>2. Carries(stack[t][n - 1], a)
      BY <1>1, <3>1, FollowsKept
    <3> QED
      BY <2>2, <3>2
  <2> QED
    BY <2>1, <2>2
<1>5. \A i \in 1..(n - 1) : Nests(stack[t][i], a)
  BY <1>1, NestsKept
<1>6. \A u \in Threads \ {t} : \A i \in 1..Len(stack[u]) : Excludes(a, stack[u][i])
  BY ExcludesKept
<1>7. \A j \in 1..Len(new) : j = 1 /\ new[j] = a
  BY <1>3
<1>8. \A i, j \in 1..Len(new) : ~(i < j)
  BY <1>3
<1>9. ~\E i \in 1..(Len(new) - 1) : TRUE
  BY <1>3
<1> QED
  BY <1>1, <1>2, <1>4, <1>5, <1>6, <1>7, <1>8, <1>9 DEF Fits

LEMMA FitsTwo ==
    ASSUME IInv, NEW t \in Threads, stack[t] # <<>>, NEW a \in FrameType, NEW b \in FrameType,
           FrameInv(a), Follows(Top(t), a), Enters(Top(t), a), HasTurn(t, Top(t), a),
           FrameInv(b), Enters(Top(t), b), b.do \notin HasLock, Carries(a, b), Nests(a, b)
    PROVE  Fits(t, Len(stack[t]) - 1, <<a, b>>)
<1>1. PICK n \in Nat \ {0} : n = Len(stack[t])
  BY TopFacts DEF IInv
<1>2. PICK new, one : new = <<a, b>> /\ one = <<a>>
  OBVIOUS
<1>3. Len(new) = 2 /\ new[1] = a /\ new[2] = b /\ Len(one) = 1 /\ one[1] = a
  BY <1>2
<1>4. Fits(t, n - 1, one)
  BY <1>1, <1>2, FitsOne
<1>5. IF n - 1 = 0 THEN StartsStack(new[1]) ELSE Carries(stack[t][n - 1], new[1])
  <2>1. one # <<>>
    BY <1>2
  <2> QED
    BY <1>3, <1>4, <2>1 DEF Fits
<1>6. \A i \in 1..(n - 1) : Nests(stack[t][i], a) /\ Nests(stack[t][i], b)
  BY <1>1, NestsKept
<1>7. HasTurn(t, Top(t), b)
  BY DEF HasTurn
<1>8. \A u \in Threads \ {t} : \A i \in 1..Len(stack[u]) :
          Excludes(a, stack[u][i]) /\ Excludes(b, stack[u][i])
  BY <1>7, ExcludesKept
<1>9. \A j \in 1..Len(new) : (j = 1 /\ new[j] = a) \/ (j = 2 /\ new[j] = b)
  BY <1>3
<1>10. \A i, j \in 1..Len(new) : i < j => i = 1 /\ j = 2
  BY <1>3
<1>11. \A i \in 1..(Len(new) - 1) : i = 1 /\ i + 1 = 2
  BY <1>3
<1>12. /\ \A i \in 1..Len(new) : FrameInv(new[i])
       /\ \A i \in 1..(Len(new) - 1) : Carries(new[i], new[i + 1])
       /\ \A i, j \in 1..Len(new) : i < j => Nests(new[i], new[j])
  BY <1>3, <1>9, <1>10, <1>11
<1>13. /\ \A i \in 1..(n - 1), j \in 1..Len(new) : Nests(stack[t][i], new[j])
       /\ \A j \in 1..Len(new), u \in Threads \ {t} : \A i \in 1..Len(stack[u]) :
              Excludes(new[j], stack[u][i])
  BY <1>6, <1>8, <1>9
<1> QED
  BY <1>1, <1>2, <1>5, <1>12, <1>13 DEF Fits

LEMMA FitsNone ==
    ASSUME NEW t \in Threads, NEW p \in Nat
    PROVE  Fits(t, p, <<>>)
<1>1. Len(<<>>) = 0
  BY EmptySeq
<1>2. ~(\E i \in 1..0 : TRUE) /\ ~(\E i \in 1..(0 - 1) : TRUE)
  OBVIOUS
<1> QED
  BY <1>1, <1>2 DEF Fits

LEMMA FitsCall ==
    ASSUME IInv, NEW t \in Threads, AtCode(t), NEW a \in FrameType, a.do \in {"import", "fixed"},
           FrameInv(a)
    PROVE  Fits(t, Len(stack[t]), <<a>>)
<1>1. PICK n \in Nat : n = Len(stack[t])
  BY LengthOf DEF IInv
<1>2. PICK new : new = <<a>>
  OBVIOUS
<1>3. Len(new) = 1 /\ new[1] = a
  BY <1>2
<1>4. IF n = 0 THEN StartsStack(a) ELSE Carries(stack[t][n], a)
  <2>1. StartsStack(a)
    BY DEF StartsStack, Stages
  <2>2. ASSUME n # 0 PROVE Carries(stack[t][n], a)
    <3>1. stack[t] # <<>> /\ Top(t) = stack[t][n]
      BY <1>1, <2>2, LengthOf, TopFacts DEF IInv
    <3>2. Top(t).do = "body"
      BY <3>1 DEF AtCode
    <3> QED
      BY <3>1, <3>2 DEF Carries, Stages
  <2> QED
    BY <2>1, <2>2
<1>5. \A f : Nests(f, a) /\ Excludes(a, f)
  BY DEF Nests, Excludes, HasLock, Entry
<1>6. \A j \in 1..Len(new) : j = 1 /\ new[j] = a
  BY <1>3
<1>7. \A i, j \in 1..Len(new) : ~(i < j)
  BY <1>3
<1>8. ~\E i \in 1..(Len(new) - 1) : TRUE
  BY <1>3
<1> QED
  BY <1>1, <1>2, <1>3, <1>4, <1>5, <1>6, <1>7, <1>8 DEF Fits
-----------------------------------------------------------------------------
(***************************************************************************)
(* How far things are in the new calls.                                    *)
(***************************************************************************)
LEMMA OneOrTwo ==
    ASSUME NEW a \in FrameType, NEW b \in FrameType
    PROVE  /\ <<a>> \in Seq(FrameType) /\ <<a, b>> \in Seq(FrameType)
           /\ Append(<<a>>, b) = <<a, b>>
<1>1. <<a>> = Append(<<>>, a) /\ <<a, b>> = Append(<<a>>, b)
  OBVIOUS
<1>2. <<a>> \in Seq(FrameType) /\ <<a, b>> \in Seq(FrameType)
  BY <1>1, EmptySeq, AppendProperties
<1>3. Append(<<a>>, b) = <<a, b>>
  BY <1>1
<1> QED
  BY <1>2, <1>3

LEMMA CallsNone ==
    ASSUME NEW r, NEW ms, NEW ini, NEW en
    PROVE  CallsInv(<<>>, r, ms, ini, en)
<1>1. Len(<<>>) = 0 /\ ~(\E i \in 1..0 : TRUE)
  BY EmptySeq
<1> QED
  BY <1>1 DEF CallsInv

LEMMA CallsOne ==
    ASSUME NEW a, NEW r, NEW ms, NEW ini, NEW en, CallInv(a, TRUE, r, ms, ini, en)
    PROVE  CallsInv(<<a>>, r, ms, ini, en)
<1>1. PICK new : new = <<a>>
  OBVIOUS
<1>2. Len(new) = 1 /\ new[1] = a /\ \A i \in 1..Len(new) : i = 1
  BY <1>1
<1>3. CallsInv(new, r, ms, ini, en)
  BY <1>2 DEF CallsInv
<1> QED
  BY <1>1, <1>3

LEMMA CallsTwo ==
    ASSUME NEW a, NEW b, NEW r, NEW ms, NEW ini, NEW en,
           CallInv(a, FALSE, r, ms, ini, en), CallInv(b, TRUE, r, ms, ini, en)
    PROVE  CallsInv(<<a, b>>, r, ms, ini, en)
<1>1. PICK new : new = <<a, b>>
  OBVIOUS
<1>2. Len(new) = 2 /\ new[1] = a /\ new[2] = b /\ \A i \in 1..Len(new) : i = 1 \/ i = 2
  BY <1>1
<1>3. CallsInv(new, r, ms, ini, en)
  BY <1>2 DEF CallsInv
<1> QED
  BY <1>1, <1>3

LEMMA ProceedsNew ==
    ASSUME TypeOK, NEW t \in Threads, stack[t] # <<>>, NEW new, new # <<>>, NEW r,
           CallsInv(new, r, modules', initializing', ended')
    PROVE  Proceeds(t, Len(stack[t]) - 1, new, r)
<1>1. PICK n \in Nat \ {0} : n = Len(stack[t])
  BY TopFacts
<1>2. \A i \in 1..(n - 1) : i # n
  OBVIOUS
<1> QED
  BY <1>1, <1>2 DEF Proceeds

LEMMA ProceedsNone ==
    ASSUME TypeOK, NEW t \in Threads, stack[t] # <<>>, NEW r,
           Len(stack[t]) # 1 => CallInv(stack[t][Len(stack[t]) - 1], TRUE, r,
                                        modules', initializing', ended')
    PROVE  Proceeds(t, Len(stack[t]) - 1, <<>>, r)
<1>1. PICK n \in Nat \ {0} : n = Len(stack[t])
  BY TopFacts
<1>2. (\A i \in 1..(n - 1) : i # n) /\ (n - 1 # 0 => n # 1)
  OBVIOUS
<1>3. n # 1 => CallInv(stack[t][n - 1], TRUE, r, modules', initializing', ended')
  BY <1>1
<1>4. CallsInv(<<>>, r, modules', initializing', ended')
  BY CallsNone
<1> QED
  BY <1>1, <1>2, <1>3, <1>4 DEF Proceeds

\* A call that is on top again.
LEMMA Popped ==
    ASSUME NEW f, NEW g, NEW q, NEW r, NEW ms, NEW ini, NEW en,
           CallInv(g, FALSE, q, ms, ini, en), Carries(g, f),
           f.do = "body" => r = Error /\ f.name \in Failing,
           f.do \in Stages =>
               /\ f.name \in Locked => r # None /\ (r = Error <=> f.obj \notin en)
               /\ f.name \notin Failing => r \notin {Error, None}
    PROVE  CallInv(g, TRUE, r, ms, ini, en)
<1>1. PhaseInv(g, TRUE, r, ms, ini, en)
  <2> SUFFICES ASSUME g.name \in Locked PROVE PhaseInv(g, TRUE, r, ms, ini, en)
    BY DEF PhaseInv
  <2>1. g.do = "loaded" => (g.obj \in en <=> r \notin {Error, None})
    BY DEF CallInv, PhaseInv, Carries
  <2>2. g.do = "exec" => r # None /\ (r = Error <=> g.obj \notin en)
    BY DEF Carries, SameRun
  <2> QED
    BY <2>1, <2>2 DEF CallInv, PhaseInv
<1>2. SteadyInv(g, TRUE, r, ms)
  <2> SUFFICES ASSUME g.name \notin Failing PROVE SteadyInv(g, TRUE, r, ms)
    BY DEF SteadyInv
  <2>1. g.do # "loaded"
    BY DEF Carries, SameRun
  <2>2. g.do = "exec" => r \notin {Error, None}
    BY DEF Carries, SameRun
  <2> QED
    BY <2>1, <2>2 DEF CallInv, SteadyInv
<1> QED
  BY <1>1, <1>2 DEF CallInv

-----------------------------------------------------------------------------
(***************************************************************************)
(* Steps that leave the modules alone.                                     *)
(***************************************************************************)
LEMMA QuietStep ==
    ASSUME IInv, NEW t \in Threads, NEW p \in Nat, p <= Len(stack[t]),
           NEW new \in Seq(FrameType), NEW r, Moves(t, p, new, r), new # <<>> \/ p # Len(stack[t]),
           modules' = modules, initializing' = initializing, ended' = ended,
           partial \subseteq partial', partial' \subseteq Objects,
           Fits(t, p, new), Proceeds(t, p, new, r),
           p = Len(stack[t]) \/ (p = Len(stack[t]) - 1 /\ Top(t).do # "exec"),
           \A m \in Locked : r # None /\ r = modules[m] =>
               r \in ended \cup partial' \/ Executing(stack[t], r)
    PROVE  IInv'
<1>1. NoEffect(t, p, new)
  <2>1. \A f : Unaffected(f, FALSE) /\ Unaffected(f, TRUE)
    BY DEF Unaffected
  <2> QED
    BY <2>1 DEF NoEffect
<1>2. LockInv' /\ \A u \in Threads : ThreadInv(u)'
  BY <1>1, StepKept
<1>3. TypeOK'
  <2>1. DataType'
    BY TypeParts DEF IInv, DataType
  <2> QED
    BY <2>1, TypeKept
<1>4. \A o : p = Len(stack[t])
          \/ /\ p = Len(stack[t]) - 1
             /\ ~(stack[t][Len(stack[t])].do = "exec" /\ stack[t][Len(stack[t])].obj = o)
  BY DEF Top
<1>5. \A o : Executing(stack[t], o) => Executing(stack'[t], o)
  BY <1>4, ExecutingKept
<1>6. ASSUME NEW m \in Locked PROVE ModuleInv(m)'
  <2>1. r # None /\ r = modules[m] => r \in ended' \cup partial' \/ Executing(stack'[t], r)
    BY <1>5
  <2> QED
    BY <1>4, <2>1, ModuleKept
<1> QED
  BY <1>2, <1>3, <1>6 DEF IInv, Locked

LEMMA QuietOne ==
    ASSUME IInv, NEW t \in Threads, stack[t] # <<>>, NEW a \in FrameType, Becomes(t, <<a>>),
           UNCHANGED <<modules, facts>>, Top(t).do # "exec",
           FrameInv(a), Follows(Top(t), a), Enters(Top(t), a), HasTurn(t, Top(t), a),
           CallInv(a, TRUE, None, modules, initializing, ended)
    PROVE  IInv'
<1>1. PICK n \in Nat \ {0} : n = Len(stack[t])
  BY TopFacts DEF IInv
<1>2. PICK new \in Seq(FrameType) : new = <<a>>
  BY OneOrTwo
<1>3. new # <<>>
  BY <1>2
<1>4. modules' = modules /\ initializing' = initializing /\ ended' = ended /\ partial' = partial
  BY DEF facts
<1>5. Moves(t, n - 1, new, None)
  <2>1. None \in Results /\ Goes(t, Below(t) \o new, None)
    BY <1>2 DEF Becomes, Results
  <2>2. TypeOK
    BY DEF IInv
  <2> QED
    BY <1>1, <2>1, <2>2, BecomesMoves
<1>6. Fits(t, n - 1, new)
  BY <1>1, <1>2, FitsOne
<1>7. Proceeds(t, n - 1, new, None)
  <2>1. CallsInv(new, None, modules', initializing', ended')
    BY <1>2, <1>4, CallsOne
  <2> QED
    BY <1>1, <1>3, <2>1, ProceedsNew DEF IInv
<1>8. n - 1 \in Nat /\ n - 1 <= n /\ partial' \subseteq Objects
  BY <1>4, TypeParts DEF IInv, DataType
<1> QED
  BY <1>1, <1>3, <1>4, <1>5, <1>6, <1>7, <1>8, QuietStep

LEMMA QuietTwo ==
    ASSUME IInv, NEW t \in Threads, stack[t] # <<>>, NEW a \in FrameType, NEW b \in FrameType,
           Becomes(t, <<a, b>>),
           UNCHANGED <<modules, facts>>, Top(t).do # "exec",
           FrameInv(a), Follows(Top(t), a), Enters(Top(t), a), HasTurn(t, Top(t), a),
           CallInv(a, FALSE, None, modules, initializing, ended),
           FrameInv(b), b.do \in {"embedded", "import"}, a.do \notin {"find", "create", "acquire", "ensure", "exec", "loaded"}
    PROVE  IInv'
<1>1. PICK n \in Nat \ {0} : n = Len(stack[t])
  BY TopFacts DEF IInv
<1>2. PICK new \in Seq(FrameType) : new = <<a, b>>
  BY OneOrTwo
<1>3. new # <<>>
  BY <1>2
<1>4. modules' = modules /\ initializing' = initializing /\ ended' = ended /\ partial' = partial
  BY DEF facts
<1>5. Moves(t, n - 1, new, None)
  <2>1. None \in Results /\ Goes(t, Below(t) \o new, None)
    BY <1>2 DEF Becomes, Results
  <2>2. TypeOK
    BY DEF IInv
  <2> QED
    BY <1>1, <2>1, <2>2, BecomesMoves
<1>6. Fits(t, n - 1, new)
  <2>1. Enters(Top(t), b) /\ b.do \notin HasLock
    BY DEF Enters, HasLock, Entry
  <2>2. Carries(a, b)
    BY DEF Carries, Stages
  <2>3. Nests(a, b)
    BY DEF Nests, HasLock, Entry
  <2> QED
    BY <1>1, <1>2, <2>1, <2>2, <2>3, FitsTwo
<1>7. Proceeds(t, n - 1, new, None)
  <2>1. CallInv(b, TRUE, None, modules, initializing, ended)
    BY DEF CallInv, PhaseInv, SteadyInv
  <2>2. CallsInv(new, None, modules', initializing', ended')
    BY <1>2, <1>4, <2>1, CallsTwo
  <2> QED
    BY <1>1, <1>3, <2>2, ProceedsNew DEF IInv
<1>8. n - 1 \in Nat /\ n - 1 <= n /\ partial' \subseteq Objects
  BY <1>4, TypeParts DEF IInv, DataType
<1> QED
  BY <1>1, <1>3, <1>4, <1>5, <1>6, <1>7, <1>8, QuietStep

LEMMA QuietReturn ==
    ASSUME IInv, NEW t \in Threads, stack[t] # <<>>, NEW r \in Results, Returns(t, r),
           modules' = modules, initializing' = initializing, ended' = ended,
           partial \subseteq partial', partial' \subseteq Objects, Top(t).do # "exec",
           Top(t).do = "body" => r = Error /\ Top(t).name \in Failing,
           Top(t).do \in Stages =>
               /\ Top(t).name \in Locked => r # None /\ (r = Error <=> Top(t).obj \notin ended)
               /\ Top(t).name \notin Failing => r \notin {Error, None},
           \A m \in Locked : r # None /\ r = modules[m] =>
               r \in ended \cup partial' \/ Executing(stack[t], r)
    PROVE  IInv'
<1>1. PICK n \in Nat \ {0} : n = Len(stack[t])
  BY TopFacts DEF IInv
<1>2. PICK new \in Seq(FrameType) : new = <<>>
  BY EmptySeq
<1>3. Moves(t, n - 1, new, r)
  BY <1>1, <1>2, ReturnsMoves DEF IInv
<1>4. Fits(t, n - 1, new)
  BY <1>2, FitsNone
<1>5. Proceeds(t, n - 1, new, r)
  <2>1. ASSUME n # 1
        PROVE  CallInv(stack[t][n - 1], TRUE, r, modules', initializing', ended')
    <3>1. PICK f, g : f = Top(t) /\ g = stack[t][n - 1]
      OBVIOUS
    <3>2. Carries(g, f) /\ CallInv(g, FALSE, result[t], modules, initializing, ended)
      BY <1>1, <2>1, <3>1, TopInv
    <3>3. CallInv(g, TRUE, r, modules, initializing, ended)
      BY <3>1, <3>2, Popped
    <3> QED
      BY <3>1, <3>3
  <2> QED
    BY <1>1, <1>2, <2>1, ProceedsNone DEF IInv
<1>6. n - 1 \in Nat /\ n - 1 <= n /\ n - 1 # n
  OBVIOUS
<1> QED
  BY <1>1, <1>3, <1>4, <1>5, <1>6, QuietStep
-----------------------------------------------------------------------------
(***************************************************************************)
(* Facts for the steps.                                                    *)
(***************************************************************************)
LEMMA FrameParts ==
    ASSUME NEW do \in InC \cup OfImportlib \cup {"body"}, NEW m \in Names,
           NEW o \in Objects \cup Names \cup {None}
    PROVE  /\ Frame(do, m, o) \in FrameType
           /\ Frame(do, m, o).do = do /\ Frame(do, m, o).name = m /\ Frame(do, m, o).obj = o
  BY DEF Frame, FrameType

LEMMA FrameChanged ==
    ASSUME NEW f \in FrameType, NEW x
    PROVE  /\ [f EXCEPT !.do = x] = Frame(x, f.name, f.obj)
           /\ [f EXCEPT !.obj = x] = Frame(f.do, f.name, x)
  BY DEF Frame, FrameType

LEMMA ModuleFacts ==
    ASSUME TypeOK, NEW m \in Names
    PROVE  /\ modules[m] \in Objects \cup {None} /\ modules[m] # Error /\ modules[m] \in Results
           /\ modules[m] # None => modules[m] \in {m} \X Copies
           /\ \A x \in Names : modules[m] # None /\ modules[x] = modules[m] => x = m
           /\ \A x \in Names : \A o \in {x} \X Copies : modules[m] = o => x = m
<1>1. /\ modules \in [Names -> Objects \cup {None}]
      /\ \A x \in Names : modules[x] # None => modules[x] \in {x} \X Copies
  BY TypeParts DEF DataType
<1>2. \A x \in Names : \A o \in {x} \X Copies : o \in Objects /\ o # None
  BY LoaderAssumption DEF Objects
<1> QED
  BY <1>1, <1>2, LoaderAssumption DEF Results

\* An execution under the lock.
LEMMA ExecFacts ==
    ASSUME IInv, NEW m \in Locked, NEW o \in {m} \X Copies, NEW u \in Threads,
           NEW i \in 1..Len(stack[u]), stack[u][i].do = "exec", stack[u][i].obj = o
    PROVE  /\ stack[u][i].name = m /\ o \in ended \cup initializing
           /\ \A t \in Threads : \A j \in 1..Len(stack[t]) :
                  stack[t][j].do \in HasLock /\ stack[t][j].name = m => t = u
<1>1. PICK s \in Seq(FrameType) : s = stack[u]
  BY LengthOf DEF IInv
<1>2. StackInv(s) /\ CallsInv(s, result[u], modules, initializing, ended)
  BY <1>1 DEF IInv, ThreadInv
<1>3. s[i].name = m
  <2>1. FrameInv(s[i])
    BY <1>1, <1>2 DEF StackInv
  <2> QED
    BY <1>1, <2>1 DEF FrameInv
<1>4. o \in ended \cup initializing
  BY <1>1, <1>2, <1>3 DEF CallsInv, CallInv, PhaseInv
<1>5. ASSUME NEW t \in Threads, NEW j \in 1..Len(stack[t]),
             stack[t][j].do \in HasLock, stack[t][j].name = m
      PROVE  t = u
  BY <1>1, <1>3, <1>5 DEF IInv, LockInv, Excludes, HasLock
<1> QED
  BY <1>1, <1>3, <1>4, <1>5

\* What an import may give.
LEMMA Given ==
    ASSUME IInv, NEW t \in Threads, NEW m \in Locked, modules[m] # None,
           \/ modules[m] \notin initializing
           \/ Free(t, m)
           \/ stack[t] # <<>> /\ Top(t).do \in HasLock /\ Top(t).name = m
    PROVE  modules[m] \in ended \/ Executing(stack[t], modules[m])
<1>1. PICK o : o = modules[m]
  OBVIOUS
<1>2. o \in {m} \X Copies
  BY <1>1, ModuleFacts DEF IInv, Locked
<1>3. SUFFICES ASSUME o \notin ended
               PROVE  Executing(stack[t], o)
  BY <1>1
<1>4. PICK u \in Threads : Executing(stack[u], o)
  BY <1>1, <1>3 DEF IInv, ModuleInv, Known
<1>5. PICK i \in 1..Len(stack[u]) : stack[u][i].do = "exec" /\ stack[u][i].obj = o
  BY <1>4 DEF Executing
<1>6. stack[u][i].name = m /\ o \in initializing
  BY <1>2, <1>3, <1>5, ExecFacts
<1>7. u = t
  <2>1. CASE Free(t, m)
    <3>1. i \in DOMAIN stack[u]
      BY LengthOf, LenProperties DEF IInv
    <3>2. stack[u][i] \in Frames(u)
      BY <3>1 DEF Frames
    <3> QED
      BY <1>5, <1>6, <2>1, <3>2 DEF Free, Holds, HasLock
  <2>2. CASE stack[t] # <<>> /\ Top(t).do \in HasLock /\ Top(t).name = m
    <3>1. Len(stack[t]) \in 1..Len(stack[t]) /\ Top(t) = stack[t][Len(stack[t])]
      BY <2>2, TopFacts DEF IInv
    <3> QED
      BY <1>2, <1>5, <2>2, <3>1, ExecFacts
  <2> QED
    BY <1>1, <1>6, <2>1, <2>2
<1> QED
  BY <1>4, <1>7

\* A call of Python code.
LEMMA CodeCalls ==
    ASSUME IInv, NEW t \in Threads, AtCode(t), NEW a \in FrameType, a.do \in {"import", "fixed"},
           FrameInv(a), Calls(t, a), UNCHANGED <<modules, facts>>
    PROVE  IInv'
<1>1. PICK n \in Nat : n = Len(stack[t])
  BY LengthOf DEF IInv
<1>2. PICK new \in Seq(FrameType) : new = <<a>>
  BY OneOrTwo
<1>3. new # <<>>
  BY <1>2
<1>4. modules' = modules /\ initializing' = initializing /\ ended' = ended /\ partial' = partial
  BY DEF facts
<1>5. Moves(t, n, new, None)
  BY <1>1, <1>2, CallsMoves DEF IInv
<1>6. Fits(t, n, new)
  BY <1>1, <1>2, FitsCall
<1>7. Proceeds(t, n, new, None)
  <2>1. CallInv(a, TRUE, None, modules, initializing, ended)
    BY DEF CallInv, PhaseInv, SteadyInv
  <2>2. CallsInv(new, None, modules', initializing', ended')
    BY <1>2, <1>4, <2>1, CallsOne
  <2>3. \A i \in 1..n : i = n => stack[t][i].do = "body"
    <3> SUFFICES ASSUME n # 0 PROVE stack[t][n].do = "body"
      OBVIOUS
    <3>1. stack[t] # <<>> /\ Top(t) = stack[t][n]
      BY <1>1, LengthOf, TopFacts DEF IInv
    <3> QED
      BY <3>1 DEF AtCode
  <2> QED
    BY <1>1, <1>3, <2>2, <2>3 DEF Proceeds
<1>8. n <= n /\ partial' \subseteq Objects
  BY <1>4, TypeParts DEF IInv, DataType
<1> QED
  BY <1>1, <1>3, <1>4, <1>5, <1>6, <1>7, <1>8, QuietStep

LEMMA ErrorReturn ==
    ASSUME IInv, NEW t \in Threads, stack[t] # <<>>, Returns(t, Error), UNCHANGED <<modules, facts>>,
           Top(t).do # "exec",
           Top(t).do \in Stages \cup {"body"} => Top(t).name \in Failing,
           Top(t).do \in Stages /\ Top(t).name \in Locked => Top(t).obj \notin ended
    PROVE  IInv'
<1>1. modules' = modules /\ initializing' = initializing /\ ended' = ended /\ partial' = partial
  BY DEF facts
<1>2. partial' \subseteq Objects /\ Error \in Results
  BY <1>1, TypeParts DEF IInv, DataType, Results
<1>3. \A m \in Locked : modules[m] # Error
  BY ModuleFacts DEF IInv, Locked
<1>4. Error # None
  BY LoaderAssumption
<1> QED
  BY <1>1, <1>2, <1>3, <1>4, QuietReturn
-----------------------------------------------------------------------------
(***************************************************************************)
(* The steps that leave the modules alone, one by one.                     *)
(***************************************************************************)
Quiet(t) ==
    \/ \E m \in Names : ImportStatement(t, m) \/ FixedImport(t, m)
    \/ BodyRaises(t) \/ ExecuteStarts(t) \/ PostStarts(t) \/ PostEnds(t)
    \/ FixedParent(t) \/ FixedSelf(t) \/ FixedParentFails(t) \/ FixedFails(t)
    \/ FixedImports(t) \/ FixedFront(t) \/ FixedValue(t)
    \/ ImportModuleLevel(t) \/ Acquire(t) \/ AcquireDeadlock(t)
    \/ EnsureReady(t) \/ EnsureDeadlock(t) \/ Find(t) \/ Found(t)

LEMMA ImportStatementKeeps ==
    ASSUME IInv, NEW t \in Threads, NEW m \in Names, ImportStatement(t, m) \/ FixedImport(t, m)
    PROVE  IInv'
<1>1. AtCode(t)
  BY DEF ImportStatement, FixedImport, Imports, AtCode
<1>2. PICK a : a = Frame("import", m, None)
  OBVIOUS
<1>3. PICK b : b = Frame("fixed", m, m)
  OBVIOUS
<1>4. /\ a \in FrameType /\ a.do = "import" /\ FrameInv(a)
  <2>1. "import" \in InC \cup OfImportlib \cup {"body"} /\ None \in Objects \cup Names \cup {None}
    BY DEF InC
  <2>2. a \in FrameType /\ a.do = "import" /\ a.name = m
    BY <1>2, <2>1, FrameParts
  <2> QED
    BY <2>2 DEF FrameInv, Stages
<1>5. /\ b \in FrameType /\ b.do = "fixed" /\ b.name = m /\ b.obj = m
  BY <1>3, FrameParts DEF OfImportlib, InC
<1>6. CASE ImportStatement(t, m)
  BY <1>1, <1>2, <1>4, <1>6, CodeCalls DEF ImportStatement
<1>7. CASE FixedImport(t, m)
  <2>1. FrameInv(b)
    BY <1>5, <1>7 DEF FrameInv, Stages, FixedImport
  <2> QED
    BY <1>1, <1>3, <1>5, <1>7, <2>1, CodeCalls DEF FixedImport
<1> QED
  BY <1>6, <1>7

LEMMA BodyRaisesKeeps ==
    ASSUME IInv, NEW t \in Threads, BodyRaises(t)
    PROVE  IInv'
<1>1. /\ stack[t] # <<>> /\ Top(t).do = "body" /\ Top(t).name \in Failing
      /\ Returns(t, Error) /\ UNCHANGED <<modules, facts>>
  BY DEF BodyRaises, In
<1> QED
  BY <1>1, ErrorReturn DEF Stages

LEMMA ExecuteStartsKeeps ==
    ASSUME IInv, NEW t \in Threads, ExecuteStarts(t)
    PROVE  IInv'
<1>1. stack[t] # <<>> /\ Top(t).do = "execute" /\ UNCHANGED <<modules, facts>>
  BY DEF ExecuteStarts, In
<1>2. PICK f \in FrameType : f = Top(t)
  BY <1>1, TopFacts DEF IInv
<1>3. f.name \in Names /\ f.obj \in Objects \cup Names \cup {None} /\ f.do = "execute"
  BY <1>1, <1>2 DEF FrameType
<1>4. PICK load : load = Frame("load", f.name, f.obj)
  OBVIOUS
<1>5. load \in FrameType /\ load.do = "load" /\ load.name = f.name /\ load.obj = f.obj
  <2>1. "load" \in InC \cup OfImportlib \cup {"body"}
    BY DEF InC
  <2> QED
    BY <1>3, <1>4, <2>1, FrameParts
<1>6. PICK pre \in Embedded \cup {None} : pre = PreLoad[f.name]
  BY <1>3, EmbeddedClosed
<1>7. Becomes(t, IF pre = None THEN <<load>> ELSE <<load, Frame("embedded", pre, None)>>)
  BY <1>2, <1>4, <1>6, FrameChanged DEF ExecuteStarts
<1>8. FrameInv(f) /\ CallInv(f, TRUE, result[t], modules, initializing, ended)
  BY <1>1, <1>2, TopInv
<1>9. FrameInv(load) /\ Follows(f, load) /\ Enters(f, load) /\ HasTurn(t, f, load)
  <2>1. FrameInv(load)
    BY <1>3, <1>5, <1>8 DEF FrameInv, Stages
  <2>2. Follows(f, load)
    BY <1>3, <1>5 DEF Follows, Stages, SameRun
  <2>3. Enters(f, load) /\ HasTurn(t, f, load)
    BY <1>3, <1>5 DEF Enters, HasTurn, HasLock, Entry
  <2> QED
    BY <2>1, <2>2, <2>3
<1>10. CallInv(load, TRUE, None, modules, initializing, ended)
       /\ CallInv(load, FALSE, None, modules, initializing, ended)
  BY <1>3, <1>5, <1>8 DEF CallInv, PhaseInv, SteadyInv
<1>11. CASE pre = None
  BY <1>1, <1>2, <1>3, <1>5, <1>7, <1>9, <1>10, <1>11, QuietOne
<1>12. CASE pre # None
  <2>1. PICK b : b = Frame("embedded", pre, None)
    OBVIOUS
  <2>2. b \in FrameType /\ b.do = "embedded" /\ b.name = pre /\ pre \in Embedded
    <3>1. "embedded" \in InC \cup OfImportlib \cup {"body"} /\ pre \in Names /\ pre \in Embedded
      BY <1>6, <1>12, EmbeddedClosed DEF InC
    <3>2. None \in Objects \cup Names \cup {None}
      OBVIOUS
    <3> QED
      BY <2>1, <3>1, <3>2, FrameParts
  <2>3. FrameInv(b)
    BY <2>2 DEF FrameInv, Stages
  <2> QED
    BY <1>1, <1>2, <1>3, <1>5, <1>7, <1>9, <1>10, <1>12, <2>1, <2>2, <2>3, QuietTwo
<1> QED
  BY <1>11, <1>12

\* The object of an execution that is over.
LEMMA StageReturn ==
    ASSUME IInv, NEW t \in Threads, stack[t] # <<>>, Top(t).do \in {"post", "posted"},
           Returns(t, Top(t).obj), UNCHANGED <<modules, facts>>
    PROVE  IInv'
<1>1. modules' = modules /\ initializing' = initializing /\ ended' = ended /\ partial' = partial
  BY DEF facts
<1>2. PICK f \in FrameType : f = Top(t)
  BY TopFacts DEF IInv
<1>3. FrameInv(f) /\ CallInv(f, TRUE, result[t], modules, initializing, ended) /\ f.name \in Names
  BY <1>2, TopInv, TopFacts DEF IInv
<1>4. f.obj \in {f.name} \X Copies /\ (f.name \in Locked => f.obj \in ended)
  BY <1>2, <1>3 DEF FrameInv, Stages, CallInv, PhaseInv
<1>5. f.obj \in Results /\ f.obj \notin {Error, None} /\ partial' \subseteq Objects
  <2>1. f.obj \in Objects
    BY <1>3, <1>4 DEF Objects
  <2> QED
    BY <1>1, <2>1, LoaderAssumption, TypeParts DEF IInv, DataType, Results
<1>6. \A m \in Locked : f.obj = modules[m] => f.obj \in ended
  <2>1. \A m \in Locked : f.obj = modules[m] => m = f.name
    BY <1>3, <1>4, ModuleFacts DEF IInv, Locked
  <2> QED
    BY <1>4, <2>1
<1>7. f.do \notin {"exec", "body"}
  BY <1>2
<1> QED
  BY <1>1, <1>2, <1>4, <1>5, <1>6, <1>7, QuietReturn

LEMMA PostKeeps ==
    ASSUME IInv, NEW t \in Threads, PostStarts(t) \/ PostEnds(t)
    PROVE  IInv'
<1>1. CASE PostEnds(t)
  BY <1>1, StageReturn DEF PostEnds, In
<1>2. CASE PostStarts(t)
  <2>1. stack[t] # <<>> /\ Top(t).do = "post" /\ UNCHANGED <<modules, facts>>
    BY <1>2 DEF PostStarts, In
  <2>2. PICK f \in FrameType : f = Top(t)
    BY <2>1, TopFacts DEF IInv
  <2>3. f.name \in Names /\ f.obj \in Objects \cup Names \cup {None} /\ f.do = "post"
    BY <2>1, <2>2 DEF FrameType
  <2>4. PICK post \in Embedded \cup {None} : post = PostLoad[f.name]
    BY <2>3, EmbeddedClosed
  <2>5. CASE post = None
    <3>1. Returns(t, Top(t).obj)
      BY <1>2, <2>2, <2>4, <2>5 DEF PostStarts
    <3> QED
      BY <2>1, <3>1, StageReturn
  <2>6. CASE post # None
    <3>1. PICK a, b : a = Frame("posted", f.name, f.obj) /\ b = Frame("embedded", post, None)
      OBVIOUS
    <3>2. a \in FrameType /\ a.do = "posted" /\ a.name = f.name /\ a.obj = f.obj
      BY <2>3, <3>1, FrameParts DEF InC
    <3>3. b \in FrameType /\ b.do = "embedded" /\ b.name = post /\ post \in Embedded
      BY <2>4, <2>6, <3>1, EmbeddedClosed, FrameParts DEF InC
    <3>4. Becomes(t, <<a, b>>)
      BY <1>2, <2>2, <2>4, <2>6, <3>1, FrameChanged DEF PostStarts
    <3>5. FrameInv(f) /\ CallInv(f, TRUE, result[t], modules, initializing, ended)
      BY <2>1, <2>2, TopInv
    <3>6. FrameInv(a) /\ Follows(f, a)
      BY <2>3, <3>2, <3>5 DEF FrameInv, Stages, Follows, SameRun
    <3>7. Enters(f, a) /\ HasTurn(t, f, a)
      BY <3>2 DEF Enters, HasTurn, HasLock, Entry
    <3>8. CallInv(a, FALSE, None, modules, initializing, ended)
      BY <2>3, <3>2, <3>5 DEF CallInv, PhaseInv, SteadyInv
    <3>9. FrameInv(b)
      BY <3>3 DEF FrameInv, Stages
    <3> QED
      BY <2>1, <2>2, <2>3, <3>2, <3>3, <3>4, <3>6, <3>7, <3>8, <3>9, QuietTwo
  <2> QED
    BY <2>5, <2>6
<1> QED
  BY <1>1, <1>2
\* Calls that have nothing to do with an execution.
Plain == {"import", "fixed", "self", "front", "value", "acquire", "ensure"}

LEMMA PlainCall ==
    ASSUME NEW t, NEW f, NEW a, a.do \in Plain, f.do \notin Stages \cup {"body", "exec"}
    PROVE  /\ Follows(f, a) /\ Enters(f, a) /\ HasTurn(t, f, a)
           /\ CallInv(a, TRUE, None, modules, initializing, ended)
           /\ CallInv(a, FALSE, None, modules, initializing, ended)
<1>1. a.do \notin Stages \cup {"body", "exec", "find", "create"} /\ a.do \notin HasLock \cup Entry
  BY DEF Plain, Stages, HasLock, Entry
<1>2. /\ CallInv(a, TRUE, None, modules, initializing, ended)
      /\ CallInv(a, FALSE, None, modules, initializing, ended)
  BY <1>1 DEF CallInv, PhaseInv, SteadyInv, Stages
<1> QED
  BY <1>1, <1>2 DEF Follows, Enters, HasTurn

LEMMA PlainOne ==
    ASSUME IInv, NEW t \in Threads, stack[t] # <<>>, NEW a \in FrameType, Becomes(t, <<a>>),
           UNCHANGED <<modules, facts>>, a.do \in Plain, FrameInv(a),
           Top(t).do \notin Stages \cup {"body", "exec"}
    PROVE  IInv'
  BY PlainCall, QuietOne

LEMMA PlainTwo ==
    ASSUME IInv, NEW t \in Threads, stack[t] # <<>>, NEW a \in FrameType, NEW b \in FrameType,
           Becomes(t, <<a, b>>), UNCHANGED <<modules, facts>>, FrameInv(a),
           a.do \in Plain, a.do \notin {"acquire", "ensure"},
           b.do \in {"embedded", "import"}, FrameInv(b),
           Top(t).do \notin Stages \cup {"body", "exec"}
    PROVE  IInv'
<1>1. a.do \notin {"find", "create", "acquire", "ensure", "exec", "loaded"}
  BY DEF Plain
<1> QED
  BY <1>1, PlainCall, QuietTwo

LEMMA EmbeddedFrame ==
    ASSUME NEW m \in Embedded
    PROVE  /\ Frame("embedded", m, None) \in FrameType /\ FrameInv(Frame("embedded", m, None))
           /\ Frame("embedded", m, None).do \in {"embedded", "import"}
<1>1. "embedded" \in InC \cup OfImportlib \cup {"body"} /\ m \in Names
      /\ None \in Objects \cup Names \cup {None}
  BY EmbeddedClosed DEF InC
<1>2. PICK b : b = Frame("embedded", m, None)
  OBVIOUS
<1>3. b \in FrameType /\ b.do = "embedded" /\ b.name = m
  BY <1>1, <1>2, FrameParts
<1> QED
  BY <1>2, <1>3 DEF FrameInv, Stages

\* The other calls with no object.
LEMMA PlainFrame ==
    ASSUME NEW m \in Names, NEW do \in {"import", "self", "front", "value", "acquire"},
           do \in {"self", "front", "value"} => m \in Fixed
    PROVE  /\ Frame(do, m, None) \in FrameType /\ FrameInv(Frame(do, m, None))
           /\ Frame(do, m, None).do = do /\ do \in Plain
<1>1. do \in InC \cup OfImportlib \cup {"body"} /\ None \in Objects \cup Names \cup {None}
  BY DEF InC, OfImportlib
<1>2. PICK b : b = Frame(do, m, None)
  OBVIOUS
<1>3. b \in FrameType /\ b.do = do /\ b.name = m
  BY <1>1, <1>2, FrameParts
<1>4. FrameInv(b)
  BY <1>3 DEF FrameInv, Stages
<1> QED
  BY <1>2, <1>3, <1>4 DEF Plain

LEMMA FixedCall ==
    ASSUME IInv, NEW t \in Threads, stack[t] # <<>>, Top(t).do \in {"fixed", "self", "front", "value"}
    PROVE  /\ Top(t).name \in Fixed /\ Top(t).name \in Names /\ Top(t).name \in Embedded
           /\ Top(t).do \notin Stages \cup {"body", "exec"}
           /\ Top(t).do = "fixed" => Top(t).obj \in {Top(t).name} \cup Ancestors[Top(t).name]
<1>1. FrameInv(Top(t)) /\ Top(t).name \in Names
  BY TopInv, TopFacts DEF IInv
<1> QED
  BY <1>1, EmbeddedClosed DEF FrameInv, Stages

LEMMA FixedParentKeeps ==
    ASSUME IInv, NEW t \in Threads, FixedParent(t)
    PROVE  IInv'
<1>1. stack[t] # <<>> /\ Top(t).do = "fixed" /\ UNCHANGED <<modules, facts>>
  BY DEF FixedParent, In
<1>2. PICK f \in FrameType : f = Top(t)
  BY <1>1, TopFacts DEF IInv
<1>3. /\ f.name \in Names /\ f.name \in Fixed /\ f.do = "fixed"
      /\ f.do \notin Stages \cup {"body", "exec"} /\ f.obj \in {f.name} \cup Ancestors[f.name]
  BY <1>1, <1>2, FixedCall
<1>4. PICK parent : parent = Parent[f.obj]
  OBVIOUS
<1>5. parent \in Ancestors[f.name] /\ parent \in Embedded /\ parent \in Names
  <2>1. parent # None
    BY <1>2, <1>4 DEF FixedParent
  <2> QED
    BY <1>3, <1>4, <2>1, AncestorsClosed, EmbeddedClosed
<1>6. PICK a, b : a = Frame("fixed", f.name, parent) /\ b = Frame("embedded", parent, None)
  OBVIOUS
<1>7. Becomes(t, <<a, b>>)
  BY <1>2, <1>3, <1>4, <1>6, FrameChanged DEF FixedParent
<1>8. a \in FrameType /\ a.do = "fixed" /\ a.name = f.name /\ a.obj = parent
  <2>1. "fixed" \in InC \cup OfImportlib \cup {"body"} /\ parent \in Objects \cup Names \cup {None}
    BY <1>5 DEF InC
  <2> QED
    BY <1>3, <1>6, <2>1, FrameParts
<1>9. FrameInv(a) /\ a.do \in Plain /\ a.do \notin {"acquire", "ensure"}
  BY <1>3, <1>5, <1>8 DEF FrameInv, Stages, Plain
<1>10. b \in FrameType /\ FrameInv(b) /\ b.do \in {"embedded", "import"}
  BY <1>5, <1>6, EmbeddedFrame
<1> QED
  BY <1>1, <1>2, <1>3, <1>7, <1>8, <1>9, <1>10, PlainTwo

LEMMA FixedOnKeeps ==
    ASSUME IInv, NEW t \in Threads, FixedSelf(t) \/ FixedImports(t) \/ FixedFront(t)
    PROVE  IInv'
<1>1. stack[t] # <<>> /\ Top(t).do \in {"fixed", "self", "front"} /\ UNCHANGED <<modules, facts>>
  BY DEF FixedSelf, FixedImports, FixedFront, In
<1>2. PICK m : m = Top(t).name
  OBVIOUS
<1>3. m \in Fixed /\ m \in Names /\ m \in Embedded /\ Top(t).do \notin Stages \cup {"body", "exec"}
  BY <1>1, <1>2, FixedCall
<1>4. Outermost(m) \in Names
  BY <1>3, OutermostIsName
<1>5. CASE FixedSelf(t)
  <2>1. PICK a, b : a = Frame("self", m, None) /\ b = Frame("embedded", m, None)
    OBVIOUS
  <2>2. a \in FrameType /\ FrameInv(a) /\ a.do \in Plain /\ a.do \notin {"acquire", "ensure"}
    BY <1>3, <2>1, PlainFrame
  <2>3. b \in FrameType /\ FrameInv(b) /\ b.do \in {"embedded", "import"}
    BY <1>3, <2>1, EmbeddedFrame
  <2>4. Becomes(t, <<a, b>>)
    BY <1>2, <1>5, <2>1 DEF FixedSelf
  <2> QED
    BY <1>1, <1>3, <2>2, <2>3, <2>4, PlainTwo
<1>6. CASE FixedImports(t)
  <2>1. PICK a, b : a = Frame("front", m, None) /\ b = Frame("import", m, None)
    OBVIOUS
  <2>2. a \in FrameType /\ FrameInv(a) /\ a.do \in Plain /\ a.do \notin {"acquire", "ensure"}
    BY <1>3, <2>1, PlainFrame
  <2>3. b \in FrameType /\ FrameInv(b) /\ b.do \in {"embedded", "import"}
    BY <1>3, <2>1, PlainFrame
  <2>4. Becomes(t, <<a, b>>)
    BY <1>2, <1>6, <2>1 DEF FixedImports
  <2> QED
    BY <1>1, <1>3, <2>2, <2>3, <2>4, PlainTwo
<1>7. CASE FixedFront(t)
  <2>1. PICK a, b : a = Frame("value", m, None) /\ b = Frame("import", Outermost(m), None)
    OBVIOUS
  <2>2. a \in FrameType /\ FrameInv(a) /\ a.do \in Plain /\ a.do \notin {"acquire", "ensure"}
    BY <1>3, <2>1, PlainFrame
  <2>3. b \in FrameType /\ FrameInv(b) /\ b.do \in {"embedded", "import"}
    BY <1>4, <2>1, PlainFrame
  <2>4. Becomes(t, <<a, b>>)
    BY <1>2, <1>7, <2>1 DEF FixedFront
  <2> QED
    BY <1>1, <1>3, <2>2, <2>3, <2>4, PlainTwo
<1> QED
  BY <1>5, <1>6, <1>7

LEMMA FixedBackKeeps ==
    ASSUME IInv, NEW t \in Threads, FixedParentFails(t) \/ FixedFails(t) \/ FixedValue(t)
    PROVE  IInv'
<1>1. /\ stack[t] # <<>> /\ Top(t).do \in {"fixed", "self", "front", "value"}
      /\ UNCHANGED <<modules, facts>>
  BY DEF FixedParentFails, FixedFails, FixedValue, In
<1>2. PICK m : m = Top(t).name
  OBVIOUS
<1>3. m \in Names /\ m \in Embedded /\ Top(t).do \notin Stages \cup {"body", "exec"}
  BY <1>1, <1>2, FixedCall
<1>4. CASE Returns(t, Error)
  BY <1>1, <1>3, <1>4, ErrorReturn
<1>5. CASE FixedValue(t) /\ modules[m] # None
  <2>1. Returns(t, modules[m])
    BY <1>2, <1>5 DEF FixedValue
  <2>2. modules[m] \in Results /\ \A x \in Locked : modules[m] # modules[x]
    BY <1>3, <1>5, ModuleFacts DEF IInv, Locked
  <2>3. modules' = modules /\ initializing' = initializing /\ ended' = ended /\ partial' = partial
    BY <1>1 DEF facts
  <2>4. partial' \subseteq Objects
    BY <2>3, TypeParts DEF IInv, DataType
  <2> QED
    BY <1>1, <1>3, <2>1, <2>2, <2>3, <2>4, QuietReturn
<1>6. Returns(t, Error) \/ (FixedValue(t) /\ modules[m] # None)
  BY <1>2 DEF FixedParentFails, FixedFails, FixedValue
<1> QED
  BY <1>4, <1>5, <1>6
\* An import gives what is in sys.modules.
LEMMA GivenReturn ==
    ASSUME IInv, NEW t \in Threads, stack[t] # <<>>, NEW m \in Names, modules[m] # None,
           Returns(t, modules[m]), UNCHANGED <<modules, facts>>,
           Top(t).do \notin Stages \cup {"body", "exec"},
           \/ modules[m] \notin initializing
           \/ Free(t, m)
           \/ Top(t).do \in HasLock /\ Top(t).name = m
    PROVE  IInv'
<1>1. modules' = modules /\ initializing' = initializing /\ ended' = ended /\ partial' = partial
  BY DEF facts
<1>2. partial' \subseteq Objects /\ modules[m] \in Results
  BY <1>1, ModuleFacts, TypeParts DEF IInv, DataType
<1>3. ASSUME NEW x \in Locked, modules[m] = modules[x]
      PROVE  modules[m] \in ended \/ Executing(stack[t], modules[m])
  <2>1. x = m
    BY <1>3, ModuleFacts DEF IInv, Locked
  <2> QED
    BY <2>1, Given
<1> QED
  BY <1>1, <1>2, <1>3, QuietReturn

LEMMA ImportModuleLevelKeeps ==
    ASSUME IInv, NEW t \in Threads, ImportModuleLevel(t)
    PROVE  IInv'
<1>1. stack[t] # <<>> /\ Top(t).do = "import" /\ UNCHANGED <<modules, facts>>
  BY DEF ImportModuleLevel, In
<1>2. PICK m \in Names : m = Top(t).name
  BY <1>1, TopFacts DEF IInv
<1>3. Top(t).do \notin Stages \cup {"body", "exec"}
  BY <1>1 DEF Stages
<1>4. CASE modules[m] = None
  <2>1. PICK a : a = Frame("acquire", m, None)
    OBVIOUS
  <2>2. a \in FrameType /\ FrameInv(a) /\ a.do \in Plain
    BY <2>1, PlainFrame
  <2>3. Becomes(t, <<a>>)
    BY <1>2, <1>4, <2>1 DEF ImportModuleLevel
  <2> QED
    BY <1>1, <1>3, <2>2, <2>3, PlainOne
<1>5. CASE modules[m] # None /\ modules[m] \in initializing
  <2>1. PICK a : a = Frame("ensure", m, modules[m])
    OBVIOUS
  <2>2. modules[m] \in Objects /\ modules[m] \in {m} \X Copies
    BY <1>5, ModuleFacts DEF IInv
  <2>3. "ensure" \in InC \cup OfImportlib \cup {"body"} /\ modules[m] \in Objects \cup Names \cup {None}
    BY <2>2 DEF OfImportlib
  <2>4. a \in FrameType /\ a.do = "ensure" /\ a.name = m /\ a.obj = modules[m]
    BY <2>1, <2>3, FrameParts
  <2>5. FrameInv(a) /\ a.do \in Plain
    BY <2>2, <2>4 DEF FrameInv, Plain
  <2>6. Becomes(t, <<a>>)
    BY <1>2, <1>5, <2>1 DEF ImportModuleLevel
  <2> QED
    BY <1>1, <1>3, <2>4, <2>5, <2>6, PlainOne
<1>6. CASE modules[m] # None /\ modules[m] \notin initializing
  <2>1. Returns(t, modules[m])
    BY <1>2, <1>6 DEF ImportModuleLevel
  <2> QED
    BY <1>1, <1>3, <1>6, <2>1, GivenReturn
<1> QED
  BY <1>4, <1>5, <1>6

LEMMA AcquireKeeps ==
    ASSUME IInv, NEW t \in Threads, Acquire(t)
    PROVE  IInv'
<1>1. stack[t] # <<>> /\ Top(t).do = "acquire" /\ UNCHANGED <<modules, facts>>
  BY DEF Acquire, In
<1>2. PICK m \in Names : m = Top(t).name
  BY <1>1, TopFacts DEF IInv
<1>3. Top(t).do \notin Stages \cup {"body", "exec"} /\ Free(t, m)
  BY <1>1, <1>2 DEF Stages, Acquire
<1>4. CASE modules[m] = None
  <2>1. PICK a : a = Frame("find", m, None)
    OBVIOUS
  <2>2. "find" \in InC \cup OfImportlib \cup {"body"} /\ None \in Objects \cup Names \cup {None}
    BY DEF OfImportlib, HasLock
  <2>3. a \in FrameType /\ a.do = "find" /\ a.name = m
    BY <2>1, <2>2, FrameParts
  <2>4. FrameInv(a) /\ Follows(Top(t), a)
    BY <1>3, <2>3 DEF FrameInv, Follows, Stages
  <2>5. Enters(Top(t), a) /\ HasTurn(t, Top(t), a)
    BY <1>3, <1>4, <2>3 DEF Enters, HasTurn
  <2>6. CallInv(a, TRUE, None, modules, initializing, ended)
    BY <1>4, <2>3 DEF CallInv, PhaseInv, SteadyInv
  <2>7. Becomes(t, <<a>>)
    BY <1>2, <1>4, <2>1 DEF Acquire
  <2> QED
    BY <1>1, <2>3, <2>4, <2>5, <2>6, <2>7, QuietOne
<1>5. CASE modules[m] # None
  <2>1. PICK a : a = Frame("ensure", m, modules[m])
    OBVIOUS
  <2>2. modules[m] \in Objects /\ modules[m] \in {m} \X Copies
    BY <1>5, ModuleFacts DEF IInv
  <2>3. "ensure" \in InC \cup OfImportlib \cup {"body"} /\ modules[m] \in Objects \cup Names \cup {None}
    BY <2>2 DEF OfImportlib
  <2>4. a \in FrameType /\ a.do = "ensure" /\ a.name = m /\ a.obj = modules[m]
    BY <2>1, <2>3, FrameParts
  <2>5. FrameInv(a) /\ a.do \in Plain
    BY <2>2, <2>4 DEF FrameInv, Plain
  <2>6. Becomes(t, <<a>>)
    BY <1>2, <1>5, <2>1 DEF Acquire
  <2> QED
    BY <1>1, <1>3, <2>4, <2>5, <2>6, PlainOne
<1> QED
  BY <1>4, <1>5

LEMMA AcquireDeadlockKeeps ==
    ASSUME IInv, NEW t \in Threads, AcquireDeadlock(t)
    PROVE  IInv'
<1>1. /\ stack[t] # <<>> /\ Top(t).do = "acquire" /\ Returns(t, Error)
      /\ UNCHANGED <<modules, facts>>
  BY DEF AcquireDeadlock, In
<1> QED
  BY <1>1, ErrorReturn DEF Stages

LEMMA EnsureKeeps ==
    ASSUME IInv, NEW t \in Threads, EnsureReady(t) \/ EnsureDeadlock(t)
    PROVE  IInv'
<1>1. stack[t] # <<>> /\ Top(t).do = "ensure" /\ Returns(t, Top(t).obj)
  BY DEF EnsureReady, EnsureDeadlock, In
<1>2. PICK f \in FrameType : f = Top(t)
  BY <1>1, TopFacts DEF IInv
<1>3. f.name \in Names /\ f.do = "ensure" /\ f.obj \in {f.name} \X Copies
  BY <1>1, <1>2, TopInv DEF FrameInv, FrameType
<1>4. f.obj \in Objects /\ f.obj \in Results
  BY <1>3 DEF Objects, Results
<1>5. Top(t).do \notin Stages \cup {"body", "exec"}
  BY <1>1 DEF Stages
<1>6. /\ modules' = modules /\ initializing' = initializing /\ ended' = ended
      /\ partial \subseteq partial' /\ partial' \subseteq Objects
      /\ EnsureDeadlock(t) => f.obj \in partial'
  <2>1. partial \subseteq Objects
    BY TypeParts DEF IInv, DataType
  <2> QED
    BY <1>2, <1>4, <2>1 DEF EnsureReady, EnsureDeadlock, facts
<1>7. ASSUME NEW x \in Locked, f.obj = modules[x], ~EnsureDeadlock(t)
      PROVE  f.obj \in ended \/ Executing(stack[t], f.obj)
  <2>1. x = f.name /\ modules[x] # None
    <3>1. x \in Names
      BY DEF Locked
    <3>2. f.obj # None
      BY <1>4, LoaderAssumption
    <3> QED
      BY <1>3, <1>7, <3>1, <3>2, ModuleFacts DEF IInv
  <2>2. Free(t, x)
    BY <1>2, <1>7, <2>1 DEF EnsureReady
  <2> QED
    BY <1>7, <2>1, <2>2, Given
<1> QED
  BY <1>1, <1>2, <1>4, <1>5, <1>6, <1>7, QuietReturn DEF Stages

LEMMA FindKeeps ==
    ASSUME IInv, NEW t \in Threads, Find(t)
    PROVE  IInv'
<1>1. stack[t] # <<>> /\ Top(t).do = "find" /\ UNCHANGED <<modules, facts>>
  BY DEF Find, In
<1>2. PICK f \in FrameType : f = Top(t)
  BY <1>1, TopFacts DEF IInv
<1>3. PICK m \in Names : m = f.name
  BY <1>2 DEF FrameType
<1>4. f.do \notin Stages \cup {"body", "exec"} /\ f.do = "find"
  BY <1>1, <1>2 DEF Stages
<1>5. PICK a, b : a = Frame("create", m, None) /\ b = Frame("found", m, None)
  OBVIOUS
<1>6. /\ a \in FrameType /\ a.do = "create" /\ a.name = m
      /\ b \in FrameType /\ b.do = "found" /\ b.name = m
  <2>1. {"create", "found"} \subseteq InC \cup OfImportlib \cup {"body"}
        /\ None \in Objects \cup Names \cup {None}
    BY DEF OfImportlib, HasLock
  <2> QED
    BY <1>5, <2>1, FrameParts
<1>7. FrameInv(a) /\ Follows(f, a) /\ FrameInv(b) /\ Follows(f, b)
  BY <1>4, <1>6 DEF FrameInv, Follows, Stages
<1>8. Enters(f, a) /\ HasTurn(t, f, a) /\ Enters(f, b) /\ HasTurn(t, f, b)
  BY <1>3, <1>4, <1>6 DEF Enters, HasTurn, HasLock, Entry
<1>9. CallInv(a, TRUE, None, modules, initializing, ended)
  <2>1. CallInv(f, TRUE, result[t], modules, initializing, ended)
    BY <1>1, <1>2, TopInv
  <2> QED
    BY <1>3, <1>4, <1>6, <2>1 DEF CallInv, PhaseInv, SteadyInv
<1>10. CallInv(b, TRUE, None, modules, initializing, ended)
       /\ CallInv(b, FALSE, None, modules, initializing, ended)
  BY <1>6 DEF CallInv, PhaseInv, SteadyInv
<1>11. CASE Becomes(t, <<a>>)
  BY <1>1, <1>2, <1>4, <1>6, <1>7, <1>8, <1>9, <1>11, QuietOne
<1>12. CASE Becomes(t, <<b>>)
  BY <1>1, <1>2, <1>4, <1>6, <1>7, <1>8, <1>10, <1>12, QuietOne
<1>13. CASE Parent[m] # None /\ Becomes(t, Append(<<b>>, Frame("import", Parent[m], None)))
  <2>1. PICK q \in Names : q = Parent[m]
    BY <1>13, LoaderAssumption
  <2>2. PICK c : c = Frame("import", q, None)
    OBVIOUS
  <2>3. c \in FrameType /\ FrameInv(c) /\ c.do \in {"embedded", "import"}
    BY <2>2, PlainFrame
  <2>4. Append(<<b>>, c) = <<b, c>>
    BY <1>6, <2>3, OneOrTwo
  <2>5. Becomes(t, <<b, c>>) /\ b.do \notin {"find", "create", "exec", "loaded"}
    BY <1>6, <1>13, <2>1, <2>2, <2>4
  <2> QED
    BY <1>1, <1>2, <1>4, <1>6, <1>7, <1>8, <1>10, <2>3, <2>5, QuietTwo
<1>14. \/ Becomes(t, <<a>>) \/ Becomes(t, <<b>>)
       \/ Parent[m] # None /\ Becomes(t, Append(<<b>>, Frame("import", Parent[m], None)))
  BY <1>2, <1>3, <1>5 DEF Find
<1> QED
  BY <1>11, <1>12, <1>13, <1>14

LEMMA FoundKeeps ==
    ASSUME IInv, NEW t \in Threads, Found(t)
    PROVE  IInv'
<1>1. stack[t] # <<>> /\ Top(t).do = "found" /\ UNCHANGED <<modules, facts>>
  BY DEF Found, In
<1>2. PICK m \in Names : m = Top(t).name
  BY <1>1, TopFacts DEF IInv
<1>3. Top(t).do \notin Stages \cup {"body", "exec"} /\ Top(t).do \in HasLock
  BY <1>1 DEF Stages, HasLock
<1>4. CASE Returns(t, Error)
  BY <1>1, <1>3, <1>4, ErrorReturn
<1>5. CASE Returns(t, modules[m]) /\ modules[m] # None
  BY <1>1, <1>2, <1>3, <1>5, GivenReturn
<1>6. CASE Becomes(t, <<Frame("create", m, None)>>) /\ modules[m] = None
  <2>1. PICK a : a = Frame("create", m, None)
    OBVIOUS
  <2>2. "create" \in InC \cup OfImportlib \cup {"body"} /\ None \in Objects \cup Names \cup {None}
    BY DEF OfImportlib, HasLock
  <2>3. a \in FrameType /\ a.do = "create" /\ a.name = m
    BY <2>1, <2>2, FrameParts
  <2>4. FrameInv(a) /\ Follows(Top(t), a)
    BY <1>3, <2>3 DEF FrameInv, Follows, Stages
  <2>5. Enters(Top(t), a) /\ HasTurn(t, Top(t), a)
    BY <1>2, <1>3, <1>6, <2>3 DEF Enters, HasTurn
  <2>6. CallInv(a, TRUE, None, modules, initializing, ended)
    BY <1>6, <2>3 DEF CallInv, PhaseInv, SteadyInv
  <2> QED
    BY <1>1, <1>6, <2>1, <2>3, <2>4, <2>5, <2>6, QuietOne
<1>7. \/ Returns(t, Error)
      \/ Returns(t, modules[m]) /\ modules[m] # None
      \/ Becomes(t, <<Frame("create", m, None)>>) /\ modules[m] = None
  BY <1>2 DEF Found
<1> QED
  BY <1>4, <1>5, <1>6, <1>7

LEMMA QuietKeeps ==
    ASSUME IInv, NEW t \in Threads, Quiet(t)
    PROVE  IInv'
  BY ImportStatementKeeps, BodyRaisesKeeps, ExecuteStartsKeeps, PostKeeps, FixedParentKeeps,
     FixedOnKeeps, FixedBackKeeps, ImportModuleLevelKeeps, AcquireKeeps, AcquireDeadlockKeeps,
     EnsureKeeps, FindKeeps, FoundKeeps DEF Quiet
-----------------------------------------------------------------------------
(***************************************************************************)
(* One execution at a time, under the lock.                                *)
(***************************************************************************)
LEMMA CallParts ==
    ASSUME IInv, NEW u \in Threads, NEW j \in 1..Len(stack[u])
    PROVE  /\ FrameInv(stack[u][j]) /\ stack[u][j] \in FrameType /\ stack[u][j].name \in Names
           /\ j = 1 => StartsStack(stack[u][j])
           /\ j # 1 => j - 1 \in 1..Len(stack[u]) /\ Carries(stack[u][j - 1], stack[u][j])
           /\ j # Len(stack[u]) =>
                  /\ stack[u][j].do \notin {"find", "create", "acquire", "ensure"}
                  /\ CallInv(stack[u][j], FALSE, result[u], modules, initializing, ended)
<1>1. PICK s \in Seq(FrameType), n \in Nat : s = stack[u] /\ n = Len(s)
  BY LengthOf DEF IInv
<1>2. StackInv(s) /\ CallsInv(s, result[u], modules, initializing, ended) /\ j \in 1..n
  BY <1>1 DEF IInv, ThreadInv
<1>3. FrameInv(s[j]) /\ s[j] \in FrameType /\ s[j].name \in Names
  <2>1. FrameInv(s[j])
    BY <1>1, <1>2 DEF StackInv
  <2>2. s[j] \in FrameType
    BY <1>1, <1>2, ElementOfSeq
  <2> QED
    BY <2>1, <2>2 DEF FrameType
<1>4. j = 1 => StartsStack(s[j])
  BY <1>1, <1>2 DEF StackInv
<1>5. j # 1 => j - 1 \in 1..n /\ Carries(s[j - 1], s[j])
  <2> SUFFICES ASSUME j # 1 PROVE j - 1 \in 1..n /\ Carries(s[j - 1], s[j])
    OBVIOUS
  <2>1. j - 1 \in 1..n /\ j - 1 \in 1..(n - 1) /\ (j - 1) + 1 = j
    BY <1>2
  <2> QED
    BY <1>1, <1>2, <2>1 DEF StackInv
<1>6. j # n => s[j].do \notin {"find", "create", "acquire", "ensure"}
  <2> SUFFICES ASSUME j # n PROVE s[j].do \notin {"find", "create", "acquire", "ensure"}
    OBVIOUS
  <2>1. j \in 1..(n - 1)
    BY <1>2
  <2> QED
    BY <1>1, <1>2, <2>1 DEF StackInv, Carries
<1>7. j # n => CallInv(s[j], FALSE, result[u], modules, initializing, ended)
  BY <1>1, <1>2 DEF CallsInv
<1> QED
  BY <1>1, <1>3, <1>4, <1>5, <1>6, <1>7

\* Two calls of one stack that hold the lock of a module: the first is no execution.
LEMMA LockNests ==
    ASSUME IInv, NEW t \in Threads, NEW i \in 1..Len(stack[t]), stack[t][i].do = "exec",
           stack[t][i].name \in Locked, NEW u \in Threads, NEW j \in 1..Len(stack[u]),
           stack[u][j].do \in HasLock, stack[u][j].name = stack[t][i].name
    PROVE  u = t /\ j <= i
<1>1. u = t
  BY DEF IInv, LockInv, Excludes, HasLock
<1>2. PICK s : s = stack[t]
  OBVIOUS
<1>3. NestInv(s)
  BY <1>2 DEF IInv, ThreadInv
<1>4. ~(i < j)
  BY <1>1, <1>2, <1>3 DEF NestInv, Nests
<1>5. i \in Int /\ j \in Int
  OBVIOUS
<1> QED
  BY <1>1, <1>4, <1>5

LEMMA OneHolder ==
    ASSUME IInv, NEW t \in Threads, NEW i \in 1..Len(stack[t]), stack[t][i].do = "exec",
           stack[t][i].name \in Locked, NEW u \in Threads, NEW j \in 1..Len(stack[u]),
           stack[u][j].do \in {"exec", "find", "create"}, stack[u][j].name = stack[t][i].name
    PROVE  u = t /\ j = i
<1>1. u = t /\ j <= i
  BY LockNests DEF HasLock
<1>2. CASE stack[u][j].do = "exec"
  <2>1. i <= j
    BY <1>1, <1>2, LockNests DEF HasLock
  <2> QED
    BY <1>1, <2>1
<1>3. CASE stack[u][j].do \in {"find", "create"}
  <2>1. j = Len(stack[u])
    BY <1>3, CallParts
  <2>2. PICK n \in Nat : n = Len(stack[t])
    BY LengthOf DEF IInv
  <2> QED
    BY <1>1, <2>1, <2>2
<1> QED
  BY <1>2, <1>3

LEMMA StageHasLock ==
    ASSUME IInv, NEW t \in Threads, NEW i \in 1..Len(stack[t]), stack[t][i].do \in Stages,
           stack[t][i].name \in Locked
    PROVE  /\ i # 1 /\ i - 1 \in 1..Len(stack[t]) /\ stack[t][i - 1].do = "exec"
           /\ stack[t][i - 1].name = stack[t][i].name /\ stack[t][i - 1].obj = stack[t][i].obj
           /\ modules[stack[t][i].name] = stack[t][i].obj
           /\ stack[t][i].obj \in ended \cup initializing
<1>1. PICK s \in Seq(FrameType), n \in Nat : s = stack[t] /\ n = Len(s)
  BY LengthOf DEF IInv
<1>2. i # 1
  BY CallParts DEF StartsStack
<1>3. i - 1 \in 1..n /\ Carries(s[i - 1], s[i])
  BY <1>1, <1>2, CallParts
<1>4. s[i - 1].do = "exec" /\ s[i - 1].name = s[i].name /\ s[i - 1].obj = s[i].obj
  BY <1>1, <1>3 DEF Carries, SameRun
<1>5. i - 1 # n
  BY <1>1
<1>6. CallInv(s[i - 1], FALSE, result[t], modules, initializing, ended)
  BY <1>1, <1>3, <1>5, CallParts
<1>7. modules[s[i].name] = s[i].obj /\ s[i].obj \in ended \cup initializing
  BY <1>1, <1>4, <1>6 DEF CallInv, PhaseInv
<1> QED
  BY <1>1, <1>2, <1>3, <1>4, <1>7

LEMMA StageUnique ==
    ASSUME IInv, NEW t \in Threads, NEW i \in 1..Len(stack[t]), stack[t][i].do \in Stages,
           stack[t][i].name \in Locked, NEW u \in Threads, NEW j \in 1..Len(stack[u]),
           stack[u][j].name = stack[t][i].name
    PROVE  /\ stack[u][j].do \in Stages => u = t /\ j = i
           /\ stack[u][j].do \in {"exec", "find", "create"} => u = t /\ j = i - 1
<1>1. /\ i - 1 \in 1..Len(stack[t]) /\ stack[t][i - 1].do = "exec"
      /\ stack[t][i - 1].name = stack[t][i].name
  BY StageHasLock
<1>2. PICK k \in 1..Len(stack[t]) : k = i - 1
  BY <1>1
<1>3. stack[t][k].do = "exec" /\ stack[t][k].name \in Locked /\ stack[t][k].name = stack[t][i].name
  BY <1>1, <1>2
<1>4. ASSUME stack[u][j].do \in {"exec", "find", "create"} PROVE u = t /\ j = i - 1
  BY <1>2, <1>3, <1>4, OneHolder
<1>5. ASSUME stack[u][j].do \in Stages PROVE u = t /\ j = i
  <2>1. PICK l \in 1..Len(stack[u]) : l = j - 1 /\ stack[u][l].do = "exec"
                                      /\ stack[u][l].name = stack[u][j].name
    BY <1>5, StageHasLock
  <2>2. stack[u][l].do = "exec" /\ stack[u][l].name = stack[t][k].name
    BY <1>3, <2>1
  <2>3. u = t /\ l = k
    BY <1>3, <2>2, OneHolder
  <2>4. Len(stack[t]) \in Nat /\ Len(stack[u]) \in Nat
    BY LengthOf DEF IInv
  <2>5. i \in Int /\ j \in Int /\ j - 1 = i - 1
    BY <1>2, <2>1, <2>3, <2>4
  <2>6. i = j
    BY <2>5
  <2> QED
    BY <1>2, <2>1, <2>3, <2>6
<1> QED
  BY <1>4, <1>5

-----------------------------------------------------------------------------
(***************************************************************************)
(* Steps that do something to the modules.                                 *)
(***************************************************************************)
LEMMA Assembled ==
    ASSUME NEW t \in Threads, NEW p \in Nat, NEW new, NEW r, Moves(t, p, new, r), DataType',
           LockInv', \A u \in Threads : ThreadInv(u)', \A m \in Locked : ModuleInv(m)'
    PROVE  IInv'
<1>1. TypeOK'
  BY TypeKept
<1> QED
  BY <1>1 DEF IInv, Locked

\* What each call is about, for a step of the top of t.
LEMMA PoppedKept ==
    ASSUME IInv, NEW t \in Threads, stack[t] # <<>>, Len(stack[t]) # 1, NEW r,
           Unaffected(stack[t][Len(stack[t]) - 1], FALSE),
           Top(t).do # "body",
           Top(t).do \in Stages =>
               /\ Top(t).name \in Locked => r # None /\ (r = Error <=> Top(t).obj \notin ended')
               /\ Top(t).name \notin Failing => r \notin {Error, None}
    PROVE  CallInv(stack[t][Len(stack[t]) - 1], TRUE, r, modules', initializing', ended')
<1>1. PICK f, g : f = Top(t) /\ g = stack[t][Len(stack[t]) - 1]
  OBVIOUS
<1>2. Carries(g, f) /\ CallInv(g, FALSE, result[t], modules, initializing, ended)
  BY <1>1, TopInv
<1>3. PICK ms, ini, en : ms = modules' /\ ini = initializing' /\ en = ended'
  OBVIOUS
<1>4. CallInv(g, FALSE, r, ms, ini, en)
  <2>1. CallInv(g, FALSE, r, modules', initializing', ended')
    BY <1>1, <1>2, CallKept
  <2> QED
    BY <1>3, <2>1
<1>5. CallInv(g, TRUE, r, ms, ini, en)
  BY <1>1, <1>2, <1>3, <1>4, Popped
<1> QED
  BY <1>1, <1>3, <1>5
\* The objects of two names differ.
LEMMA OtherObject ==
    ASSUME NEW f, FrameInv(f), f.do \in Stages \cup {"exec", "body"},
           NEW m, f.name # m, NEW o \in {m} \X Copies
    PROVE  f.obj # o
  BY DEF FrameInv

LEMMA NewObject ==
    ASSUME IInv, Endless, NEW m \in Names, NEW o, o = New(m)
    PROVE  /\ o \in {m} \X Copies /\ o \in Objects /\ o # None
           /\ \A x \in Names : modules[x] # o
           /\ \A u \in Threads : result[u] # o
           /\ \A u \in Threads : \A j \in 1..Len(stack[u]) : stack[u][j].obj # o
<1>1. o \in {m} \X Copies /\ ~Shared(o)
  BY NewIsNew DEF IInv
<1>2. o \in Objects /\ o # None
  BY <1>1, LoaderAssumption DEF Objects
<1>3. ASSUME NEW u \in Threads, NEW j \in 1..Len(stack[u]) PROVE stack[u][j].obj # o
  <2>1. j \in DOMAIN stack[u]
    BY LengthOf, LenProperties DEF IInv
  <2>2. stack[u][j] \in Frames(u)
    BY <2>1 DEF Frames
  <2> QED
    BY <1>1, <2>2 DEF Shared
<1> QED
  BY <1>1, <1>2, <1>3 DEF Shared

LEMMA ImportEmbeddedKeeps ==
    ASSUME IInv, Endless, NEW t \in Threads, ImportEmbedded(t)
    PROVE  IInv'
<1>1. stack[t] # <<>> /\ Top(t).do = "embedded" /\ modules' = modules
  BY DEF ImportEmbedded, In
<1>2. PICK m \in Names : m = Top(t).name /\ m \in Embedded
  <2>1. FrameInv(Top(t)) /\ Top(t).name \in Names
    BY <1>1, TopInv, TopFacts DEF IInv
  <2> QED
    BY <1>1, <2>1 DEF FrameInv
<1>3. Top(t).do \notin Stages \cup {"body", "exec"}
  BY <1>1 DEF Stages
<1>4. CASE modules[m] # None /\ Returns(t, modules[m]) /\ UNCHANGED facts
  <2>1. modules[m] \in Results /\ \A x \in Locked : modules[m] # modules[x]
    BY <1>2, <1>4, ModuleFacts DEF IInv, Locked
  <2>2. initializing' = initializing /\ ended' = ended /\ partial' = partial
    BY <1>4 DEF facts
  <2>3. partial' \subseteq Objects
    BY <2>2, TypeParts DEF IInv, DataType
  <2> QED
    BY <1>1, <1>3, <1>4, <2>1, <2>2, <2>3, QuietReturn
<1>5. CASE modules[m] = None /\ Becomes(t, <<Frame("execute", m, New(m))>>) /\ Forget(New(m))
  <2>1. PICK o : o = New(m)
    OBVIOUS
  <2>2. /\ o \in {m} \X Copies /\ o \in Objects /\ o # None
        /\ \A x \in Names : modules[x] # o
        /\ \A u \in Threads : \A j \in 1..Len(stack[u]) : stack[u][j].obj # o
    BY <2>1, NewObject
  <2>3. /\ initializing' = initializing \ {o} /\ ended' = ended \ {o} /\ partial' = partial \ {o}
    BY <1>5, <2>1 DEF Forget
  <2>4. PICK a : a = Frame("execute", m, o)
    OBVIOUS
  <2>5. a \in FrameType /\ a.do = "execute" /\ a.name = m /\ a.obj = o
    <3>1. "execute" \in InC \cup OfImportlib \cup {"body"} /\ o \in Objects \cup Names \cup {None}
      BY <2>2 DEF InC
    <3> QED
      BY <2>4, <3>1, FrameParts
  <2>6. PICK n \in Nat \ {0} : n = Len(stack[t])
    BY <1>1, TopFacts DEF IInv
  <2>7. PICK new \in Seq(FrameType) : new = <<a>>
    BY <2>5, OneOrTwo
  <2>8. new # <<>>
    BY <2>7
  <2>9. Moves(t, n - 1, new, None)
    <3>1. None \in Results /\ Goes(t, Below(t) \o new, None)
      BY <1>5, <2>1, <2>4, <2>7 DEF Becomes, Results
    <3>2. TypeOK
      BY DEF IInv
    <3> QED
      BY <1>1, <2>6, <3>1, <3>2, BecomesMoves
  <2>10. Fits(t, n - 1, new)
    <3>1. FrameInv(a) /\ Follows(Top(t), a)
      BY <1>2, <1>3, <2>2, <2>5 DEF FrameInv, Stages, Follows, Locked
    <3>2. Enters(Top(t), a) /\ HasTurn(t, Top(t), a)
      BY <1>5, <2>5 DEF Enters, HasTurn, HasLock
    <3> QED
      BY <1>1, <2>5, <2>6, <2>7, <3>1, <3>2, FitsOne
  <2>11. Proceeds(t, n - 1, new, None)
    <3>1. \A ms, ini, en : CallInv(a, TRUE, None, ms, ini, en)
      BY <1>2, <2>5 DEF CallInv, PhaseInv, SteadyInv, Locked
    <3>2. CallsInv(new, None, modules', initializing', ended')
      BY <2>7, <3>1, CallsOne
    <3> QED
      BY <1>1, <2>6, <2>8, <3>2, ProceedsNew DEF IInv
  <2>12. NoEffect(t, n - 1, new)
    <3>1. \A u \in Threads : \A j \in 1..Len(stack[u]) :
              Unaffected(stack[u][j], FALSE) /\ Unaffected(stack[u][j], TRUE)
      BY <1>1, <2>2, <2>3 DEF Unaffected
    <3> QED
      BY <3>1 DEF NoEffect
  <2>13. n - 1 \in Nat /\ n - 1 <= n
    OBVIOUS
  <2>14. LockInv' /\ \A u \in Threads : ThreadInv(u)'
    BY <2>6, <2>8, <2>9, <2>10, <2>11, <2>12, <2>13, StepKept
  <2>15. DataType'
    BY <1>1, <2>3, TypeParts DEF IInv, DataType
  <2>16. ASSUME NEW x \in Locked PROVE ModuleInv(x)'
    <3>1. modules[x] # o
      BY <2>2 DEF Locked
    <3>2. stack[t][Len(stack[t])].do # "exec"
      BY <1>3 DEF Top
    <3>3. /\ modules'[x] = modules[x]
          /\ \A y \in {x} \X Copies : y \in ended' => y \in ended \/ y = modules[x]
          /\ modules[x] \in ended => modules[x] \in ended'
          /\ modules[x] \in partial => modules[x] \in partial'
      BY <1>1, <2>3, <3>1
    <3> QED
      BY <2>6, <2>9, <2>13, <3>2, <3>3, ModuleKept
  <2> QED
    BY <2>9, <2>13, <2>14, <2>15, <2>16, Assembled
<1> QED
  BY <1>2, <1>4, <1>5 DEF ImportEmbedded

LEMMA BodyEndsKeeps ==
    ASSUME IInv, NEW t \in Threads, BodyEnds(t)
    PROVE  IInv'
<1>1. stack[t] # <<>> /\ Top(t).do = "body" /\ Returns(t, Top(t).obj)
      /\ modules' = modules /\ initializing' = initializing /\ partial' = partial
      /\ ended' = ended \cup {Top(t).obj}
  BY DEF BodyEnds, In
<1>2. PICK n \in Nat \ {0} : n = Len(stack[t])
  BY <1>1, TopFacts DEF IInv
<1>3. PICK f \in FrameType : f = Top(t) /\ f = stack[t][n] /\ n \in 1..n
  BY <1>1, <1>2, TopFacts DEF IInv
<1>4. PICK m \in Names, o \in {f.obj} : m = f.name /\ o = f.obj
  BY <1>3 DEF FrameType
<1>5. o \in {m} \X Copies /\ o \in Objects /\ o \in Results /\ o \notin {Error, None}
  <2>1. FrameInv(f)
    BY <1>1, <1>3, TopInv
  <2>2. o \in {m} \X Copies
    BY <1>1, <1>3, <1>4, <2>1 DEF FrameInv
  <2> QED
    BY <2>2, LoaderAssumption DEF Objects, Results
<1>6. /\ n # 1 /\ n - 1 \in 1..n /\ n - 1 \in Nat /\ n - 1 # n /\ n - 1 <= n
      /\ stack[t][n - 1].do = "loaded" /\ stack[t][n - 1].name = m
      /\ m \in Locked => stack[t][n - 1].obj = o
  <2>1. n # 1
    BY <1>1, <1>2, TopInv DEF StartsStack
  <2>2. n - 1 \in 1..n /\ Carries(stack[t][n - 1], f)
    BY <1>2, <1>3, <2>1, CallParts
  <2> QED
    BY <1>1, <1>2, <1>3, <1>4, <2>1, <2>2 DEF Carries, SameRun
<1>7. PICK new \in Seq(FrameType) : new = <<>>
  BY EmptySeq
<1>8. Moves(t, n - 1, new, o)
  BY <1>1, <1>2, <1>3, <1>4, <1>5, <1>7, ReturnsMoves DEF IInv
<1>9. Fits(t, n - 1, new)
  BY <1>6, <1>7, FitsNone
<1>10. Proceeds(t, n - 1, new, o)
  <2>1. PICK g : g = stack[t][n - 1]
    OBVIOUS
  <2>2. CallInv(g, FALSE, result[t], modules, initializing, ended)
    BY <1>2, <1>6, <2>1, CallParts
  <2>3. PhaseInv(g, TRUE, o, modules', initializing', ended')
    BY <1>1, <1>3, <1>4, <1>5, <1>6, <2>1 DEF PhaseInv
  <2>4. SteadyInv(g, TRUE, o, modules')
    BY <1>1, <1>5, <1>6, <2>1, <2>2 DEF CallInv, SteadyInv
  <2>5. CallInv(g, TRUE, o, modules', initializing', ended')
    BY <2>3, <2>4 DEF CallInv
  <2> QED
    BY <1>1, <1>2, <1>7, <2>1, <2>5, ProceedsNone DEF IInv
<1>11. NoEffect(t, n - 1, new)
  <2> SUFFICES ASSUME NEW u \in Threads, NEW j \in 1..Len(stack[u]), u = t => j < n - 1
               PROVE  /\ Unaffected(stack[u][j], FALSE)
                      /\ u # t => Unaffected(stack[u][j], TRUE)
    BY <1>7 DEF NoEffect
  <2>1. PICK g : g = stack[u][j]
    OBVIOUS
  <2>2. FrameInv(g)
    BY <2>1, CallParts
  <2>3. ASSUME g.name \in Locked, g.do \in Stages PROVE g.obj # o
    <3>1. CASE g.name # m
      BY <1>5, <2>2, <2>3, <3>1, OtherObject
    <3>2. CASE g.name = m
      <4>1. stack[t][n - 1].do \in Stages /\ stack[t][n - 1].name \in Locked
            /\ stack[u][j].do \in Stages /\ stack[u][j].name = stack[t][n - 1].name
        BY <1>6, <2>1, <2>3, <3>2 DEF Stages
      <4>2. PICK k \in 1..Len(stack[t]) : k = n - 1
        BY <1>2, <1>6
      <4>3. u = t /\ j = k
        BY <4>1, <4>2, StageUnique
      <4> QED
        BY <4>2, <4>3
    <3> QED
      BY <3>1, <3>2
  <2>4. ASSUME g.name \in Locked, g.do = "exec", u # t PROVE g.obj # o
    <3>1. CASE g.name # m
      BY <1>5, <2>2, <2>4, <3>1, OtherObject
    <3>2. CASE g.name = m
      <4>1. stack[t][n - 1].do \in Stages /\ stack[t][n - 1].name \in Locked
            /\ stack[u][j].do \in {"exec", "find", "create"}
            /\ stack[u][j].name = stack[t][n - 1].name
        BY <1>6, <2>1, <2>4, <3>2 DEF Stages
      <4>2. PICK k \in 1..Len(stack[t]) : k = n - 1
        BY <1>2, <1>6
      <4>3. u = t
        BY <4>1, <4>2, StageUnique
      <4> QED
        BY <2>4, <4>3
    <3> QED
      BY <3>1, <3>2
  <2>5. /\ Unaffected(g, FALSE) /\ (u # t => Unaffected(g, TRUE))
    BY <1>1, <1>3, <1>4, <2>3, <2>4 DEF Unaffected
  <2> QED
    BY <2>1, <2>5
<1>12. LockInv' /\ \A u \in Threads : ThreadInv(u)'
  BY <1>2, <1>6, <1>8, <1>9, <1>10, <1>11, StepKept
<1>13. DataType'
  BY <1>1, <1>3, <1>4, <1>5, TypeParts DEF IInv, DataType
<1>14. ASSUME NEW x \in Locked PROVE ModuleInv(x)'
  <2>1. x = m => o = modules[x]
    <3>1. PICK k \in 1..Len(stack[t]) : k = n - 1
      BY <1>2, <1>6
    <3> QED
      BY <1>6, <3>1, StageHasLock DEF Stages
  <2>2. \A y \in {x} \X Copies : y \in ended' => y \in ended \/ y = modules[x]
    BY <1>1, <1>3, <1>4, <1>5, <2>1
  <2>3. stack[t][Len(stack[t])].do # "exec"
    BY <1>1 DEF Top
  <2> QED
    BY <1>1, <1>2, <1>3, <1>4, <1>6, <1>8, <2>2, <2>3, ModuleKept
<1> QED
  BY <1>6, <1>8, <1>12, <1>13, <1>14, Assembled
LEMMA LoadKeeps ==
    ASSUME IInv, NEW t \in Threads, Load(t)
    PROVE  IInv'
<1>1. stack[t] # <<>> /\ Top(t).do = "load" /\ ended' = ended /\ partial' = partial
  BY DEF Load, In
<1>2. PICK n \in Nat \ {0} : n = Len(stack[t])
  BY <1>1, TopFacts DEF IInv
<1>3. PICK f \in FrameType : f = Top(t) /\ f = stack[t][n] /\ n \in 1..n
  BY <1>1, <1>2, TopFacts DEF IInv
<1>4. PICK m \in Names, o \in {f.obj} : m = f.name /\ o = f.obj
  BY <1>3 DEF FrameType
<1>5. FrameInv(f) /\ CallInv(f, TRUE, result[t], modules, initializing, ended) /\ f.do = "load"
  BY <1>1, <1>3, TopInv
<1>6. o \in {m} \X Copies /\ o \in Objects /\ o # None
  <2>1. o \in {m} \X Copies
    BY <1>4, <1>5 DEF FrameInv, Stages
  <2> QED
    BY <2>1, LoaderAssumption DEF Objects
<1>7. /\ modules' = [modules EXCEPT ![m] = o] /\ initializing' = Marked(m, o)
      /\ Becomes(t, <<Frame("loaded", m, o), Frame("body", m, o)>>)
  BY <1>3, <1>4 DEF Load
<1>8. /\ modules'[m] = o /\ \A x \in Names \ {m} : modules'[x] = modules[x]
      /\ initializing \subseteq initializing' /\ initializing' \subseteq Objects
  <2>1. modules \in [Names -> Objects \cup {None}] /\ initializing \subseteq Objects
    BY TypeParts DEF IInv, DataType
  <2> QED
    BY <1>6, <1>7, <2>1 DEF Marked
<1>9. m \in Locked => modules[m] = o
  BY <1>2, <1>3, <1>4, <1>5, StageHasLock DEF Stages
<1>10. \A x \in Locked : modules'[x] = modules[x]
  BY <1>8, <1>9 DEF Locked
<1>11. PICK a, b : a = Frame("loaded", m, o) /\ b = Frame("body", m, o)
  OBVIOUS
<1>12. /\ a \in FrameType /\ a.do = "loaded" /\ a.name = m /\ a.obj = o
       /\ b \in FrameType /\ b.do = "body" /\ b.name = m /\ b.obj = o
  <2>1. "loaded" \in InC \cup OfImportlib \cup {"body"} /\ o \in Objects \cup Names \cup {None}
    BY <1>6 DEF InC
  <2>2. "body" \in InC \cup OfImportlib \cup {"body"}
    OBVIOUS
  <2>3. a \in FrameType /\ a.do = "loaded" /\ a.name = m /\ a.obj = o
    BY <1>11, <2>1, FrameParts
  <2> QED
    BY <1>11, <2>1, <2>2, <2>3, FrameParts
<1>13. PICK new \in Seq(FrameType) : new = <<a, b>>
  BY <1>12, OneOrTwo
<1>14. new # <<>>
  BY <1>13
<1>15. Moves(t, n - 1, new, None)
  <2>1. None \in Results /\ Goes(t, Below(t) \o new, None)
    BY <1>7, <1>11, <1>13 DEF Becomes, Results
  <2>2. TypeOK
    BY DEF IInv
  <2> QED
    BY <1>1, <1>2, <2>1, <2>2, BecomesMoves
<1>16. Fits(t, n - 1, new)
  <2>1. FrameInv(a) /\ FrameInv(b)
    BY <1>6, <1>12 DEF FrameInv, Stages
  <2>2. Follows(f, a)
    BY <1>4, <1>5, <1>12 DEF Follows, Stages, SameRun
  <2>3. Enters(f, a) /\ HasTurn(t, f, a) /\ Enters(f, b) /\ b.do \notin HasLock
    BY <1>4, <1>5, <1>12 DEF Enters, HasTurn, HasLock, Entry
  <2>4. Carries(a, b) /\ Nests(a, b)
    BY <1>12 DEF Carries, Nests, Stages, SameRun
  <2> QED
    BY <1>1, <1>2, <1>3, <1>12, <1>13, <2>1, <2>2, <2>3, <2>4, FitsTwo
<1>17. Proceeds(t, n - 1, new, None)
  <2>1. m \in Locked => o \notin ended
    BY <1>4, <1>5 DEF CallInv, PhaseInv
  <2>2. CallInv(a, FALSE, None, modules', initializing', ended')
    BY <1>1, <1>6, <1>8, <1>12, <2>1 DEF CallInv, PhaseInv, SteadyInv
  <2>3. CallInv(b, TRUE, None, modules', initializing', ended')
    BY <1>6, <1>8, <1>12 DEF CallInv, PhaseInv, SteadyInv
  <2>4. CallsInv(new, None, modules', initializing', ended')
    BY <1>13, <2>2, <2>3, CallsTwo
  <2> QED
    BY <1>1, <1>2, <1>14, <2>4, ProceedsNew DEF IInv
<1>18. NoEffect(t, n - 1, new)
  <2>1. ASSUME NEW u \in Threads, NEW j \in 1..Len(stack[u])
        PROVE  Unaffected(stack[u][j], FALSE) /\ Unaffected(stack[u][j], TRUE)
    <3>1. PICK g : g = stack[u][j]
      OBVIOUS
    <3>2. g.name \in Names
      BY <3>1, CallParts
    <3>3. modules[g.name] # None => modules'[g.name] # None
      BY <1>6, <1>8, <3>2
    <3>4. Unaffected(g, FALSE) /\ Unaffected(g, TRUE)
      BY <1>1, <1>8, <1>10, <3>3 DEF Unaffected
    <3> QED
      BY <3>1, <3>4
  <2> QED
    BY <2>1 DEF NoEffect
<1>19. n - 1 \in Nat /\ n - 1 <= n
  OBVIOUS
<1>20. LockInv' /\ \A u \in Threads : ThreadInv(u)'
  BY <1>2, <1>14, <1>15, <1>16, <1>17, <1>18, <1>19, StepKept
<1>21. DataType'
  <2>1. PICK ms : ms = modules'
    OBVIOUS
  <2>2. /\ modules \in [Names -> Objects \cup {None}] /\ ended \subseteq Objects /\ partial \subseteq Objects
        /\ \A x \in Names : modules[x] # None => modules[x] \in {x} \X Copies
    BY TypeParts DEF IInv, DataType
  <2>3. ms \in [Names -> Objects \cup {None}]
    BY <1>6, <1>7, <2>1, <2>2
  <2>4. \A x \in Names : ms[x] # None => ms[x] \in {x} \X Copies
    BY <1>6, <1>8, <2>1, <2>2
  <2> QED
    BY <1>1, <1>8, <2>1, <2>2, <2>3, <2>4 DEF DataType
<1>22. ASSUME NEW x \in Locked PROVE ModuleInv(x)'
  <2>1. stack[t][Len(stack[t])].do # "exec"
    BY <1>1 DEF Top
  <2> QED
    BY <1>1, <1>2, <1>10, <1>15, <1>19, <2>1, ModuleKept
<1> QED
  BY <1>15, <1>19, <1>20, <1>21, <1>22, Assembled

\* The data when a module is taken out of sys.modules.
LEMMA DataWithout ==
    ASSUME TypeOK, NEW m \in Names, modules' = [modules EXCEPT ![m] = None],
           initializing' \subseteq initializing, ended' = ended, partial' = partial
    PROVE  /\ DataType' /\ modules'[m] = None
           /\ \A x \in Names \ {m} : modules'[x] = modules[x]
<1>1. PICK ms : ms = modules'
  OBVIOUS
<1>2. /\ modules \in [Names -> Objects \cup {None}] /\ initializing \subseteq Objects
      /\ ended \subseteq Objects /\ partial \subseteq Objects
      /\ \A x \in Names : modules[x] # None => modules[x] \in {x} \X Copies
  BY TypeParts DEF DataType
<1>3. ms \in [Names -> Objects \cup {None}] /\ ms[m] = None /\ \A x \in Names \ {m} : ms[x] = modules[x]
  BY <1>1, <1>2
<1>4. \A x \in Names : ms[x] # None => ms[x] \in {x} \X Copies
  BY <1>2, <1>3
<1> QED
  BY <1>1, <1>2, <1>3, <1>4 DEF DataType

LEMMA ModuleGone ==
    ASSUME IInv, NEW m \in Locked, modules'[m] = None, ended' = ended,
           NEW t \in Threads, NEW p \in Nat, NEW new, NEW r, Moves(t, p, new, r),
           \A o \in {m} \X Copies : o \notin ended
    PROVE  ModuleInv(m)'
<1>1. Known(m)' /\ Latest(m)'
  BY DEF Known, Latest
<1>2. \A u \in Threads : Ready(u, m)'
  BY DEF Ready
<1> QED
  BY <1>1, <1>2 DEF ModuleInv
\* The caller of what failed, when the module has been taken out of sys.modules.
LEMMA CallerGone ==
    ASSUME NEW g, NEW q, NEW ms, NEW mt, NEW ini, NEW inj, NEW en,
           CallInv(g, FALSE, q, ms, ini, en), g.do \notin {"exec", "loaded", "find", "create"},
           g.name \notin Failing => mt[g.name] = ms[g.name]
    PROVE  CallInv(g, TRUE, Error, mt, inj, en)
  BY DEF CallInv, PhaseInv, SteadyInv

LEMMA LoadFailsKeeps ==
    ASSUME IInv, NEW t \in Threads, LoadFails(t)
    PROVE  IInv'
<1>1. /\ stack[t] # <<>> /\ Top(t).do = "loaded" /\ Failed(t) /\ Returns(t, Error)
      /\ initializing' = initializing /\ ended' = ended /\ partial' = partial
  BY DEF LoadFails, In, facts
<1>2. PICK n \in Nat \ {0} : n = Len(stack[t])
  BY <1>1, TopFacts DEF IInv
<1>3. PICK f \in FrameType : f = Top(t) /\ f = stack[t][n] /\ n \in 1..n
  BY <1>1, <1>2, TopFacts DEF IInv
<1>4. PICK m \in Names, o \in {f.obj} : m = f.name /\ o = f.obj
  BY <1>3 DEF FrameType
<1>5. FrameInv(f) /\ CallInv(f, TRUE, result[t], modules, initializing, ended) /\ f.do = "loaded"
  BY <1>1, <1>3, TopInv
<1>6. m \in Failing /\ (m \in Locked => o \notin ended)
  BY <1>1, <1>4, <1>5 DEF CallInv, PhaseInv, SteadyInv, Failed
<1>7. CASE m \notin Bytecode
  <2>1. UNCHANGED <<modules, facts>>
    BY <1>1, <1>3, <1>4, <1>7 DEF LoadFails, facts
  <2> QED
    BY <1>1, <1>3, <1>4, <1>6, <2>1, ErrorReturn
<1>8. CASE m \in Bytecode
  <2>1. modules' = [modules EXCEPT ![m] = None]
    BY <1>3, <1>4, <1>8 DEF LoadFails
  <2>2. DataType' /\ modules'[m] = None /\ \A x \in Names \ {m} : modules'[x] = modules[x]
    BY <1>1, <2>1, DataWithout DEF IInv
  <2>3. PICK new \in Seq(FrameType) : new = <<>>
    BY EmptySeq
  <2>4. Moves(t, n - 1, new, Error) /\ n - 1 \in Nat /\ n - 1 <= n /\ n - 1 # n
    <3>1. Error \in Results
      BY DEF Results
    <3> QED
      BY <1>1, <1>2, <2>3, <3>1, ReturnsMoves DEF IInv
  <2>5. Fits(t, n - 1, new)
    BY <2>3, <2>4, FitsNone
  <2>6. ASSUME NEW u \in Threads, NEW j \in 1..Len(stack[u]), m \in Locked,
               stack[u][j].name = m, stack[u][j].do \in {"exec", "find", "create"}
        PROVE  u = t /\ j = n - 1
    BY <1>2, <1>3, <1>4, <1>5, <2>6, StageUnique DEF Stages
  <2>7. Proceeds(t, n - 1, new, Error)
    <3>1. ASSUME n # 1
          PROVE  CallInv(stack[t][n - 1], TRUE, Error, modules', initializing', ended')
      <4>1. PICK g : g = stack[t][n - 1]
        OBVIOUS
      <4>2. n - 1 \in 1..n /\ n - 1 # n /\ Carries(g, f)
        <5>1. n - 1 \in 1..n /\ Carries(stack[t][n - 1], f)
          BY <1>2, <1>3, <3>1, CallParts
        <5> QED
          BY <4>1, <5>1
      <4>3. /\ CallInv(g, FALSE, result[t], modules, initializing, ended)
            /\ g.name \in Names
        BY <1>2, <4>1, <4>2, CallParts
      <4>4. g.do \notin {"loaded", "find", "create"} /\ (g.do = "exec" => SameRun(g, f))
        BY <1>5, <4>2 DEF Carries
      <4>5. CASE g.do # "exec"
        <5>1. g.name \notin Failing => modules'[g.name] = modules[g.name]
          BY <1>6, <2>2, <4>3
        <5>2. PICK mt, inj, en : mt = modules' /\ inj = initializing' /\ en = ended'
          OBVIOUS
        <5>3. CallInv(g, TRUE, Error, mt, inj, en)
          BY <1>1, <4>3, <4>4, <4>5, <5>1, <5>2, CallerGone
        <5> QED
          BY <4>1, <5>2, <5>3
      <4>6. CASE g.do = "exec"
        <5>1. g.name = m /\ (m \in Locked => g.obj = o)
          BY <1>4, <4>4, <4>6 DEF SameRun
        <5>2. PhaseInv(g, TRUE, Error, modules', initializing', ended')
          <6>1. m \in Locked => g.obj \in ended \cup initializing
            BY <4>3, <4>6, <5>1 DEF CallInv, PhaseInv
          <6> QED
            BY <1>1, <1>6, <2>2, <4>6, <5>1, <6>1, LoaderAssumption DEF PhaseInv
        <5>3. SteadyInv(g, TRUE, Error, modules')
          BY <1>6, <5>1 DEF SteadyInv
        <5> QED
          BY <4>1, <5>2, <5>3 DEF CallInv
      <4> QED
        BY <4>5, <4>6
    <3> QED
      BY <1>1, <1>2, <2>3, <3>1, ProceedsNone DEF IInv
  <2>8. NoEffect(t, n - 1, new)
    <3> SUFFICES ASSUME NEW u \in Threads, NEW j \in 1..Len(stack[u]), u = t => j < n - 1
                 PROVE  Unaffected(stack[u][j], FALSE) /\ Unaffected(stack[u][j], TRUE)
      BY <2>3 DEF NoEffect
    <3>1. PICK g : g = stack[u][j]
      OBVIOUS
    <3>2. g.name \in Names
      BY <3>1, CallParts
    <3>3. g.name \in Locked /\ g.do \in {"exec", "find", "create"} => modules'[g.name] = modules[g.name]
      <4>1. ~(g.name = m /\ m \in Locked /\ g.do \in {"exec", "find", "create"})
        BY <2>4, <2>6, <3>1
      <4> QED
        BY <2>2, <3>2, <4>1
    <3>4. g.name \notin Failing => modules'[g.name] = modules[g.name]
      BY <1>6, <2>2, <3>2
    <3>5. Unaffected(g, FALSE) /\ Unaffected(g, TRUE)
      BY <1>1, <3>3, <3>4 DEF Unaffected
    <3> QED
      BY <3>1, <3>5
  <2>9. LockInv' /\ \A u \in Threads : ThreadInv(u)'
    BY <1>2, <2>4, <2>5, <2>7, <2>8, StepKept
  <2>10. ASSUME NEW x \in Locked PROVE ModuleInv(x)'
    <3>1. CASE x # m
      <4>1. stack[t][Len(stack[t])].do # "exec" /\ modules'[x] = modules[x]
        BY <1>1, <2>2, <3>1 DEF Top, Locked
      <4>2. modules[x] # Error
        BY ModuleFacts DEF IInv, Locked
      <4> QED
        BY <1>1, <1>2, <2>4, <4>1, <4>2, ModuleKept
    <3>2. CASE x = m
      <4>1. modules[m] = o
        BY <1>2, <1>3, <1>4, <1>5, <3>2, StageHasLock DEF Stages
      <4>2. \A y \in {m} \X Copies : y \notin ended
        BY <1>6, <3>2, <4>1 DEF IInv, ModuleInv, Latest
      <4> QED
        BY <1>1, <2>2, <2>4, <3>2, <4>2, ModuleGone
    <3> QED
      BY <3>1, <3>2
  <2> QED
    BY <2>2, <2>4, <2>9, <2>10, Assembled
<1> QED
  BY <1>7, <1>8

LEMMA ExecFailsKeeps ==
    ASSUME IInv, NEW t \in Threads, ExecFails(t)
    PROVE  IInv'
<1>1. /\ stack[t] # <<>> /\ Top(t).do = "exec" /\ Failed(t) /\ Returns(t, Error)
      /\ initializing' = initializing \ {Top(t).obj} /\ ended' = ended /\ partial' = partial
  BY DEF ExecFails, In
<1>2. PICK n \in Nat \ {0} : n = Len(stack[t])
  BY <1>1, TopFacts DEF IInv
<1>3. PICK f \in FrameType : f = Top(t) /\ f = stack[t][n] /\ n \in 1..n
  BY <1>1, <1>2, TopFacts DEF IInv
<1>4. PICK m \in Names, o \in {f.obj} : m = f.name /\ o = f.obj
  BY <1>3 DEF FrameType
<1>5. FrameInv(f) /\ CallInv(f, TRUE, result[t], modules, initializing, ended) /\ f.do = "exec"
  BY <1>1, <1>3, TopInv
<1>6. /\ m \in Failing /\ o \in {m} \X Copies
      /\ m \in Locked => o \notin ended /\ modules[m] \in {o, None}
  BY <1>1, <1>4, <1>5 DEF CallInv, PhaseInv, SteadyInv, Failed, FrameInv
<1>7. modules' = [modules EXCEPT ![m] = None]
  BY <1>3, <1>4 DEF ExecFails
<1>8. DataType' /\ modules'[m] = None /\ \A x \in Names \ {m} : modules'[x] = modules[x]
  <2>1. initializing' \subseteq initializing
    BY <1>1
  <2> QED
    BY <1>1, <1>7, <2>1, DataWithout DEF IInv
<1>9. PICK new \in Seq(FrameType) : new = <<>>
  BY EmptySeq
<1>10. Moves(t, n - 1, new, Error) /\ n - 1 \in Nat /\ n - 1 <= n /\ n - 1 # n
  <2>1. Error \in Results
    BY DEF Results
  <2> QED
    BY <1>1, <1>2, <1>9, <2>1, ReturnsMoves DEF IInv
<1>11. Fits(t, n - 1, new)
  BY <1>9, <1>10, FitsNone
<1>12. ASSUME NEW u \in Threads, NEW j \in 1..Len(stack[u]), m \in Locked,
              stack[u][j].name = m, stack[u][j].do \in {"exec", "find", "create"}
       PROVE  u = t /\ j = n
  BY <1>2, <1>3, <1>4, <1>5, <1>12, OneHolder
<1>13. Proceeds(t, n - 1, new, Error)
  <2>1. ASSUME n # 1
        PROVE  CallInv(stack[t][n - 1], TRUE, Error, modules', initializing', ended')
    <3>1. PICK g : g = stack[t][n - 1]
      OBVIOUS
    <3>2. n - 1 \in 1..n /\ n - 1 # n /\ Carries(g, f)
      <4>1. n - 1 \in 1..n /\ Carries(stack[t][n - 1], f)
        BY <1>2, <1>3, <2>1, CallParts
      <4> QED
        BY <3>1, <4>1
    <3>3. /\ CallInv(g, FALSE, result[t], modules, initializing, ended)
          /\ g.name \in Names
      BY <1>2, <3>1, <3>2, CallParts
    <3>4. g.do \notin {"exec", "loaded", "find", "create"}
      BY <1>5, <3>2 DEF Carries, Stages
    <3>5. g.name \notin Failing => modules'[g.name] = modules[g.name]
      BY <1>6, <1>8, <3>3
    <3>6. PICK mt, inj, en : mt = modules' /\ inj = initializing' /\ en = ended'
      OBVIOUS
    <3>7. CallInv(g, TRUE, Error, mt, inj, en)
      BY <1>1, <3>3, <3>4, <3>5, <3>6, CallerGone
    <3> QED
      BY <3>1, <3>6, <3>7
  <2> QED
    BY <1>1, <1>2, <1>9, <2>1, ProceedsNone DEF IInv
<1>14. NoEffect(t, n - 1, new)
  <2> SUFFICES ASSUME NEW u \in Threads, NEW j \in 1..Len(stack[u]), u = t => j < n - 1
               PROVE  Unaffected(stack[u][j], FALSE) /\ Unaffected(stack[u][j], TRUE)
    BY <1>9 DEF NoEffect
  <2>1. PICK g : g = stack[u][j]
    OBVIOUS
  <2>2. g.name \in Names /\ FrameInv(g)
    BY <2>1, CallParts
  <2>3. ~(g.name = m /\ m \in Locked /\ g.do \in {"exec", "find", "create"})
    <3>1. j # n \/ u # t
      OBVIOUS
    <3> QED
      BY <1>12, <2>1, <3>1
  <2>4. g.name \in Locked /\ g.do \in {"exec", "find", "create"} => modules'[g.name] = modules[g.name]
    BY <1>8, <2>2, <2>3
  <2>5. g.name \notin Failing => modules'[g.name] = modules[g.name]
    BY <1>6, <1>8, <2>2
  <2>6. g.name \in Locked /\ g.do = "exec" => g.obj # o
    BY <1>6, <2>2, <2>3, OtherObject
  <2>7. Unaffected(g, FALSE) /\ Unaffected(g, TRUE)
    BY <1>1, <1>3, <1>4, <2>4, <2>5, <2>6 DEF Unaffected
  <2> QED
    BY <2>1, <2>7
<1>15. LockInv' /\ \A u \in Threads : ThreadInv(u)'
  BY <1>2, <1>10, <1>11, <1>13, <1>14, StepKept
<1>16. ASSUME NEW x \in Locked PROVE ModuleInv(x)'
  <2>1. CASE x # m
    <3>1. modules'[x] = modules[x]
      BY <1>8, <2>1 DEF Locked
    <3>2. modules[x] # Error /\ modules[x] # o
      BY <1>6, <2>1, ModuleFacts DEF IInv, Locked
    <3>3. stack[t][Len(stack[t])].obj # modules[x]
      BY <1>2, <1>3, <1>4, <3>2
    <3> QED
      BY <1>1, <1>2, <1>10, <3>1, <3>2, <3>3, ModuleKept
  <2>2. CASE x = m
    <3>1. \A y \in {m} \X Copies : y \notin ended
      <4>1. ASSUME NEW y \in {m} \X Copies, y \in ended PROVE FALSE
        <5>1. modules[m] = y
          BY <2>2, <4>1 DEF IInv, ModuleInv, Latest
        <5>2. y # None
          <6>1. y \in Objects
            BY DEF Objects
          <6> QED
            BY <6>1, LoaderAssumption
        <5> QED
          BY <1>6, <2>2, <4>1, <5>1, <5>2
      <4> QED
        BY <4>1
    <3> QED
      BY <1>1, <1>8, <1>10, <2>2, <3>1, ModuleGone
  <2> QED
    BY <2>1, <2>2
<1> QED
  BY <1>8, <1>10, <1>15, <1>16, Assembled
\* The end of an execution: only the mark in the __spec__ goes.
LEMMA UnmarkedKept ==
    ASSUME IInv, modules' = modules, ended' = ended, NEW o,
           initializing \ {o} \subseteq initializing',
           NEW m \in Names, o \in {m} \X Copies, m \in Locked => o \in ended,
           NEW u \in Threads, NEW j \in 1..Len(stack[u])
    PROVE  Unaffected(stack[u][j], FALSE) /\ Unaffected(stack[u][j], TRUE)
<1>1. PICK g : g = stack[u][j]
  OBVIOUS
<1>2. FrameInv(g)
  BY <1>1, CallParts
<1>3. ASSUME g.name \in Locked, g.do = "exec", g.obj = o PROVE g.obj \in ended
  <2>1. g.name = m
    BY <1>2, <1>3, OtherObject
  <2> QED
    BY <1>3, <2>1
<1>4. Unaffected(g, FALSE) /\ Unaffected(g, TRUE)
  BY <1>3 DEF Unaffected
<1> QED
  BY <1>1, <1>4

LEMMA LoadEndsKeeps ==
    ASSUME IInv, NEW t \in Threads, LoadEnds(t)
    PROVE  IInv'
<1>1. /\ stack[t] # <<>> /\ Top(t).do = "loaded" /\ ~Failed(t)
      /\ modules' = modules /\ ended' = ended /\ partial' = partial
  BY DEF LoadEnds, In
<1>2. PICK n \in Nat \ {0} : n = Len(stack[t])
  BY <1>1, TopFacts DEF IInv
<1>3. PICK f \in FrameType : f = Top(t) /\ f = stack[t][n] /\ n \in 1..n
  BY <1>1, <1>2, TopFacts DEF IInv
<1>4. PICK m \in Names, o \in {f.obj} : m = f.name /\ o = f.obj
  BY <1>3 DEF FrameType
<1>5. FrameInv(f) /\ CallInv(f, TRUE, result[t], modules, initializing, ended) /\ f.do = "loaded"
  BY <1>1, <1>3, TopInv
<1>6. /\ o \in {m} \X Copies /\ (m \in Locked => o \in ended /\ modules[m] = o)
      /\ m \notin Failing => modules[m] # None
  <2>1. o \in {m} \X Copies
    BY <1>4, <1>5 DEF FrameInv, Stages
  <2>2. m \in Locked => o \in ended
    BY <1>1, <1>4, <1>5 DEF CallInv, PhaseInv, Failed
  <2>3. m \notin Failing => modules[m] # None
    BY <1>4, <1>5 DEF CallInv, SteadyInv
  <2>4. m \in Locked => modules[m] = o
    BY <1>2, <1>3, <1>4, <1>5, StageHasLock DEF Stages
  <2> QED
    BY <2>1, <2>2, <2>3, <2>4
<1>7. initializing' \subseteq initializing /\ initializing \ {o} \subseteq initializing'
  BY <1>3, <1>4 DEF LoadEnds
<1>8. DataType'
  BY <1>1, <1>7, TypeParts DEF IInv, DataType
<1>9. \A u \in Threads : \A j \in 1..Len(stack[u]) :
          Unaffected(stack[u][j], FALSE) /\ Unaffected(stack[u][j], TRUE)
  BY <1>1, <1>6, <1>7, UnmarkedKept
<1>10. \A new : NoEffect(t, n - 1, new)
  BY <1>9 DEF NoEffect
<1>11. n - 1 \in Nat /\ n - 1 <= n /\ n - 1 # n
  OBVIOUS
<1>12. ASSUME NEW x \in Locked, NEW new \in Seq(FrameType), NEW r \in {None, Error},
              Moves(t, n - 1, new, r)
       PROVE  ModuleInv(x)'
  <2>1. stack[t][Len(stack[t])].do # "exec"
    BY <1>1 DEF Top
  <2>2. modules[x] # Error
    BY ModuleFacts DEF IInv, Locked
  <2> QED
    BY <1>1, <1>2, <1>11, <1>12, <2>1, <2>2, ModuleKept
<1>13. CASE modules[m] = None
  <2>1. PICK r \in {None, Error} : Returns(t, r)
    BY <1>3, <1>4, <1>13 DEF LoadEnds
  <2>2. m \notin Locked /\ m \in Failing
    <3>1. o # None
      <4>1. o \in Objects
        BY <1>6 DEF Objects
      <4> QED
        BY <4>1, LoaderAssumption
    <3> QED
      BY <1>6, <1>13, <3>1
  <2>3. PICK new \in Seq(FrameType) : new = <<>>
    BY EmptySeq
  <2>4. Moves(t, n - 1, new, r)
    <3>1. r \in Results
      BY DEF Results
    <3> QED
      BY <1>1, <1>2, <2>1, <2>3, <3>1, ReturnsMoves DEF IInv
  <2>5. Fits(t, n - 1, new)
    BY <1>11, <2>3, FitsNone
  <2>6. Proceeds(t, n - 1, new, r)
    <3>1. ASSUME n # 1
          PROVE  CallInv(stack[t][n - 1], TRUE, r, modules', initializing', ended')
      <4>1. n - 1 \in 1..n
        BY <3>1
      <4>2. Unaffected(stack[t][Len(stack[t]) - 1], FALSE)
        BY <1>2, <1>9, <4>1
      <4>3. Len(stack[t]) # 1 /\ Top(t).do # "body"
        BY <1>1, <1>2, <3>1
      <4>4. CallInv(stack[t][Len(stack[t]) - 1], TRUE, r, modules', initializing', ended')
        BY <1>1, <1>3, <1>4, <2>2, <4>2, <4>3, PoppedKept
      <4> QED
        BY <1>2, <4>4
    <3> QED
      BY <1>1, <1>2, <2>3, <3>1, ProceedsNone DEF IInv
  <2>7. LockInv' /\ \A u \in Threads : ThreadInv(u)'
    BY <1>2, <1>10, <1>11, <2>4, <2>5, <2>6, StepKept
  <2> QED
    BY <1>8, <1>11, <1>12, <2>4, <2>7, Assembled
<1>14. CASE modules[m] # None
  <2>1. PICK a : a = Frame("post", m, modules[m])
    OBVIOUS
  <2>2. modules[m] \in Objects /\ modules[m] \in {m} \X Copies
    BY <1>14, ModuleFacts DEF IInv
  <2>3. a \in FrameType /\ a.do = "post" /\ a.name = m /\ a.obj = modules[m]
    <3>1. "post" \in InC \cup OfImportlib \cup {"body"} /\ modules[m] \in Objects \cup Names \cup {None}
      BY <2>2 DEF InC
    <3> QED
      BY <2>1, <3>1, FrameParts
  <2>4. PICK new \in Seq(FrameType) : new = <<a>>
    BY <2>3, OneOrTwo
  <2>5. new # <<>>
    BY <2>4
  <2>6. Moves(t, n - 1, new, None)
    <3>1. Becomes(t, <<Frame("post", m, modules[m])>>)
      BY <1>3, <1>4, <1>14 DEF LoadEnds
    <3>2. None \in Results /\ Goes(t, Below(t) \o new, None)
      BY <2>1, <2>4, <3>1 DEF Becomes, Results
    <3>3. TypeOK
      BY DEF IInv
    <3> QED
      BY <1>1, <1>2, <3>2, <3>3, BecomesMoves
  <2>7. Fits(t, n - 1, new)
    <3>1. FrameInv(a) /\ Follows(f, a)
      BY <1>4, <1>5, <1>6, <2>2, <2>3 DEF FrameInv, Stages, Follows, SameRun
    <3>2. Enters(f, a) /\ HasTurn(t, f, a)
      BY <2>3 DEF Enters, HasTurn, HasLock, Entry
    <3> QED
      BY <1>1, <1>2, <1>3, <2>3, <2>4, <3>1, <3>2, FitsOne
  <2>8. Proceeds(t, n - 1, new, None)
    <3>1. CallInv(a, TRUE, None, modules', initializing', ended')
      BY <1>1, <1>6, <1>14, <2>3 DEF CallInv, PhaseInv, SteadyInv
    <3>2. CallsInv(new, None, modules', initializing', ended')
      BY <2>4, <3>1, CallsOne
    <3> QED
      BY <1>1, <1>2, <2>5, <3>2, ProceedsNew DEF IInv
  <2>9. LockInv' /\ \A u \in Threads : ThreadInv(u)'
    BY <1>2, <1>10, <1>11, <2>6, <2>7, <2>8, StepKept
  <2> QED
    BY <1>8, <1>11, <1>12, <2>6, <2>9, Assembled
<1> QED
  BY <1>13, <1>14

LEMMA ExecEndsKeeps ==
    ASSUME IInv, NEW t \in Threads, ExecEnds(t)
    PROVE  IInv'
<1>1. /\ stack[t] # <<>> /\ Top(t).do = "exec" /\ ~Failed(t)
      /\ modules' = modules /\ ended' = ended /\ partial' = partial
      /\ initializing' = initializing \ {Top(t).obj}
  BY DEF ExecEnds, In
<1>2. PICK n \in Nat \ {0} : n = Len(stack[t])
  BY <1>1, TopFacts DEF IInv
<1>3. PICK f \in FrameType : f = Top(t) /\ f = stack[t][n] /\ n \in 1..n
  BY <1>1, <1>2, TopFacts DEF IInv
<1>4. PICK m \in Names, o \in {f.obj} : m = f.name /\ o = f.obj
  BY <1>3 DEF FrameType
<1>5. FrameInv(f) /\ CallInv(f, TRUE, result[t], modules, initializing, ended) /\ f.do = "exec"
  BY <1>1, <1>3, TopInv
<1>6. o \in {m} \X Copies /\ (m \in Locked => o \in ended /\ modules[m] = o)
  BY <1>1, <1>4, <1>5 DEF CallInv, PhaseInv, Failed, FrameInv
<1>7. PICK r \in Results : Returns(t, r) /\ r \in {Error, modules[m]}
  <2>1. modules[m] \in Results /\ Error \in Results
    BY ModuleFacts DEF IInv, Results
  <2>2. Returns(t, Error) \/ Returns(t, modules[m])
    <3>1. PICK lost \in BOOLEAN : Returns(t, IF lost THEN Error ELSE modules[m])
      BY <1>3, <1>4 DEF ExecEnds
    <3> QED
      BY <3>1
  <2> QED
    BY <2>1, <2>2
<1>8. initializing' \subseteq initializing /\ initializing \ {o} \subseteq initializing'
  BY <1>1, <1>3, <1>4
<1>9. DataType'
  BY <1>1, <1>8, TypeParts DEF IInv, DataType
<1>10. \A u \in Threads : \A j \in 1..Len(stack[u]) :
          Unaffected(stack[u][j], FALSE) /\ Unaffected(stack[u][j], TRUE)
  BY <1>1, <1>6, <1>8, UnmarkedKept
<1>11. \A new : NoEffect(t, n - 1, new)
  BY <1>10 DEF NoEffect
<1>12. n - 1 \in Nat /\ n - 1 <= n /\ n - 1 # n
  OBVIOUS
<1>13. PICK new \in Seq(FrameType) : new = <<>>
  BY EmptySeq
<1>14. Moves(t, n - 1, new, r)
  BY <1>1, <1>2, <1>7, <1>13, ReturnsMoves DEF IInv
<1>15. Fits(t, n - 1, new)
  BY <1>12, <1>13, FitsNone
<1>16. Proceeds(t, n - 1, new, r)
  <2>1. ASSUME n # 1
        PROVE  CallInv(stack[t][n - 1], TRUE, r, modules', initializing', ended')
    <3>1. n - 1 \in 1..n
      BY <2>1
    <3>2. Unaffected(stack[t][Len(stack[t]) - 1], FALSE)
      BY <1>2, <1>10, <3>1
    <3>3. Len(stack[t]) # 1 /\ Top(t).do \notin Stages \cup {"body"}
      BY <1>1, <1>2, <2>1 DEF Stages
    <3>4. CallInv(stack[t][Len(stack[t]) - 1], TRUE, r, modules', initializing', ended')
      BY <1>1, <3>2, <3>3, PoppedKept
    <3> QED
      BY <1>2, <3>4
  <2> QED
    BY <1>1, <1>2, <1>13, <2>1, ProceedsNone DEF IInv
<1>17. LockInv' /\ \A u \in Threads : ThreadInv(u)'
  BY <1>2, <1>11, <1>12, <1>14, <1>15, <1>16, StepKept
<1>18. ASSUME NEW x \in Locked PROVE ModuleInv(x)'
  <2>1. modules[x] = o => modules[x] \in ended
    <3>1. ASSUME modules[x] = o PROVE o \in ended
      <4>1. x = m
        BY <1>6, <3>1, ModuleFacts DEF IInv, Locked
      <4> QED
        BY <1>6, <4>1
    <3> QED
      BY <3>1
  <2>2. \/ ~(stack[t][Len(stack[t])].do = "exec" /\ stack[t][Len(stack[t])].obj = modules[x])
        \/ modules[x] \in ended'
    BY <1>1, <1>2, <1>3, <1>4, <2>1
  <2>3. r # None /\ r = modules[x] => r \in ended'
    <3>1. ASSUME r # None, r = modules[x] PROVE r \in ended
      <4>1. modules[x] # Error
        BY ModuleFacts DEF IInv, Locked
      <4>2. x = m
        BY <1>7, <3>1, <4>1, ModuleFacts DEF IInv, Locked
      <4> QED
        BY <1>6, <3>1, <4>2
    <3> QED
      BY <1>1, <3>1
  <2> QED
    BY <1>1, <1>2, <1>12, <1>14, <2>2, <2>3, ModuleKept
<1> QED
  BY <1>9, <1>12, <1>14, <1>17, <1>18, Assembled
LEMMA CreateKeeps ==
    ASSUME IInv, Endless, NEW t \in Threads, Create(t)
    PROVE  IInv'
<1>1. stack[t] # <<>> /\ Top(t).do = "create"
  BY DEF Create, In
<1>2. PICK n \in Nat \ {0} : n = Len(stack[t])
  BY <1>1, TopFacts DEF IInv
<1>3. PICK f \in FrameType : f = Top(t) /\ f = stack[t][n] /\ n \in 1..n
  BY <1>1, <1>2, TopFacts DEF IInv
<1>4. PICK m \in Names, o \in {New(f.name)} : m = f.name
  BY <1>3 DEF FrameType
<1>5. /\ o \in {m} \X Copies /\ o \in Objects /\ o # None
      /\ \A x \in Names : modules[x] # o
      /\ \A u \in Threads : result[u] # o
      /\ \A u \in Threads : \A j \in 1..Len(stack[u]) : stack[u][j].obj # o
  BY <1>4, NewObject
<1>6. /\ modules' = [modules EXCEPT ![m] = o] /\ initializing' = initializing \cup {o}
      /\ ended' = ended \ {o} /\ partial' = partial \ {o}
      /\ Becomes(t, <<Frame("exec", m, o), Frame("execute", m, o)>>)
  BY <1>3, <1>4 DEF Create
<1>7. CallInv(f, TRUE, result[t], modules, initializing, ended) /\ f.do = "create"
  BY <1>1, <1>3, TopInv
<1>8. m \in Locked => modules[m] = None
  BY <1>4, <1>7 DEF CallInv, PhaseInv
<1>9. modules'[m] = o /\ \A x \in Names \ {m} : modules'[x] = modules[x]
  BY <1>6, TypeParts DEF IInv, DataType
<1>10. DataType'
  <2>1. PICK ms : ms = modules'
    OBVIOUS
  <2>2. /\ modules \in [Names -> Objects \cup {None}] /\ initializing \subseteq Objects
        /\ ended \subseteq Objects /\ partial \subseteq Objects
        /\ \A x \in Names : modules[x] # None => modules[x] \in {x} \X Copies
    BY TypeParts DEF IInv, DataType
  <2>3. ms \in [Names -> Objects \cup {None}]
    BY <1>5, <1>6, <2>1, <2>2
  <2>4. \A x \in Names : ms[x] # None => ms[x] \in {x} \X Copies
    BY <1>5, <1>9, <2>1, <2>2
  <2>5. initializing' \subseteq Objects /\ ended' \subseteq Objects /\ partial' \subseteq Objects
    BY <1>5, <1>6, <2>2
  <2> QED
    BY <2>1, <2>3, <2>4, <2>5 DEF DataType
<1>11. PICK a, b : a = Frame("exec", m, o) /\ b = Frame("execute", m, o)
  OBVIOUS
<1>12. /\ a \in FrameType /\ a.do = "exec" /\ a.name = m /\ a.obj = o
       /\ b \in FrameType /\ b.do = "execute" /\ b.name = m /\ b.obj = o
  <2>1. "exec" \in InC \cup OfImportlib \cup {"body"} /\ o \in Objects \cup Names \cup {None}
    BY <1>5 DEF OfImportlib, HasLock
  <2>2. "execute" \in InC \cup OfImportlib \cup {"body"}
    BY DEF InC
  <2>3. a \in FrameType /\ a.do = "exec" /\ a.name = m /\ a.obj = o
    BY <1>11, <2>1, FrameParts
  <2> QED
    BY <1>11, <2>1, <2>2, <2>3, FrameParts
<1>13. PICK new \in Seq(FrameType) : new = <<a, b>>
  BY <1>12, OneOrTwo
<1>14. new # <<>> /\ Len(new) = 2 /\ new[1] = a
  BY <1>13
<1>15. Moves(t, n - 1, new, None)
  <2>1. None \in Results /\ Goes(t, Below(t) \o new, None)
    BY <1>6, <1>11, <1>13 DEF Becomes, Results
  <2>2. TypeOK
    BY DEF IInv
  <2> QED
    BY <1>1, <1>2, <2>1, <2>2, BecomesMoves
<1>16. Fits(t, n - 1, new)
  <2>1. FrameInv(a) /\ FrameInv(b)
    BY <1>5, <1>12 DEF FrameInv, Stages
  <2>2. Follows(f, a)
    BY <1>7, <1>12 DEF Follows, Stages
  <2>3. Enters(f, a) /\ HasTurn(t, f, a) /\ Enters(f, b) /\ b.do \notin HasLock
    BY <1>4, <1>7, <1>12 DEF Enters, HasTurn, HasLock, Entry
  <2>4. Carries(a, b) /\ Nests(a, b)
    BY <1>12 DEF Carries, Nests, Stages, SameRun, HasLock
  <2> QED
    BY <1>1, <1>2, <1>3, <1>12, <1>13, <2>1, <2>2, <2>3, <2>4, FitsTwo
<1>17. Proceeds(t, n - 1, new, None)
  <2>1. o \in initializing' /\ o \notin ended'
    BY <1>6
  <2>2. CallInv(a, FALSE, None, modules', initializing', ended')
    BY <1>9, <1>12, <2>1 DEF CallInv, PhaseInv, SteadyInv
  <2>3. CallInv(b, TRUE, None, modules', initializing', ended')
    BY <1>12, <2>1 DEF CallInv, PhaseInv, SteadyInv
  <2>4. CallsInv(new, None, modules', initializing', ended')
    BY <1>13, <2>2, <2>3, CallsTwo
  <2> QED
    BY <1>1, <1>2, <1>14, <2>4, ProceedsNew DEF IInv
<1>18. ASSUME NEW u \in Threads, NEW j \in 1..Len(stack[u]), u = t => j < n, m \in Locked,
              stack[u][j].name = m
       PROVE  stack[u][j].do \notin {"exec", "find", "create"}
  <2>1. CASE u # t
    <3>1. Excludes(stack[u][j], stack[t][n])
      BY <1>2, <1>3, <2>1 DEF IInv, LockInv
    <3> QED
      BY <1>3, <1>4, <1>7, <1>18, <3>1 DEF Excludes, HasLock
  <2>2. CASE u = t
    <3>1. j < n /\ j # Len(stack[u])
      BY <1>2, <1>18, <2>2
    <3>2. stack[u][j].do \notin {"find", "create"}
      BY <3>1, CallParts
    <3>3. stack[u][j].do # "exec"
      <4> SUFFICES ASSUME stack[u][j].do = "exec" PROVE FALSE
        OBVIOUS
      <4>1. stack[t][n].do \in HasLock /\ stack[t][n].name = stack[u][j].name
            /\ stack[u][j].name \in Locked
        BY <1>3, <1>4, <1>7, <1>18 DEF HasLock
      <4>2. n <= j
        BY <1>2, <1>3, <2>2, <4>1, LockNests
      <4> QED
        BY <3>1, <4>2
    <3> QED
      BY <3>2, <3>3
  <2> QED
    BY <2>1, <2>2
<1>19. NoEffect(t, n - 1, new)
  <2> SUFFICES ASSUME NEW u \in Threads, NEW j \in 1..Len(stack[u]),
                      u = t => j < n - 1 \/ (j = n - 1 /\ new # <<>>)
               PROVE  Unaffected(stack[u][j], FALSE) /\ Unaffected(stack[u][j], TRUE)
    BY DEF NoEffect
  <2>0. u = t => j < n
    OBVIOUS
  <2>1. PICK g : g = stack[u][j]
    OBVIOUS
  <2>2. g.name \in Names /\ g.obj # o
    BY <1>5, <2>1, CallParts
  <2>3. g.name \in Locked /\ g.do \in {"exec", "find", "create"} => modules'[g.name] = modules[g.name]
    <3>1. ~(g.name = m /\ m \in Locked /\ g.do \in {"exec", "find", "create"})
      BY <1>18, <2>0, <2>1
    <3> QED
      BY <1>9, <2>2, <3>1
  <2>4. modules[g.name] # None => modules'[g.name] # None
    BY <1>5, <1>9, <2>2
  <2>5. Unaffected(g, FALSE) /\ Unaffected(g, TRUE)
    BY <1>6, <2>2, <2>3, <2>4 DEF Unaffected
  <2> QED
    BY <2>1, <2>5
<1>20. n - 1 \in Nat /\ n - 1 <= n
  OBVIOUS
<1>21. LockInv' /\ \A u \in Threads : ThreadInv(u)'
  BY <1>2, <1>14, <1>15, <1>16, <1>17, <1>19, <1>20, StepKept
<1>22. ASSUME NEW x \in Locked PROVE ModuleInv(x)'
  <2>1. CASE x # m
    <3>1. stack[t][Len(stack[t])].do # "exec"
      BY <1>1 DEF Top
    <3>2. modules'[x] = modules[x] /\ modules[x] # o
      BY <1>5, <1>9, <2>1 DEF Locked
    <3>3. /\ \A y \in {x} \X Copies : y \in ended' => y \in ended \/ y = modules[x]
          /\ modules[x] \in ended => modules[x] \in ended'
          /\ modules[x] \in partial => modules[x] \in partial'
      BY <1>6, <3>2
    <3> QED
      BY <1>2, <1>15, <1>20, <3>1, <3>2, <3>3, ModuleKept
  <2>2. CASE x = m
    <3>1. Executing(stack'[t], o)
      <4>1. Len(stack'[t]) = (n - 1) + 2 /\ stack'[t][(n - 1) + 1] = a
        <5>1. 1 \in 1..Len(new)
          BY <1>14
        <5> QED
          BY <1>14, <1>15, <5>1 DEF Moves
      <4>2. (n - 1) + 1 \in 1..((n - 1) + 2)
        OBVIOUS
      <4> QED
        BY <1>12, <4>1, <4>2 DEF Executing
    <3>2. Known(m)'
      BY <1>9, <3>1 DEF Known
    <3>3. Latest(m)'
      <4>1. \A y \in {m} \X Copies : y # None
        <5>1. \A y \in {m} \X Copies : y \in Objects
          BY DEF Objects
        <5> QED
          BY <5>1, LoaderAssumption
      <4>2. \A y \in {m} \X Copies : y \notin ended
        BY <1>8, <2>2, <4>1 DEF IInv, ModuleInv, Latest
      <4> QED
        BY <1>6, <4>2 DEF Latest
    <3>4. \A u \in Threads : Ready(u, m)'
      <4>1. ASSUME NEW u \in Threads, result'[u] # None PROVE result'[u] # o
        <5>1. u # t
          BY <1>15, <4>1 DEF Moves
        <5> QED
          BY <1>5, <1>15, <5>1 DEF Moves
      <4> QED
        BY <1>9, <4>1 DEF Ready
    <3> QED
      BY <2>2, <3>2, <3>3, <3>4 DEF ModuleInv
  <2> QED
    BY <2>1, <2>2
<1> QED
  BY <1>10, <1>15, <1>20, <1>21, <1>22, Assembled

-----------------------------------------------------------------------------
(***************************************************************************)
(* The theorems.                                                           *)
(***************************************************************************)
LEMMA InitInv == Init => IInv
<1> SUFFICES ASSUME Init PROVE IInv
  OBVIOUS
<1>1. \A t \in Threads : stack[t] = <<>> /\ Len(stack[t]) = 0 /\ result[t] = None
  BY EmptySeq DEF Init
<1>2. TypeOK
  <2>1. <<>> \in Seq(FrameType)
    BY EmptySeq
  <2>2. stack \in [Threads -> Seq(FrameType)] /\ result \in [Threads -> Results]
    BY <2>1 DEF Init, Results
  <2>3. DataType
    BY DEF Init, DataType
  <2> QED
    BY <2>2, <2>3, TypeParts
<1>3. ~(\E i \in 1..0 : TRUE) /\ ~(\E i \in 1..(0 - 1) : TRUE)
  OBVIOUS
<1>4. \A t \in Threads : ThreadInv(t)
  BY <1>1, <1>3 DEF ThreadInv, StackInv, NestInv, CallsInv
<1>5. LockInv
  BY <1>1, <1>3 DEF LockInv
<1>6. \A m \in Locked : ModuleInv(m)
  BY <1>1 DEF Init, ModuleInv, Known, Latest, Ready, Locked
<1> QED
  BY <1>2, <1>4, <1>5, <1>6 DEF IInv

LEMMA NextInv ==
    ASSUME Endless, IInv, [Next]_vars
    PROVE  IInv'
<1>1. CASE UNCHANGED vars
  <2>1. /\ modules' = modules /\ initializing' = initializing /\ ended' = ended
        /\ partial' = partial /\ stack' = stack /\ result' = result
    BY <1>1 DEF vars, facts
  <2>2. TypeOK'
    BY <2>1 DEF IInv, TypeOK
  <2>3. LockInv' /\ \A t \in Threads : ThreadInv(t)'
    BY <2>1 DEF IInv, LockInv, ThreadInv
  <2>4. \A m \in Locked : ModuleInv(m)'
    BY <2>1 DEF IInv, ModuleInv, Known, Latest, Ready
  <2> QED
    BY <2>2, <2>3, <2>4 DEF IInv, Locked
<1>2. ASSUME NEW t \in Threads, Code(t) PROVE IInv'
  BY <1>2, QuietKeeps, BodyEndsKeeps DEF Code, Quiet
<1>3. ASSUME NEW t \in Threads, Loader(t) PROVE IInv'
  <2>1. \/ Quiet(t) \/ ImportEmbedded(t) \/ Load(t) \/ LoadFails(t) \/ LoadEnds(t)
    BY <1>3 DEF Loader, Quiet
  <2> QED
    BY <2>1, QuietKeeps, ImportEmbeddedKeeps, LoadKeeps, LoadFailsKeeps, LoadEndsKeeps
<1>4. ASSUME NEW t \in Threads, Importlib(t) PROVE IInv'
  <2>1. \/ Quiet(t) \/ Create(t) \/ ExecFails(t) \/ ExecEnds(t)
    BY <1>4 DEF Importlib, Quiet
  <2> QED
    BY <2>1, QuietKeeps, CreateKeeps, ExecFailsKeeps, ExecEndsKeeps
<1> QED
  BY <1>1, <1>2, <1>3, <1>4 DEF Next

\* All that is said above of the calls and of the modules is always true: in
\* particular what importlib executes is executed under its lock, by one thread,
\* once, and the object of it is the one in sys.modules.
THEOREM IInvHolds == Endless => (Spec => []IInv)
<1> SUFFICES ASSUME Endless PROVE Spec => []IInv
  OBVIOUS
<1>1. Init => IInv
  BY InitInv
<1>2. IInv /\ [Next]_vars => IInv'
  BY NextInv
<1> QED
  BY <1>1, <1>2, PTL DEF Spec

\* The state has its type: what is in sys.modules under a name is an object of that
\* name, and there is always a new object for a module that is to be made.
THEOREM TypeCorrect == Endless => (Spec => []TypeOK)
<1>1. IInv => TypeOK
  BY DEF IInv
<1> QED
  BY <1>1, IInvHolds, PTL

\* An import through importlib gives a module that has run to its end, or one that
\* the importing code is itself part of, or one importlib gave to end a deadlock.
THEOREM ImportsFinishedHolds == Endless => (Spec => []ImportsFinished)
<1>1. IInv => ImportsFinished
  <2> SUFFICES ASSUME IInv, NEW t \in Threads, NEW m \in Names \ Embedded, AtCode(t),
                      result[t] \in Objects, modules[m] = result[t]
               PROVE  result[t] \in ended \cup partial \/ Executes(t, result[t])
    BY DEF ImportsFinished
  <2>1. m \in Locked /\ result[t] # None
    BY LoaderAssumption DEF Locked
  <2>2. result[t] \in ended \cup partial \/ Executing(stack[t], result[t])
    BY <2>1 DEF IInv, ModuleInv, Ready
  <2>3. Executing(stack[t], result[t]) => Executes(t, result[t])
    <3> SUFFICES ASSUME Executing(stack[t], result[t]) PROVE Executes(t, result[t])
      OBVIOUS
    <3>1. PICK i \in 1..Len(stack[t]) : stack[t][i].do = "exec" /\ stack[t][i].obj = result[t]
      BY DEF Executing
    <3>2. stack[t][i] \in Frames(t)
      BY LengthOf, LenProperties DEF IInv, Frames
    <3> QED
      BY <3>1, <3>2 DEF Executes
  <2> QED
    BY <2>2, <2>3
<1> QED
  BY <1>1, IInvHolds, PTL

\* The code of a module that only importlib imports is executed once, and no thread
\* executes a module inside of itself, unless it is one of fixed imports that may raise.
THEOREM OneExecutionHolds == Endless => (Spec => []OneExecution)
<1>1. ASSUME IInv, NEW t \in Threads, NEW i \in DOMAIN stack[t], stack[t][i].do = "body"
      PROVE  /\ i \in 1..Len(stack[t]) /\ i # 1 /\ i - 1 \in 1..Len(stack[t])
             /\ stack[t][i - 1].do \in Stages /\ stack[t][i - 1].name = stack[t][i].name
             /\ stack[t][i].obj \in {stack[t][i].name} \X Copies
             /\ stack[t][i].name \in Locked => modules[stack[t][i].name] = stack[t][i].obj
  <2>1. i \in 1..Len(stack[t])
    BY <1>1, LengthOf, LenProperties DEF IInv
  <2>2. i # 1
    BY <1>1, <2>1, CallParts DEF StartsStack
  <2>3. i - 1 \in 1..Len(stack[t]) /\ Carries(stack[t][i - 1], stack[t][i])
    BY <1>1, <2>1, <2>2, CallParts
  <2>4. /\ stack[t][i - 1].do \in Stages /\ stack[t][i - 1].name = stack[t][i].name
        /\ stack[t][i].name \in Locked => stack[t][i - 1].obj = stack[t][i].obj
    BY <1>1, <2>3 DEF Carries, SameRun, Stages
  <2>5. stack[t][i].obj \in {stack[t][i].name} \X Copies
    <3>1. FrameInv(stack[t][i])
      BY <1>1, <2>1, CallParts
    <3> QED
      BY <1>1, <3>1 DEF FrameInv
  <2>6. stack[t][i].name \in Locked => modules[stack[t][i].name] = stack[t][i].obj
    <3> SUFFICES ASSUME stack[t][i].name \in Locked
                 PROVE  modules[stack[t][i].name] = stack[t][i].obj
      OBVIOUS
    <3>1. PICK k \in 1..Len(stack[t]) : k = i - 1
      BY <2>3
    <3> QED
      BY <1>1, <2>4, <3>1, StageHasLock
  <2> QED
    BY <2>1, <2>2, <2>3, <2>4, <2>5, <2>6
<1>2. ASSUME IInv, NEW m \in Names \ Embedded
      PROVE  Cardinality({o \in {m} \X Copies : o \in ended \/ \E t \in Threads : Runs(t, o)}) <= 1
  <2>1. m \in Locked
    BY DEF Locked
  <2>2. ASSUME NEW o \in {m} \X Copies, NEW t \in Threads, Runs(t, o) PROVE o = modules[m]
    <3>1. PICK i \in DOMAIN stack[t] : stack[t][i].do = "body" /\ stack[t][i].obj = o
      BY <2>2 DEF Runs, Frames
    <3>2. stack[t][i].name = m
      BY <1>1, <1>2, <3>1
    <3> QED
      BY <1>1, <1>2, <2>1, <3>1, <3>2
  <2>3. PICK S : S = {o \in {m} \X Copies : o \in ended \/ \E t \in Threads : Runs(t, o)}
    OBVIOUS
  <2>4. S \in SUBSET {modules[m]}
    BY <1>2, <2>1, <2>2, <2>3 DEF IInv, ModuleInv, Latest
  <2>5. Cardinality(S) <= 1
    <3>1. IsFiniteSet({modules[m]}) /\ Cardinality({modules[m]}) = 1
      BY FS_Singleton
    <3> QED
      BY <2>4, <3>1, FS_Subset
  <2> QED
    BY <2>3, <2>5
<1>3. ASSUME IInv, NEW t \in Threads, NEW i \in DOMAIN stack[t], NEW j \in DOMAIN stack[t],
             stack[t][i].do = "body", stack[t][j].do = "body",
             stack[t][i].name = stack[t][j].name, stack[t][i].name \notin Embedded \cap Failing
      PROVE  i = j
  <2>1. /\ i \in 1..Len(stack[t]) /\ i - 1 \in 1..Len(stack[t])
        /\ stack[t][i - 1].do \in Stages /\ stack[t][i - 1].name = stack[t][i].name
    BY <1>1, <1>3
  <2>2. /\ j \in 1..Len(stack[t]) /\ j - 1 \in 1..Len(stack[t])
        /\ stack[t][j - 1].do \in Stages /\ stack[t][j - 1].name = stack[t][j].name
    BY <1>1, <1>3
  <2>3. CASE stack[t][i].name \notin Failing
    <3>1. PICK s : s = stack[t]
      OBVIOUS
    <3>2. NestInv(s)
      BY <1>3, <3>1 DEF IInv, ThreadInv
    <3>3. ~(i < j) /\ ~(j < i)
      BY <1>3, <2>1, <2>2, <2>3, <3>1, <3>2 DEF NestInv, Nests, Entry
    <3>4. i \in Int /\ j \in Int
      BY <2>1, <2>2
    <3> QED
      BY <3>3, <3>4
  <2>4. CASE stack[t][i].name \in Locked
    <3>1. PICK k \in 1..Len(stack[t]), l \in 1..Len(stack[t]) : k = i - 1 /\ l = j - 1
      BY <2>1, <2>2
    <3>2. k = l
      BY <1>3, <2>1, <2>2, <2>4, <3>1, StageUnique
    <3>3. i \in Int /\ j \in Int
      BY <2>1, <2>2
    <3> QED
      BY <3>1, <3>2, <3>3
  <2>5. stack[t][i].name \in Names
    BY <1>3, <2>1, CallParts
  <2> QED
    BY <1>3, <2>3, <2>4, <2>5 DEF Locked
<1>4. IInv => OneExecution
  BY <1>2, <1>3 DEF OneExecution
<1> QED
  BY <1>4, IInvHolds, PTL

\* A module that only importlib imports, and that is in sys.modules, has been executed
\* to its end or a thread is executing it: one that raised is gone.
THEOREM FailedIsGoneHolds == Endless => (Spec => []FailedIsGone)
<1>1. IInv => FailedIsGone
  <2> SUFFICES ASSUME IInv, NEW m \in Names \ Embedded, modules[m] # None, modules[m] \notin ended
               PROVE  \E t \in Threads : Executes(t, modules[m])
    BY DEF FailedIsGone
  <2>1. PICK t \in Threads : Executing(stack[t], modules[m])
    BY DEF IInv, ModuleInv, Known, Locked
  <2>2. PICK i \in 1..Len(stack[t]) : stack[t][i].do = "exec" /\ stack[t][i].obj = modules[m]
    BY <2>1 DEF Executing
  <2>3. stack[t][i] \in Frames(t)
    BY LengthOf, LenProperties DEF IInv, Frames
  <2> QED
    BY <2>2, <2>3 DEF Executes
<1> QED
  BY <1>1, IInvHolds, PTL

-----------------------------------------------------------------------------
(***************************************************************************)
(* The loader implements Importing.  What a step does to the locks, to who *)
(* waits for them, and to what threads were given.                         *)
(***************************************************************************)
Asking == {"acquire", "ensure"}

HoldsIn(s, m) == \E i \in 1..Len(s) : s[i].do \in HasLock /\ s[i].name = m

WaitsIn(s) == IF s # <<>> /\ s[Len(s)].do \in Asking THEN s[Len(s)].name ELSE None

LEMMA HoldsInFrames ==
    ASSUME NEW s \in Seq(FrameType), NEW m
    PROVE  (\E f \in {s[i] : i \in DOMAIN s} : f.do \in HasLock /\ f.name = m) <=> HoldsIn(s, m)
<1>1. DOMAIN s = 1..Len(s)
  BY LenProperties
<1> QED
  BY <1>1 DEF HoldsIn

LEMMA HoldersAre ==
    ASSUME stack \in [Threads -> Seq(FrameType)]
    PROVE  /\ Holders = [m \in Names |-> {u \in Threads : HoldsIn(stack[u], m)}]
           /\ Waits = [u \in Threads |-> WaitsIn(stack[u])]
<1>1. ASSUME NEW u \in Threads, NEW m PROVE Holds(u, m) <=> HoldsIn(stack[u], m)
  BY HoldsInFrames DEF Holds, Frames
<1>2. Holders = [m \in Names |-> {u \in Threads : HoldsIn(stack[u], m)}]
  BY <1>1 DEF Holders, Holder
<1>3. Waits = [u \in Threads |-> WaitsIn(stack[u])]
  BY DEF Waits, WaitsIn, Top, Asking
<1> QED
  BY <1>2, <1>3

LEMMA HoldersBecome ==
    ASSUME stack' \in [Threads -> Seq(FrameType)]
    PROVE  /\ Holders' = [m \in Names |-> {u \in Threads : HoldsIn(stack'[u], m)}]
           /\ Waits' = [u \in Threads |-> WaitsIn(stack'[u])]
<1>1. PICK z \in [Threads -> Seq(FrameType)] : z = stack'
  OBVIOUS
<1>2. ASSUME NEW u \in Threads, NEW m
      PROVE  (\E f \in {z[u][i] : i \in DOMAIN z[u]} : f.do \in HasLock /\ f.name = m)
                 <=> HoldsIn(z[u], m)
  BY HoldsInFrames
<1>3. Holders' = [m \in Names |-> {u \in Threads : HoldsIn(z[u], m)}]
  BY <1>1, <1>2 DEF Holders, Holder, Holds, Frames
<1>4. Waits' = [u \in Threads |-> WaitsIn(z[u])]
  BY <1>1 DEF Waits, WaitsIn, Top, Asking
<1> QED
  BY <1>1, <1>3, <1>4

LEMMA OfNone == WaitsIn(<<>>) = None /\ \A m : ~HoldsIn(<<>>, m)
<1>1. Len(<<>>) = 0
  OBVIOUS
<1> QED
  BY <1>1 DEF WaitsIn, HoldsIn

LEMMA OfOne ==
    ASSUME NEW a
    PROVE  /\ WaitsIn(<<a>>) = IF a.do \in Asking THEN a.name ELSE None
           /\ \A m : HoldsIn(<<a>>, m) <=> a.do \in HasLock /\ a.name = m
<1>1. PICK s : s = <<a>>
  OBVIOUS
<1>2. s # <<>> /\ Len(s) = 1 /\ s[1] = a /\ \A i \in 1..1 : i = 1
  BY <1>1
<1>3. WaitsIn(s) = IF a.do \in Asking THEN a.name ELSE None
  BY <1>2 DEF WaitsIn
<1>4. \A m : HoldsIn(s, m) <=> a.do \in HasLock /\ a.name = m
  BY <1>2 DEF HoldsIn
<1> QED
  BY <1>1, <1>3, <1>4

LEMMA OfTwo ==
    ASSUME NEW a, NEW b, b.do \notin Asking \cup HasLock
    PROVE  /\ WaitsIn(<<a, b>>) = None
           /\ \A m : HoldsIn(<<a, b>>, m) <=> a.do \in HasLock /\ a.name = m
<1>1. PICK s : s = <<a, b>>
  OBVIOUS
<1>2. s # <<>> /\ Len(s) = 2 /\ s[1] = a /\ s[2] = b /\ \A i \in 1..2 : i = 1 \/ i = 2
  BY <1>1
<1>3. WaitsIn(s) = None
  BY <1>2 DEF WaitsIn
<1>4. \A m : HoldsIn(s, m) <=> a.do \in HasLock /\ a.name = m
  BY <1>2 DEF HoldsIn
<1> QED
  BY <1>1, <1>3, <1>4

\* A step of t puts new calls on the p calls that it keeps.
Steps(t, p, new, r) ==
    /\ p \in Nat /\ new \in Seq(FrameType) /\ Moves(t, p, new, r)
    /\ \/ p = Len(stack[t]) /\ AtCode(t) /\ new # <<>>
       \/ p = Len(stack[t]) - 1 /\ stack[t] # <<>>

Under(s, p, m) == \E i \in 1..p : s[i].do \in HasLock /\ s[i].name = m

\* The locks that the call on top has are left to the new calls.
SameLocks(t, p, new) ==
    \A m : HoldsIn(new, m) <=>
        p # Len(stack[t]) /\ Top(t).do \in HasLock /\ Top(t).name = m

LEMMA LocksAfter ==
    ASSUME IInv, NEW t \in Threads, NEW p, NEW new, NEW r, Steps(t, p, new, r), NEW m
    PROVE  /\ HoldsIn(stack'[t], m) <=> Under(stack[t], p, m) \/ HoldsIn(new, m)
           /\ HoldsIn(stack[t], m) <=>
                  \/ Under(stack[t], p, m)
                  \/ p # Len(stack[t]) /\ Top(t).do \in HasLock /\ Top(t).name = m
<1>1. PICK s \in Seq(FrameType), n \in Nat : s = stack[t] /\ n = Len(s)
  BY LengthOf DEF IInv
<1>2. PICK z : z = stack'[t]
  OBVIOUS
<1>3. PICK k \in Nat : k = Len(new)
  BY LenProperties DEF Steps
<1>4. p \in Nat /\ Len(z) = p + k /\ (\A i \in 1..p : z[i] = s[i]) /\ \A i \in 1..k : z[p + i] = new[i]
  BY <1>1, <1>2, <1>3 DEF Steps, Moves
<1>5. \A i \in 1..(p + k) : i \in 1..p \/ (i - p \in 1..k /\ p + (i - p) = i)
  BY <1>4
<1>6. \A i \in 1..k : p + i \in 1..(p + k)
  BY <1>4
<1>7. \A i \in 1..p : i \in 1..(p + k)
  BY <1>4
<1>8. HoldsIn(z, m) <=> Under(s, p, m) \/ HoldsIn(new, m)
  <2> DEFINE Locks(f) == f.do \in HasLock /\ f.name = m
  <2>1. ASSUME NEW i \in 1..(p + k), Locks(z[i])
        PROVE  (\E j \in 1..p : Locks(s[j])) \/ \E j \in 1..k : Locks(new[j])
    BY <1>4, <1>5, <2>1
  <2>2. ASSUME NEW i \in 1..p, Locks(s[i]) PROVE \E j \in 1..(p + k) : Locks(z[j])
    BY <1>4, <1>7, <2>2
  <2>3. ASSUME NEW i \in 1..k, Locks(new[i]) PROVE \E j \in 1..(p + k) : Locks(z[j])
    BY <1>4, <1>6, <2>3
  <2>4. (\E i \in 1..(p + k) : Locks(z[i]))
            <=> (\E i \in 1..p : Locks(s[i])) \/ \E i \in 1..k : Locks(new[i])
    BY <2>1, <2>2, <2>3
  <2> QED
    BY <1>3, <1>4, <2>4 DEF HoldsIn, Under
<1>9. CASE p = n /\ AtCode(t)
  <2>1. HoldsIn(s, m) <=> Under(s, p, m)
    BY <1>1, <1>9 DEF HoldsIn, Under
  <2> QED
    BY <1>1, <1>2, <1>8, <1>9, <2>1
<1>10. CASE p = n - 1 /\ stack[t] # <<>>
  <2>1. Top(t) = s[n] /\ p # n /\ \A i : i \in 1..n <=> i \in 1..p \/ i = n
    BY <1>1, <1>4, <1>10, TopFacts DEF IInv
  <2>2. HoldsIn(s, m) <=> Under(s, p, m) \/ (s[n].do \in HasLock /\ s[n].name = m)
    BY <1>1, <2>1 DEF HoldsIn, Under
  <2> QED
    BY <1>1, <1>2, <1>8, <2>1, <2>2
<1> QED
  BY <1>1, <1>9, <1>10 DEF Steps

LEMMA SameHolders ==
    ASSUME IInv, NEW t \in Threads, NEW p, NEW new, NEW r, Steps(t, p, new, r),
           SameLocks(t, p, new)
    PROVE  Holders' = Holders
<1>1. stack \in [Threads -> Seq(FrameType)] /\ stack' \in [Threads -> Seq(FrameType)]
  BY TypeParts DEF IInv, Steps, Moves
<1>2. ASSUME NEW m \in Names, NEW u \in Threads
      PROVE  HoldsIn(stack'[u], m) <=> HoldsIn(stack[u], m)
  <2>1. CASE u = t
    BY <2>1, LocksAfter DEF SameLocks
  <2>2. CASE u # t
    BY <2>2 DEF Steps, Moves
  <2> QED
    BY <2>1, <2>2
<1> QED
  BY <1>1, <1>2, HoldersAre, HoldersBecome

\* The call on top goes, and with it the lock, if it is not held by another call too.
LEMMA LockReleased ==
    ASSUME IInv, NEW t \in Threads, NEW p, NEW r, Steps(t, p, <<>>, r),
           Top(t).do \in HasLock, NEW m \in Names, m = Top(t).name
    PROVE  /\ t \in Holders[m]
           /\ Holders' \in {Holders, [Holders EXCEPT ![m] = {}]}
<1>1. stack \in [Threads -> Seq(FrameType)] /\ stack' \in [Threads -> Seq(FrameType)]
  BY TypeParts DEF IInv, Steps, Moves
<1>2. p # Len(stack[t]) /\ stack[t] # <<>>
  BY LengthOf DEF IInv, Steps
<1>3. HoldsIn(stack[t], m)
  BY <1>2, LocksAfter
<1>4. \A u \in Threads : HoldsIn(stack[u], m) => u = t
  <2> SUFFICES ASSUME NEW u \in Threads, HoldsIn(stack[u], m) PROVE u = t
    OBVIOUS
  <2>1. PICK i \in 1..Len(stack[u]) : stack[u][i].do \in HasLock /\ stack[u][i].name = m
    BY DEF HoldsIn
  <2>2. PICK j \in 1..Len(stack[t]) : stack[t][j].do \in HasLock /\ stack[t][j].name = m
    BY <1>3 DEF HoldsIn
  <2> QED
    BY <2>1, <2>2 DEF IInv, LockInv, Excludes
<1>5. ASSUME NEW x \in Names, NEW u \in Threads, x # m \/ u # t \/ HoldsIn(stack'[t], m)
      PROVE  HoldsIn(stack'[u], x) <=> HoldsIn(stack[u], x)
  <2>1. CASE u = t
    <3>1. /\ HoldsIn(stack'[t], x) <=> Under(stack[t], p, x) \/ HoldsIn(<<>>, x)
          /\ HoldsIn(stack[t], x) <=>
                 \/ Under(stack[t], p, x)
                 \/ p # Len(stack[t]) /\ Top(t).do \in HasLock /\ Top(t).name = x
      BY LocksAfter
    <3> QED
      BY <1>3, <1>5, <2>1, <3>1, OfNone
  <2>2. CASE u # t
    BY <2>2 DEF Steps, Moves
  <2> QED
    BY <2>1, <2>2
<1>6. /\ Holders = [x \in Names |-> {u \in Threads : HoldsIn(stack[u], x)}]
      /\ Holders' = [x \in Names |-> {u \in Threads : HoldsIn(stack'[u], x)}]
  BY <1>1, HoldersAre, HoldersBecome
<1>7. CASE HoldsIn(stack'[t], m)
  BY <1>3, <1>5, <1>6, <1>7
<1>8. CASE ~HoldsIn(stack'[t], m)
  <2>1. \A u \in Threads : ~HoldsIn(stack'[u], m)
    BY <1>4, <1>5, <1>8
  <2>2. Holders' = [Holders EXCEPT ![m] = {}]
    BY <1>5, <1>6, <2>1
  <2> QED
    BY <1>3, <1>6, <2>2
<1> QED
  BY <1>7, <1>8

LEMMA WaitsAfter ==
    ASSUME IInv, NEW t \in Threads, NEW p, NEW new, NEW r, Steps(t, p, new, r)
    PROVE  Waits' = [Waits EXCEPT ![t] = WaitsIn(new)]
<1>1. stack \in [Threads -> Seq(FrameType)] /\ stack' \in [Threads -> Seq(FrameType)]
  BY TypeParts DEF IInv, Steps, Moves
<1>2. PICK s \in Seq(FrameType), n \in Nat : s = stack[t] /\ n = Len(s)
  BY LengthOf DEF IInv
<1>3. PICK z \in Seq(FrameType), k \in Nat : z = stack'[t] /\ k = Len(new)
  BY <1>1, LenProperties DEF Steps
<1>4. p \in Nat /\ Len(z) = p + k /\ (\A i \in 1..p : z[i] = s[i]) /\ \A i \in 1..k : z[p + i] = new[i]
  BY <1>2, <1>3 DEF Steps, Moves
<1>5. WaitsIn(z) = WaitsIn(new)
  <2>1. CASE new # <<>>
    <3>1. k # 0 /\ k \in 1..k
      BY <1>3, <2>1, EmptySeq DEF Steps
    <3>2. z # <<>> /\ z[Len(z)] = new[k]
      BY <1>3, <1>4, <3>1
    <3> QED
      BY <1>3, <2>1, <3>2 DEF WaitsIn
  <2>2. CASE new = <<>>
    <3>1. k = 0 /\ p = n - 1 /\ Len(z) = p
      BY <1>2, <1>3, <1>4, <2>2, EmptySeq DEF Steps
    <3>2. ASSUME z # <<>> PROVE z[Len(z)].do \notin Asking
      <4>1. p # 0 /\ p \in 1..p /\ p \in 1..n /\ p # n
        BY <1>2, <1>3, <1>4, <3>1, <3>2, EmptySeq
      <4>2. s[p].do \notin Asking
        BY <1>2, <4>1, CallParts DEF Asking
      <4> QED
        BY <1>4, <3>1, <4>1, <4>2
    <3> QED
      BY <2>2, <3>2, OfNone DEF WaitsIn
  <2> QED
    BY <2>1, <2>2
<1>6. ASSUME NEW u \in Threads, u # t PROVE WaitsIn(stack'[u]) = WaitsIn(stack[u])
  BY <1>6 DEF Steps, Moves
<1> QED
  BY <1>1, <1>3, <1>5, <1>6, HoldersAre, HoldersBecome

LEMMA WaitsOf ==
    ASSUME IInv, NEW t \in Threads
    PROVE  /\ AtCode(t) => Waits[t] = None
           /\ stack[t] # <<>> /\ Top(t).do \notin Asking => Waits[t] = None
           /\ stack[t] # <<>> /\ Top(t).do \in Asking =>
                  Waits[t] = Top(t).name /\ Top(t).name \in Names /\ Waits[t] # None
<1>1. Waits[t] = IF stack[t] # <<>> /\ Top(t).do \in Asking THEN Top(t).name ELSE None
  BY DEF Waits, Asking
<1>2. stack[t] # <<>> => Top(t).name \in Names
  BY TopFacts DEF IInv
<1> QED
  BY <1>1, <1>2, LoaderAssumption DEF AtCode, Asking

-----------------------------------------------------------------------------
(***************************************************************************)
(* What a step does to the ordinary modules.                               *)
(***************************************************************************)
SameModules ==
    \A m \in Locked :
        /\ modules'[m] = modules[m]
        /\ modules[m] # None => (modules[m] \in ended' <=> modules[m] \in ended)

LEMMA SameStates ==
    ASSUME SameModules
    PROVE  LoadState' = LoadState
  BY DEF SameModules, LoadState, Locked

LEMMA ChangedAt ==
    ASSUME NEW S, NEW f, NEW g, f = [x \in S |-> f[x]], g = [x \in S |-> g[x]],
           NEW t \in S, \A x \in S \ {t} : g[x] = f[x]
    PROVE  /\ g = [f EXCEPT ![t] = g[t]]
           /\ g[t] = f[t] => g = f
<1>1. g = [f EXCEPT ![t] = g[t]]
  OBVIOUS
<1>2. ASSUME g[t] = f[t] PROVE g = f
  <2>1. \A x \in S : g[x] = f[x]
    BY <1>2
  <2> QED
    BY <2>1
<1> QED
  BY <1>1, <1>2

LEMMA GotAfter ==
    ASSUME IInv, NEW t \in Threads, NEW p, NEW new, NEW r, Steps(t, p, new, r)
    PROVE  /\ Got' = [u \in Threads |->
                         {m \in Locked : /\ (IF u = t THEN WaitsIn(new) ELSE Waits[u]) = None
                                         /\ (IF u = t THEN r ELSE result[u]) # None
                                         /\ modules'[m] = (IF u = t THEN r ELSE result[u])}]
           /\ (\A m \in Locked : modules'[m] = modules[m]) =>
                  Got' = [Got EXCEPT ![t] = Got'[t]]
           /\ Got'[t] = {m \in Locked : WaitsIn(new) = None /\ r # None /\ modules'[m] = r}
<1>1. /\ \A u \in Threads : Waits'[u] = IF u = t THEN WaitsIn(new) ELSE Waits[u]
      /\ \A u \in Threads : result'[u] = IF u = t THEN r ELSE result[u]
  <2>1. Waits' = [Waits EXCEPT ![t] = WaitsIn(new)]
    BY WaitsAfter
  <2>2. Waits = [u \in Threads |-> WaitsIn(stack[u])]
    BY TypeParts, HoldersAre DEF IInv
  <2> QED
    BY <2>1, <2>2 DEF Steps, Moves
<1>2. Got' = [u \in Threads |->
                 {m \in Locked : Waits'[u] = None /\ result'[u] # None /\ modules'[m] = result'[u]}]
  BY DEF Got, Locked
<1>3. Got = [u \in Threads |->
                 {m \in Locked : Waits[u] = None /\ result[u] # None /\ modules[m] = result[u]}]
  BY DEF Got, Locked
<1>4. (\A m \in Locked : modules'[m] = modules[m]) =>
          \A u \in Threads \ {t} : Got'[u] = Got[u]
  BY <1>1, <1>2, <1>3
<1>5. Got' = [u \in Threads |->
                 {m \in Locked : /\ (IF u = t THEN WaitsIn(new) ELSE Waits[u]) = None
                                 /\ (IF u = t THEN r ELSE result[u]) # None
                                 /\ modules'[m] = (IF u = t THEN r ELSE result[u])}]
  BY <1>1, <1>2
<1>6. Got'[t] = {m \in Locked : WaitsIn(new) = None /\ r # None /\ modules'[m] = r}
  BY <1>1, <1>2
<1>7. ASSUME \A m \in Locked : modules'[m] = modules[m]
      PROVE  Got' = [Got EXCEPT ![t] = Got'[t]]
  <2>1. PICK z : z = Got'
    OBVIOUS
  <2>2. z = [u \in Threads |-> z[u]]
    BY <1>5, <2>1
  <2>3. PICK y : y = Got
    OBVIOUS
  <2>4. y = [u \in Threads |-> y[u]]
    BY <1>3, <2>3
  <2>5. \A u \in Threads \ {t} : z[u] = y[u]
    BY <1>4, <1>7, <2>1, <2>3
  <2>6. z = [y EXCEPT ![t] = z[t]]
    BY <2>2, <2>4, <2>5, ChangedAt
  <2> QED
    BY <2>1, <2>3, <2>6
<1> QED
  BY <1>5, <1>6, <1>7

LEMMA StateOf ==
    ASSUME IInv, NEW m \in Locked
    PROVE  /\ LoadState[m] = IF modules[m] = None THEN "absent"
                             ELSE IF modules[m] \in ended THEN "ready" ELSE "loading"
           /\ m \in Names
  BY DEF LoadState, Locked

LEMMA HolderOfExecution ==
    ASSUME IInv, NEW t \in Threads, NEW m \in Locked, NEW o \in {m} \X Copies, Executing(stack[t], o)
    PROVE  t \in Holders[m]
<1>1. PICK i \in 1..Len(stack[t]) : stack[t][i].do = "exec" /\ stack[t][i].obj = o
  BY DEF Executing
<1>2. stack[t][i].name = m /\ m \in Names
  BY <1>1, ExecFacts DEF Locked
<1>3. HoldsIn(stack[t], m)
  BY <1>1, <1>2 DEF HoldsIn, HasLock
<1> QED
  BY <1>2, <1>3, HoldersAre, TypeParts DEF IInv

\* What a thread may be given.
MayHave(t, m) == modules[m] \in ended \/ Executing(stack[t], modules[m])

LEMMA IsUsable ==
    ASSUME IInv, NEW t \in Threads, NEW m \in Locked, modules[m] # None, MayHave(t, m)
    PROVE  m \in Importings!Usable(t)
<1>1. modules[m] \notin ended => t \in Holders[m]
  BY ModuleFacts, HolderOfExecution DEF IInv, Locked, MayHave
<1>2. LoadState[m] = "ready" \/ (LoadState[m] = "loading" /\ t \in Holders[m])
  BY <1>1, StateOf
<1> QED
  BY <1>2 DEF Importings!Usable, Locked

\* t goes on, and waits for nothing before and after.
LEMMA Continues ==
    ASSUME IInv, NEW t \in Threads, NEW p, NEW new, NEW r, Steps(t, p, new, r),
           Waits[t] = None, WaitsIn(new) = None, Holders' = Holders, SameModules,
           \A m \in Locked : r # None /\ modules[m] = r => MayHave(t, m)
    PROVE  Importings!Continue(t)
<1>1. Waits' = Waits
  <2>1. Waits = [u \in Threads |-> WaitsIn(stack[u])]
    BY TypeParts, HoldersAre DEF IInv
  <2>2. Waits' = [Waits EXCEPT ![t] = WaitsIn(new)]
    BY WaitsAfter
  <2> QED
    BY <2>1, <2>2
<1>2. LoadState' = LoadState
  BY SameStates
<1>3. Got' = [Got EXCEPT ![t] = Got'[t]] /\ \A m \in Got'[t] : m \in Importings!Usable(t)
  <2>1. \A m \in Locked : modules'[m] = modules[m]
    BY DEF SameModules
  <2>2. /\ Got' = [Got EXCEPT ![t] = Got'[t]]
        /\ Got'[t] = {m \in Locked : WaitsIn(new) = None /\ r # None /\ modules'[m] = r}
    BY <2>1, GotAfter
  <2>3. ASSUME NEW m \in Got'[t] PROVE m \in Importings!Usable(t)
    <3>1. m \in Locked /\ modules[m] = r /\ r # None
      BY <2>1, <2>2
    <3> QED
      BY <3>1, IsUsable
  <2> QED
    BY <2>2, <2>3
<1> QED
  BY <1>1, <1>2, <1>3 DEF Importings!Continue, Importings!Gets

-----------------------------------------------------------------------------
(***************************************************************************)
(* The shapes that steps have.                                             *)
(***************************************************************************)
LEMMA BecomesSteps ==
    ASSUME IInv, NEW t \in Threads, stack[t] # <<>>, NEW new \in Seq(FrameType), Becomes(t, new)
    PROVE  Steps(t, Len(stack[t]) - 1, new, None)
<1>1. Moves(t, Len(stack[t]) - 1, new, None)
  BY BecomesMoves DEF IInv, Becomes, Results
<1>2. Len(stack[t]) - 1 \in Nat
  BY TopFacts DEF IInv
<1> QED
  BY <1>1, <1>2 DEF Steps

LEMMA ReturnsSteps ==
    ASSUME IInv, NEW t \in Threads, stack[t] # <<>>, NEW r \in Results, Returns(t, r)
    PROVE  Steps(t, Len(stack[t]) - 1, <<>>, r)
<1>1. Moves(t, Len(stack[t]) - 1, <<>>, r)
  BY ReturnsMoves DEF IInv
<1>2. Len(stack[t]) - 1 \in Nat /\ <<>> \in Seq(FrameType)
  BY TopFacts, EmptySeq DEF IInv
<1> QED
  BY <1>1, <1>2 DEF Steps

LEMMA CallsSteps ==
    ASSUME IInv, NEW t \in Threads, AtCode(t), NEW a \in FrameType, Calls(t, a)
    PROVE  Steps(t, Len(stack[t]), <<a>>, None)
<1>1. PICK new \in Seq(FrameType) : new = <<a>> /\ new # <<>>
  BY OneOrTwo
<1>2. Moves(t, Len(stack[t]), new, None)
  BY <1>1, CallsMoves DEF IInv
<1>3. Len(stack[t]) \in Nat
  BY LengthOf DEF IInv
<1> QED
  BY <1>1, <1>2, <1>3 DEF Steps

LEMMA NotFull ==
    ASSUME IInv, NEW t \in Threads, stack[t] # <<>>
    PROVE  Len(stack[t]) - 1 # Len(stack[t])
  BY TopFacts DEF IInv

\* The new call has the lock if the one that it replaces had it.
KeepsLock(f, a) ==
    /\ a.do \in HasLock <=> f.do \in HasLock
    /\ a.do \in HasLock => a.name = f.name

LEMMA ContinuesOne ==
    ASSUME IInv, NEW t \in Threads, stack[t] # <<>>, NEW a \in FrameType, Becomes(t, <<a>>),
           SameModules, Top(t).do \notin Asking, a.do \notin Asking, KeepsLock(Top(t), a)
    PROVE  Importings!Continue(t)
<1>1. PICK new \in Seq(FrameType) : new = <<a>>
  BY OneOrTwo
<1>2. PICK p : p = Len(stack[t]) - 1 /\ p # Len(stack[t])
  BY NotFull
<1>3. Steps(t, p, new, None)
  BY <1>1, <1>2, BecomesSteps
<1>4. WaitsIn(new) = None /\ SameLocks(t, p, new)
  BY <1>1, <1>2, OfOne DEF SameLocks, KeepsLock
<1>5. Waits[t] = None /\ Holders' = Holders
  BY <1>3, <1>4, WaitsOf, SameHolders
<1> QED
  BY <1>3, <1>4, <1>5, Continues

LEMMA ContinuesTwo ==
    ASSUME IInv, NEW t \in Threads, stack[t] # <<>>, NEW a \in FrameType, NEW b \in FrameType,
           Becomes(t, <<a, b>>),
           SameModules, Top(t).do \notin Asking, KeepsLock(Top(t), a), b.do \notin Asking \cup HasLock
    PROVE  Importings!Continue(t)
<1>1. PICK new \in Seq(FrameType) : new = <<a, b>>
  BY OneOrTwo
<1>2. PICK p : p = Len(stack[t]) - 1 /\ p # Len(stack[t])
  BY NotFull
<1>3. Steps(t, p, new, None)
  BY <1>1, <1>2, BecomesSteps
<1>4. WaitsIn(new) = None /\ SameLocks(t, p, new)
  BY <1>1, <1>2, OfTwo DEF SameLocks, KeepsLock
<1>5. Waits[t] = None /\ Holders' = Holders
  BY <1>3, <1>4, WaitsOf, SameHolders
<1> QED
  BY <1>3, <1>4, <1>5, Continues

LEMMA ContinuesCall ==
    ASSUME IInv, NEW t \in Threads, AtCode(t), NEW a \in FrameType, Calls(t, a),
           SameModules, a.do \notin Asking \cup HasLock
    PROVE  Importings!Continue(t)
<1>1. PICK new : new = <<a>>
  OBVIOUS
<1>2. PICK p : p = Len(stack[t])
  OBVIOUS
<1>3. Steps(t, p, new, None)
  BY <1>1, <1>2, CallsSteps
<1>4. WaitsIn(new) = None /\ SameLocks(t, p, new)
  BY <1>1, <1>2, OfOne DEF SameLocks
<1>5. Waits[t] = None /\ Holders' = Holders
  BY <1>3, <1>4, WaitsOf, SameHolders
<1> QED
  BY <1>3, <1>4, <1>5, Continues

LEMMA ContinuesReturn ==
    ASSUME IInv, NEW t \in Threads, stack[t] # <<>>, NEW r \in Results, Returns(t, r),
           SameModules, Top(t).do \notin Asking \cup HasLock,
           \A m \in Locked : r # None /\ modules[m] = r => MayHave(t, m)
    PROVE  Importings!Continue(t)
<1>1. PICK p : p = Len(stack[t]) - 1 /\ p # Len(stack[t])
  BY NotFull
<1>2. Steps(t, p, <<>>, r)
  BY <1>1, ReturnsSteps
<1>3. WaitsIn(<<>>) = None /\ SameLocks(t, p, <<>>)
  BY OfNone DEF SameLocks
<1>4. Waits[t] = None /\ Holders' = Holders
  BY <1>2, <1>3, WaitsOf, SameHolders
<1> QED
  BY <1>2, <1>3, <1>4, Continues

\* The lock of a module is left, or the thread holds it still for another call.
LEMMA LeavesReturn ==
    ASSUME IInv, NEW t \in Threads, stack[t] # <<>>, NEW r \in Results, Returns(t, r),
           SameModules, NEW m \in Names, Top(t).do \in HasLock, Top(t).name = m,
           m \in Locked => modules[m] \in ended \cup {None},
           \A x \in Locked : r # None /\ modules[x] = r => MayHave(t, x)
    PROVE  Importings!Continue(t) \/ Importings!Leave(t, m)
<1>1. PICK p : p = Len(stack[t]) - 1 /\ p # Len(stack[t])
  BY NotFull
<1>2. Steps(t, p, <<>>, r)
  BY <1>1, ReturnsSteps
<1>3. Waits[t] = None /\ WaitsIn(<<>>) = None
  BY WaitsOf, OfNone DEF Asking, HasLock
<1>4. t \in Holders[m] /\ Holders' \in {Holders, [Holders EXCEPT ![m] = {}]}
  BY <1>2, LockReleased
<1>5. CASE Holders' = Holders
  BY <1>2, <1>3, <1>5, Continues
<1>6. CASE Holders' = [Holders EXCEPT ![m] = {}]
  <2>1. m \in Names \ Embedded => LoadState[m] # "loading"
    BY StateOf DEF Locked
  <2>2. LoadState' = LoadState
    BY SameStates
  <2>3. Waits' = Waits
    <3>1. Waits = [u \in Threads |-> WaitsIn(stack[u])]
      BY TypeParts, HoldersAre DEF IInv
    <3>2. Waits' = [Waits EXCEPT ![t] = WaitsIn(<<>>)]
      BY <1>2, WaitsAfter
    <3> QED
      BY <1>3, <3>1, <3>2
  <2>4. Got' = [Got EXCEPT ![t] = Got'[t]] /\ \A x \in Got'[t] : x \in Importings!Usable(t)
    <3>1. \A x \in Locked : modules'[x] = modules[x]
      BY DEF SameModules
    <3>2. /\ Got' = [Got EXCEPT ![t] = Got'[t]]
          /\ Got'[t] = {x \in Locked : WaitsIn(<<>>) = None /\ r # None /\ modules'[x] = r}
      BY <1>2, <3>1, GotAfter
    <3>3. ASSUME NEW x \in Got'[t] PROVE x \in Importings!Usable(t)
      <4>1. x \in Locked /\ modules[x] = r /\ r # None
        BY <3>1, <3>2
      <4> QED
        BY <4>1, IsUsable
    <3> QED
      BY <3>2, <3>3
  <2>5. Importings!Leave(t, m)
    BY <1>4, <1>6, <2>1, <2>2, <2>3, <2>4 DEF Importings!Leave, Importings!Gets
  <2> QED
    BY <2>5
<1> QED
  BY <1>4, <1>5, <1>6

-----------------------------------------------------------------------------
(***************************************************************************)
(* The steps that leave the modules alone are steps of Importing.          *)
(***************************************************************************)
LEMMA UnchangedSame ==
    ASSUME UNCHANGED <<modules, facts>>
    PROVE  SameModules
  BY DEF SameModules, facts

LEMMA NoModuleIsError ==
    ASSUME IInv, NEW m \in Locked
    PROVE  modules[m] # Error /\ modules[m] \in Results
  BY ModuleFacts DEF IInv, Locked

LEMMA ErrorContinues ==
    ASSUME IInv, NEW t \in Threads, stack[t] # <<>>, Returns(t, Error), SameModules,
           Top(t).do \notin Asking \cup HasLock
    PROVE  Importings!Continue(t)
<1>1. Error \in Results
  BY DEF Results
<1> QED
  BY <1>1, NoModuleIsError, ContinuesReturn

LEMMA CodeContinues ==
    ASSUME IInv, NEW t \in Threads, NEW m \in Names, ImportStatement(t, m) \/ FixedImport(t, m)
    PROVE  Importings!Continue(t)
<1>1. AtCode(t) /\ SameModules
  BY UnchangedSame DEF ImportStatement, FixedImport, Imports, AtCode
<1>2. PICK a : a = Frame("import", m, None)
  OBVIOUS
<1>3. PICK b : b = Frame("fixed", m, m)
  OBVIOUS
<1>4. a \in FrameType /\ a.do = "import"
  BY <1>2, PlainFrame
<1>5. b \in FrameType /\ b.do = "fixed"
  <2>1. "fixed" \in InC \cup OfImportlib \cup {"body"}
    BY DEF InC
  <2> QED
    BY <1>3, <2>1, FrameParts
<1>6. a.do \notin Asking \cup HasLock /\ b.do \notin Asking \cup HasLock
  BY <1>4, <1>5 DEF Asking, HasLock
<1> QED
  BY <1>1, <1>2, <1>3, <1>4, <1>5, <1>6, ContinuesCall DEF ImportStatement, FixedImport

LEMMA ExecuteStartsContinues ==
    ASSUME IInv, NEW t \in Threads, ExecuteStarts(t)
    PROVE  Importings!Continue(t)
<1>1. stack[t] # <<>> /\ Top(t).do = "execute" /\ SameModules
  BY UnchangedSame DEF ExecuteStarts, In
<1>2. PICK f \in FrameType : f = Top(t)
  BY <1>1, TopFacts DEF IInv
<1>3. f.name \in Names /\ f.obj \in Objects \cup Names \cup {None} /\ f.do = "execute"
  BY <1>1, <1>2 DEF FrameType
<1>4. PICK load : load = Frame("load", f.name, f.obj)
  OBVIOUS
<1>5. load \in FrameType /\ load.do = "load"
  BY <1>3, <1>4, FrameParts DEF InC
<1>6. PICK pre \in Embedded \cup {None} : pre = PreLoad[f.name]
  BY <1>3, EmbeddedClosed
<1>7. Becomes(t, IF pre = None THEN <<load>> ELSE <<load, Frame("embedded", pre, None)>>)
  BY <1>2, <1>4, <1>6, FrameChanged DEF ExecuteStarts
<1>8. Top(t).do \notin Asking /\ load.do \notin Asking /\ KeepsLock(Top(t), load)
  BY <1>1, <1>5 DEF Asking, HasLock, KeepsLock
<1>9. CASE pre = None
  BY <1>1, <1>5, <1>7, <1>8, <1>9, ContinuesOne
<1>10. CASE pre # None
  <2>1. PICK b : b = Frame("embedded", pre, None)
    OBVIOUS
  <2>2. b \in FrameType /\ b.do \notin Asking \cup HasLock
    BY <1>6, <1>10, <2>1, EmbeddedFrame DEF Asking, HasLock
  <2> QED
    BY <1>1, <1>5, <1>7, <1>8, <1>10, <2>1, <2>2, ContinuesTwo
<1> QED
  BY <1>9, <1>10

\* Nobody minds what is given of the other modules.
LEMMA OtherGiven ==
    ASSUME IInv, NEW m \in Embedded, NEW o \in {m} \X Copies, NEW x \in Locked
    PROVE  modules[x] # o
  BY EmbeddedClosed, ModuleFacts DEF IInv, Locked

LEMMA ObjectResult ==
    ASSUME NEW m \in Names, NEW o \in {m} \X Copies
    PROVE  o \in Objects /\ o \in Results /\ o \notin {Error, None}
<1>1. o \in Objects
  BY DEF Objects
<1> QED
  BY <1>1, LoaderAssumption DEF Results

\* The object of an execution that is over.
LEMMA StageContinues ==
    ASSUME IInv, NEW t \in Threads, stack[t] # <<>>, Top(t).do \in {"post", "posted"},
           Returns(t, Top(t).obj), SameModules
    PROVE  Importings!Continue(t)
<1>1. PICK f \in FrameType : f = Top(t)
  BY TopFacts DEF IInv
<1>2. FrameInv(f) /\ CallInv(f, TRUE, result[t], modules, initializing, ended) /\ f.name \in Names
  BY <1>1, TopInv, TopFacts DEF IInv
<1>3. f.obj \in {f.name} \X Copies /\ (f.name \in Locked => f.obj \in ended)
  BY <1>1, <1>2 DEF FrameInv, Stages, CallInv, PhaseInv
<1>4. ASSUME NEW x \in Locked, modules[x] = f.obj PROVE MayHave(t, x)
  <2>1. x = f.name
    BY <1>2, <1>3, <1>4, ModuleFacts DEF IInv, Locked
  <2> QED
    BY <1>3, <1>4, <2>1 DEF MayHave
<1>5. f.obj \in Results
  BY <1>2, <1>3, ObjectResult
<1>6. f.do \notin Asking \cup HasLock
  BY <1>1 DEF Asking, HasLock
<1> QED
  BY <1>1, <1>4, <1>5, <1>6, ContinuesReturn

LEMMA PostContinues ==
    ASSUME IInv, NEW t \in Threads, PostStarts(t) \/ PostEnds(t)
    PROVE  Importings!Continue(t)
<1>1. CASE PostEnds(t)
  BY <1>1, StageContinues, UnchangedSame DEF PostEnds, In
<1>2. CASE PostStarts(t)
  <2>1. stack[t] # <<>> /\ Top(t).do = "post" /\ SameModules
    BY <1>2, UnchangedSame DEF PostStarts, In
  <2>2. PICK f \in FrameType : f = Top(t)
    BY <2>1, TopFacts DEF IInv
  <2>3. f.name \in Names /\ f.obj \in Objects \cup Names \cup {None} /\ f.do = "post"
    BY <2>1, <2>2 DEF FrameType
  <2>4. PICK post \in Embedded \cup {None} : post = PostLoad[f.name]
    BY <2>3, EmbeddedClosed
  <2>5. CASE post = None
    <3>1. Returns(t, Top(t).obj)
      BY <1>2, <2>2, <2>4, <2>5 DEF PostStarts
    <3> QED
      BY <2>1, <3>1, StageContinues
  <2>6. CASE post # None
    <3>1. PICK a, b : a = Frame("posted", f.name, f.obj) /\ b = Frame("embedded", post, None)
      OBVIOUS
    <3>2. a \in FrameType /\ a.do = "posted"
      <4>1. "posted" \in InC \cup OfImportlib \cup {"body"}
        BY DEF InC
      <4> QED
        BY <2>3, <3>1, <4>1, FrameParts
    <3>3. b \in FrameType /\ b.do \notin Asking \cup HasLock
      BY <2>4, <2>6, <3>1, EmbeddedFrame DEF Asking, HasLock
    <3>4. Becomes(t, <<a, b>>)
      BY <1>2, <2>2, <2>4, <2>6, <3>1, FrameChanged DEF PostStarts
    <3>5. Top(t).do \notin Asking /\ KeepsLock(Top(t), a)
      BY <2>1, <3>2 DEF Asking, HasLock, KeepsLock
    <3> QED
      BY <2>1, <3>2, <3>3, <3>4, <3>5, ContinuesTwo
  <2> QED
    BY <2>5, <2>6
<1> QED
  BY <1>1, <1>2

LEMMA FixedContinues ==
    ASSUME IInv, NEW t \in Threads,
           \/ FixedParent(t) \/ FixedSelf(t) \/ FixedParentFails(t) \/ FixedFails(t)
           \/ FixedImports(t) \/ FixedFront(t) \/ FixedValue(t)
    PROVE  Importings!Continue(t)
<1>1. stack[t] # <<>> /\ Top(t).do \in {"fixed", "self", "front", "value"} /\ SameModules
  BY UnchangedSame DEF FixedParent, FixedSelf, FixedParentFails, FixedFails, FixedImports,
                       FixedFront, FixedValue, In
<1>2. PICK f \in FrameType : f = Top(t)
  BY <1>1, TopFacts DEF IInv
<1>3. PICK m \in Names : m = f.name
  BY <1>2 DEF FrameType
<1>4. m \in Fixed /\ m \in Embedded /\ f.do \notin Asking \cup HasLock /\ Outermost(m) \in Names
  BY <1>1, <1>2, <1>3, FixedCall, OutermostIsName DEF Asking, HasLock
<1>5. ASSUME NEW a \in FrameType, NEW b \in FrameType, Becomes(t, <<a, b>>),
             a.do \in {"fixed", "self", "front", "value"}, b.do \in {"embedded", "import"}
      PROVE  Importings!Continue(t)
  <2>1. KeepsLock(Top(t), a) /\ b.do \notin Asking \cup HasLock
    BY <1>2, <1>4, <1>5 DEF KeepsLock, Asking, HasLock
  <2> QED
    BY <1>1, <1>2, <1>4, <1>5, <2>1, ContinuesTwo
<1>6. CASE FixedParent(t)
  <2>1. f.do = "fixed" /\ f.obj \in {m} \cup Ancestors[m]
    <3>1. f.do = "fixed"
      BY <1>2, <1>6 DEF FixedParent, In
    <3> QED
      BY <1>1, <1>2, <1>3, <3>1, TopInv DEF FrameInv
  <2>2. PICK parent : parent = Parent[f.obj]
    OBVIOUS
  <2>3. parent \in Embedded /\ parent \in Names
    <3>1. parent # None
      BY <1>2, <1>6, <2>2 DEF FixedParent
    <3>2. parent \in Ancestors[m]
      BY <2>1, <2>2, <3>1, AncestorsClosed
    <3> QED
      BY <1>4, <3>2, EmbeddedClosed
  <2>4. PICK a, b : a = Frame("fixed", m, parent) /\ b = Frame("embedded", parent, None)
    OBVIOUS
  <2>5. Becomes(t, <<a, b>>)
    <3>1. [f EXCEPT !.obj = parent] = a
      <4>1. [f EXCEPT !.obj = parent] = Frame(f.do, f.name, parent)
        BY FrameChanged
      <4> QED
        BY <1>3, <2>1, <2>4, <4>1
    <3>2. Becomes(t, <<[f EXCEPT !.obj = parent], Frame("embedded", parent, None)>>)
      BY <1>2, <1>6, <2>2 DEF FixedParent
    <3> QED
      BY <2>4, <3>1, <3>2
  <2>6. a \in FrameType /\ a.do = "fixed"
    BY <2>3, <2>4, FrameParts DEF InC
  <2>7. b \in FrameType /\ b.do \in {"embedded", "import"}
    BY <2>3, <2>4, EmbeddedFrame
  <2> QED
    BY <1>5, <2>5, <2>6, <2>7
<1>7. CASE FixedSelf(t)
  <2>1. PICK a, b : a = Frame("self", m, None) /\ b = Frame("embedded", m, None)
    OBVIOUS
  <2>2. a \in FrameType /\ a.do = "self" /\ b \in FrameType /\ b.do \in {"embedded", "import"}
    BY <1>4, <2>1, PlainFrame, EmbeddedFrame
  <2>3. Becomes(t, <<a, b>>)
    BY <1>2, <1>3, <1>7, <2>1 DEF FixedSelf
  <2> QED
    BY <1>5, <2>2, <2>3
<1>8. CASE FixedImports(t)
  <2>1. PICK a, b : a = Frame("front", m, None) /\ b = Frame("import", m, None)
    OBVIOUS
  <2>2. a \in FrameType /\ a.do = "front" /\ b \in FrameType /\ b.do = "import"
    BY <1>4, <2>1, PlainFrame
  <2>3. Becomes(t, <<a, b>>)
    BY <1>2, <1>3, <1>8, <2>1 DEF FixedImports
  <2> QED
    BY <1>5, <2>2, <2>3
<1>9. CASE FixedFront(t)
  <2>1. PICK a, b : a = Frame("value", m, None) /\ b = Frame("import", Outermost(m), None)
    OBVIOUS
  <2>2. a \in FrameType /\ a.do = "value" /\ b \in FrameType /\ b.do = "import"
    BY <1>4, <2>1, PlainFrame
  <2>3. Becomes(t, <<a, b>>)
    BY <1>2, <1>3, <1>9, <2>1 DEF FixedFront
  <2> QED
    BY <1>5, <2>2, <2>3
<1>10. CASE Returns(t, Error)
  BY <1>1, <1>2, <1>4, <1>10, ErrorContinues
<1>11. CASE modules[m] # None /\ Returns(t, modules[m])
  <2>1. modules[m] \in {m} \X Copies
    BY <1>11, ModuleFacts DEF IInv
  <2>2. modules[m] \in Results /\ \A x \in Locked : modules[x] # modules[m]
    BY <1>4, <2>1, ObjectResult, OtherGiven
  <2> QED
    BY <1>1, <1>2, <1>4, <1>11, <2>2, ContinuesReturn
<1>12. CASE FixedParentFails(t) \/ FixedFails(t) \/ FixedValue(t)
  <2>1. Returns(t, Error) \/ (modules[m] # None /\ Returns(t, modules[m]))
    BY <1>2, <1>3, <1>12 DEF FixedParentFails, FixedFails, FixedValue
  <2> QED
    BY <1>10, <1>11, <2>1
<1> QED
  BY <1>6, <1>7, <1>8, <1>9, <1>12

-----------------------------------------------------------------------------
(***************************************************************************)
(* The locks: a thread asks, gets the lock, or gives up to not deadlock.   *)
(***************************************************************************)
LEMMA FreeIs ==
    ASSUME NEW t \in Threads, NEW m \in Names
    PROVE  Free(t, m) <=> Importings!Free(t, m)
<1>1. Holders[m] = {u \in Threads : Holds(u, m)}
  BY DEF Holders, Holder
<1> QED
  BY <1>1 DEF Free, Importings!Free

LEMMA CircleIs ==
    ASSUME IInv, NEW t \in Threads, Deadlock(t)
    PROVE  Importings!Circle(t)
<1>1. PICK S \in SUBSET Threads :
          /\ t \in S /\ \A u \in S : Waiting(u)
          /\ UNION {Holder(Top(u).name) : u \in S} = S
  BY DEF Deadlock
<1>2. ASSUME NEW u \in S
      PROVE  /\ Waits[u] # None /\ Waits[u] = Top(u).name /\ Top(u).name \in Names
             /\ ~Importings!Free(u, Waits[u]) /\ Holders[Waits[u]] = Holder(Top(u).name)
  <2>1. u \in Threads /\ stack[u] # <<>> /\ Top(u).do \in Asking /\ ~Free(u, Top(u).name)
    BY <1>1, <1>2 DEF Waiting, Asking
  <2>2. Waits[u] # None /\ Waits[u] = Top(u).name /\ Top(u).name \in Names
    BY <2>1, WaitsOf
  <2>3. ~Importings!Free(u, Top(u).name)
    BY <2>1, <2>2, FreeIs
  <2> QED
    BY <2>2, <2>3 DEF Holders
<1>3. {Holders[Waits[u]] : u \in S} = {Holder(Top(u).name) : u \in S}
  BY <1>2
<1> QED
  BY <1>1, <1>2, <1>3 DEF Importings!Circle

LEMMA AsksFor ==
    ASSUME IInv, NEW t \in Threads, stack[t] # <<>>, NEW a \in FrameType, Becomes(t, <<a>>),
           SameModules, Top(t).do \notin HasLock, a.do \in Asking
    PROVE  /\ Top(t).do \notin Asking => Importings!Ask(t, a.name)
           /\ Top(t).do \in Asking /\ a.name = Top(t).name => UNCHANGED Importings!vars
<1>1. PICK new \in Seq(FrameType) : new = <<a>>
  BY OneOrTwo
<1>2. PICK p : p = Len(stack[t]) - 1 /\ p # Len(stack[t])
  BY NotFull
<1>3. Steps(t, p, new, None)
  BY <1>1, <1>2, BecomesSteps
<1>4. a.do \notin HasLock /\ a.name \in Names /\ a.name # None
  BY LoaderAssumption DEF Asking, HasLock, FrameType
<1>5. WaitsIn(new) = a.name /\ SameLocks(t, p, new)
  BY <1>1, <1>2, <1>4, OfOne DEF SameLocks
<1>6. Holders' = Holders /\ LoadState' = LoadState
  BY <1>3, <1>5, SameHolders, SameStates
<1>7. Waits' = [Waits EXCEPT ![t] = a.name]
  BY <1>3, <1>5, WaitsAfter
<1>8. Got' = [Got EXCEPT ![t] = Got'[t]] /\ Got'[t] = {}
  BY <1>3, <1>4, <1>5, GotAfter DEF SameModules
<1>9. ASSUME Top(t).do \notin Asking PROVE Importings!Ask(t, a.name)
  <2>1. Waits[t] = None
    BY <1>9, WaitsOf
  <2> QED
    BY <1>6, <1>7, <1>8, <2>1 DEF Importings!Ask, Importings!Gets
<1>10. ASSUME Top(t).do \in Asking, a.name = Top(t).name PROVE UNCHANGED Importings!vars
  <2>1. Waits[t] = a.name /\ Waits[t] # None
    BY <1>10, WaitsOf
  <2>2. Got[t] = {}
    BY <2>1 DEF Got
  <2>3. Waits' = Waits
    <3>1. PICK y : y = Waits
      OBVIOUS
    <3>2. y = [u \in Threads |-> y[u]]
      BY <3>1 DEF Waits
    <3> QED
      BY <1>7, <2>1, <3>1, <3>2
  <2>4. Got' = Got
    <3>1. PICK y : y = Got
      OBVIOUS
    <3>2. y = [u \in Threads |-> y[u]]
      BY <3>1 DEF Got
    <3> QED
      BY <1>8, <2>2, <3>1, <3>2
  <2> QED
    BY <1>6, <2>3, <2>4 DEF Importings!vars
<1> QED
  BY <1>9, <1>10

LEMMA LockTaken ==
    ASSUME IInv, NEW t \in Threads, stack[t] # <<>>, NEW a \in FrameType, Becomes(t, <<a>>),
           SameModules, NEW m \in Names, Top(t).do \in Asking, Top(t).name = m,
           a.do = "find", a.name = m, Free(t, m), modules[m] = None
    PROVE  Importings!Lock(t, m)
<1>1. PICK new \in Seq(FrameType) : new = <<a>>
  BY OneOrTwo
<1>2. PICK p : p = Len(stack[t]) - 1 /\ p # Len(stack[t])
  BY NotFull
<1>3. Steps(t, p, new, None)
  BY <1>1, <1>2, BecomesSteps
<1>4. WaitsIn(new) = None /\ \A x : HoldsIn(new, x) <=> x = m
  BY <1>1, OfOne DEF Asking, HasLock
<1>5. Waits' = [Waits EXCEPT ![t] = None] /\ Waits[t] = m
  BY <1>3, <1>4, WaitsAfter, WaitsOf
<1>6. LoadState' = LoadState /\ (m \in Names \ Embedded => LoadState[m] = "absent")
  BY SameStates, StateOf DEF Locked
<1>7. Got' = [Got EXCEPT ![t] = Got'[t]] /\ Got'[t] = {}
  BY <1>3, GotAfter DEF SameModules
<1>8. Holders' = [Holders EXCEPT ![m] = {t}]
  <2>1. stack \in [Threads -> Seq(FrameType)] /\ stack' \in [Threads -> Seq(FrameType)]
    BY <1>3, TypeParts DEF IInv, Steps, Moves
  <2>2. /\ Holders = [x \in Names |-> {u \in Threads : HoldsIn(stack[u], x)}]
        /\ Holders' = [x \in Names |-> {u \in Threads : HoldsIn(stack'[u], x)}]
    BY <2>1, HoldersAre, HoldersBecome
  <2>3. Holders[m] \subseteq {t}
    BY FreeIs DEF Importings!Free
  <2>4. ASSUME NEW u \in Threads, u # t PROVE stack'[u] = stack[u]
    BY <1>3, <2>4 DEF Steps, Moves
  <2>5. HoldsIn(stack'[t], m)
    BY <1>3, <1>4, LocksAfter
  <2>6. ASSUME NEW x \in Names, x # m PROVE HoldsIn(stack'[t], x) <=> HoldsIn(stack[t], x)
    <3>1. /\ HoldsIn(stack'[t], x) <=> Under(stack[t], p, x) \/ HoldsIn(new, x)
          /\ HoldsIn(stack[t], x) <=>
                 \/ Under(stack[t], p, x)
                 \/ p # Len(stack[t]) /\ Top(t).do \in HasLock /\ Top(t).name = x
      BY <1>3, LocksAfter
    <3> QED
      BY <1>4, <2>6, <3>1
  <2>7. \A x \in Names : Holders'[x] = IF x = m THEN {t} ELSE Holders[x]
    <3>1. Holders'[m] = {t}
      BY <2>2, <2>3, <2>4, <2>5
    <3>2. ASSUME NEW x \in Names, x # m PROVE Holders'[x] = Holders[x]
      BY <2>2, <2>4, <2>6, <3>2
    <3> QED
      BY <3>1, <3>2
  <2> QED
    BY <2>2, <2>7
<1> QED
  BY <1>5, <1>6, <1>7, <1>8, FreeIs DEF Importings!Lock, Importings!Gets

LEMMA WaitEnds ==
    ASSUME IInv, NEW t \in Threads, stack[t] # <<>>, NEW r \in Results, Returns(t, r), SameModules,
           NEW m \in Names, Top(t).do \in Asking, Top(t).name = m, Free(t, m) \/ Deadlock(t),
           r = Error \/ r \in {m} \X Copies
    PROVE  Importings!Wake(t, m)
<1>1. PICK p : p = Len(stack[t]) - 1 /\ p # Len(stack[t])
  BY NotFull
<1>2. Steps(t, p, <<>>, r)
  BY <1>1, ReturnsSteps
<1>3. WaitsIn(<<>>) = None /\ SameLocks(t, p, <<>>)
  BY OfNone DEF SameLocks, Asking, HasLock
<1>4. Waits' = [Waits EXCEPT ![t] = None] /\ Waits[t] = m /\ Holders' = Holders
  BY <1>2, <1>3, WaitsAfter, WaitsOf, SameHolders
<1>5. LoadState' = LoadState
  BY SameStates
<1>6. /\ Got' = [Got EXCEPT ![t] = Got'[t]]
      /\ Got'[t] = {x \in Locked : r # None /\ modules[x] = r}
  BY <1>2, <1>3, GotAfter DEF SameModules
<1>7. ASSUME NEW x \in Got'[t] PROVE x = m /\ x \in Locked /\ modules[x] # None
  <2>1. x \in Locked /\ modules[x] = r /\ r # None
    BY <1>6
  <2>2. x = m
    BY <2>1, NoModuleIsError, ModuleFacts DEF IInv, Locked
  <2> QED
    BY <2>1, <2>2
<1>8. CASE Free(t, m)
  <2>1. ASSUME NEW x \in Got'[t] PROVE x \in {m} \cap Importings!Usable(t)
    <3>1. MayHave(t, x)
      BY <1>7, <1>8, Given DEF MayHave
    <3> QED
      BY <1>7, <3>1, IsUsable
  <2>2. Importings!Free(t, m)
    BY <1>8, FreeIs
  <2> QED
    BY <1>4, <1>5, <1>6, <2>1, <2>2 DEF Importings!Wake, Importings!Gets
<1>9. CASE Deadlock(t)
  BY <1>4, <1>5, <1>6, <1>7, <1>9, CircleIs DEF Importings!Wake, Importings!Gets
<1> QED
  BY <1>8, <1>9

\* What a step of t may be to Importing.
ImportStep(t) ==
    \/ Importings!Continue(t) \/ UNCHANGED Importings!vars
    \/ \E m \in Names : \/ Importings!Ask(t, m) \/ Importings!Lock(t, m)
                        \/ Importings!Wake(t, m) \/ Importings!Leave(t, m)
    \/ \E m \in Names \ Embedded :
           Importings!Start(t, m) \/ Importings!End(t, m) \/ Importings!Fail(t, m)

LEMMA EnsureFrame ==
    ASSUME IInv, NEW m \in Names, modules[m] # None
    PROVE  /\ Frame("ensure", m, modules[m]) \in FrameType
           /\ Frame("ensure", m, modules[m]).do = "ensure" /\ Frame("ensure", m, modules[m]).name = m
<1>1. modules[m] \in Objects \cup Names \cup {None}
  BY ModuleFacts DEF IInv
<1> QED
  BY <1>1, FrameParts DEF OfImportlib

LEMMA ImportModuleLevelGoes ==
    ASSUME IInv, NEW t \in Threads, ImportModuleLevel(t)
    PROVE  ImportStep(t)
<1>1. stack[t] # <<>> /\ Top(t).do = "import" /\ SameModules
  BY UnchangedSame DEF ImportModuleLevel, In
<1>2. PICK m \in Names : m = Top(t).name
  BY <1>1, TopFacts DEF IInv
<1>3. Top(t).do \notin Asking \cup HasLock
  BY <1>1 DEF Asking, HasLock
<1>4. CASE modules[m] = None
  <2>1. PICK a : a = Frame("acquire", m, None)
    OBVIOUS
  <2>2. a \in FrameType /\ a.do \in Asking /\ a.name = m
    BY <2>1, FrameParts DEF OfImportlib, Asking
  <2>3. Becomes(t, <<a>>)
    BY <1>2, <1>4, <2>1 DEF ImportModuleLevel
  <2>4. Importings!Ask(t, m)
    BY <1>1, <1>3, <2>2, <2>3, AsksFor
  <2> QED
    BY <2>4 DEF ImportStep
<1>5. CASE modules[m] # None /\ modules[m] \in initializing
  <2>1. PICK a : a = Frame("ensure", m, modules[m])
    OBVIOUS
  <2>2. a \in FrameType /\ a.do \in Asking /\ a.name = m
    BY <1>5, <2>1, EnsureFrame DEF Asking
  <2>3. Becomes(t, <<a>>)
    BY <1>2, <1>5, <2>1 DEF ImportModuleLevel
  <2>4. Importings!Ask(t, m)
    BY <1>1, <1>3, <2>2, <2>3, AsksFor
  <2> QED
    BY <2>4 DEF ImportStep
<1>6. CASE modules[m] # None /\ modules[m] \notin initializing
  <2>1. Returns(t, modules[m]) /\ modules[m] \in Results
    BY <1>2, <1>6, ModuleFacts DEF ImportModuleLevel, IInv
  <2>2. ASSUME NEW x \in Locked, modules[x] = modules[m] PROVE MayHave(t, x)
    <3>1. x = m
      BY <1>6, <2>2, ModuleFacts DEF IInv, Locked
    <3> QED
      BY <1>6, <3>1, Given DEF MayHave
  <2>3. Importings!Continue(t)
    BY <1>1, <1>3, <2>1, <2>2, ContinuesReturn
  <2> QED
    BY <2>3 DEF ImportStep
<1> QED
  BY <1>4, <1>5, <1>6

LEMMA AcquireGoes ==
    ASSUME IInv, NEW t \in Threads, Acquire(t)
    PROVE  ImportStep(t)
<1>1. stack[t] # <<>> /\ Top(t).do = "acquire" /\ SameModules
  BY UnchangedSame DEF Acquire, In
<1>2. PICK m \in Names : m = Top(t).name
  BY <1>1, TopFacts DEF IInv
<1>3. Top(t).do \in Asking /\ Top(t).do \notin HasLock /\ Free(t, m)
  BY <1>1, <1>2 DEF Asking, HasLock, Acquire
<1>4. CASE modules[m] = None
  <2>1. PICK a : a = Frame("find", m, None)
    OBVIOUS
  <2>2. a \in FrameType /\ a.do = "find" /\ a.name = m
    BY <2>1, FrameParts DEF OfImportlib, HasLock
  <2>3. Becomes(t, <<a>>)
    BY <1>2, <1>4, <2>1 DEF Acquire
  <2>4. Importings!Lock(t, m)
    BY <1>1, <1>2, <1>3, <1>4, <2>2, <2>3, LockTaken
  <2> QED
    BY <2>4 DEF ImportStep
<1>5. CASE modules[m] # None
  <2>1. PICK a : a = Frame("ensure", m, modules[m])
    OBVIOUS
  <2>2. a \in FrameType /\ a.do \in Asking /\ a.name = m
    BY <1>5, <2>1, EnsureFrame DEF Asking
  <2>3. Becomes(t, <<a>>)
    BY <1>2, <1>5, <2>1 DEF Acquire
  <2>4. UNCHANGED Importings!vars
    BY <1>1, <1>2, <1>3, <2>2, <2>3, AsksFor
  <2> QED
    BY <2>4 DEF ImportStep
<1> QED
  BY <1>4, <1>5

LEMMA WaitGoes ==
    ASSUME IInv, NEW t \in Threads, AcquireDeadlock(t) \/ EnsureReady(t) \/ EnsureDeadlock(t)
    PROVE  ImportStep(t)
<1>1. stack[t] # <<>> /\ Top(t).do \in Asking /\ SameModules
  BY DEF AcquireDeadlock, EnsureReady, EnsureDeadlock, In, Asking, SameModules, facts
<1>2. PICK m \in Names : m = Top(t).name
  BY <1>1, TopFacts DEF IInv
<1>3. Free(t, m) \/ Deadlock(t)
  BY <1>2 DEF AcquireDeadlock, EnsureReady, EnsureDeadlock
<1>4. PICK r : Returns(t, r) /\ (r = Error \/ r \in {m} \X Copies) /\ r \in Results
  <2>1. CASE AcquireDeadlock(t)
    BY <2>1 DEF AcquireDeadlock, Results
  <2>2. CASE EnsureReady(t) \/ EnsureDeadlock(t)
    <3>1. Returns(t, Top(t).obj) /\ Top(t).do = "ensure"
      BY <2>2 DEF EnsureReady, EnsureDeadlock, In
    <3>2. Top(t).obj \in {m} \X Copies
      BY <1>1, <1>2, <3>1, TopInv DEF FrameInv
    <3> QED
      BY <3>1, <3>2, ObjectResult
  <2> QED
    BY <2>1, <2>2
<1>5. Importings!Wake(t, m)
  BY <1>1, <1>2, <1>3, <1>4, WaitEnds
<1> QED
  BY <1>5 DEF ImportStep

LEMMA FindGoes ==
    ASSUME IInv, NEW t \in Threads, Find(t)
    PROVE  Importings!Continue(t)
<1>1. stack[t] # <<>> /\ Top(t).do = "find" /\ SameModules
  BY UnchangedSame DEF Find, In
<1>2. PICK m \in Names : m = Top(t).name
  BY <1>1, TopFacts DEF IInv
<1>3. PICK a, b : a = Frame("create", m, None) /\ b = Frame("found", m, None)
  OBVIOUS
<1>4. /\ a \in FrameType /\ a.do = "create" /\ a.name = m
      /\ b \in FrameType /\ b.do = "found" /\ b.name = m
  <2>1. {"create", "found"} \subseteq InC \cup OfImportlib \cup {"body"}
    BY DEF OfImportlib, HasLock
  <2>2. a \in FrameType /\ a.do = "create" /\ a.name = m
    BY <1>3, <2>1, FrameParts
  <2>3. b \in FrameType /\ b.do = "found" /\ b.name = m
    BY <1>3, <2>1, FrameParts
  <2> QED
    BY <2>2, <2>3
<1>5. /\ Top(t).do \notin Asking /\ a.do \notin Asking /\ b.do \notin Asking
      /\ KeepsLock(Top(t), a) /\ KeepsLock(Top(t), b)
  BY <1>1, <1>2, <1>4 DEF Asking, HasLock, KeepsLock
<1>6. CASE Becomes(t, <<a>>) \/ Becomes(t, <<b>>)
  BY <1>1, <1>4, <1>5, <1>6, ContinuesOne
<1>7. CASE Parent[m] # None /\ Becomes(t, Append(<<b>>, Frame("import", Parent[m], None)))
  <2>1. PICK q \in Names : q = Parent[m]
    BY <1>7, LoaderAssumption
  <2>2. PICK c : c = Frame("import", q, None)
    OBVIOUS
  <2>3. c \in FrameType /\ c.do = "import"
    BY <2>2, PlainFrame
  <2>4. Becomes(t, <<b, c>>) /\ c.do \notin Asking \cup HasLock
    BY <1>4, <1>7, <2>1, <2>2, <2>3, OneOrTwo DEF Asking, HasLock
  <2> QED
    BY <1>1, <1>4, <1>5, <2>3, <2>4, ContinuesTwo
<1>8. \/ Becomes(t, <<a>>) \/ Becomes(t, <<b>>)
      \/ Parent[m] # None /\ Becomes(t, Append(<<b>>, Frame("import", Parent[m], None)))
  BY <1>2, <1>3 DEF Find
<1> QED
  BY <1>6, <1>7, <1>8

\* No execution is under way while its lock is held for something else by the call on top.
LEMMA NotLoading ==
    ASSUME IInv, NEW t \in Threads, stack[t] # <<>>, Top(t).do \in {"find", "found", "create"},
           NEW m \in Locked, m = Top(t).name
    PROVE  modules[m] \in ended \cup {None}
<1> SUFFICES ASSUME modules[m] \notin ended \cup {None} PROVE FALSE
  OBVIOUS
<1>1. PICK u \in Threads : Executing(stack[u], modules[m])
  BY DEF IInv, ModuleInv, Known
<1>2. PICK i \in 1..Len(stack[u]) : stack[u][i].do = "exec" /\ stack[u][i].obj = modules[m]
  BY <1>1 DEF Executing
<1>3. modules[m] \in {m} \X Copies
  BY ModuleFacts DEF IInv, Locked
<1>4. stack[u][i].name = m
  BY <1>2, <1>3, ExecFacts
<1>5. /\ Len(stack[t]) \in 1..Len(stack[t]) /\ Top(t) = stack[t][Len(stack[t])]
      /\ Top(t).do \in HasLock
  BY TopFacts DEF IInv, HasLock
<1>6. t = u /\ Len(stack[t]) <= i
  BY <1>2, <1>4, <1>5, LockNests
<1>7. i = Len(stack[t])
  <2>1. PICK n \in Nat : n = Len(stack[t])
    BY LengthOf DEF IInv
  <2> QED
    BY <1>6, <2>1
<1> QED
  BY <1>2, <1>5, <1>6, <1>7

LEMMA FoundGoes ==
    ASSUME IInv, NEW t \in Threads, Found(t)
    PROVE  ImportStep(t)
<1>1. stack[t] # <<>> /\ Top(t).do = "found" /\ SameModules
  BY UnchangedSame DEF Found, In
<1>2. PICK m \in Names : m = Top(t).name
  BY <1>1, TopFacts DEF IInv
<1>3. Top(t).do \notin Asking /\ Top(t).do \in HasLock
  BY <1>1 DEF Asking, HasLock
<1>4. m \in Locked => modules[m] \in ended \cup {None}
  BY <1>1, <1>2, NotLoading
<1>5. CASE Returns(t, Error)
  <2>1. Importings!Continue(t) \/ Importings!Leave(t, m)
    BY <1>1, <1>2, <1>3, <1>4, <1>5, NoModuleIsError, LeavesReturn DEF Results
  <2> QED
    BY <2>1 DEF ImportStep
<1>6. CASE Returns(t, modules[m]) /\ modules[m] # None
  <2>1. modules[m] \in Results
    BY ModuleFacts DEF IInv
  <2>2. ASSUME NEW x \in Locked, modules[x] = modules[m] PROVE MayHave(t, x)
    <3>1. x = m
      BY <1>6, <2>2, ModuleFacts DEF IInv, Locked
    <3> QED
      BY <1>4, <1>6, <3>1 DEF MayHave
  <2>3. Importings!Continue(t) \/ Importings!Leave(t, m)
    BY <1>1, <1>2, <1>3, <1>4, <1>6, <2>1, <2>2, LeavesReturn
  <2> QED
    BY <2>3 DEF ImportStep
<1>7. CASE Becomes(t, <<Frame("create", m, None)>>)
  <2>1. PICK a : a = Frame("create", m, None)
    OBVIOUS
  <2>2. a \in FrameType /\ a.do = "create" /\ a.name = m
    BY <2>1, FrameParts DEF OfImportlib, HasLock
  <2>3. a.do \notin Asking /\ KeepsLock(Top(t), a)
    BY <1>2, <1>3, <2>2 DEF Asking, HasLock, KeepsLock
  <2>4. Importings!Continue(t)
    BY <1>1, <1>3, <1>7, <2>1, <2>2, <2>3, ContinuesOne
  <2> QED
    BY <2>4 DEF ImportStep
<1>8. \/ Returns(t, Error)
      \/ Returns(t, modules[m]) /\ modules[m] # None
      \/ Becomes(t, <<Frame("create", m, None)>>)
  BY <1>2 DEF Found
<1> QED
  BY <1>5, <1>6, <1>7, <1>8

-----------------------------------------------------------------------------
(***************************************************************************)
(* The steps that do something to the modules are steps of Importing.      *)
(***************************************************************************)
LEMMA ImportEmbeddedGoes ==
    ASSUME IInv, Endless, NEW t \in Threads, ImportEmbedded(t)
    PROVE  Importings!Continue(t)
<1>1. stack[t] # <<>> /\ Top(t).do = "embedded" /\ modules' = modules
  BY DEF ImportEmbedded, In
<1>2. PICK m \in Names : m = Top(t).name /\ m \in Embedded
  <2>1. FrameInv(Top(t)) /\ Top(t).name \in Names
    BY <1>1, TopInv, TopFacts DEF IInv
  <2> QED
    BY <1>1, <2>1 DEF FrameInv
<1>3. Top(t).do \notin Asking \cup HasLock
  BY <1>1 DEF Asking, HasLock
<1>4. CASE modules[m] # None /\ Returns(t, modules[m]) /\ UNCHANGED facts
  <2>1. modules[m] \in Results /\ \A x \in Locked : modules[m] # modules[x]
    BY <1>2, <1>4, ModuleFacts DEF IInv, Locked
  <2>2. SameModules
    BY <1>1, <1>4, UnchangedSame
  <2> QED
    BY <1>1, <1>3, <1>4, <2>1, <2>2, ContinuesReturn
<1>5. CASE modules[m] = None /\ Becomes(t, <<Frame("execute", m, New(m))>>) /\ Forget(New(m))
  <2>1. PICK o : o = New(m)
    OBVIOUS
  <2>2. o \in Objects /\ \A x \in Names : modules[x] # o
    BY <2>1, NewObject
  <2>3. PICK a : a = Frame("execute", m, o)
    OBVIOUS
  <2>4. a \in FrameType /\ a.do = "execute"
    BY <2>2, <2>3, FrameParts DEF InC
  <2>5. SameModules
    <3>1. ended' = ended \ {o}
      BY <1>5, <2>1 DEF Forget
    <3> QED
      BY <1>1, <2>2, <3>1 DEF SameModules, Locked
  <2>6. a.do \notin Asking \cup HasLock /\ KeepsLock(Top(t), a)
    BY <1>3, <2>4 DEF Asking, HasLock, KeepsLock
  <2>7. Becomes(t, <<a>>)
    BY <1>5, <2>1, <2>3
  <2> QED
    BY <1>1, <1>3, <2>4, <2>5, <2>6, <2>7, ContinuesOne
<1> QED
  BY <1>2, <1>4, <1>5 DEF ImportEmbedded

LEMMA LoadGoes ==
    ASSUME IInv, NEW t \in Threads, Load(t)
    PROVE  Importings!Continue(t)
<1>1. stack[t] # <<>> /\ Top(t).do = "load" /\ ended' = ended
  BY DEF Load, In
<1>2. PICK n \in Nat \ {0} : n = Len(stack[t])
  BY <1>1, TopFacts DEF IInv
<1>3. PICK f \in FrameType : f = Top(t) /\ f = stack[t][n] /\ n \in 1..n
  BY <1>1, <1>2, TopFacts DEF IInv
<1>4. PICK m \in Names, o \in {f.obj} : m = f.name /\ o = f.obj
  BY <1>3 DEF FrameType
<1>5. modules' = [modules EXCEPT ![m] = o]
      /\ Becomes(t, <<Frame("loaded", m, o), Frame("body", m, o)>>)
  BY <1>3, <1>4 DEF Load
<1>6. m \in Locked => modules[m] = o
  BY <1>1, <1>2, <1>3, <1>4, StageHasLock DEF Stages
<1>7. SameModules
  <2>1. modules \in [Names -> Objects \cup {None}]
    BY TypeParts DEF IInv, DataType
  <2> QED
    BY <1>1, <1>5, <1>6, <2>1 DEF SameModules, Locked
<1>8. PICK a, b : a = Frame("loaded", m, o) /\ b = Frame("body", m, o)
  OBVIOUS
<1>9. a \in FrameType /\ a.do = "loaded" /\ b \in FrameType /\ b.do = "body"
  <2>1. o \in Objects \cup Names \cup {None}
    BY <1>3, <1>4 DEF FrameType
  <2> QED
    BY <1>8, <2>1, FrameParts DEF InC
<1>10. Top(t).do \notin Asking /\ KeepsLock(Top(t), a) /\ b.do \notin Asking \cup HasLock
  BY <1>1, <1>9 DEF Asking, HasLock, KeepsLock
<1> QED
  BY <1>1, <1>5, <1>7, <1>8, <1>9, <1>10, ContinuesTwo

\* The thread that has half of a module in sys.modules is the one that executes it.
LEMMA LoadingStage ==
    ASSUME IInv, NEW t \in Threads, stack[t] # <<>>, Top(t).do \in Stages,
           NEW m \in Locked, m = Top(t).name
    PROVE  modules[m] = Top(t).obj /\ t \in Holders[m] /\ Top(t).obj \in {m} \X Copies
<1>1. PICK n \in Nat \ {0} : n = Len(stack[t]) /\ n \in 1..n /\ Top(t) = stack[t][n]
  BY TopFacts DEF IInv
<1>2. /\ n - 1 \in 1..n /\ stack[t][n - 1].do = "exec" /\ stack[t][n - 1].name = m
      /\ stack[t][n - 1].obj = Top(t).obj /\ modules[m] = Top(t).obj
  BY <1>1, StageHasLock
<1>3. Top(t).obj \in {m} \X Copies
  BY TopInv DEF FrameInv
<1>4. Executing(stack[t], Top(t).obj)
  BY <1>1, <1>2 DEF Executing
<1> QED
  BY <1>2, <1>3, <1>4, HolderOfExecution

\* The step only changes what is said of one module.
LEMMA StateChanges ==
    ASSUME NEW m \in Locked,
           \A x \in Locked \ {m} :
               /\ modules'[x] = modules[x]
               /\ modules[x] # None => (modules[x] \in ended' <=> modules[x] \in ended)
    PROVE  LoadState' = [LoadState EXCEPT ![m] =
               IF modules'[m] = None THEN "absent" ELSE IF modules'[m] \in ended' THEN "ready" ELSE "loading"]
  BY DEF LoadState, Locked

LEMMA SameWaits ==
    ASSUME IInv, NEW t \in Threads, NEW p, NEW new, NEW r, Steps(t, p, new, r),
           stack[t] # <<>>, Top(t).do \notin Asking, WaitsIn(new) = None
    PROVE  Waits[t] = None /\ Waits' = Waits
<1>1. Waits[t] = None
  BY WaitsOf
<1>2. Waits = [u \in Threads |-> WaitsIn(stack[u])]
  BY TypeParts, HoldersAre DEF IInv
<1>3. Waits' = [Waits EXCEPT ![t] = WaitsIn(new)]
  BY WaitsAfter
<1> QED
  BY <1>1, <1>2, <1>3

LEMMA Fails ==
    ASSUME IInv, NEW t \in Threads, stack[t] # <<>>, Returns(t, Error), Top(t).do \notin Asking,
           NEW m \in Locked, modules[m] \notin ended \cup {None}, t \in Holders[m],
           modules' = [modules EXCEPT ![m] = None], ended' = ended,
           Top(t).do \in HasLock => Top(t).name = m
    PROVE  Importings!Fail(t, m)
<1>1. PICK p : p = Len(stack[t]) - 1 /\ p # Len(stack[t])
  BY NotFull
<1>2. Steps(t, p, <<>>, Error)
  BY <1>1, ReturnsSteps DEF Results
<1>3. Waits' = Waits
  BY <1>2, OfNone, SameWaits
<1>4. /\ \A x \in Names \ {m} : modules'[x] = modules[x]
      /\ modules'[m] = None /\ \A x \in Locked : modules'[x] # Error
  <2>1. modules \in [Names -> Objects \cup {None}] /\ m \in Names
    BY TypeParts DEF IInv, DataType, Locked
  <2> QED
    BY <2>1, NoModuleIsError, LoaderAssumption DEF Locked
<1>5. LoadState[m] = "loading" /\ LoadState' = [LoadState EXCEPT ![m] = "absent"]
  BY <1>4, StateOf, StateChanges DEF Locked
<1>6. Got' = [u \in Threads |-> IF u = t THEN {} ELSE Got[u] \ {m}]
  <2>1. Got' = [u \in Threads |->
                   {x \in Locked : /\ (IF u = t THEN WaitsIn(<<>>) ELSE Waits[u]) = None
                                   /\ (IF u = t THEN Error ELSE result[u]) # None
                                   /\ modules'[x] = (IF u = t THEN Error ELSE result[u])}]
    BY <1>2, GotAfter
  <2>2. ASSUME NEW u \in Threads, u # t PROVE Got'[u] = Got[u] \ {m}
    <3>1. Got[u] = {x \in Locked : Waits[u] = None /\ result[u] # None /\ modules[x] = result[u]}
      BY DEF Got, Locked
    <3>2. Got'[u] = {x \in Locked : Waits[u] = None /\ result[u] # None /\ modules'[x] = result[u]}
      BY <2>1, <2>2
    <3> QED
      BY <1>4, <3>1, <3>2 DEF Locked
  <2>3. Got'[t] = {}
    BY <1>4, <2>1
  <2> QED
    BY <2>1, <2>2, <2>3
<1>7. Holders' \in {Holders, [Holders EXCEPT ![m] = {}]}
  <2>1. CASE Top(t).do \in HasLock
    BY <1>2, <2>1, LockReleased DEF Locked
  <2>2. CASE Top(t).do \notin HasLock
    <3>1. SameLocks(t, p, <<>>)
      BY <2>2, OfNone DEF SameLocks
    <3> QED
      BY <1>2, <3>1, SameHolders
  <2> QED
    BY <2>1, <2>2
<1> QED
  BY <1>3, <1>5, <1>6, <1>7 DEF Importings!Fail

LEMMA BodyRaisesGoes ==
    ASSUME IInv, NEW t \in Threads, BodyRaises(t)
    PROVE  Importings!Continue(t)
<1>1. stack[t] # <<>> /\ Top(t).do = "body" /\ Returns(t, Error) /\ SameModules
  BY UnchangedSame DEF BodyRaises, In
<1>2. Top(t).do \notin Asking \cup HasLock
  BY <1>1 DEF Asking, HasLock
<1> QED
  BY <1>1, <1>2, ErrorContinues

LEMMA BodyEndsGoes ==
    ASSUME IInv, NEW t \in Threads, BodyEnds(t)
    PROVE  ImportStep(t)
<1>1. stack[t] # <<>> /\ Top(t).do = "body" /\ Returns(t, Top(t).obj)
      /\ modules' = modules /\ ended' = ended \cup {Top(t).obj}
  BY DEF BodyEnds, In
<1>2. PICK n \in Nat \ {0} : n = Len(stack[t])
  BY <1>1, TopFacts DEF IInv
<1>3. PICK f \in FrameType : f = Top(t) /\ f = stack[t][n] /\ n \in 1..n
  BY <1>1, <1>2, TopFacts DEF IInv
<1>4. PICK m \in Names, o \in {f.obj} : m = f.name /\ o = f.obj
  BY <1>3 DEF FrameType
<1>5. o \in {m} \X Copies
  BY <1>1, <1>3, <1>4, TopInv DEF FrameInv
<1>6. o \in Results /\ o \notin {Error, None}
  BY <1>5, ObjectResult
<1>7. ASSUME NEW x \in Locked, modules[x] = o PROVE x = m
  BY <1>5, <1>7, ModuleFacts DEF IInv, Locked
<1>8. PICK k \in 1..n : /\ k # n /\ stack[t][k].do = "loaded" /\ stack[t][k].name = m
                        /\ m \in Locked => stack[t][k].obj = o
  <2>1. n # 1
    BY <1>1, <1>2, TopInv DEF StartsStack
  <2>2. n - 1 \in 1..n /\ n - 1 # n
    BY <2>1
  <2>3. Carries(stack[t][n - 1], f)
    BY <1>2, <1>3, <2>1, CallParts
  <2> QED
    BY <1>1, <1>3, <1>4, <2>2, <2>3 DEF Carries, SameRun
<1>9. Top(t).do \notin Asking \cup HasLock
  BY <1>1 DEF Asking, HasLock
<1>10. CASE m \notin Locked
  <2>1. SameModules
    BY <1>1, <1>3, <1>4, <1>7, <1>10 DEF SameModules
  <2>2. Importings!Continue(t)
    BY <1>1, <1>3, <1>4, <1>6, <1>7, <1>9, <1>10, <2>1, ContinuesReturn
  <2> QED
    BY <2>2 DEF ImportStep
<1>11. CASE m \in Locked
  <2>1. modules[m] = o /\ Executing(stack[t], o) /\ o \notin ended
    <3>1. /\ k - 1 \in 1..n /\ stack[t][k - 1].do = "exec" /\ stack[t][k - 1].obj = o
          /\ modules[m] = o
      BY <1>2, <1>8, <1>11, StageHasLock DEF Stages
    <3>2. CallInv(stack[t][k], FALSE, result[t], modules, initializing, ended)
      BY <1>2, <1>8, CallParts
    <3>3. o \notin ended
      BY <1>8, <1>11, <3>2 DEF CallInv, PhaseInv
    <3> QED
      BY <1>2, <3>1, <3>3 DEF Executing
  <2>2. t \in Holders[m] /\ LoadState[m] = "loading"
    BY <1>5, <1>6, <1>11, <2>1, HolderOfExecution, StateOf
  <2>3. LoadState' = [LoadState EXCEPT ![m] = "ready"]
    BY <1>1, <1>3, <1>4, <1>6, <1>7, <1>11, <2>1, StateChanges
  <2>4. PICK p : p = Len(stack[t]) - 1 /\ p # Len(stack[t])
    BY <1>1, NotFull
  <2>5. Steps(t, p, <<>>, o)
    BY <1>1, <1>3, <1>4, <1>6, <2>4, ReturnsSteps
  <2>6. Waits' = Waits /\ Holders' = Holders
    <3>1. SameLocks(t, p, <<>>)
      BY <1>9, OfNone DEF SameLocks
    <3> QED
      BY <1>1, <1>9, <2>5, <3>1, OfNone, SameWaits, SameHolders
  <2>7. Got' = [Got EXCEPT ![t] = Got'[t]] /\ Got'[t] \subseteq {m}
    BY <1>1, <1>7, <2>5, GotAfter
  <2>8. Importings!End(t, m)
    BY <2>2, <2>3, <2>6, <2>7 DEF Importings!End, Importings!Gets
  <2> QED
    BY <1>11, <2>8 DEF ImportStep, Locked
<1> QED
  BY <1>10, <1>11

LEMMA LoadFailsGoes ==
    ASSUME IInv, NEW t \in Threads, LoadFails(t)
    PROVE  ImportStep(t)
<1>1. /\ stack[t] # <<>> /\ Top(t).do = "loaded" /\ Failed(t) /\ Returns(t, Error)
      /\ ended' = ended
  BY DEF LoadFails, In, facts
<1>2. PICK f \in FrameType : f = Top(t)
  BY <1>1, TopFacts DEF IInv
<1>3. PICK m \in Names : m = f.name
  BY <1>2 DEF FrameType
<1>4. CallInv(f, TRUE, result[t], modules, initializing, ended)
  BY <1>1, <1>2, TopInv
<1>5. Top(t).do \notin Asking \cup HasLock
  BY <1>1 DEF Asking, HasLock
<1>6. CASE m \notin Bytecode
  <2>1. SameModules
    BY <1>1, <1>2, <1>3, <1>6 DEF LoadFails, SameModules
  <2>2. Importings!Continue(t)
    BY <1>1, <1>5, <2>1, ErrorContinues
  <2> QED
    BY <2>2 DEF ImportStep
<1>7. CASE m \in Bytecode
  <2>1. modules' = [modules EXCEPT ![m] = None]
    BY <1>2, <1>3, <1>7 DEF LoadFails
  <2>2. CASE m \notin Locked
    <3>1. SameModules
      <4>1. modules \in [Names -> Objects \cup {None}]
        BY TypeParts DEF IInv, DataType
      <4> QED
        BY <1>1, <2>1, <2>2, <4>1 DEF SameModules, Locked
    <3>2. Importings!Continue(t)
      BY <1>1, <1>5, <3>1, ErrorContinues
    <3> QED
      BY <3>2 DEF ImportStep
  <2>3. CASE m \in Locked
    <3>1. modules[m] = f.obj /\ t \in Holders[m] /\ f.obj \in {m} \X Copies
      BY <1>1, <1>2, <1>3, <2>3, LoadingStage DEF Stages
    <3>2. modules[m] \notin ended \cup {None}
      BY <1>1, <1>2, <1>3, <1>4, <2>3, <3>1, ObjectResult DEF CallInv, PhaseInv, Failed
    <3>3. Importings!Fail(t, m)
      BY <1>1, <1>5, <2>1, <2>3, <3>1, <3>2, Fails
    <3> QED
      BY <2>3, <3>3 DEF ImportStep, Locked
  <2> QED
    BY <2>2, <2>3
<1> QED
  BY <1>6, <1>7

LEMMA LoadEndsGoes ==
    ASSUME IInv, NEW t \in Threads, LoadEnds(t)
    PROVE  Importings!Continue(t)
<1>1. stack[t] # <<>> /\ Top(t).do = "loaded" /\ SameModules
  BY DEF LoadEnds, In, SameModules
<1>2. PICK m \in Names : m = Top(t).name
  BY <1>1, TopFacts DEF IInv
<1>3. Top(t).do \notin Asking \cup HasLock
  BY <1>1 DEF Asking, HasLock
<1>4. CASE Returns(t, Error)
  BY <1>1, <1>3, <1>4, ErrorContinues
<1>5. CASE Returns(t, None)
  <2>1. None \in Results
    BY DEF Results
  <2> QED
    BY <1>1, <1>3, <1>5, <2>1, ContinuesReturn
<1>6. CASE modules[m] # None /\ Becomes(t, <<Frame("post", m, modules[m])>>)
  <2>1. PICK a : a = Frame("post", m, modules[m])
    OBVIOUS
  <2>2. modules[m] \in Objects \cup {None}
    BY ModuleFacts DEF IInv
  <2>3. a \in FrameType /\ a.do = "post"
    BY <2>1, <2>2, FrameParts DEF InC
  <2>4. a.do \notin Asking /\ KeepsLock(Top(t), a)
    BY <1>3, <2>3 DEF Asking, HasLock, KeepsLock
  <2> QED
    BY <1>1, <1>3, <1>6, <2>1, <2>3, <2>4, ContinuesOne
<1>7. \/ Returns(t, Error) \/ Returns(t, None)
      \/ modules[m] # None /\ Becomes(t, <<Frame("post", m, modules[m])>>)
  BY <1>2 DEF LoadEnds
<1> QED
  BY <1>4, <1>5, <1>6, <1>7

LEMMA CreateGoes ==
    ASSUME IInv, Endless, NEW t \in Threads, Create(t)
    PROVE  ImportStep(t)
<1>1. stack[t] # <<>> /\ Top(t).do = "create"
  BY DEF Create, In
<1>2. PICK f \in FrameType : f = Top(t)
  BY <1>1, TopFacts DEF IInv
<1>3. PICK m \in Names, o \in {New(f.name)} : m = f.name
  BY <1>2 DEF FrameType
<1>4. /\ o \in {m} \X Copies /\ o \in Objects /\ o # None
      /\ \A x \in Names : modules[x] # o
      /\ \A u \in Threads : result[u] # o
  BY <1>3, NewObject
<1>5. /\ modules' = [modules EXCEPT ![m] = o] /\ ended' = ended \ {o}
      /\ Becomes(t, <<Frame("exec", m, o), Frame("execute", m, o)>>)
  BY <1>2, <1>3 DEF Create
<1>6. modules'[m] = o /\ \A x \in Names \ {m} : modules'[x] = modules[x]
  BY <1>5, TypeParts DEF IInv, DataType
<1>7. PICK a, b : a = Frame("exec", m, o) /\ b = Frame("execute", m, o)
  OBVIOUS
<1>8. a \in FrameType /\ a.do = "exec" /\ a.name = m /\ b \in FrameType /\ b.do = "execute"
  BY <1>4, <1>7, FrameParts DEF OfImportlib, HasLock, InC
<1>9. Top(t).do \notin Asking /\ KeepsLock(Top(t), a) /\ b.do \notin Asking \cup HasLock
  BY <1>1, <1>2, <1>3, <1>8 DEF Asking, HasLock, KeepsLock
<1>10. Becomes(t, <<a, b>>)
  BY <1>5, <1>7
<1>11. CASE m \notin Locked
  <2>1. SameModules
    BY <1>4, <1>5, <1>6, <1>11 DEF SameModules, Locked
  <2>2. Importings!Continue(t)
    BY <1>1, <1>8, <1>9, <1>10, <2>1, ContinuesTwo
  <2> QED
    BY <2>2 DEF ImportStep
<1>12. CASE m \in Locked
  <2>1. modules[m] = None
    <3>1. CallInv(f, TRUE, result[t], modules, initializing, ended)
      BY <1>1, <1>2, TopInv
    <3> QED
      BY <1>1, <1>2, <1>3, <1>12, <3>1 DEF CallInv, PhaseInv
  <2>2. LoadState[m] = "absent" /\ LoadState' = [LoadState EXCEPT ![m] = "loading"]
    <3>1. o \notin ended'
      BY <1>5
    <3>2. \A x \in Locked \ {m} :
              /\ modules'[x] = modules[x]
              /\ modules[x] # None => (modules[x] \in ended' <=> modules[x] \in ended)
      BY <1>4, <1>5, <1>6 DEF Locked
    <3> QED
      BY <1>4, <1>6, <1>12, <2>1, <3>1, <3>2, StateOf, StateChanges
  <2>3. PICK new \in Seq(FrameType) : new = <<a, b>>
    BY <1>8, OneOrTwo
  <2>4. PICK p : p = Len(stack[t]) - 1 /\ p # Len(stack[t])
    BY <1>1, NotFull
  <2>5. Steps(t, p, new, None)
    BY <1>1, <1>10, <2>3, <2>4, BecomesSteps
  <2>6. WaitsIn(new) = None /\ SameLocks(t, p, new)
    BY <1>9, <2>3, <2>4, OfTwo DEF SameLocks, KeepsLock
  <2>7. Waits' = Waits /\ Holders' = Holders
    BY <1>1, <1>9, <2>5, <2>6, SameWaits, SameHolders
  <2>8. t \in Holders[m]
    <3>1. HoldsIn(stack[t], m)
      BY <1>1, <1>2, <1>3, <2>4, <2>5, LocksAfter DEF HasLock
    <3> QED
      BY <3>1, HoldersAre, TypeParts DEF IInv
  <2>9. Got' = [Got EXCEPT ![t] = Got'[t]] /\ Got'[t] = {}
    <3>1. /\ Got' = [u \in Threads |->
                        {x \in Locked : /\ (IF u = t THEN WaitsIn(new) ELSE Waits[u]) = None
                                        /\ (IF u = t THEN None ELSE result[u]) # None
                                        /\ modules'[x] = (IF u = t THEN None ELSE result[u])}]
          /\ Got'[t] = {x \in Locked : WaitsIn(new) = None /\ None # None /\ modules'[x] = None}
      BY <2>5, GotAfter
    <3>2. ASSUME NEW u \in Threads, u # t PROVE Got'[u] = Got[u]
      <4>1. Got[u] = {x \in Locked : Waits[u] = None /\ result[u] # None /\ modules[x] = result[u]}
        BY DEF Got, Locked
      <4>2. Got'[u] = {x \in Locked : Waits[u] = None /\ result[u] # None /\ modules'[x] = result[u]}
        BY <3>1, <3>2
      <4>3. ASSUME NEW x \in Locked, result[u] # None
            PROVE  modules'[x] = result[u] <=> modules[x] = result[u]
        BY <1>4, <1>6, <2>1, <4>3 DEF Locked
      <4> QED
        BY <4>1, <4>2, <4>3
    <3>3. PICK y, z : y = Got /\ z = Got'
      OBVIOUS
    <3>4. y = [u \in Threads |-> y[u]]
      BY <3>3 DEF Got
    <3>5. z = [u \in Threads |-> z[u]]
      BY <3>1, <3>3
    <3>6. z = [y EXCEPT ![t] = z[t]]
      BY <3>2, <3>3, <3>4, <3>5, ChangedAt
    <3> QED
      BY <3>1, <3>3, <3>6
  <2>10. Importings!Start(t, m)
    BY <2>2, <2>7, <2>8, <2>9 DEF Importings!Start, Importings!Gets
  <2> QED
    BY <1>12, <2>10 DEF ImportStep, Locked
<1> QED
  BY <1>11, <1>12

LEMMA ExecFailsGoes ==
    ASSUME IInv, NEW t \in Threads, ExecFails(t)
    PROVE  ImportStep(t)
<1>1. stack[t] # <<>> /\ Top(t).do = "exec" /\ Failed(t) /\ Returns(t, Error) /\ ended' = ended
  BY DEF ExecFails, In
<1>2. PICK f \in FrameType : f = Top(t)
  BY <1>1, TopFacts DEF IInv
<1>3. PICK m \in Names : m = f.name
  BY <1>2 DEF FrameType
<1>4. FrameInv(f) /\ CallInv(f, TRUE, result[t], modules, initializing, ended) /\ f.do = "exec"
  BY <1>1, <1>2, TopInv
<1>5. f.obj \in {m} \X Copies /\ (m \in Locked => f.obj \notin ended /\ modules[m] \in {f.obj, None})
  BY <1>1, <1>3, <1>4 DEF CallInv, PhaseInv, Failed, FrameInv
<1>6. modules' = [modules EXCEPT ![m] = None] /\ modules \in [Names -> Objects \cup {None}]
  BY <1>2, <1>3, TypeParts DEF ExecFails, IInv, DataType
<1>7. Top(t).do \notin Asking /\ Top(t).do \in HasLock
  BY <1>1 DEF Asking, HasLock
<1>8. CASE m \in Locked => modules[m] = None
  <2>1. SameModules
    BY <1>1, <1>6, <1>8 DEF SameModules, Locked
  <2>2. Importings!Continue(t) \/ Importings!Leave(t, m)
    BY <1>1, <1>2, <1>3, <1>7, <1>8, <2>1, NoModuleIsError, LeavesReturn DEF Results
  <2> QED
    BY <2>2 DEF ImportStep
<1>9. CASE m \in Locked /\ modules[m] # None
  <2>1. modules[m] = f.obj /\ modules[m] \notin ended \cup {None}
    BY <1>5, <1>9
  <2>2. t \in Holders[m]
    <3>1. Len(stack[t]) \in 1..Len(stack[t]) /\ Top(t) = stack[t][Len(stack[t])]
      BY <1>1, TopFacts DEF IInv
    <3>2. Executing(stack[t], f.obj)
      BY <1>1, <1>2, <3>1 DEF Executing
    <3> QED
      BY <1>5, <1>9, <3>2, HolderOfExecution
  <2>3. Importings!Fail(t, m)
    BY <1>1, <1>2, <1>3, <1>6, <1>7, <1>9, <2>1, <2>2, Fails
  <2> QED
    BY <1>9, <2>3 DEF ImportStep, Locked
<1> QED
  BY <1>8, <1>9

LEMMA ExecEndsGoes ==
    ASSUME IInv, NEW t \in Threads, ExecEnds(t)
    PROVE  ImportStep(t)
<1>1. stack[t] # <<>> /\ Top(t).do = "exec" /\ ~Failed(t) /\ SameModules
  BY DEF ExecEnds, In, SameModules
<1>2. PICK f \in FrameType : f = Top(t)
  BY <1>1, TopFacts DEF IInv
<1>3. PICK m \in Names : m = f.name
  BY <1>2 DEF FrameType
<1>4. CallInv(f, TRUE, result[t], modules, initializing, ended) /\ f.do = "exec"
  BY <1>1, <1>2, TopInv
<1>5. m \in Locked => modules[m] \in ended
  BY <1>1, <1>3, <1>4 DEF CallInv, PhaseInv, Failed
<1>6. PICK r \in Results : Returns(t, r) /\ r \in {Error, modules[m]}
  <2>1. PICK lost \in BOOLEAN : Returns(t, IF lost THEN Error ELSE modules[m])
    BY <1>2, <1>3 DEF ExecEnds
  <2>2. modules[m] \in Results /\ Error \in Results
    BY ModuleFacts DEF IInv, Results
  <2> QED
    BY <2>1, <2>2
<1>7. ASSUME NEW x \in Locked, r # None, modules[x] = r PROVE MayHave(t, x)
  <2>1. x = m
    BY <1>6, <1>7, NoModuleIsError, ModuleFacts DEF IInv, Locked
  <2> QED
    BY <1>5, <2>1 DEF MayHave
<1>8. Top(t).do \in HasLock
  BY <1>1 DEF HasLock
<1>9. Importings!Continue(t) \/ Importings!Leave(t, m)
  BY <1>1, <1>2, <1>3, <1>5, <1>6, <1>7, <1>8, LeavesReturn
<1> QED
  BY <1>9 DEF ImportStep

LEMMA StepImports ==
    ASSUME IInv, Endless, NEW t \in Threads, Code(t) \/ Loader(t) \/ Importlib(t)
    PROVE  ImportStep(t)
<1>1. CASE Code(t)
  <2>1. \/ \E m \in Names : ImportStatement(t, m) \/ FixedImport(t, m)
        \/ BodyEnds(t) \/ BodyRaises(t)
    BY <1>1 DEF Code
  <2> QED
    BY <2>1, CodeContinues, BodyEndsGoes, BodyRaisesGoes DEF ImportStep
<1>2. CASE Loader(t)
  <2>1. \/ ImportEmbedded(t) \/ Load(t) \/ LoadFails(t) \/ LoadEnds(t)
        \/ ExecuteStarts(t) \/ PostStarts(t) \/ PostEnds(t)
        \/ FixedParent(t) \/ FixedSelf(t) \/ FixedParentFails(t) \/ FixedFails(t)
        \/ FixedImports(t) \/ FixedFront(t) \/ FixedValue(t)
    BY <1>2 DEF Loader
  <2>2. CASE ImportEmbedded(t) \/ Load(t) \/ LoadFails(t) \/ LoadEnds(t)
    BY <2>2, ImportEmbeddedGoes, LoadGoes, LoadFailsGoes, LoadEndsGoes DEF ImportStep
  <2>3. CASE ExecuteStarts(t) \/ PostStarts(t) \/ PostEnds(t)
    BY <2>3, ExecuteStartsContinues, PostContinues DEF ImportStep
  <2>4. CASE \/ FixedParent(t) \/ FixedSelf(t) \/ FixedParentFails(t) \/ FixedFails(t)
             \/ FixedImports(t) \/ FixedFront(t) \/ FixedValue(t)
    BY <2>4, FixedContinues DEF ImportStep
  <2> QED
    BY <2>1, <2>2, <2>3, <2>4
<1>3. CASE Importlib(t)
  <2>1. \/ ImportModuleLevel(t) \/ Acquire(t)
        \/ AcquireDeadlock(t) \/ EnsureReady(t) \/ EnsureDeadlock(t)
        \/ Find(t) \/ Found(t) \/ Create(t) \/ ExecFails(t) \/ ExecEnds(t)
    BY <1>3 DEF Importlib
  <2>2. CASE ImportModuleLevel(t) \/ Acquire(t) \/ AcquireDeadlock(t) \/ EnsureReady(t) \/ EnsureDeadlock(t)
    BY <2>2, ImportModuleLevelGoes, AcquireGoes, WaitGoes
  <2>3. CASE Find(t) \/ Found(t) \/ Create(t) \/ ExecFails(t) \/ ExecEnds(t)
    BY <2>3, FindGoes, FoundGoes, CreateGoes, ExecFailsGoes, ExecEndsGoes DEF ImportStep
  <2> QED
    BY <2>1, <2>2, <2>3
<1> QED
  BY <1>1, <1>2, <1>3

\* The loader, with importlib and what fixed imports and plugins do, implements Importing:
\* of every module that only importlib enters, one execution at a time under its lock, until
\* one has succeeded; what raised is gone; and nobody is given half a module but the thread
\* that executes it or one in a circle of threads that wait for each other.
THEOREM IsImportingHolds == Endless => (Spec => IsImporting)
<1> SUFFICES ASSUME Endless PROVE Spec => IsImporting
  OBVIOUS
<1>1. Init => Importings!Init
  <2> SUFFICES ASSUME Init PROVE Importings!Init
    OBVIOUS
  <2>1. stack = [t \in Threads |-> <<>>] /\ result = [t \in Threads |-> None]
        /\ modules = [m \in Names |-> None]
    BY DEF Init
  <2>2. stack \in [Threads -> Seq(FrameType)]
    BY <2>1, EmptySeq
  <2>3. Holders = [m \in Names |-> {}] /\ Waits = [t \in Threads |-> None]
    BY <2>1, <2>2, HoldersAre, OfNone
  <2>4. LoadState = [m \in Names \ Embedded |-> "absent"]
    BY <2>1 DEF LoadState
  <2>5. Got = [t \in Threads |-> {}]
    BY <2>1 DEF Got
  <2> QED
    BY <2>3, <2>4, <2>5 DEF Importings!Init
<1>2. IInv /\ [Next]_vars => [Importings!Next]_Importings!vars
  <2> SUFFICES ASSUME IInv, [Next]_vars PROVE [Importings!Next]_Importings!vars
    OBVIOUS
  <2>1. CASE Next
    <3>1. PICK t \in Threads : Code(t) \/ Loader(t) \/ Importlib(t)
      BY <2>1 DEF Next
    <3>2. ImportStep(t)
      BY <3>1, StepImports
    <3> QED
      BY <3>2 DEF ImportStep, Importings!Next
  <2>2. CASE UNCHANGED vars
    <3>1. modules' = modules /\ ended' = ended /\ stack' = stack /\ result' = result
      BY <2>2 DEF vars, facts
    <3>2. LoadState' = LoadState /\ Waits' = Waits
      BY <3>1 DEF LoadState, Waits, Top
    <3>3. Holders' = Holders
      BY <3>1 DEF Holders, Holder, Holds, Frames
    <3>4. Got' = Got
      BY <3>1, <3>2 DEF Got
    <3> QED
      BY <3>2, <3>3, <3>4 DEF Importings!vars
  <2> QED
    BY <2>1, <2>2
<1>3. Spec => []IInv
  BY IInvHolds
<1> QED
  BY <1>1, <1>2, <1>3, PTL DEF Spec, IsImporting, Importings!Spec

=============================================================================
