------------------------ MODULE CompiledAsyncgenProofs ------------------------
(***************************************************************************)
(* Theorems about coroutines, async generators and their operations, for   *)
(* any number of each.                                                     *)
(***************************************************************************)
EXTENDS CompiledAsyncgen, FiniteSetTheorems, SequenceTheorems, WellFoundedInduction, TLAPS

\* The functions in which a coroutine or async generator is what is operated on.
Waiting == {"delegate", "throwing", "closing"}
Active == {"send", "throw", "body"} \cup Waiting
Closers == {"close", "closed", "op_close", "op_closing"}

\* Those of the operations, before and while they use the async generator.
OpCalled == {"op_send", "op_throw", "op_throw2"}
OpWaiting == {"op_sending", "op_starting", "op_resending", "op_throwing"}
OpSent == {"op_send", "op_sending", "op_starting", "op_resending"}

Functions == Active \cup Closers \cup OpCalled \cup OpWaiting \cup {"future"}

\* What an exception argument is: none, GeneratorExit or another one.
Excs == {"null", "exit", "error"}

Awaitables == (Coroutines \ Tasks) \cup Ops \cup {Future}

\* The arguments that C functions are called with.
FrameOK(c) ==
    /\ c.do \in Active => c.obj \in Runners
    /\ c.do \in {"close", "closed"} => c.obj \in Coroutines
    /\ c.do \in OpCalled \cup OpWaiting \cup {"op_close", "op_closing"} => c.obj \in Ops
    /\ c.do = "future" => c.obj = Future
    /\ c.do # "future" => c.exc \in Excs
    /\ c.do \in {"throw", "throwing", "closing", "op_throw", "op_throw2"} => c.exc # "null"
    /\ c.do \in Waiting => c.to \in Awaitables
    /\ c.do \in OpWaiting => c.to \in Asyncgens

Frame == {c \in [do : Functions, obj : Runners \cup Ops \cup {Future}, exc : Excs \cup {"close"},
                 to : Runners \cup Ops \cup {Future, None}, closing : BOOLEAN] : FrameOK(c)}

(***************************************************************************)
(* What a function that waits has called: each waits for another object,   *)
(* or for the same one when it closes it.                                  *)
(***************************************************************************)
Above(c, a) ==
    \/ /\ c.do = "delegate" /\ a.obj = c.to
       /\ a.do \in Closers => c.exc = "exit"
    \/ /\ c.do = "throwing" /\ a.obj = c.to /\ a.do \notin Closers \cup OpSent
    \/ /\ c.do = "closing" /\ a.obj = c.to
       /\ a.do \in Closers \/ (a.do = "future" /\ a.exc = "close")
    \/ c.do = "closed" /\ a.obj = c.obj /\ a.do \in Active
    \/ c.do = "op_closing" /\ a.obj = c.obj /\ a.do \in {"op_throw", "op_throwing"}
    \/ c.do \in OpWaiting /\ a.obj = c.to

StackInv ==
    /\ calls \in Seq(Frame)
    /\ calls # <<>> => calls[1].obj \in Tasks \cup Ops
    /\ \A i \in 1..(Len(calls) - 1) : Above(calls[i], calls[i + 1])

ObjectType ==
    /\ status \in [Runners -> {"Unused", "Running", "Finished"}]
    /\ running \in [Runners -> BOOLEAN]
    /\ yieldFrom \in [Runners -> Awaitables \cup {None}]
    /\ awaiting \in [Coroutines -> BOOLEAN]
    /\ awaits \in [Runners -> Awaitables \cup {None}]

LockType ==
    /\ runningAsync \in [Asyncgens -> BOOLEAN] /\ genClosed \in [Asyncgens -> BOOLEAN]
    /\ op \in [Ops -> [kind : Kinds, gen : Asyncgens, state : {"INIT", "ITER", "CLOSED"}]]
    /\ over \subseteq Ops /\ ignored \subseteq Asyncgens

ResultType ==
    /\ result \in Results
    /\ result = "value" => OpWaits
    /\ In("closing") => result \in {"return", "error"}

TypeInv == ObjectType /\ LockType /\ StackInv /\ ResultType

-----------------------------------------------------------------------------
(***************************************************************************)
(* The stack.                                                              *)
(***************************************************************************)
LEMMA StackFacts ==
    ASSUME calls \in Seq(Frame), calls # <<>>
    PROVE  /\ Len(calls) \in Nat \ {0} /\ Top = calls[Len(calls)] /\ Top \in Frame
           /\ Below \in Seq(Frame) /\ Len(Below) = Len(calls) - 1
           /\ \A i \in 1..(Len(calls) - 1) : Below[i] = calls[i]
<1>1. Len(calls) \in Nat \ {0}
  BY EmptySeq, LenProperties
<1>2. \A i \in 1..Len(calls) : calls[i] \in Frame
  BY ElementOfSeq
<1>3. \A i \in 1..(Len(calls) - 1) : calls[1 + i - 1] = calls[i]
  OBVIOUS
<1>4. /\ Below \in Seq(Frame) /\ Len(Below) = Len(calls) - 1
      /\ \A i \in 1..(Len(calls) - 1) : Below[i] = calls[i]
  <2>1. PICK m \in Int : m = Len(calls) - 1
    BY <1>1
  <2>2. 1 \in Int /\ m - 1 + 1 = m /\ (IF 1 <= m THEN m ELSE 0) = m /\ \A i \in 1..m : calls[i] \in Frame
    BY <1>1, <1>2, <2>1
  <2>3. Below = SubSeq(calls, 1, m)
    BY <2>1 DEF Below
  <2> HIDE DEF Below
  <2>4. /\ Below \in Seq(Frame) /\ Len(Below) = IF 1 <= m THEN m - 1 + 1 ELSE 0
        /\ \A i \in 1..(m - 1 + 1) : Below[i] = calls[1 + i - 1]
    BY <2>2, <2>3, SubSeqProperties
  <2> QED
    BY <1>3, <2>1, <2>2, <2>4
<1>5. calls[Len(calls)] \in Frame
  BY <1>1, <1>2
<1> QED
  BY <1>1, <1>4, <1>5 DEF Top

\* A step leaves all of the stack but its top.
Kept == calls' \in Seq(Frame) /\ \A i \in 1..(Len(calls) - 1) : calls'[i] = calls[i]

LEMMA Becomes ==
    ASSUME calls \in Seq(Frame), calls # <<>>, NEW new \in Seq(Frame), calls' = Below \o new
    PROVE  /\ Kept /\ Len(calls') = Len(calls) - 1 + Len(new)
           /\ \A i \in 1..Len(new) : calls'[Len(calls) - 1 + i] = new[i]
<1>1. /\ Below \in Seq(Frame) /\ Len(Below) = Len(calls) - 1
      /\ \A i \in 1..(Len(calls) - 1) : Below[i] = calls[i]
      /\ Len(calls) \in Nat \ {0}
  BY StackFacts
<1>2. /\ calls' \in Seq(Frame) /\ Len(calls') = Len(Below) + Len(new) /\ Len(new) \in Nat
      /\ \A i \in 1..(Len(Below) + Len(new)) :
             calls'[i] = IF i <= Len(Below) THEN Below[i] ELSE new[i - Len(Below)]
  BY <1>1, ConcatProperties, LenProperties
<1>3. PICK l \in Nat \ {0}, k \in Nat, m \in Nat : l = Len(calls) /\ k = Len(Below) /\ m = Len(new)
  BY <1>1, <1>2
<1> HIDE DEF Frame, Below
<1>4. k = l - 1 /\ \A i \in 1..(k + m) : calls'[i] = IF i <= k THEN Below[i] ELSE new[i - k]
  BY <1>1, <1>2, <1>3
<1>5. ASSUME NEW i \in 1..(l - 1) PROVE calls'[i] = calls[i]
  <2>1. i \in 1..(k + m) /\ i <= k
    BY <1>3, <1>4
  <2> QED
    BY <1>1, <1>3, <1>4, <2>1
<1>6. ASSUME NEW i \in 1..m PROVE calls'[l - 1 + i] = new[i]
  <2>1. k + i \in 1..(k + m) /\ ~(k + i <= k) /\ (k + i) - k = i /\ l - 1 + i = k + i
    BY <1>3, <1>4
  <2> QED
    BY <1>4, <2>1
<1> QED
  BY <1>1, <1>2, <1>3, <1>5, <1>6 DEF Kept

LEMMA GoesOne ==
    ASSUME calls \in Seq(Frame), calls # <<>>, NEW a \in Frame, Goes(<<a>>)
    PROVE  Kept /\ result' = "null" /\ Len(calls') = Len(calls) /\ calls'[Len(calls)] = a
<1>1. <<a>> \in Seq(Frame) /\ Len(<<a>>) = 1 /\ <<a>>[1] = a
  OBVIOUS
<1>2. Len(calls) \in Nat
  BY StackFacts
<1> HIDE DEF Frame
<1>3. Kept /\ Len(calls') = Len(calls) - 1 + 1 /\ \A i \in 1..1 : calls'[Len(calls) - 1 + i] = <<a>>[i]
  BY <1>1, Becomes DEF Goes
<1>4. calls'[Len(calls) - 1 + 1] = a
  BY <1>1, <1>3
<1> QED
  BY <1>2, <1>3, <1>4 DEF Goes

LEMMA GoesTwo ==
    ASSUME calls \in Seq(Frame), calls # <<>>, NEW a \in Frame, NEW b \in Frame, Goes(<<a, b>>)
    PROVE  /\ Kept /\ result' = "null" /\ Len(calls') = Len(calls) + 1
           /\ calls'[Len(calls)] = a /\ calls'[Len(calls) + 1] = b
<1>1. <<a, b>> \in Seq(Frame) /\ Len(<<a, b>>) = 2 /\ <<a, b>>[1] = a /\ <<a, b>>[2] = b
  OBVIOUS
<1>2. Len(calls) \in Nat
  BY StackFacts
<1> HIDE DEF Frame
<1>3. Kept /\ Len(calls') = Len(calls) - 1 + 2 /\ \A i \in 1..2 : calls'[Len(calls) - 1 + i] = <<a, b>>[i]
  BY <1>1, Becomes DEF Goes
<1>4. calls'[Len(calls) - 1 + 1] = a /\ calls'[Len(calls) - 1 + 2] = b
  BY <1>1, <1>3
<1> QED
  BY <1>2, <1>3, <1>4 DEF Goes

LEMMA Pops ==
    ASSUME calls \in Seq(Frame), calls # <<>>, NEW r, Returns(r)
    PROVE  /\ Kept /\ Len(calls') = Len(calls) - 1
           /\ result' = IF Len(calls) = 1 THEN "null" ELSE r
           /\ over' = IF Len(calls) = 1 /\ Top.obj \in Ops /\ r # "next" THEN over \cup {Top.obj} ELSE over
<1>1. /\ Below \in Seq(Frame) /\ Len(Below) = Len(calls) - 1
      /\ \A i \in 1..(Len(calls) - 1) : Below[i] = calls[i]
      /\ Len(calls) \in Nat \ {0}
  BY StackFacts
<1>2. Below = <<>> <=> Len(calls) = 1
  BY <1>1, EmptySeq
<1> HIDE DEF Frame, Below
<1> QED
  BY <1>1, <1>2 DEF Returns, Kept

-----------------------------------------------------------------------------
(***************************************************************************)
(* Types.  The stack is part of them: only it says whose results a         *)
(* function gets.                                                          *)
(***************************************************************************)
LEMMA CallFacts ==
    ASSUME TypeInv, NEW i \in 1..Len(calls)
    PROVE  calls[i] \in Frame /\ FrameOK(calls[i])
<1>1. calls \in Seq(Frame)
  BY DEF TypeInv, StackInv
<1>2. calls[i] \in Frame
  BY <1>1, ElementOfSeq
<1> QED
  BY <1>2 DEF Frame

LEMMA TopFacts ==
    ASSUME TypeInv, calls # <<>>
    PROVE  /\ calls \in Seq(Frame) /\ Len(calls) \in Nat \ {0}
           /\ Top = calls[Len(calls)] /\ Top \in Frame /\ FrameOK(Top)
           /\ Len(calls) = 1 => Top.obj \in Tasks \cup Ops
           /\ Len(calls) # 1 => /\ Len(calls) - 1 \in 1..(Len(calls) - 1)
                               /\ Above(calls[Len(calls) - 1], Top)
<1>1. calls \in Seq(Frame)
  BY DEF TypeInv, StackInv
<1>2. Len(calls) \in Nat \ {0} /\ Top = calls[Len(calls)] /\ Top \in Frame
  BY <1>1, StackFacts
<1>3. FrameOK(Top)
  BY <1>2 DEF Frame
<1>4. Len(calls) = 1 => Top.obj \in Tasks \cup Ops
  BY <1>2 DEF TypeInv, StackInv
<1>5. ASSUME Len(calls) # 1 PROVE /\ Len(calls) - 1 \in 1..(Len(calls) - 1)
                                  /\ Above(calls[Len(calls) - 1], Top)
  <2>3. PICK n \in Nat \ {0} : n = Len(calls)
    BY <1>2
  <2>4. n - 1 \in 1..(n - 1) /\ (n - 1) + 1 = n
    BY <1>5, <2>3
  <2>1. Len(calls) - 1 \in 1..(Len(calls) - 1) /\ (Len(calls) - 1) + 1 = Len(calls)
    BY <2>3, <2>4
  <2>2. \A i \in 1..(Len(calls) - 1) : Above(calls[i], calls[i + 1])
    BY DEF TypeInv, StackInv
  <2> QED
    BY <1>2, <2>1, <2>2
<1> QED
  BY <1>1, <1>2, <1>3, <1>4, <1>5

LEMMA TypePops ==
    ASSUME TypeInv, calls # <<>>, NEW r \in Results, Returns(r),
           Len(calls) # 1 => LET c == calls[Len(calls) - 1]
                             IN  /\ r = "value" => c.do \in OpWaiting
                                 /\ c.do = "closing" => r \in {"return", "error"}
    PROVE  StackInv' /\ ResultType' /\ over' \subseteq Ops
<1>1. PICK n \in Nat \ {0} : n = Len(calls)
  BY TopFacts
<1>2. /\ Kept /\ Len(calls') = n - 1
      /\ result' = IF n = 1 THEN "null" ELSE r
      /\ over' = IF n = 1 /\ Top.obj \in Ops /\ r # "next" THEN over \cup {Top.obj} ELSE over
  BY <1>1, TopFacts, Pops
<1>3. over' \subseteq Ops
  BY <1>2 DEF TypeInv, LockType
<1>4. StackInv'
  <2>1. calls' # <<>> => calls'[1] = calls[1] /\ calls # <<>>
    <3>1. calls' # <<>> => n - 1 # 0
      BY <1>2, EmptySeq DEF Kept
    <3>2. n - 1 # 0 => 1 \in 1..(n - 1)
      OBVIOUS
    <3> QED
      BY <1>1, <1>2, <3>1, <3>2 DEF Kept
  <2>2. ASSUME NEW i \in 1..((n - 1) - 1) PROVE Above(calls'[i], calls'[i + 1])
    <3>1. i \in 1..(n - 1) /\ i + 1 \in 1..(n - 1)
      OBVIOUS
    <3> QED
      BY <1>1, <1>2, <3>1 DEF Kept, TypeInv, StackInv
  <2> QED
    BY <1>2, <2>1, <2>2 DEF StackInv, Kept, TypeInv
<1>5. ResultType'
  <2>1. CASE n = 1
    <3>1. calls' = <<>>
      BY <1>2, <2>1, EmptySeq DEF Kept
    <3> QED
      BY <1>2, <2>1, <3>1 DEF ResultType, In, Results
  <2>2. CASE n # 1
    <3>1. n - 1 \in 1..(n - 1)
      BY <2>2
    <3>2. Top' = calls[n - 1] /\ calls' # <<>>
      BY <1>1, <1>2, <3>1, EmptySeq DEF Top, Kept
    <3> QED
      BY <1>1, <1>2, <2>2, <3>2 DEF ResultType, In, OpWaits, OpWaiting
  <2> QED
    BY <2>1, <2>2
<1> QED
  BY <1>3, <1>4, <1>5

(***************************************************************************)
(* Calls that stand for one another with the one that waits for them.      *)
(***************************************************************************)
Replaces(a, b) ==
    /\ a.obj = b.obj /\ "future" \notin {a.do, b.do}
    /\ a.do \in Active <=> b.do \in Active
    /\ a.do \in Closers <=> b.do \in Closers
    /\ a.do \in {"op_throw", "op_throwing"} => b.do \in {"op_throw", "op_throwing"}
    /\ b.do \in OpSent => a.do \in OpSent

LEMMA AboveReplaced ==
    ASSUME NEW c, NEW a, NEW b, Above(c, a), Replaces(a, b)
    PROVE  Above(c, b)
BY DEF Above, OpSent, Replaces, Active, Closers, OpWaiting, Waiting

LEMMA TypeOne ==
    ASSUME TypeInv, calls # <<>>, NEW a \in Frame, Goes(<<a>>), Replaces(Top, a), a.do # "closing"
    PROVE  StackInv' /\ ResultType'
<1>1. PICK n \in Nat \ {0} : n = Len(calls)
  BY TopFacts
<1>2. Kept /\ result' = "null" /\ Len(calls') = n /\ calls'[n] = a
  BY <1>1, TopFacts, GoesOne
<1>3. Top = calls[n] /\ Top' = a /\ calls' # <<>>
  BY <1>1, <1>2, EmptySeq DEF Top
<1>4. calls'[1].obj \in Tasks \cup Ops
  <2>1. n = 1 \/ 1 \in 1..(n - 1)
    OBVIOUS
  <2> QED
    BY <1>1, <1>2, <1>3, <2>1 DEF Kept, TypeInv, StackInv, Replaces, OpSent
<1>5. ASSUME NEW i \in 1..(n - 1) PROVE Above(calls'[i], calls'[i + 1])
  <2>1. Above(calls[i], calls[i + 1]) /\ calls'[i] = calls[i]
    BY <1>1, <1>2 DEF Kept, TypeInv, StackInv
  <2>2. i + 1 = n \/ i + 1 \in 1..(n - 1)
    OBVIOUS
  <2>3. i + 1 \in 1..(n - 1) => calls'[i + 1] = calls[i + 1]
    BY <1>1, <1>2 DEF Kept
  <2> QED
    BY <1>2, <1>3, <2>1, <2>2, <2>3, AboveReplaced
<1> QED
  BY <1>2, <1>3, <1>4, <1>5 DEF StackInv, ResultType, Kept, Results, In

LEMMA TypeTwo ==
    ASSUME TypeInv, calls # <<>>, NEW a \in Frame, NEW b \in Frame, Goes(<<a, b>>),
           Replaces(Top, a), Above(a, b), b.do # "closing"
    PROVE  StackInv' /\ ResultType'
<1>1. PICK n \in Nat \ {0} : n = Len(calls)
  BY TopFacts
<1>2. Kept /\ result' = "null" /\ Len(calls') = n + 1 /\ calls'[n] = a /\ calls'[n + 1] = b
  BY <1>1, TopFacts, GoesTwo
<1>3. Top = calls[n] /\ Top' = b /\ calls' # <<>>
  BY <1>1, <1>2, EmptySeq DEF Top
<1>4. calls'[1].obj \in Tasks \cup Ops
  <2>1. n = 1 \/ 1 \in 1..(n - 1)
    OBVIOUS
  <2> QED
    BY <1>1, <1>2, <1>3, <2>1 DEF Kept, TypeInv, StackInv, Replaces, OpSent
<1>5. ASSUME NEW i \in 1..((n + 1) - 1) PROVE Above(calls'[i], calls'[i + 1])
  <2>1. i \in 1..(n - 1) => Above(calls[i], calls[i + 1]) /\ calls'[i] = calls[i]
    BY <1>1, <1>2 DEF Kept, TypeInv, StackInv
  <2>2. i = n \/ (i \in 1..(n - 1) /\ (i + 1 = n \/ i + 1 \in 1..(n - 1)))
    OBVIOUS
  <2>3. i + 1 \in 1..(n - 1) => calls'[i + 1] = calls[i + 1]
    BY <1>1, <1>2 DEF Kept
  <2> QED
    BY <1>2, <1>3, <2>1, <2>2, <2>3, AboveReplaced
<1> QED
  BY <1>2, <1>3, <1>4, <1>5 DEF StackInv, ResultType, Kept, Results, In

LEMMA TypeStarts ==
    ASSUME TypeInv, NEW a \in Frame, LoopCalls(a), a.obj \in Tasks \cup Ops, a.do # "closing"
    PROVE  StackInv' /\ ResultType'
<1>1. calls' = <<a>> /\ result' = result /\ calls = <<>>
  BY DEF LoopCalls, AtLoop
<1>2. calls' \in Seq(Frame) /\ Len(calls') = 1 /\ calls'[1] = a /\ Top' = a /\ calls' # <<>>
  BY <1>1 DEF Top
<1> QED
  BY <1>1, <1>2 DEF StackInv, ResultType, TypeInv, In, OpWaits

(***************************************************************************)
(* The calls that the actions make.                                        *)
(***************************************************************************)
LEMMA RunnerCall ==
    ASSUME NEW do \in {"send", "throw", "body"}, NEW x \in Runners, NEW exc \in Excs, do = "throw" => exc # "null"
    PROVE  Call(do, x, exc) \in Frame /\ CallClosing(do, x, exc) \in Frame
BY DEF Call, CallClosing, Frame, FrameOK, Functions, Active, Closers, OpCalled, OpWaiting, Waiting

LEMMA CloseCall ==
    ASSUME NEW c \in Coroutines
    PROVE  Call("close", c, "null") \in Frame /\ Wait("closed", c, "null", None) \in Frame
BY DEF Call, Wait, Frame, FrameOK, Functions, Active, Closers, OpCalled, OpWaiting, Waiting, Excs, Runners

LEMMA OpCall ==
    ASSUME NEW do \in OpCalled \cup {"op_close"}, NEW o \in Ops, NEW exc \in Excs,
           do \in {"op_throw", "op_throw2"} => exc # "null"
    PROVE  Call(do, o, exc) \in Frame
BY DEF Call, Frame, FrameOK, Functions, Active, Closers, OpCalled, OpWaiting, Waiting

LEMMA WaitCall ==
    ASSUME NEW do \in Waiting, NEW r \in Runners, NEW exc \in Excs, NEW x \in Awaitables,
           do # "delegate" => exc # "null"
    PROVE  Wait(do, r, exc, x) \in Frame
BY DEF Wait, Frame, FrameOK, Functions, Active, Closers, OpCalled, OpWaiting, Waiting, Awaitables, Runners

LEMMA OpWaitCall ==
    ASSUME NEW do \in OpWaiting, NEW o \in Ops, NEW exc \in Excs, NEW g \in Asyncgens
    PROVE  Wait(do, o, exc, g) \in Frame /\ Wait("op_closing", o, "null", None) \in Frame
BY DEF Wait, Frame, FrameOK, Functions, Active, Closers, OpCalled, OpWaiting, Waiting, Excs, Runners

LEMMA PassToFacts ==
    ASSUME NEW x \in Awaitables, NEW exc \in Excs, NEW c \in Frame, c.do = "delegate", c.to = x, c.exc = exc
    PROVE  /\ PassTo(x, exc) \in Frame /\ Above(c, PassTo(x, exc))
           /\ PassTo(x, exc).obj = x
           /\ PassTo(x, exc).do \in {"future", "op_send", "op_throw", "op_close", "send", "throw", "close"}
BY AsyncAssumption DEF PassTo, CloseOf, Call, CallClosing, Awaitables, Runners, Frame, FrameOK, Above, OpSent,
      Functions, Active, Closers, OpCalled, OpWaiting, Waiting, Excs

LEMMA CloseOfFacts ==
    ASSUME NEW x \in Awaitables, NEW c \in Frame, c.do = "closing", c.to = x
    PROVE  /\ CloseOf(x) \in Frame /\ Above(c, CloseOf(x))
           /\ CloseOf(x).obj = x
           /\ CloseOf(x).do \in {"future", "op_close", "close"}
BY AsyncAssumption DEF CloseOf, Call, CallClosing, Awaitables, Runners, Frame, FrameOK, Above, OpSent,
      Functions, Active, Closers, OpCalled, OpWaiting, Waiting, Excs

LEMMA ThrowToFacts ==
    ASSUME NEW x \in Awaitables, NEW exc \in Excs, exc # "null", NEW c \in Frame, c.do = "throwing", c.to = x
    PROVE  /\ ThrowTo(x, exc) \in Frame /\ Above(c, ThrowTo(x, exc))
           /\ ThrowTo(x, exc).obj = x
           /\ ThrowTo(x, exc).do \in {"future", "op_throw", "op_throw2", "throw"}
BY AsyncAssumption DEF ThrowTo, Call, CallClosing, Awaitables, Runners, Frame, FrameOK, Above, OpSent,
      Functions, Active, Closers, OpCalled, OpWaiting, Waiting, Excs

LEMMA ResultFacts ==
    ASSUME TypeInv
    PROVE  /\ \A exc \in Excs, r \in Results \ {"value", "next"} : Outcome(exc, r) \in Excs
           /\ \A r \in Results : Unwrapped(r) \in Results \ {"value"}
           /\ \A r \in Results : AcloseResult(r) \in Results \ {"value"}
BY DEF Excs, Results, Outcome, Unwrapped, AcloseResult

LEMMA NewOpType ==
    ASSUME TypeInv, NEW o \in Ops, NEW kind \in Kinds, NEW g \in Asyncgens, NewOp(o, kind, g), ignored' = ignored
    PROVE  LockType'
<1>1. [kind |-> kind, gen |-> g, state |-> "INIT"] \in [kind : Kinds, gen : Asyncgens, state : {"INIT", "ITER", "CLOSED"}]
  OBVIOUS
<1> QED
  BY <1>1 DEF NewOp, TypeInv, LockType

LEMMA SetStateType ==
    ASSUME TypeInv, NEW o \in Ops, NEW state \in {"INIT", "ITER", "CLOSED"}, op' = [op EXCEPT ![o].state = state]
    PROVE  op' \in [Ops -> [kind : Kinds, gen : Asyncgens, state : {"INIT", "ITER", "CLOSED"}]]
BY DEF TypeInv, LockType

-----------------------------------------------------------------------------
\* The event loop.
LEMMA LoopType == TypeInv /\ LoopNext => TypeInv'
<1> SUFFICES ASSUME TypeInv, LoopNext PROVE TypeInv'
  OBVIOUS
<1>1. ASSUME NEW c \in Tasks, NEW call \in {Call("send", c, "null"), Call("throw", c, "error"),
                                           Call("throw", c, "exit"), Call("close", c, "null")},
             LoopCalls(call), UNCHANGED <<lock, over>>
      PROVE  TypeInv'
  <2>0. c \in Coroutines /\ c \in Runners
    BY AsyncAssumption DEF Runners
  <2>1. call \in Frame
    BY <1>1, <2>0, RunnerCall, CloseCall DEF Excs
  <2>3. call.obj \in Tasks \cup Ops /\ call.do # "closing"
    BY <1>1 DEF Call
  <2>2. StackInv' /\ ResultType'
    BY <1>1, <2>1, <2>3, TypeStarts
  <2> QED
    BY <1>1, <2>2 DEF LoopCalls, TypeInv, ObjectType, LockType, object, lock
<1>2. ASSUME NEW o \in Ops, NEW call \in OpCalls(o), LoopCalls(call), LockType'
      PROVE  TypeInv'
  <2>1. call \in Frame
    BY <1>2, OpCall DEF OpCalls, OpCalled, Excs
  <2>3. call.obj \in Tasks \cup Ops /\ call.do # "closing"
    BY <1>2 DEF OpCalls, Call
  <2>2. StackInv' /\ ResultType'
    BY <1>2, <2>1, <2>3, TypeStarts
  <2> QED
    BY <1>2, <2>2 DEF LoopCalls, TypeInv, ObjectType, object
<1>3. CASE \E c \in Tasks : StepTask(c) \/ CloseTask(c) \/ \E exc \in {"error", "exit"} : CancelTask(c, exc)
  BY <1>1, <1>3 DEF StepTask, CloseTask, CancelTask
<1>4. CASE \E o \in Ops : LoopDrivesOp(o)
  BY <1>2, <1>4 DEF LoopDrivesOp, LoopCalls, TypeInv, LockType, lock
<1>5. ASSUME NEW o \in Ops, NEW kind \in Kinds, NEW g \in Asyncgens, LoopStartsOp(o, kind, g)
      PROVE  TypeInv'
  BY <1>2, <1>5, NewOpType DEF LoopStartsOp, LoopCalls
<1> QED
  BY <1>3, <1>4, <1>5 DEF LoopNext

-----------------------------------------------------------------------------
\* Bodies, and what they await outside of compiled code.
LEMMA DelegatesType ==
    ASSUME TypeInv, In("body"), NEW x \in Awaitables, NEW call \in Frame, call.obj = x, call.do \notin Closers,
           call.do # "closing", Delegates(x, call), LockType'
    PROVE  TypeInv'
<1>1. calls # <<>> /\ Top.do = "body" /\ Top.obj \in Runners
  BY TopFacts DEF In, FrameOK, Active
<1>2. PICK a \in Frame : a = Wait("delegate", Top.obj, "null", x)
  BY <1>1, WaitCall DEF Waiting, Excs
<1>3. Replaces(Top, a) /\ Above(a, call)
  BY <1>1, <1>2 DEF Replaces, OpSent, Above, Wait, Active, Waiting, Closers
<1>4. StackInv' /\ ResultType'
  BY <1>1, <1>2, <1>3, TypeTwo DEF Delegates
<1>5. ObjectType'
  BY <1>1 DEF TypeInv, ObjectType, Delegates
<1> QED
  BY <1>4, <1>5 DEF TypeInv

LEMMA BodyType == TypeInv /\ BodyNext => TypeInv'
<1> SUFFICES ASSUME TypeInv, BodyNext PROVE TypeInv'
  OBVIOUS
<1>1. CASE AwaitFuture
  <2>1. Future \in Awaitables
    BY DEF Awaitables
  <2>2. PICK b \in Frame : b = Call("future", Future, "null")
    BY DEF Call, Frame, FrameOK, Functions, Active, Closers, OpCalled, OpWaiting, Waiting, Excs
  <2>3. b.obj = Future /\ b.do \notin Closers /\ b.do # "closing"
    BY <2>2 DEF Call, Closers
  <2>4. LockType'
    BY <1>1 DEF AwaitFuture, Delegates, TypeInv, LockType, lock
  <2> QED
    BY <1>1, <2>1, <2>2, <2>3, <2>4, DelegatesType DEF AwaitFuture
<1>2. ASSUME NEW c \in Coroutines \ Tasks, AwaitCoroutine(c) PROVE TypeInv'
  <2>1. c \in Awaitables /\ c \in Runners
    BY DEF Awaitables, Runners
  <2>2. PICK b \in Frame : b = Call("send", c, "null")
    BY <2>1, RunnerCall DEF Excs
  <2>3. b.obj = c /\ b.do \notin Closers /\ b.do # "closing"
    BY <2>2 DEF Call, Closers
  <2>4. LockType'
    BY <1>2 DEF AwaitCoroutine, Delegates, TypeInv, LockType, lock
  <2> QED
    BY <1>2, <2>1, <2>2, <2>3, <2>4, DelegatesType DEF AwaitCoroutine
<1>3. ASSUME NEW o \in Ops, NEW kind \in Kinds, NEW g \in Asyncgens, AwaitNewOp(o, kind, g) PROVE TypeInv'
  <2>1. o \in Awaitables
    BY DEF Awaitables
  <2>2. PICK b \in Frame : b = Call("op_send", o, "null")
    BY OpCall DEF Excs, OpCalled
  <2>3. b.obj = o /\ b.do \notin Closers /\ b.do # "closing"
    BY <2>2 DEF Call, Closers
  <2>4. LockType'
    BY <1>3, NewOpType DEF AwaitNewOp, Delegates
  <2> QED
    BY <1>3, <2>1, <2>2, <2>3, <2>4, DelegatesType DEF AwaitNewOp
<1>4. CASE BodyYields
  <2>1. calls # <<>> /\ Top.do = "body" /\ Top.obj \in Asyncgens /\ Returns("value")
    BY <1>4 DEF BodyYields, In
  <2>2. ASSUME Len(calls) # 1 PROVE calls[Len(calls) - 1].do \in OpWaiting
    <3>1. PICK c \in Frame : c = calls[Len(calls) - 1] /\ Above(c, Top)
      BY <2>1, <2>2, TopFacts, CallFacts
    <3>2. Top.obj \notin Coroutines \cup Ops \cup {Future}
      BY <2>1, AsyncAssumption DEF Runners
    <3>3. FrameOK(c)
      BY DEF Frame
    <3> QED
      BY <3>1, <3>2, <3>3 DEF Above, OpSent, FrameOK, Awaitables, Waiting, Closers
  <2>3. "value" \in Results
    BY DEF Results
  <2>4. StackInv' /\ ResultType' /\ over' \subseteq Ops
    BY <2>1, <2>2, <2>3, TypePops DEF OpWaiting
  <2> QED
    BY <1>4, <2>1, <2>4 DEF BodyYields, MarkAsNotRunning, TypeInv, ObjectType, LockType, lock
<1>5. ASSUME NEW r \in {"return", "null", "exit", "error"}, BodyEnds(r) PROVE TypeInv'
  <2>1. calls # <<>> /\ Top.do = "body" /\ Top.obj \in Runners /\ Returns(r) /\ r \in Results
    BY <1>5, TopFacts DEF BodyEnds, In, FrameOK, Active, Results
  <2>2. ASSUME Len(calls) # 1 PROVE calls[Len(calls) - 1].do # "closing"
    BY <2>1, <2>2, TopFacts DEF Above, OpSent, Closers, OpWaiting
  <2>4. StackInv' /\ ResultType' /\ over' \subseteq Ops
    BY <2>1, <2>2, TypePops
  <2> QED
    BY <1>5, <2>1, <2>4 DEF BodyEnds, MarkAsNotRunning, TypeInv, ObjectType, LockType, lock
<1>6. ASSUME NEW r \in Results, FutureAnswers(r) PROVE TypeInv'
  <2>1. calls # <<>> /\ Top.do = "future" /\ Returns(r)
    BY <1>6 DEF FutureAnswers, In
  <2>2. r # "value" /\ (Top.exc = "close" => r = "return")
    BY <1>6, <2>1, TopFacts DEF FutureAnswers, Frame, Excs
  <2>3. Len(calls) # 1 => (calls[Len(calls) - 1].do = "closing" => Top.exc = "close")
    BY <2>1, TopFacts DEF Above, OpSent, Closers, OpWaiting
  <2>4. StackInv' /\ ResultType' /\ over' \subseteq Ops
    BY <2>1, <2>2, <2>3, TypePops
  <2> QED
    BY <1>6, <2>4 DEF FutureAnswers, TypeInv, ObjectType, LockType, lock, object
<1> QED
  BY <1>1, <1>2, <1>3, <1>4, <1>5, <1>6 DEF BodyNext

-----------------------------------------------------------------------------
\* Coroutines and async generators.
LEMMA AnswerType ==
    ASSUME TypeInv, calls # <<>>, NEW r \in Results \ {"value"}, Returns(r),
           Top.do \in Closers \cup {"future"} => r \in {"return", "error"}
    PROVE  StackInv' /\ ResultType' /\ over' \subseteq Ops
<1>1. Len(calls) # 1 /\ calls[Len(calls) - 1].do = "closing" => Top.do \in Closers \cup {"future"}
  BY TopFacts DEF Above, OpSent, OpWaiting
<1> QED
  BY <1>1, TypePops

LEMMA EntersBodyType ==
    ASSUME TypeInv, calls # <<>>, Top.do \in {"send", "delegate"}, NEW exc \in Excs, EntersBody(Top.obj, exc)
    PROVE  /\ StackInv' /\ ResultType' /\ over' \subseteq Ops
           /\ awaits' \in [Runners -> Awaitables \cup {None}] /\ awaiting' \in [Coroutines -> BOOLEAN]
<1>1. Top.obj \in Runners
  BY TopFacts DEF FrameOK, Active, Waiting
<1>2. PICK a \in Frame : a = Call("body", Top.obj, exc)
  BY <1>1, RunnerCall
<1>3. Replaces(Top, a) /\ a.do # "closing"
  BY <1>2 DEF Replaces, OpSent, Call, Active, Waiting, Closers
<1>4. StackInv' /\ ResultType'
  BY <1>2, <1>3, TypeOne DEF EntersBody
<1>5. over' \subseteq Ops
  BY DEF EntersBody, TypeInv, LockType
<1> QED
  BY <1>1, <1>4, <1>5 DEF EntersBody, TypeInv, ObjectType

LEMMA SendType ==
    ASSUME TypeInv, SendToFinished \/ AlreadyExecuting \/ SendToBody \/ SendToAwaited
    PROVE  TypeInv'
<1>1. calls # <<>> /\ Top.do = "send" /\ Top.obj \in Runners /\ Top.exc \in Excs
  BY TopFacts DEF SendToFinished, AlreadyExecuting, SendToBody, SendToAwaited, Resumes, In, FrameOK, Active
<1>2. CASE SendToFinished
  <2>1. PICK r \in Results \ {"value"} : Returns(r)
    BY <1>2 DEF SendToFinished, Results
  <2>2. StackInv' /\ ResultType' /\ over' \subseteq Ops
    BY <1>1, <2>1, AnswerType DEF Closers
  <2> QED
    BY <1>2, <2>2 DEF SendToFinished, TypeInv, ObjectType, LockType, object, lock
<1>3. CASE AlreadyExecuting
  <2>1. PICK r \in Results \ {"value"} : Returns(r)
    BY <1>3 DEF AlreadyExecuting, Results
  <2>2. StackInv' /\ ResultType' /\ over' \subseteq Ops
    BY <1>1, <2>1, AnswerType DEF Closers
  <2> QED
    BY <1>3, <2>2 DEF AlreadyExecuting, TypeInv, ObjectType, LockType, object, lock
<1>4. CASE SendToBody
  <2>1. EntersBody(Top.obj, Top.exc)
    BY <1>4 DEF SendToBody
  <2>2. /\ StackInv' /\ ResultType' /\ over' \subseteq Ops
        /\ awaits' \in [Runners -> Awaitables \cup {None}] /\ awaiting' \in [Coroutines -> BOOLEAN]
    BY <1>1, <2>1, EntersBodyType
  <2> QED
    BY <1>1, <1>4, <2>2 DEF SendToBody, Resumes, MarkAsRunning, TypeInv, ObjectType, LockType, lock
<1>5. CASE SendToAwaited
  <2>1. PICK x \in Awaitables : x = yieldFrom[Top.obj]
    BY <1>1, <1>5 DEF SendToAwaited, TypeInv, ObjectType
  <2>2. PICK a \in Frame : a = Wait("delegate", Top.obj, Top.exc, x)
    BY <1>1, WaitCall DEF Waiting
  <2>3. PICK b \in Frame : b = PassTo(x, Top.exc) /\ Above(a, b) /\ b.do # "closing"
    BY <1>1, <2>2, PassToFacts DEF Wait
  <2>4. Replaces(Top, a)
    BY <1>1, <2>2 DEF Replaces, OpSent, Wait, Active, Waiting, Closers
  <2>5. Goes(<<a, b>>)
    BY <1>5, <2>1, <2>2, <2>3 DEF SendToAwaited
  <2>6. StackInv' /\ ResultType'
    BY <1>1, <2>3, <2>4, <2>5, TypeTwo
  <2> QED
    BY <1>1, <1>5, <2>6 DEF SendToAwaited, Resumes, MarkAsRunning, TypeInv, ObjectType, LockType, lock
<1> QED
  BY <1>2, <1>3, <1>4, <1>5

LEMMA DelegateType ==
    ASSUME TypeInv, DelegateAwaits \/ DelegateEnds
    PROVE  TypeInv'
<1>1. /\ calls # <<>> /\ Top.do = "delegate" /\ Top.obj \in Runners /\ Top.exc \in Excs
      /\ Top.to \in Awaitables
  BY TopFacts DEF DelegateAwaits, DelegateEnds, In, FrameOK, Active, Waiting
<1>2. CASE DelegateAwaits
  <2>1. "next" \in Results \ {"value"} /\ Returns("next")
    BY <1>2 DEF DelegateAwaits, Results
  <2>2. StackInv' /\ ResultType' /\ over' \subseteq Ops
    BY <1>1, <2>1, AnswerType DEF Closers
  <2> QED
    BY <1>1, <1>2, <2>2
       DEF DelegateAwaits, AwaitedNotReady, MarkAsNotRunning, TypeInv, ObjectType, LockType, lock
<1>3. CASE DelegateEnds
  <2>1. result \in Results \ {"value", "next"}
    BY <1>1, <1>3 DEF DelegateEnds, TypeInv, ResultType, OpWaits, In
  <2>2. PICK exc \in Excs : exc = Outcome(Top.exc, result)
    BY <1>1, <2>1, ResultFacts
  <2>3. /\ StackInv' /\ ResultType' /\ over' \subseteq Ops
        /\ awaits' \in [Runners -> Awaitables \cup {None}] /\ awaiting' \in [Coroutines -> BOOLEAN]
    BY <1>1, <1>3, <2>2, EntersBodyType DEF DelegateEnds
  <2> QED
    BY <1>3, <2>3 DEF DelegateEnds, TypeInv, ObjectType, LockType, lock
<1> QED
  BY <1>2, <1>3

LEMMA ThrowType ==
    ASSUME TypeInv, ThrowToAwaited \/ ThrowToStarted \/ ThrowToOther
    PROVE  TypeInv'
<1>1. /\ calls # <<>> /\ Top.do = "throw" /\ Top.obj \in Runners
      /\ Top.exc \in Excs \ {"null"}
  BY TopFacts DEF ThrowToAwaited, ThrowToStarted, ThrowToOther, In, FrameOK, Active
<1>2. CASE ThrowToAwaited
  <2>1. PICK x \in Awaitables : x = yieldFrom[Top.obj]
    BY <1>1, <1>2 DEF ThrowToAwaited, TypeInv, ObjectType
  <2>2. ASSUME Closes(Top.obj) PROVE StackInv' /\ ResultType'
    <3>1. PICK a \in Frame : a = Wait("closing", Top.obj, Top.exc, x)
      BY <1>1, WaitCall DEF Waiting
    <3>2. PICK b \in Frame : b = CloseOf(x) /\ Above(a, b) /\ b.do # "closing"
      BY <3>1, CloseOfFacts DEF Wait
    <3>3. Replaces(Top, a)
      BY <1>1, <3>1 DEF Replaces, OpSent, Wait, Active, Waiting, Closers
    <3>4. Goes(<<a, b>>)
      BY <1>2, <2>1, <2>2, <3>1, <3>2 DEF ThrowToAwaited
    <3> QED
      BY <1>1, <3>2, <3>3, <3>4, TypeTwo
  <2>3. ASSUME ~Closes(Top.obj) PROVE StackInv' /\ ResultType'
    <3>1. PICK a \in Frame : a = Wait("throwing", Top.obj, Top.exc, x)
      BY <1>1, WaitCall DEF Waiting
    <3>2. PICK b \in Frame : b = ThrowTo(x, Top.exc) /\ Above(a, b) /\ b.do # "closing"
      BY <1>1, <3>1, ThrowToFacts DEF Wait
    <3>3. Replaces(Top, a)
      BY <1>1, <3>1 DEF Replaces, OpSent, Wait, Active, Waiting, Closers
    <3>4. Goes(<<a, b>>)
      BY <1>2, <2>1, <2>3, <3>1, <3>2 DEF ThrowToAwaited
    <3> QED
      BY <1>1, <3>2, <3>3, <3>4, TypeTwo
  <2> QED
    BY <1>1, <1>2, <2>2, <2>3 DEF ThrowToAwaited, MarkAsRunning, TypeInv, ObjectType, LockType, lock
<1>3. CASE ThrowToStarted
  <2>1. PICK a \in Frame : a = Call("send", Top.obj, Top.exc)
    BY <1>1, RunnerCall
  <2>2. Replaces(Top, a) /\ a.do # "closing"
    BY <1>1, <2>1 DEF Replaces, OpSent, Call, Active, Waiting, Closers
  <2>3. StackInv' /\ ResultType'
    BY <1>1, <1>3, <2>1, <2>2, TypeOne DEF ThrowToStarted
  <2> QED
    BY <1>3, <2>3 DEF ThrowToStarted, TypeInv, ObjectType, LockType, object, lock
<1>4. CASE ThrowToOther
  <2>1. PICK r \in Results \ {"value"} : Returns(r)
    BY <1>1, <1>4 DEF ThrowToOther, Results, Excs
  <2>2. StackInv' /\ ResultType' /\ over' \subseteq Ops
    BY <1>1, <2>1, AnswerType DEF Closers
  <2> QED
    BY <1>1, <1>4, <2>2 DEF ThrowToOther, TypeInv, ObjectType, LockType, lock
<1> QED
  BY <1>2, <1>3, <1>4

LEMMA ThrownType ==
    ASSUME TypeInv, ClosingReturns \/ ThrowingAwaits \/ ThrowingEnds
    PROVE  TypeInv'
<1>1. /\ calls # <<>> /\ Top.do \in {"closing", "throwing"} /\ Top.obj \in Runners
      /\ Top.exc \in Excs
  BY TopFacts DEF ClosingReturns, ThrowingAwaits, ThrowingEnds, In, FrameOK, Active, Waiting
<1>2. ASSUME NEW exc \in Excs, Goes(<<Call("send", Top.obj, exc)>>) PROVE StackInv' /\ ResultType'
  <2>1. PICK a \in Frame : a = Call("send", Top.obj, exc)
    BY <1>1, RunnerCall
  <2>2. Replaces(Top, a) /\ a.do # "closing"
    BY <1>1, <2>1 DEF Replaces, OpSent, Call, Active, Waiting, Closers
  <2> QED
    BY <1>1, <1>2, <2>1, <2>2, TypeOne
<1>3. CASE ClosingReturns
  <2>1. result \in {"return", "error"}
    BY <1>3 DEF ClosingReturns, TypeInv, ResultType
  <2>2. PICK exc \in Excs : exc = IF result = "return" THEN "exit" ELSE result
    BY <2>1 DEF Excs
  <2>3. StackInv' /\ ResultType'
    BY <1>2, <1>3, <2>2 DEF ClosingReturns
  <2> QED
    BY <1>1, <1>3, <2>3 DEF ClosingReturns, MarkAsNotRunning, TypeInv, ObjectType, LockType, lock
<1>4. CASE ThrowingAwaits
  <2>1. "next" \in Results \ {"value"} /\ Returns("next")
    BY <1>4 DEF ThrowingAwaits, Results
  <2>2. StackInv' /\ ResultType' /\ over' \subseteq Ops
    BY <1>1, <2>1, AnswerType DEF Closers
  <2> QED
    BY <1>1, <1>4, <2>2 DEF ThrowingAwaits, MarkAsNotRunning, TypeInv, ObjectType, LockType, lock
<1>5. CASE ThrowingEnds
  <2>1. result \in Results \ {"value", "next"}
    BY <1>5 DEF ThrowingEnds, TypeInv, ResultType, OpWaits, In
  <2>2. PICK exc \in Excs : exc = Outcome("null", result)
    BY <2>1, ResultFacts DEF Excs
  <2>3. StackInv' /\ ResultType'
    BY <1>2, <1>5, <2>2 DEF ThrowingEnds
  <2> QED
    BY <1>1, <1>5, <2>3 DEF ThrowingEnds, MarkAsNotRunning, TypeInv, ObjectType, LockType, lock
<1> QED
  BY <1>3, <1>4, <1>5

LEMMA CloseType ==
    ASSUME TypeInv, CloseStarted \/ CloseOther \/ CloseReturns \/ CloseOp \/ CloseClosedOp
    PROVE  TypeInv'
<1>1. /\ calls # <<>> /\ Top.do \in Closers
      /\ Top.do \in {"close", "closed"} => Top.obj \in Coroutines
      /\ Top.do \in {"op_close", "op_closing"} => Top.obj \in Ops
  BY TopFacts DEF CloseStarted, CloseOther, CloseReturns, CloseOp, CloseClosedOp, In, FrameOK, Closers
<1>2. CASE CloseStarted
  <2>1. Top.do = "close" /\ Top.obj \in Coroutines /\ Top.obj \in Runners
    BY <1>1, <1>2 DEF CloseStarted, In, Runners
  <2>2. PICK a \in Frame : a = Wait("closed", Top.obj, "null", None)
    BY <2>1, CloseCall
  <2>3. PICK b \in Frame : b = CallClosing("send", Top.obj, "exit")
    BY <2>1, RunnerCall DEF Excs
  <2>4. Replaces(Top, a) /\ Above(a, b) /\ b.do # "closing"
    BY <2>1, <2>2, <2>3 DEF Replaces, OpSent, Above, Wait, CallClosing, Active, Waiting, Closers
  <2>5. StackInv' /\ ResultType'
    BY <1>1, <1>2, <2>2, <2>3, <2>4, TypeTwo DEF CloseStarted
  <2> QED
    BY <1>2, <2>5 DEF CloseStarted, TypeInv, ObjectType, LockType, object, lock
<1>3. CASE CloseOp
  <2>1. Top.do = "op_close" /\ Top.obj \in Ops
    BY <1>1, <1>3 DEF CloseOp, In
  <2>2. PICK a \in Frame : a = Wait("op_closing", Top.obj, "null", None)
    BY <2>1 DEF Wait, Frame, FrameOK, Functions, Active, Closers, OpCalled, OpWaiting, Waiting, Excs
  <2>3. PICK b \in Frame : b = Call("op_throw", Top.obj, "exit")
    BY <2>1, OpCall DEF Excs, OpCalled
  <2>4. Replaces(Top, a) /\ Above(a, b) /\ b.do # "closing"
    BY <2>1, <2>2, <2>3 DEF Replaces, OpSent, Above, Wait, Call, Active, Waiting, Closers
  <2>5. StackInv' /\ ResultType'
    BY <1>1, <1>3, <2>2, <2>3, <2>4, TypeTwo DEF CloseOp
  <2> QED
    BY <1>3, <2>5 DEF CloseOp, TypeInv, ObjectType, LockType, object, lock
<1>4. ASSUME NEW r \in {"return", "error"}, Returns(r) PROVE StackInv' /\ ResultType' /\ over' \subseteq Ops
  BY <1>1, <1>4, AnswerType DEF Results
<1>5. CASE CloseOther \/ CloseClosedOp
  BY <1>4, <1>5 DEF CloseOther, CloseClosedOp, TypeInv, ObjectType, LockType, object, lock
<1>6. CASE CloseReturns
  <2>1. StackInv' /\ ResultType' /\ over' \subseteq Ops
    BY <1>4, <1>6 DEF CloseReturns
  <2>2. In("op_closing") => op[Top.obj].gen \in Asyncgens
    BY <1>1 DEF In, TypeInv, LockType
  <2> QED
    BY <1>6, <2>1, <2>2 DEF CloseReturns, TypeInv, ObjectType, LockType, object, lock
<1> QED
  BY <1>2, <1>3, <1>5, <1>6

-----------------------------------------------------------------------------
\* Operations.
LEMMA OpFacts ==
    ASSUME TypeInv, calls # <<>>, Top.do \in OpCalled \cup OpWaiting
    PROVE  Top.obj \in Ops /\ Gen \in Asyncgens /\ Gen \in Runners /\ Top.exc \in Excs
<1>1. Top.obj \in Ops /\ Top.exc \in Excs
  BY TopFacts DEF FrameOK, OpCalled, OpWaiting
<1> QED
  BY <1>1 DEF Gen, TypeInv, LockType, Runners

LEMMA OpAnswerType ==
    ASSUME TypeInv, calls # <<>>, Top.do \in OpCalled \cup OpWaiting, NEW r \in Results \ {"value"}, Returns(r)
    PROVE  StackInv' /\ ResultType' /\ over' \subseteq Ops
BY AnswerType DEF OpCalled, OpWaiting, Closers

LEMMA OpUsesType ==
    ASSUME TypeInv, calls # <<>>, NEW do \in OpCalled, Top.do = do, NEW wait \in OpWaiting,
           do \in {"op_throw", "op_throw2"} => wait = "op_throwing", NEW b \in Frame, b.obj = Gen, b.do \in {"send", "throw"},
           Goes(<<Wait(wait, Top.obj, Top.exc, Gen), b>>)
    PROVE  StackInv' /\ ResultType'
<1>1. PICK a \in Frame : a = Wait(wait, Top.obj, Top.exc, Gen)
  BY OpFacts, OpWaitCall
<1>2. Replaces(Top, a) /\ Above(a, b) /\ b.do # "closing"
  BY <1>1 DEF Replaces, OpSent, Above, Wait, Active, Waiting, Closers, OpCalled, OpWaiting
<1> QED
  BY <1>1, <1>2, TypeTwo

LEMMA OpCalledType ==
    ASSUME TypeInv, OpAlreadyUsed \/ OpOfFinished \/ OpRefused \/ OpAfterClose
    PROVE  TypeInv'
<1>1. calls # <<>> /\ Top.do \in OpCalled
  BY DEF OpAlreadyUsed, OpOfFinished, OpRefused, OpAfterClose, OpGoesOn, In, OpCalled
<1>2. Top.obj \in Ops
  BY <1>1, OpFacts
<1>3. PICK r \in Results \ {"value"} : Returns(r)
  BY DEF OpAlreadyUsed, OpOfFinished, OpRefused, OpAfterClose, Results
<1>4. StackInv' /\ ResultType' /\ over' \subseteq Ops
  BY <1>1, <1>3, OpAnswerType
<1>5. CASE OpAlreadyUsed \/ OpOfFinished
  BY <1>4, <1>5 DEF OpAlreadyUsed, OpOfFinished, TypeInv, ObjectType, LockType, object, lock
<1>6. CASE OpRefused \/ OpAfterClose
  <2>1. op' \in [Ops -> [kind : Kinds, gen : Asyncgens, state : {"INIT", "ITER", "CLOSED"}]]
    BY <1>2, <1>6, SetStateType DEF OpRefused, OpAfterClose, SetState
  <2> QED
    BY <1>4, <1>6, <2>1 DEF OpRefused, OpAfterClose, TypeInv, ObjectType, LockType, object
<1> QED
  BY <1>5, <1>6

LEMMA OpClaimsType ==
    ASSUME TypeInv, calls # <<>>, NEW do \in OpCalled, Top.do = do, NEW wait \in OpWaiting,
           do \in {"op_throw", "op_throw2"} => wait = "op_throwing", NEW b \in Frame, b.obj = Gen, b.do \in {"send", "throw"},
           OpClaims(wait, b), genClosed' \in [Asyncgens -> BOOLEAN]
    PROVE  TypeInv'
<1>1. Top.obj \in Ops /\ Gen \in Asyncgens
  BY OpFacts
<1>2. StackInv' /\ ResultType'
  BY OpUsesType DEF OpClaims
<1>3. op' \in [Ops -> [kind : Kinds, gen : Asyncgens, state : {"INIT", "ITER", "CLOSED"}]]
  BY <1>1, SetStateType DEF OpClaims, SetState
<1>4. runningAsync' \in [Asyncgens -> BOOLEAN]
  BY <1>1 DEF OpClaims, SetRunningAsync, TypeInv, LockType
<1> QED
  BY <1>2, <1>3, <1>4 DEF OpClaims, TypeInv, ObjectType, LockType, object

LEMMA OpUsesGenType ==
    ASSUME TypeInv, AsendSends \/ AcloseStarts \/ AthrowGoesOn \/ OpThrowStarts \/ OpThrows
    PROVE  TypeInv'
<1>1. calls # <<>> /\ Top.do \in OpCalled
  BY DEF AsendSends, AcloseStarts, AthrowGoesOn, OpThrowStarts, OpThrows, OpStarts, OpGoesOn, In, OpCalled
<1>2. Top.obj \in Ops /\ Gen \in Asyncgens /\ Gen \in Runners /\ Top.exc \in Excs
  BY <1>1, OpFacts
<1>3. genClosed \in [Asyncgens -> BOOLEAN]
  BY DEF TypeInv, LockType
<1>4. CASE AsendSends
  <2>1. PICK b \in Frame : b = Call("send", Gen, "null")
    BY <1>2, RunnerCall DEF Excs
  <2>2. b.obj = Gen /\ b.do \in {"send", "throw"}
    BY <2>1 DEF Call
  <2>3. Top.do = "op_send" /\ OpClaims("op_sending", b) /\ genClosed' = genClosed
    BY <1>4, <2>1 DEF AsendSends, In
  <2> QED
    BY <1>1, <1>3, <2>2, <2>3, OpClaimsType DEF OpCalled, OpWaiting
<1>5. CASE AcloseStarts
  <2>1. PICK b \in Frame : b = CallClosing("throw", Gen, "exit")
    BY <1>2, RunnerCall DEF Excs
  <2>2. b.obj = Gen /\ b.do \in {"send", "throw"}
    BY <2>1 DEF CallClosing
  <2>3. Top.do = "op_send" /\ OpClaims("op_starting", b) /\ genClosed' \in [Asyncgens -> BOOLEAN]
    BY <1>2, <1>3, <1>5, <2>1 DEF AcloseStarts, OpStarts, In
  <2> QED
    BY <1>1, <2>2, <2>3, OpClaimsType DEF OpCalled, OpWaiting
<1>6. CASE AthrowGoesOn
  <2>1. PICK b \in Frame : b = Call("send", Gen, "null")
    BY <1>2, RunnerCall DEF Excs
  <2>2. b.obj = Gen /\ b.do \in {"send", "throw"}
    BY <2>1 DEF Call
  <2>3. Top.do = "op_send" /\ Goes(<<Wait("op_resending", Top.obj, Top.exc, Gen), b>>)
    BY <1>6, <2>1 DEF AthrowGoesOn, In
  <2>4. StackInv' /\ ResultType'
    BY <1>1, <2>2, <2>3, OpUsesType DEF OpCalled, OpWaiting
  <2> QED
    BY <1>6, <2>4 DEF AthrowGoesOn, TypeInv, ObjectType, LockType, object, lock
<1>7. CASE OpThrowStarts
  <2>1. Top.do = "op_throw" /\ Top.exc # "null"
    BY <1>7, TopFacts DEF OpThrowStarts, In, FrameOK
  <2>2. PICK b \in Frame : b = Call("throw", Gen, Top.exc)
    BY <1>2, <2>1, RunnerCall
  <2>3. b.obj = Gen /\ b.do \in {"send", "throw"}
    BY <2>2 DEF Call
  <2>4. OpClaims("op_throwing", b) /\ genClosed' = genClosed
    BY <1>7, <2>2 DEF OpThrowStarts
  <2> QED
    BY <1>1, <1>3, <2>1, <2>3, <2>4, OpClaimsType DEF OpCalled, OpWaiting
<1>8. CASE OpThrows
  <2>1. Top.do \in {"op_throw", "op_throw2"} /\ Top.exc # "null"
    BY <1>8, TopFacts DEF OpThrows, In, FrameOK
  <2>2. PICK b \in Frame : b = Call("throw", Gen, Top.exc)
    BY <1>2, <2>1, RunnerCall
  <2>3. b.obj = Gen /\ b.do \in {"send", "throw"}
    BY <2>2 DEF Call
  <2>4. Goes(<<Wait("op_throwing", Top.obj, Top.exc, Gen), b>>)
    BY <1>8, <2>2 DEF OpThrows
  <2>5. StackInv' /\ ResultType'
    BY <1>1, <2>1, <2>3, <2>4, OpUsesType DEF OpCalled, OpWaiting
  <2> QED
    BY <1>8, <2>5 DEF OpThrows, TypeInv, ObjectType, LockType, object, lock
<1> QED
  BY <1>4, <1>5, <1>6, <1>7, <1>8

LEMMA AthrowStartsType ==
    ASSUME TypeInv, NEW exc \in {"error", "exit", "bad"}, AthrowStarts(exc)
    PROVE  TypeInv'
<1>1. calls # <<>> /\ Top.do = "op_send" /\ Top.do \in OpCalled
  BY DEF AthrowStarts, OpStarts, In, OpCalled
<1>2. Top.obj \in Ops /\ Gen \in Asyncgens /\ Gen \in Runners
  BY <1>1, OpFacts
<1>3. genClosed' = genClosed /\ genClosed \in [Asyncgens -> BOOLEAN]
  BY DEF AthrowStarts, TypeInv, LockType
<1>4. CASE exc = "bad"
  <2>1. "error" \in Results \ {"value"} /\ Returns("error")
    BY <1>4 DEF AthrowStarts, Results
  <2>2. StackInv' /\ ResultType' /\ over' \subseteq Ops
    BY <1>1, <2>1, OpAnswerType
  <2>3. op' \in [Ops -> [kind : Kinds, gen : Asyncgens, state : {"INIT", "ITER", "CLOSED"}]]
    BY <1>2, <1>4, SetStateType DEF AthrowStarts, SetState
  <2>4. runningAsync' \in [Asyncgens -> BOOLEAN]
    BY <1>2, <1>4 DEF AthrowStarts, SetRunningAsync, TypeInv, LockType
  <2> QED
    BY <1>3, <1>4, <2>2, <2>3, <2>4 DEF AthrowStarts, TypeInv, ObjectType, LockType, object
<1>5. CASE exc # "bad"
  <2>1. PICK b \in Frame : b = Call("throw", Gen, exc)
    BY <1>2, <1>5, RunnerCall DEF Excs
  <2>2. b.obj = Gen /\ b.do \in {"send", "throw"}
    BY <2>1 DEF Call
  <2>3. OpClaims("op_starting", b)
    BY <1>5, <2>1 DEF AthrowStarts
  <2> QED
    BY <1>1, <1>3, <2>2, <2>3, OpClaimsType DEF OpWaiting
<1> QED
  BY <1>4, <1>5

LEMMA OpWaitsType ==
    ASSUME TypeInv, OpAwaits \/ AsendEnds \/ AthrowEnds \/ AcloseEnds
    PROVE  TypeInv'
<1>1. calls # <<>> /\ Top.do \in OpWaiting
  BY DEF OpAwaits, AsendEnds, AthrowEnds, AcloseEnds, OpWaits, In, OpWaiting
<1>2. Top.obj \in Ops /\ Gen \in Asyncgens
  BY <1>1, OpFacts
<1>3. result \in Results
  BY DEF TypeInv, ResultType
<1>4. ASSUME NEW r \in Results \ {"value"}, Returns(r) PROVE StackInv' /\ ResultType' /\ over' \subseteq Ops
  BY <1>1, <1>4, OpAnswerType
<1>5. CASE OpAwaits
  <2>1. StackInv' /\ ResultType' /\ over' \subseteq Ops
    BY <1>4, <1>5 DEF OpAwaits, Results
  <2> QED
    BY <1>5, <2>1 DEF OpAwaits, TypeInv, ObjectType, LockType, object, lock
<1>6. \A r : runningAsync' = Releases(r) => runningAsync' \in [Asyncgens -> BOOLEAN]
  BY <1>2 DEF Releases, TypeInv, LockType
<1>7. \A r : genClosed' = [genClosed EXCEPT ![Gen] = @ \/ Ends(r)] => genClosed' \in [Asyncgens -> BOOLEAN]
  BY <1>2 DEF TypeInv, LockType, Ends
<1>8. \A state \in {"INIT", "ITER", "CLOSED"} : SetState(state) =>
          op' \in [Ops -> [kind : Kinds, gen : Asyncgens, state : {"INIT", "ITER", "CLOSED"}]]
  BY <1>2, SetStateType DEF SetState
<1>9. CASE AsendEnds
  <2>1. Unwrapped(result) \in Results \ {"value"}
    BY <1>3, ResultFacts
  <2>2. StackInv' /\ ResultType' /\ over' \subseteq Ops
    BY <1>4, <1>9, <2>1 DEF AsendEnds
  <2> QED
    BY <1>6, <1>7, <1>8, <1>9, <2>2 DEF AsendEnds, Unwraps, TypeInv, ObjectType, LockType, object
<1>10. CASE AthrowEnds
  <2>1. Unwrapped(result) \in Results \ {"value"}
    BY <1>3, ResultFacts
  <2>2. StackInv' /\ ResultType' /\ over' \subseteq Ops
    BY <1>4, <1>10, <2>1 DEF AthrowEnds
  <2>3. op' \in [Ops -> [kind : Kinds, gen : Asyncgens, state : {"INIT", "ITER", "CLOSED"}]]
    BY <1>8, <1>10 DEF AthrowEnds
  <2> QED
    BY <1>6, <1>7, <1>10, <2>2, <2>3 DEF AthrowEnds, Unwraps, TypeInv, ObjectType, LockType, object
<1>11. CASE AcloseEnds
  <2>1. PICK r \in Results : r = IF In("op_throwing") /\ result = "null" THEN "stop" ELSE result
    BY <1>3 DEF Results
  <2>2. AcloseResult(r) \in Results \ {"value"} /\ Returns(AcloseResult(r))
    BY <1>11, <2>1, ResultFacts DEF AcloseEnds
  <2>3. StackInv' /\ ResultType' /\ over' \subseteq Ops
    BY <1>4, <2>2
  <2>4. op' \in [Ops -> [kind : Kinds, gen : Asyncgens, state : {"INIT", "ITER", "CLOSED"}]]
    BY <1>8, <1>11 DEF AcloseEnds
  <2> QED
    BY <1>6, <1>11, <2>3, <2>4 DEF AcloseEnds, TypeInv, ObjectType, LockType, object
<1> QED
  BY <1>5, <1>9, <1>10, <1>11

-----------------------------------------------------------------------------
LEMMA InitType == Init => TypeInv
<1> SUFFICES ASSUME Init PROVE TypeInv
  OBVIOUS
<1>1. ObjectType
  BY DEF Init, ObjectType
<1>2. op \in [Ops -> [kind : Kinds, gen : Asyncgens, state : {"INIT", "ITER", "CLOSED"}]]
  <2>1. Ops # {} => (CHOOSE g \in Asyncgens : TRUE) \in Asyncgens
    BY AsyncAssumption
  <2> QED
    BY <2>1 DEF Init, Kinds
<1>3. LockType
  BY <1>2 DEF Init, LockType
<1>4. StackInv /\ ResultType
  BY DEF Init, StackInv, ResultType, In, Results
<1> QED
  BY <1>1, <1>3, <1>4 DEF TypeInv

LEMMA NextType == TypeInv /\ [Next]_vars => TypeInv'
<1> SUFFICES ASSUME TypeInv, [Next]_vars PROVE TypeInv'
  OBVIOUS
<1>1. CASE RunnerNext
  BY <1>1, SendType, DelegateType, ThrowType, ThrownType, CloseType DEF RunnerNext
<1>2. CASE OpNext
  BY <1>2, CloseType, OpCalledType, OpUsesGenType, AthrowStartsType, OpWaitsType DEF OpNext
<1>3. CASE UNCHANGED vars
  BY <1>3 DEF vars, object, lock, TypeInv, ObjectType, LockType, StackInv, ResultType, In, OpWaits, Top
<1> QED
  BY <1>1, <1>2, <1>3, LoopType, BodyType DEF Next

(***************************************************************************)
(* Whatever is called, the calls on the stack fit: each waits for the one  *)
(* above it, with what that needs.                                         *)
(***************************************************************************)
THEOREM TypeInvHolds == Spec => []TypeInv
BY InitType, NextType, PTL DEF Spec

(***************************************************************************)
(* The fields of coroutines, async generators and operations keep their    *)
(* types, and a wrapped value comes to the operations of async generators  *)
(* only, which unwrap it.                                                  *)
(***************************************************************************)
THEOREM TypeCorrect == Spec => []TypeOK
<1>1. TypeInv => TypeOK
  BY DEF TypeInv, TypeOK, ObjectType, LockType, ResultType, Awaitables
<1> QED
  BY <1>1, TypeInvHolds, PTL

-----------------------------------------------------------------------------
(***************************************************************************)
(* The inductive invariant.  It says what each call on the stack relies on *)
(* until it returns, what a body waits for and who may wait for it, and    *)
(* which operation has the async generator that is marked as in use.       *)
(***************************************************************************)

\* What holds as long as a call has not returned.
RunnerFrame(c) ==
    /\ c.do = "body" => yieldFrom[c.obj] = None /\ awaits[c.obj] = None
    /\ c.do = "delegate" => yieldFrom[c.obj] = None /\ awaits[c.obj] = c.to
    /\ c.do \in {"throwing", "closing"} => yieldFrom[c.obj] = c.to /\ awaits[c.obj] = c.to
    /\ IsActivation(c) => status[c.obj] = "Running" /\ running[c.obj]

OpFrame(c) ==
    /\ c.do \in OpWaiting => /\ op[c.obj].state = "ITER" /\ op[c.obj].gen = c.to
                             /\ runningAsync[c.to]
    /\ c.obj \in Ops => c.obj \notin over

Frames == \A i \in 1..Len(calls) : RunnerFrame(calls[i]) /\ OpFrame(calls[i])

\* m_running is set while, and only while, one call of the object is on the stack.
OneActivation ==
    \A i, j \in 1..Len(calls) :
        IsActivation(calls[i]) /\ IsActivation(calls[j]) /\ calls[i].obj = calls[j].obj => i = j

RunningActive == \A r \in Runners : running[r] => \E i \in 1..Len(calls) : IsActivation(calls[i]) /\ calls[i].obj = r

\* What the event loop calls, a task or an operation, is awaited by nothing.
Bottom == calls # <<>> => \A r \in Runners : awaits[r] # calls[1].obj

\* Between the end of what was in m_yield_from and the return of the await to the body.
Sending(r) == In("send") /\ Top.obj = r

\* m_yield_from, m_awaiting and what was awaited, of a suspended body.
RunnerInv(r) ==
    /\ status[r] # "Running" => yieldFrom[r] = None /\ awaits[r] = None
    /\ ~running[r] => yieldFrom[r] = awaits[r] \/ (Sending(r) /\ yieldFrom[r] = None)
    /\ r \in Coroutines => (awaiting[r] <=> awaits[r] # None)
    /\ r \in Coroutines /\ ~running[r] /\ status[r] = "Running" => awaits[r] # None

\* What a suspended body waits for has begun and has not ended.
AwaitedInv(r) == ~running[r] /\ ~Sending(r) =>
    /\ awaits[r] \in Coroutines => status[awaits[r]] = "Running"
    /\ awaits[r] \in Ops => op[awaits[r]].state = "ITER"

RunnersInv == \A r \in Runners : RunnerInv(r) /\ AwaitedInv(r) /\ awaits[r] \notin over

\* Nothing is awaited by two, but for a coroutine about to be told that it awaits itself.
UniqueAwait ==
    \A q, r \in Runners :
        q # r /\ awaits[q] = awaits[r] /\ awaits[r] \in Coroutines \cup Ops => awaits[r] \in {q, r}

SelfInv ==
    \A c \in Coroutines : awaits[c] = c =>
        /\ running[c] /\ calls # <<>> /\ Top.obj = c
        /\ \/ /\ Top.do = "send" /\ Top.exc = "null" /\ ~Top.closing
              /\ Len(calls) # 1
              /\ calls[Len(calls) - 1].do = "delegate" /\ calls[Len(calls) - 1].obj = c
           \/ Top.do = "delegate" /\ result = "error"

\* The states in which the functions are called.
CalledInv ==
    /\ In("throw") \/ In("close") => ~running[Top.obj]
    /\ In("send") => ~running[Top.obj] \/ awaits[Top.obj] = Top.obj
    /\ In("op_throw2") => State # "INIT"

\* The body of g is suspended in an await, not at a yield.
Midway(g) == status[g] = "Running" /\ ~running[g] /\ yieldFrom[g] # None

\* A result says whether what returned it goes on.
ResultInv ==
    /\ (In("delegate") \/ In("throwing")) /\ result = "next" =>
           /\ Top.to \in Coroutines => status[Top.to] = "Running"
           /\ Top.to \in Ops => op[Top.to].state = "ITER"
    /\ In("op_closing") => State = IF result = "next" THEN "ITER" ELSE "CLOSED"
    /\ OpWaits => (result = "next" <=> Midway(Gen))

\* o has returned, and its awaiter has not yet gone on.
Leaving(o) ==
    \/ (In("delegate") \/ In("throwing")) /\ Top.to = o /\ result # "next"
    \/ In("send") /\ yieldFrom[Top.obj] = None /\ awaits[Top.obj] = o

\* An operation that has not ended holds its async generator, and is the only one that does.
Using(o) == \E i \in 1..Len(calls) : calls[i].do \in OpWaiting /\ calls[i].obj = o

Live(o) == o \notin over /\ op[o].state = "ITER" /\ ~Leaving(o)

InUse(o) == runningAsync[op[o].gen] /\ (Using(o) \/ Midway(op[o].gen))
LiveInv == \A o \in Ops : Live(o) => InUse(o)
UniqueLive == \A o, p \in Ops : Live(o) /\ Live(p) /\ op[o].gen = op[p].gen => o = p

\* No operation is left before its first send.
Starting(o) == calls # <<>> /\ Top.obj = o /\ Top.do \in {"op_send", "op_throw", "op_close"}
InitInv == \A o \in Ops : o \notin over /\ op[o].state = "INIT" => Leaving(o) \/ Starting(o)

MidwayLocked == \A g \in Asyncgens : Midway(g) => runningAsync[g]

StackRunInv == Frames /\ OneActivation /\ RunningActive
AwaitInv == RunnersInv /\ UniqueAwait /\ SelfInv /\ Bottom
OpInv == LiveInv /\ UniqueLive /\ InitInv /\ MidwayLocked
AsyncInv == StackRunInv /\ AwaitInv /\ CalledInv /\ ResultInv /\ OpInv

\* The end of x has come: of a coroutine its status, of an operation that it has given
\* the async generator back.
Done(x) ==
    /\ x \in Coroutines => status[x] = "Finished"
    /\ x \in Ops => op[x].state = "CLOSED" \/ ~runningAsync[op[x].gen]

\* A finished async generator is given back by the operation that is on the stack.
FinishedFreed == \A g \in Asyncgens : status[g] = "Finished" /\ runningAsync[g] =>
    \E i \in 1..Len(calls) : calls[i].do \in OpWaiting /\ calls[i].to = g

\* An awaiter that is told of an end is told of one that has come.
DoneInv ==
    /\ In("send") /\ Top.exc = "null" /\ yieldFrom[Top.obj] = None /\ awaits[Top.obj] \notin {None, Top.obj}
          => Done(awaits[Top.obj])
    /\ In("delegate") /\ Top.exc # "exit" /\ result \in {"return", "null"} => Done(Top.to)
    /\ In("throwing") /\ result \in {"return", "null"} => Done(Top.to)

\* So is an operation.
EndedInv == OpWaits => result # "return" /\ (result \in {"stop", "exit", "null"} => status[Gen] = "Finished")

\* An async generator that is marked as in use has an operation that will give it back.
Held == \A g \in Asyncgens \ ignored : runningAsync[g] => \E o \in Ops : Live(o) /\ op[o].gen = g

-----------------------------------------------------------------------------
\* The calls below the top wait for the one above them.
LEMMA Waits ==
    ASSUME TypeInv, NEW i \in 1..(Len(calls) - 1)
    PROVE  /\ i \in 1..Len(calls) /\ i + 1 \in 1..Len(calls) /\ Above(calls[i], calls[i + 1])
           /\ calls[i].do \in Waiting \cup OpWaiting \cup {"closed", "op_closing"}
           /\ IsActivation(calls[i]) <=> calls[i].do \in Waiting
<1>0. PICK n \in Nat : n = Len(calls)
  BY LenProperties DEF TypeInv, StackInv
<1>1. i \in 1..n /\ i + 1 \in 1..n
  BY <1>0
<1>2. Above(calls[i], calls[i + 1])
  BY DEF TypeInv, StackInv
<1> QED
  BY <1>0, <1>1, <1>2 DEF Above, IsActivation, Waiting, OpWaiting

\* Who waits for a coroutine or an operation, and who for an async generator.
LEMMA OwnerOf ==
    ASSUME TypeInv, NEW i \in 1..Len(calls), calls[i].obj \in Coroutines \cup Ops
    PROVE  \/ i = 1
           \/ i = 2 /\ calls[1].do \in {"closed", "op_closing"} /\ calls[1].obj = calls[i].obj
           \/ \E j \in 1..(i - 1) : /\ calls[j].do \in Waiting /\ calls[j].to = calls[i].obj
                                    /\ j = i - 1 \/ (j = i - 2 /\ calls[i - 1].do \in {"closed", "op_closing"})
<1>0. PICK n \in Nat : n = Len(calls)
  BY LenProperties DEF TypeInv, StackInv
<1>1. ASSUME NEW k \in 1..n, calls[k].obj \in Coroutines \cup Ops, k # 1,
             calls[k - 1].do \notin {"closed", "op_closing"}
      PROVE  calls[k - 1].do \in Waiting /\ calls[k - 1].to = calls[k].obj
  <2>1. k - 1 \in 1..(n - 1) /\ (k - 1) + 1 = k /\ k - 1 \in 1..(k - 1)
    BY <1>1
  <2>2. Above(calls[k - 1], calls[k]) /\ calls[k - 1].do \in Waiting \cup OpWaiting \cup {"closed", "op_closing"}
    BY <1>0, <2>1, Waits
  <2>3. k - 1 \in 1..n
    BY <2>1
  <2>4. FrameOK(calls[k - 1])
    BY <1>0, <2>3, CallFacts
  <2>5. calls[k].obj \notin Asyncgens
    BY <1>1, AsyncAssumption DEF Runners
  <2>6. calls[k - 1].do \in Waiting
    BY <1>1, <2>2, <2>4, <2>5 DEF Above, FrameOK
  <2>7. calls[k - 1].to = calls[k].obj
    BY <2>2, <2>6 DEF Above, Waiting, OpWaiting
  <2> QED
    BY <2>6, <2>7
<1>2. CASE i # 1 /\ calls[i - 1].do \in {"closed", "op_closing"}
  <2>1. i - 1 \in 1..(n - 1) /\ i - 1 \in 1..n /\ (i - 1) + 1 = i /\ (i - 1) - 1 = i - 2
    BY <1>0, <1>2
  <2>2. Above(calls[i - 1], calls[i])
    BY <1>0, <2>1, Waits
  <2>3. calls[i - 1].obj = calls[i].obj
    BY <1>2, <2>2 DEF Above, Waiting, OpWaiting
  <2>4. ASSUME i - 1 # 1 PROVE calls[i - 2].do \notin {"closed", "op_closing"} /\ i - 2 \in 1..(i - 1)
    <3>1. i - 2 \in 1..(n - 1) /\ (i - 2) + 1 = i - 1 /\ i - 2 \in 1..(i - 1)
      BY <1>0, <2>1, <2>4
    <3>2. Above(calls[i - 2], calls[i - 1])
      BY <1>0, <3>1, Waits
    <3> QED
      BY <1>2, <3>1, <3>2 DEF Above, Active, Waiting, OpWaiting
  <2>5. i - 1 = 1 => i = 2
    BY <1>0
  <2>6. CASE i - 1 # 1
    BY <1>1, <1>2, <2>1, <2>3, <2>4, <2>6
  <2> QED
    BY <1>2, <2>3, <2>5, <2>6
<1>3. CASE i # 1 /\ calls[i - 1].do \notin {"closed", "op_closing"}
  <2>1. i - 1 \in 1..(i - 1)
    BY <1>0, <1>3
  <2> QED
    BY <1>0, <1>1, <1>3, <2>1
<1> QED
  BY <1>2, <1>3

LEMMA GenOwner ==
    ASSUME TypeInv, NEW i \in 1..Len(calls), calls[i].obj \in Asyncgens
    PROVE  /\ i - 1 \in 1..(Len(calls) - 1) /\ i - 1 \in 1..Len(calls)
           /\ calls[i - 1].do \in OpWaiting /\ calls[i - 1].to = calls[i].obj
<1>0. PICK n \in Nat : n = Len(calls)
  BY LenProperties DEF TypeInv, StackInv
<1>1. calls[i].obj \notin Coroutines \cup Ops \cup {Future}
  BY AsyncAssumption DEF Runners
<1>2. n # 0
  BY <1>0
<1>3. calls # <<>>
  BY <1>0, <1>2
<1>4. i # 1
  BY <1>1, <1>3, AsyncAssumption DEF TypeInv, StackInv
<1>5. i - 1 \in 1..(n - 1) /\ (i - 1) + 1 = i /\ i - 1 \in 1..n
  BY <1>0, <1>4
<1>6. Above(calls[i - 1], calls[i]) /\ FrameOK(calls[i - 1])
  BY <1>0, <1>5, Waits, CallFacts
<1>7. calls[i - 1].do \in OpWaiting
  BY <1>1, <1>6 DEF Above, FrameOK, Awaitables, Waiting
<1>8. calls[i - 1].to = calls[i].obj
  BY <1>6, <1>7 DEF Above, Waiting, OpWaiting
<1> QED
  BY <1>0, <1>5, <1>7, <1>8

\* The one who awaits what is called waits below it.
LEMMA Awaiter ==
    ASSUME TypeInv, StackRunInv, AwaitInv, NEW i \in 1..Len(calls), NEW r \in Runners,
           calls[i].obj \in Coroutines \cup Ops, awaits[r] = calls[i].obj,
           r # calls[i].obj, calls[i].obj \in Coroutines => awaits[calls[i].obj] # calls[i].obj
    PROVE  \E j \in 1..(i - 1) : calls[j].do \in Waiting /\ calls[j].obj = r /\ calls[j].to = calls[i].obj
<1>0. PICK n \in Nat : n = Len(calls)
  BY LenProperties DEF TypeInv, StackInv
<1>1. calls # <<>>
  BY <1>0
<1>2. calls[i].obj # calls[1].obj /\ i # 1
  BY <1>1 DEF AwaitInv, Bottom
<1>3. PICK j \in 1..(i - 1) : calls[j].do \in Waiting /\ calls[j].to = calls[i].obj
  BY <1>2, OwnerOf
<1>4. j \in 1..n
  BY <1>0
<1>5. FrameOK(calls[j]) /\ RunnerFrame(calls[j])
  BY <1>0, <1>4, CallFacts DEF StackRunInv, Frames
<1>6. calls[j].obj \in Runners /\ awaits[calls[j].obj] = calls[i].obj
  BY <1>3, <1>5 DEF FrameOK, RunnerFrame, Active, Waiting
<1>7. calls[j].obj = r
  <2>1. SUFFICES ASSUME calls[j].obj # r PROVE FALSE
    OBVIOUS
  <2>2. calls[i].obj \in {calls[j].obj, r}
    BY <1>6, <2>1 DEF AwaitInv, UniqueAwait
  <2>3. calls[i].obj = calls[j].obj
    BY <2>2
  <2>4. calls[i].obj \notin Ops
    BY <1>6, <2>3, AsyncAssumption
  <2> QED
    BY <1>6, <2>3, <2>4
<1> QED
  BY <1>3, <1>7

LEMMA AwaiterRuns ==
    ASSUME TypeInv, StackRunInv, AwaitInv, NEW i \in 1..Len(calls), NEW r \in Runners,
           calls[i].obj \in Coroutines \cup Ops, awaits[r] = calls[i].obj,
           r # calls[i].obj, calls[i].obj \in Coroutines => awaits[calls[i].obj] # calls[i].obj
    PROVE  running[r] /\ \E j \in 1..(Len(calls) - 1) : IsActivation(calls[j]) /\ calls[j].obj = r
<1>0. PICK n \in Nat : n = Len(calls)
  BY LenProperties DEF TypeInv, StackInv
<1>1. PICK j \in 1..(i - 1) : calls[j].do \in Waiting /\ calls[j].obj = r /\ calls[j].to = calls[i].obj
  BY Awaiter
<1>2. j \in 1..n /\ j \in 1..(n - 1)
  BY <1>0
<1>3. IsActivation(calls[j]) /\ RunnerFrame(calls[j])
  BY <1>0, <1>1, <1>2 DEF IsActivation, Waiting, StackRunInv, Frames
<1> QED
  BY <1>0, <1>1, <1>2, <1>3 DEF RunnerFrame

\* An operation that is called is not called again until it returns.
LEMMA OpFrameUnique ==
    ASSUME TypeInv, StackRunInv, AwaitInv, calls # <<>>, Top.obj \in Ops,
           NEW i \in 1..(Len(calls) - 1), calls[i].do \in OpWaiting
    PROVE  calls[i].obj # Top.obj
<1>1. PICK n \in Nat \ {0} : n = Len(calls) /\ Top = calls[n]
  BY TopFacts
<1>2. SUFFICES ASSUME calls[i].obj = calls[n].obj PROVE FALSE
  BY <1>1
<1>3. n \in 1..n /\ i \in 1..n /\ i \in 1..(n - 1)
  BY <1>1
<1>4. calls[n].obj \in Coroutines \cup Ops
  BY <1>1
<1>5. n # 1 /\ (n = 2 => i = 1)
  BY <1>1
<1>6. calls[i].do \notin {"closed", "op_closing"} \cup Waiting
  BY DEF OpWaiting, Waiting
<1>7. PICK j \in 1..(n - 1) : /\ calls[j].do \in Waiting /\ calls[j].to = calls[n].obj
                              /\ j = n - 1 \/ (j = n - 2 /\ calls[n - 1].do \in {"closed", "op_closing"})
  BY <1>1, <1>3, <1>4, <1>5, <1>6, OwnerOf
<1>8. i # j /\ (j = n - 2 => i # n - 1)
  BY <1>6, <1>7
<1>9. i \in 1..(j - 1) /\ j \in 1..n /\ i \in 1..n
  BY <1>3, <1>7, <1>8
<1>10. RunnerFrame(calls[j]) /\ FrameOK(calls[j])
  BY <1>1, <1>9, CallFacts DEF StackRunInv, Frames
<1>11. calls[j].obj \in Runners /\ awaits[calls[j].obj] = calls[i].obj
  BY <1>2, <1>7, <1>10 DEF RunnerFrame, FrameOK, Active, Waiting
<1>12. calls[i].obj \in Ops /\ calls[i].obj \notin Runners
  BY <1>1, <1>2, AsyncAssumption
<1>13. PICK k \in 1..(i - 1) : calls[k].do \in Waiting /\ calls[k].obj = calls[j].obj
  BY <1>1, <1>9, <1>11, <1>12, Awaiter, AsyncAssumption DEF Runners
<1>14. k \in 1..n /\ k # j
  BY <1>9
<1> QED
  BY <1>1, <1>7, <1>9, <1>13, <1>14 DEF StackRunInv, OneActivation, IsActivation, Waiting

\* An operation that uses an async generator is live.
LEMMA UserLive ==
    ASSUME TypeInv, StackRunInv, AwaitInv, CalledInv, NEW i \in 1..Len(calls), calls[i].do \in OpWaiting
    PROVE  /\ calls[i].obj \in Ops /\ calls[i].to \in Asyncgens
           /\ Live(calls[i].obj) /\ op[calls[i].obj].gen = calls[i].to /\ runningAsync[calls[i].to]
<1>1. calls # <<>>
  <2>1. PICK n \in Nat : n = Len(calls)
    BY LenProperties DEF TypeInv, StackInv
  <2> QED
    BY <2>1
<1>2. PICK n \in Nat \ {0} : n = Len(calls) /\ Top = calls[n] /\ FrameOK(Top)
  BY <1>1, TopFacts
<1>3. /\ calls[i].obj \in Ops /\ calls[i].to \in Asyncgens /\ calls[i].obj \notin over
      /\ op[calls[i].obj].state = "ITER" /\ op[calls[i].obj].gen = calls[i].to /\ runningAsync[calls[i].to]
  <2>1. FrameOK(calls[i]) /\ OpFrame(calls[i])
    BY CallFacts DEF StackRunInv, Frames
  <2> QED
    BY <2>1 DEF FrameOK, OpFrame
<1>4. calls[i].obj \notin Runners
  BY <1>3, AsyncAssumption
<1>5. ASSUME Leaving(calls[i].obj) PROVE FALSE
  <2>1. PICK r \in Runners : /\ r = Top.obj /\ awaits[r] = calls[i].obj
                             /\ Top.do \in {"delegate", "throwing", "send"}
    <3>1. RunnerFrame(Top)
      BY <1>2 DEF StackRunInv, Frames
    <3> QED
      BY <1>2, <1>5, <3>1 DEF Leaving, In, RunnerFrame, FrameOK, Active, Waiting
  <2>2. running[r] /\ \E j \in 1..(n - 1) : IsActivation(calls[j]) /\ calls[j].obj = r
    BY <1>2, <1>3, <1>4, <2>1, AwaiterRuns, AsyncAssumption DEF Runners
  <2>3. CASE Top.do = "send"
    BY <1>1, <1>4, <2>1, <2>2, <2>3 DEF CalledInv, In
  <2>4. CASE Top.do # "send"
    <3>1. PICK j \in 1..(n - 1) : IsActivation(calls[j]) /\ calls[j].obj = r
      BY <2>2
    <3>2. j \in 1..n /\ n \in 1..n /\ j # n
      OBVIOUS
    <3>3. IsActivation(calls[n]) /\ calls[n].obj = r
      BY <1>2, <2>1, <2>4 DEF IsActivation
    <3> QED
      BY <1>2, <3>1, <3>2, <3>3 DEF StackRunInv, OneActivation
  <2> QED
    BY <2>3, <2>4
<1> QED
  BY <1>3, <1>5 DEF Live

\* The live operation of the async generator that is on top.
LEMMA GenUser ==
    ASSUME TypeInv, AsyncInv, calls # <<>>, Top.obj \in Asyncgens
    PROVE  LET i == Len(calls) - 1
           IN  /\ i \in 1..(Len(calls) - 1) /\ i \in 1..Len(calls)
               /\ calls[i].do \in OpWaiting /\ calls[i].to = Top.obj
               /\ calls[i].obj \in Ops /\ Live(calls[i].obj) /\ op[calls[i].obj].gen = Top.obj
               /\ runningAsync[Top.obj]
               /\ \A o \in Ops : Live(o) /\ op[o].gen = Top.obj => o = calls[i].obj
<1>1. PICK n \in Nat \ {0} : n = Len(calls) /\ Top = calls[n] /\ n \in 1..n
  BY TopFacts
<1>2. PICK i \in 1..(n - 1) : i = n - 1 /\ i \in 1..n /\ calls[i].do \in OpWaiting /\ calls[i].to = Top.obj
  BY <1>1, GenOwner
<1>3. /\ calls[i].obj \in Ops /\ Live(calls[i].obj) /\ op[calls[i].obj].gen = Top.obj
      /\ runningAsync[Top.obj]
  BY <1>1, <1>2, UserLive DEF AsyncInv
<1> QED
  BY <1>1, <1>2, <1>3 DEF AsyncInv, OpInv, UniqueLive

-----------------------------------------------------------------------------
(***************************************************************************)
(* Steps.  All but those of the event loop take the top of the stack away, *)
(* leave it to the same object, and may add one call above.                *)
(***************************************************************************)
StepOn ==
    /\ calls # <<>> /\ Kept
    /\ Len(calls') \in {Len(calls) - 1, Len(calls), Len(calls) + 1}
    /\ Len(calls') # Len(calls) - 1 => calls'[Len(calls)].obj = Top.obj
    /\ Len(calls') = Len(calls) + 1 => ~IsActivation(calls'[Len(calls) + 1])

Acts == IsActivation(Top)
ActsThen == Len(calls') # Len(calls) - 1 /\ IsActivation(calls'[Len(calls)])

\* The one on top runs from now on, or it stops.
RunStep ==
    /\ \A q \in Runners : running'[q] = IF q = Top.obj /\ (Acts \/ ActsThen) THEN ActsThen ELSE running[q]
    /\ ActsThen /\ ~Acts => ~running[Top.obj]

Quiet(q) ==
    /\ status'[q] = status[q] /\ running'[q] = running[q]
    /\ yieldFrom'[q] = yieldFrom[q] /\ awaits'[q] = awaits[q]
    /\ q \in Coroutines => awaiting'[q] = awaiting[q]

Others == \A q \in Runners : q # Top.obj => Quiet(q)

\* Nobody else acts for the one on top.
Free == Top.obj \in Runners => Acts \/ ~running[Top.obj] \/ Quiet(Top.obj)

\* Operations that end: the one of the event loop, the one that was awaited.
OverStep ==
    \A x \in over' : \/ x \in over
                     \/ x = Top.obj /\ Len(calls) = 1
                     \/ Top.obj \in Runners /\ x = awaits[Top.obj] /\ awaits'[Top.obj] = None

LEMMA RunSteps ==
    ASSUME TypeInv, StackRunInv, StepOn, RunStep
    PROVE  OneActivation' /\ RunningActive'
<1>1. PICK n \in Nat \ {0} : n = Len(calls) /\ Top = calls[n]
  BY TopFacts DEF StepOn
<1>2. PICK m \in Nat : m = Len(calls')
  BY LenProperties DEF StepOn, Kept
<1>3. /\ m \in {n - 1, n, n + 1} /\ \A i \in 1..(n - 1) : calls'[i] = calls[i]
      /\ m # n - 1 => calls'[n].obj = calls[n].obj
      /\ m = n + 1 => ~IsActivation(calls'[n + 1])
  BY <1>1, <1>2 DEF StepOn, Kept
<1>4. \A i \in 1..m : i \in 1..(n - 1) \/ (i = n /\ m # n - 1) \/ (i = n + 1 /\ m = n + 1)
  BY <1>3
<1>5. n \in 1..n /\ \A i \in 1..(n - 1) : i \in 1..n /\ i # n
  OBVIOUS
<1>6. \A i \in 1..(n - 1) : IsActivation(calls[i]) => running[calls[i].obj]
  BY <1>1, <1>5 DEF StackRunInv, Frames, RunnerFrame
<1>7. ASSUME NEW i \in 1..(n - 1), m # n - 1, IsActivation(calls[i]), IsActivation(calls'[n]),
             calls[i].obj = calls[n].obj
      PROVE  FALSE
  <2>1. CASE IsActivation(calls[n])
    BY <1>1, <1>5, <1>7, <2>1 DEF StackRunInv, OneActivation
  <2>2. CASE ~IsActivation(calls[n])
    BY <1>1, <1>2, <1>6, <1>7, <2>2 DEF RunStep, Acts, ActsThen
  <2> QED
    BY <2>1, <2>2
<1>8. OneActivation'
  <2> SUFFICES ASSUME NEW i \in 1..m, NEW j \in 1..m, IsActivation(calls'[i]), IsActivation(calls'[j]),
                      calls'[i].obj = calls'[j].obj
               PROVE  i = j
    BY <1>2 DEF OneActivation, IsActivation
  <2>1. i # n + 1 \/ m # n + 1
    BY <1>3
  <2>2. j # n + 1 \/ m # n + 1
    BY <1>3
  <2>3. CASE i \in 1..(n - 1) /\ j \in 1..(n - 1)
    BY <1>1, <1>3, <1>5, <2>3 DEF StackRunInv, OneActivation
  <2>4. CASE i \in 1..(n - 1) /\ j = n /\ m # n - 1
    BY <1>3, <1>7, <2>4
  <2>5. CASE j \in 1..(n - 1) /\ i = n /\ m # n - 1
    BY <1>3, <1>7, <2>5
  <2> QED
    BY <1>4, <2>1, <2>2, <2>3, <2>4, <2>5
<1>9. RunningActive'
  <2> SUFFICES ASSUME NEW q \in Runners, running'[q]
               PROVE  \E i \in 1..m : IsActivation(calls'[i]) /\ calls'[i].obj = q
    BY <1>2 DEF RunningActive, IsActivation
  <2>1. CASE q = Top.obj /\ (Acts \/ ActsThen)
    <3>1. ActsThen
      BY <2>1 DEF RunStep
    <3>2. m # n - 1 /\ IsActivation(calls'[n]) /\ n \in 1..m
      BY <1>1, <1>2, <1>3, <3>1 DEF ActsThen
    <3> QED
      BY <1>1, <1>3, <2>1, <3>2
  <2>2. CASE ~(q = Top.obj /\ (Acts \/ ActsThen))
    <3>1. running[q]
      BY <2>2 DEF RunStep
    <3>2. PICK i \in 1..n : IsActivation(calls[i]) /\ calls[i].obj = q
      BY <1>1, <3>1 DEF StackRunInv, RunningActive
    <3>3. i # n
      BY <1>1, <2>2, <3>2 DEF Acts
    <3>4. i \in 1..(n - 1) /\ i \in 1..m
      BY <1>3, <3>3
    <3> QED
      BY <1>3, <3>2, <3>4
  <2> QED
    BY <2>1, <2>2
<1> QED
  BY <1>8, <1>9

\* What the calls below the top rely on stays.
LEMMA LowerFrames ==
    ASSUME TypeInv, StackRunInv, StepOn, Others, Free, NEW i \in 1..(Len(calls) - 1)
    PROVE  RunnerFrame(calls[i])'
<1>1. PICK n \in Nat \ {0} : n = Len(calls) /\ Top = calls[n]
  BY TopFacts DEF StepOn
<1>2. i \in 1..n /\ i \in 1..(n - 1) /\ i # n /\ n \in 1..n /\ calls'[i] = calls[i]
  BY <1>1 DEF StepOn, Kept
<1>3. RunnerFrame(calls[i]) /\ FrameOK(calls[i])
  BY <1>1, <1>2, CallFacts DEF StackRunInv, Frames
<1>4. ASSUME IsActivation(calls[i]) PROVE Quiet(calls[i].obj)
  <2>1. calls[i].obj \in Runners /\ running[calls[i].obj]
    BY <1>3, <1>4 DEF IsActivation, FrameOK, Active, Waiting, RunnerFrame
  <2>2. IsActivation(calls[n]) => calls[i].obj # calls[n].obj
    BY <1>1, <1>2, <1>4 DEF StackRunInv, OneActivation
  <2> QED
    BY <1>1, <2>1, <2>2 DEF Others, Free, Acts
<1> QED
  BY <1>2, <1>3, <1>4 DEF RunnerFrame, Quiet, IsActivation

\* Only the one on top changes its operation, only the one that uses an async generator gives it back.
OpStep ==
    /\ \A o \in Ops : o \notin over => op'[o].gen = op[o].gen /\ (o # Top.obj => op'[o] = op[o])
    /\ \A g \in Asyncgens : runningAsync[g] => runningAsync'[g] \/ (Top.do \in OpWaiting /\ Top.to = g)

LEMMA Entering ==
    ASSUME TypeInv, AsyncInv, calls # <<>>, Free, Top.obj \in Runners, awaits[Top.obj] \in Ops,
           awaits'[Top.obj] = None, NEW i \in 1..(Len(calls) - 1)
    PROVE  calls[i].obj # awaits[Top.obj]
<1>1. PICK n \in Nat \ {0} : n = Len(calls) /\ Top = calls[n]
  BY TopFacts
<1>2. SUFFICES ASSUME calls[i].obj = awaits[Top.obj] PROVE FALSE
  OBVIOUS
<1>3. i \in 1..n /\ n \in 1..n /\ \A j \in 1..(n - 1) : j \in 1..n /\ j # n
  BY <1>1
<1>4. Top.obj # calls[i].obj /\ calls[i].obj \notin Coroutines
  BY <1>2, AsyncAssumption DEF Runners
<1>5. running[Top.obj] /\ \E j \in 1..(n - 1) : IsActivation(calls[j]) /\ calls[j].obj = Top.obj
  <2>1. i \in 1..Len(calls) /\ calls[i].obj \in Coroutines \cup Ops
    BY <1>1, <1>2, <1>3
  <2> QED
    BY <1>1, <1>2, <1>4, <2>1, AwaiterRuns DEF AsyncInv
<1>6. ~Quiet(Top.obj)
  BY <1>4, AsyncAssumption DEF Quiet, Runners
<1>7. Acts
  BY <1>5, <1>6 DEF Free
<1> QED
  BY <1>1, <1>3, <1>5, <1>7 DEF Acts, AsyncInv, StackRunInv, OneActivation

LEMMA LowerOpFrames ==
    ASSUME TypeInv, AsyncInv, StepOn, Free, OverStep, OpStep, NEW i \in 1..(Len(calls) - 1)
    PROVE  OpFrame(calls[i])'
<1>1. PICK n \in Nat \ {0} : n = Len(calls) /\ Top = calls[n]
  BY TopFacts DEF StepOn
<1>2. i \in 1..n /\ i \in 1..(n - 1) /\ i # n /\ n \in 1..n /\ n # 1 /\ calls'[i] = calls[i] /\ calls # <<>>
  BY <1>1 DEF StepOn, Kept
<1>3. OpFrame(calls[i]) /\ FrameOK(calls[i])
  BY <1>1, <1>2, CallFacts DEF AsyncInv, StackRunInv, Frames
<1>4. ASSUME calls[i].obj \in Ops PROVE calls[i].obj \notin over'
  BY <1>1, <1>2, <1>3, <1>4, Entering DEF OverStep, OpFrame
<1>5. ASSUME calls[i].do \in OpWaiting
      PROVE  /\ op'[calls[i].obj].state = "ITER" /\ op'[calls[i].obj].gen = calls[i].to
             /\ runningAsync'[calls[i].to]
  <2>1. calls[i].obj \in Ops /\ calls[i].to \in Asyncgens
    BY <1>3, <1>5 DEF FrameOK
  <2>2. calls[i].obj # Top.obj
    BY <1>1, <1>2, <1>5, <2>1, OpFrameUnique DEF AsyncInv
  <2>3. op'[calls[i].obj] = op[calls[i].obj]
    BY <1>3, <2>1, <2>2 DEF OpStep, OpFrame
  <2>4. ~(Top.do \in OpWaiting /\ Top.to = calls[i].to)
    BY <1>1, <1>2, <1>5, <2>2, UserLive DEF AsyncInv, OpInv, UniqueLive
  <2> QED
    BY <1>3, <1>5, <2>1, <2>3, <2>4 DEF OpStep, OpFrame
<1> QED
  BY <1>2, <1>4, <1>5 DEF OpFrame

\* The top of the stack is the rest.
LEMMA FrameSteps ==
    ASSUME TypeInv, AsyncInv, StepOn, Others, RunStep, Free, OverStep, OpStep,
           NEW n \in Nat, n = Len(calls),
           Len(calls') # n - 1 => RunnerFrame(calls[n])' /\ OpFrame(calls[n])',
           Len(calls') = n + 1 => OpFrame(calls[n + 1])'
    PROVE  StackRunInv'
<1>1. n \in Nat \ {0} /\ Top = calls[n]
  BY TopFacts DEF StepOn
<1>2. PICK m \in Nat : m = Len(calls')
  BY LenProperties DEF StepOn, Kept
<1>3. m \in {n - 1, n, n + 1}
  BY <1>1, <1>2 DEF StepOn
<1>4. \A i \in 1..m : i \in 1..(n - 1) \/ (i = n /\ m # n - 1) \/ (i = n + 1 /\ m = n + 1)
  BY <1>3
<1>5. \A i \in 1..(n - 1) : RunnerFrame(calls[i])' /\ OpFrame(calls[i])'
  BY LowerFrames, LowerOpFrames DEF AsyncInv
<1>6. m = n + 1 => RunnerFrame(calls[n + 1])'
  BY <1>2 DEF StepOn, RunnerFrame, IsActivation
<1>7. \A i \in 1..m : RunnerFrame(calls[i])' /\ OpFrame(calls[i])'
  BY <1>2, <1>4, <1>5, <1>6
<1>8. OneActivation' /\ RunningActive'
  BY RunSteps DEF AsyncInv
<1> QED
  BY <1>2, <1>7, <1>8 DEF StackRunInv, Frames

\* What is awaited from now on is not awaited by another one.
Fresh(r, x) ==
    /\ x \notin over' /\ x # calls[1].obj
    /\ x \in Coroutines \cup Ops => \A q \in Runners : q # r /\ awaits[q] = x => x \in {q, r}

LEMMA SameBottom ==
    ASSUME TypeInv, StepOn, calls' # <<>>
    PROVE  calls'[1].obj = calls[1].obj
<1>1. PICK n \in Nat \ {0} : n = Len(calls) /\ Top = calls[n]
  BY TopFacts DEF StepOn
<1>2. PICK m \in Nat \ {0} : m = Len(calls')
  BY EmptySeq, LenProperties DEF StepOn, Kept
<1>3. (n = 1 /\ m # n - 1) \/ 1 \in 1..(n - 1)
  OBVIOUS
<1> QED
  BY <1>1, <1>2, <1>3 DEF StepOn, Kept

LEMMA AwaitSteps ==
    ASSUME TypeInv, TypeInv', AsyncInv, StepOn, Others, OverStep, OpStep, SelfInv',
           NEW x, x = Top.obj,
           x \in Coroutines => awaits[x] # x \/ status'[x] = status[x],
           x \in Runners => /\ RunnerInv(x)' /\ AwaitedInv(x)'
                            /\ awaits'[x] \in {awaits[x], None} \/ Fresh(x, awaits'[x])
    PROVE  AwaitInv'
<1>1. PICK n \in Nat \ {0} : n = Len(calls) /\ Top = calls[n] /\ n \in 1..n
  BY TopFacts DEF StepOn
<1>2. over' \subseteq Ops /\ None \notin Ops /\ calls # <<>> /\ Runners \cap Ops = {}
  BY AsyncAssumption DEF TypeInv, LockType, StepOn
<1>3. ASSUME NEW q \in Runners, q # x PROVE RunnerInv(q)'
  <2>1. Quiet(q) /\ RunnerInv(q) /\ ~Sending(q)
    BY <1>3 DEF Others, Sending, AsyncInv, AwaitInv, RunnersInv
  <2> QED
    BY <2>1 DEF Quiet, RunnerInv
<1>4. ASSUME NEW q \in Runners, q # x PROVE AwaitedInv(q)'
  <2>1. Quiet(q) /\ AwaitedInv(q) /\ ~Sending(q) /\ awaits[q] \notin over
    BY <1>3, <1>4 DEF Others, Sending, AsyncInv, AwaitInv, RunnersInv
  <2>2. SUFFICES ASSUME ~running[q]
                 PROVE  /\ awaits[q] \in Coroutines => status'[awaits[q]] = "Running"
                        /\ awaits[q] \in Ops => op'[awaits[q]].state = "ITER"
    BY <2>1 DEF AwaitedInv, Quiet
  <2>3. /\ awaits[q] \in Coroutines => status[awaits[q]] = "Running"
        /\ awaits[q] \in Ops => op[awaits[q]].state = "ITER"
    BY <2>1, <2>2 DEF AwaitedInv
  <2>4. ASSUME awaits[q] = x, x \in Coroutines \cup Ops, x \in Coroutines => awaits[x] # x PROVE FALSE
    <3>1. calls[n].obj = x /\ q # calls[n].obj /\ n \in 1..Len(calls)
      BY <1>1, <1>4
    <3>2. running[q]
      BY <2>4, <3>1, AwaiterRuns DEF AsyncInv
    <3> QED
      BY <2>2, <3>2
  <2>5. ASSUME awaits[q] \in Coroutines PROVE status'[awaits[q]] = "Running"
    <3>1. awaits[q] \in Runners
      BY <2>5 DEF Runners
    <3> QED
      BY <2>3, <2>4, <2>5, <3>1 DEF Others, Quiet
  <2>6. ASSUME awaits[q] \in Ops PROVE op'[awaits[q]].state = "ITER"
    <3>1. awaits[q] # x
      BY <1>2, <2>4, <2>6, AsyncAssumption DEF Runners
    <3> QED
      BY <2>1, <2>3, <2>6, <3>1 DEF OpStep
  <2> QED
    BY <2>5, <2>6
<1>5. ASSUME NEW q \in Runners PROVE awaits'[q] \notin over'
  <2>1. SUFFICES ASSUME awaits'[q] \in over', awaits'[q] = awaits[q] PROVE FALSE
    <3>1. q # x => awaits'[q] = awaits[q]
      BY DEF Others, Quiet
    <3>2. q = x => awaits'[q] \notin over' \/ awaits'[q] = awaits[q]
      BY <1>2 DEF Fresh
    <3> QED
      BY <2>1, <3>1, <3>2
  <2>2. awaits[q] \notin over /\ awaits[q] \in Ops
    BY <1>2, <2>1 DEF AsyncInv, AwaitInv, RunnersInv
  <2>3. CASE awaits[q] = Top.obj /\ n = 1
    BY <1>1, <1>2, <2>3 DEF AsyncInv, AwaitInv, Bottom
  <2>4. CASE Top.obj \in Runners /\ awaits[q] = awaits[Top.obj] /\ awaits'[Top.obj] = None
    <3>1. q # Top.obj
      BY <1>2, <2>1, <2>2, <2>4
    <3>2. awaits[q] \in {q, Top.obj}
      BY <2>2, <2>4, <3>1 DEF AsyncInv, AwaitInv, UniqueAwait
    <3> QED
      BY <1>2, <2>2, <2>4, <3>2
  <2> QED
    BY <1>1, <2>1, <2>2, <2>3, <2>4 DEF OverStep
<1>6. RunnersInv'
  BY <1>3, <1>4, <1>5 DEF RunnersInv
<1>7. UniqueAwait'
  <2> SUFFICES ASSUME NEW q \in Runners, NEW r \in Runners, q # r, awaits'[q] = awaits'[r],
                      awaits'[r] \in Coroutines \cup Ops
               PROVE  awaits'[r] \in {q, r}
    BY DEF UniqueAwait
  <2>1. \A s \in Runners : s # x => awaits'[s] = awaits[s]
    BY DEF Others, Quiet
  <2>2. None \notin Coroutines \cup Ops
    BY AsyncAssumption DEF Runners
  <2>3. CASE awaits'[q] = awaits[q] /\ awaits'[r] = awaits[r]
    BY <2>3 DEF AsyncInv, AwaitInv, UniqueAwait
  <2>4. CASE q = x /\ awaits'[q] # awaits[q]
    <3>1. Fresh(q, awaits'[q])
      BY <2>2, <2>4
    <3> QED
      BY <2>1, <2>4, <3>1 DEF Fresh
  <2>5. CASE r = x /\ awaits'[r] # awaits[r]
    <3>1. Fresh(r, awaits'[r])
      BY <2>2, <2>5
    <3> QED
      BY <2>1, <2>5, <3>1 DEF Fresh
  <2> QED
    BY <2>1, <2>3, <2>4, <2>5
<1>8. Bottom'
  <2> SUFFICES ASSUME calls' # <<>>, NEW q \in Runners PROVE awaits'[q] # calls'[1].obj
    BY DEF Bottom
  <2>1. calls'[1].obj = calls[1].obj
    BY SameBottom
  <2>2. awaits[q] # calls[1].obj
    BY <1>2 DEF AsyncInv, AwaitInv, Bottom
  <2>3. None # calls[1].obj
    BY <1>2, AsyncAssumption DEF TypeInv, StackInv, Runners
  <2> QED
    BY <2>1, <2>2, <2>3 DEF Others, Quiet, Fresh
<1> QED
  BY <1>6, <1>7, <1>8 DEF AwaitInv

-----------------------------------------------------------------------------
(***************************************************************************)
(* Operations.  Steps that leave them alone but for new ones, and steps of *)
(* an operation.                                                           *)
(***************************************************************************)
OpsQuiet ==
    /\ runningAsync' = runningAsync
    /\ \A o \in Ops : o \notin over => op'[o] = op[o]
    /\ \A o \in Ops : o \in over => o \in over' \/ (op'[o].state = "INIT" /\ Starting(o)')
    /\ \A o \in Ops : Leaving(o) => Leaving(o)' \/ o \in over'
    /\ \A o \in Ops : op[o].state = "INIT" /\ Starting(o) => Starting(o)' \/ Leaving(o)' \/ o \in over'
    /\ Top.do \in OpWaiting => result = "next"

LEMMA OpsQuietSteps ==
    ASSUME TypeInv, TypeInv', AsyncInv, StepOn, Others, OpsQuiet
    PROVE  OpInv'
<1>1. PICK n \in Nat \ {0} : n = Len(calls) /\ Top = calls[n] /\ n \in 1..n
  BY TopFacts DEF StepOn
<1>2. PICK m \in Nat : m = Len(calls') /\ m \in {n - 1, n, n + 1} /\ \A i \in 1..(n - 1) : calls'[i] = calls[i]
  BY <1>1, LenProperties DEF StepOn, Kept
<1>3. \A i \in 1..(n - 1) : i \in 1..m
  BY <1>2
<1>4. ASSUME NEW o \in Ops, Live(o)' PROVE Live(o) /\ op'[o] = op[o]
  BY <1>4 DEF Live, OpsQuiet
<1>5. ASSUME NEW g \in Asyncgens, g # Top.obj PROVE Midway(g)' <=> Midway(g)
  BY <1>5 DEF Others, Quiet, Midway, Runners
<1>6. ASSUME NEW o \in Ops, NEW i \in 1..(n - 1), calls[i].do \in OpWaiting, calls[i].obj = o PROVE Using(o)'
  BY <1>2, <1>3, <1>6 DEF Using
<1>7. ASSUME NEW o \in Ops, Live(o)'
      PROVE  InUse(o)'
  <2>1. Live(o) /\ op'[o] = op[o] /\ op[o].gen \in Asyncgens
    BY <1>4, <1>7 DEF TypeInv, LockType
  <2>2. PICK g \in Asyncgens : g = op[o].gen /\ g = op'[o].gen
    BY <2>1
  <2>3. runningAsync[g] /\ (Using(o) \/ Midway(g))
    BY <2>1, <2>2 DEF AsyncInv, OpInv, LiveInv, InUse
  <2>7. SUFFICES runningAsync'[g] /\ (Using(o)' \/ Midway(g)')
    BY <2>2 DEF InUse
  <2>4. CASE g = Top.obj
    <3>1. PICK i \in 1..(n - 1) : calls[i].do \in OpWaiting /\ calls[i].obj = o
      BY <1>1, <2>1, <2>2, <2>4, GenUser DEF StepOn
    <3> QED
      BY <1>6, <2>2, <2>3, <3>1 DEF OpsQuiet
  <2>5. CASE g # Top.obj /\ Midway(g)
    BY <1>5, <2>2, <2>3, <2>5 DEF OpsQuiet
  <2>6. CASE g # Top.obj /\ Using(o)
    <3>1. PICK i \in 1..n : calls[i].do \in OpWaiting /\ calls[i].obj = o
      BY <1>1, <2>6 DEF Using
    <3>2. CASE i = n
      <4>1. OpWaits /\ result = "next" /\ g = Gen
        BY <1>1, <2>2, <3>1, <3>2 DEF OpsQuiet, OpWaits, OpWaiting, In, StepOn, Gen
      <4>2. Midway(g)
        BY <4>1 DEF AsyncInv, ResultInv
      <4> QED
        BY <1>5, <2>2, <2>3, <2>6, <4>2 DEF OpsQuiet
    <3>3. CASE i # n
      <4>1. i \in 1..(n - 1)
        BY <3>3
      <4> QED
        BY <1>6, <2>2, <2>3, <3>1, <4>1 DEF OpsQuiet
    <3> QED
      BY <3>2, <3>3
  <2> QED
    BY <2>3, <2>4, <2>5, <2>6
<1>8. LiveInv'
  BY <1>7 DEF LiveInv
<1>9. UniqueLive'
  BY <1>4 DEF UniqueLive, AsyncInv, OpInv
<1>10. InitInv'
  <2> SUFFICES ASSUME NEW o \in Ops, o \notin over', op'[o].state = "INIT" PROVE Leaving(o)' \/ Starting(o)'
    BY DEF InitInv
  <2>1. CASE o \in over
    BY <2>1 DEF OpsQuiet
  <2>2. CASE o \notin over
    BY <2>2 DEF OpsQuiet, AsyncInv, OpInv, InitInv
  <2> QED
    BY <2>1, <2>2
<1>11. MidwayLocked'
  <2> SUFFICES ASSUME NEW g \in Asyncgens, Midway(g)' PROVE runningAsync'[g]
    BY DEF MidwayLocked
  <2>1. CASE g # Top.obj
    BY <1>5, <2>1 DEF OpsQuiet, AsyncInv, OpInv, MidwayLocked
  <2>2. CASE g = Top.obj
    BY <2>2, GenUser DEF OpsQuiet, StepOn
  <2> QED
    BY <2>1, <2>2
<1> QED
  BY <1>8, <1>9, <1>10, <1>11 DEF OpInv

OpChanges(o) ==
    /\ \A q \in Runners : Quiet(q)
    /\ over \subseteq over'
    /\ \A g \in Asyncgens : ~runningAsync'[g] => ~Midway(g)
    /\ Live(o)' => InUse(o)' /\ (Live(o) \/ ~runningAsync[op[o].gen])
    /\ op'[o].state = "INIT" => o \in over'

LEMMA OpChangesSteps ==
    ASSUME TypeInv, TypeInv', AsyncInv, StepOn, OpStep, NEW o \in Ops, o = Top.obj,
           Top.do \in OpCalled \cup OpWaiting, OpChanges(o)
    PROVE  OpInv'
<1>1. PICK n \in Nat \ {0} : n = Len(calls) /\ Top = calls[n] /\ n \in 1..n
  BY TopFacts DEF StepOn
<1>2. PICK m \in Nat : m = Len(calls') /\ m \in {n - 1, n, n + 1} /\ \A i \in 1..(n - 1) : calls'[i] = calls[i]
  BY <1>1, LenProperties DEF StepOn, Kept
<1>3. \A i \in 1..(n - 1) : i \in 1..m
  BY <1>2
<1>4. \A p \in Ops : ~Leaving(p)
  BY DEF Leaving, In, OpCalled, OpWaiting
<1>5. ASSUME NEW p \in Ops, p # o, Live(p)' PROVE Live(p) /\ op'[p] = op[p]
  <2>1. p \notin over
    BY <1>5 DEF Live, OpChanges
  <2> QED
    BY <1>4, <1>5, <2>1 DEF Live, OpStep
<1>6. \A g \in Asyncgens : Midway(g)' <=> Midway(g)
  BY DEF OpChanges, Quiet, Midway, Runners
<1>7. ASSUME NEW p \in Ops, p # o, Live(p)'
      PROVE  InUse(p)'
  <2>1. Live(p) /\ op'[p] = op[p] /\ op[p].gen \in Asyncgens
    BY <1>5, <1>7 DEF TypeInv, LockType
  <2>2. PICK g \in Asyncgens : g = op[p].gen /\ g = op'[p].gen
    BY <2>1
  <2>3. runningAsync[g] /\ (Using(p) \/ Midway(g))
    BY <2>1, <2>2 DEF AsyncInv, OpInv, LiveInv, InUse
  <2>6. SUFFICES runningAsync'[g] /\ (Using(p)' \/ Midway(g)')
    BY <2>2 DEF InUse
  <2>4. ~(Top.do \in OpWaiting /\ Top.to = g)
    BY <1>1, <1>7, <2>1, <2>2, UserLive DEF AsyncInv, OpInv, UniqueLive
  <2>5. Using(p) => Using(p)'
    <3>1. SUFFICES ASSUME NEW i \in 1..n, calls[i].do \in OpWaiting, calls[i].obj = p PROVE Using(p)'
      BY <1>1 DEF Using
    <3>2. i # n
      BY <1>1, <1>7, <3>1
    <3>3. i \in 1..(n - 1)
      BY <3>2
    <3> QED
      BY <1>2, <1>3, <3>1, <3>3 DEF Using
  <2> QED
    BY <1>6, <2>2, <2>3, <2>4, <2>5 DEF OpStep
<1>8. LiveInv'
  BY <1>7 DEF LiveInv, OpChanges
<1>9. UniqueLive'
  <2>1. ASSUME NEW p \in Ops, p # o, Live(p)', Live(o)', op'[p].gen = op'[o].gen PROVE FALSE
    <3>1. Live(p) /\ op'[p] = op[p] /\ runningAsync[op[p].gen]
      BY <1>5, <2>1 DEF AsyncInv, OpInv, LiveInv, InUse
    <3>2. o \notin over
      BY <1>1 DEF AsyncInv, StackRunInv, Frames, OpFrame
    <3>3. op'[o].gen = op[o].gen
      BY <3>2 DEF OpStep
    <3> QED
      BY <2>1, <3>1, <3>3 DEF OpChanges, AsyncInv, OpInv, UniqueLive
  <2> SUFFICES ASSUME NEW p \in Ops, NEW q \in Ops, Live(p)', Live(q)', op'[p].gen = op'[q].gen PROVE p = q
    BY DEF UniqueLive
  <2>2. CASE p = o \/ q = o
    BY <2>1, <2>2
  <2>3. CASE p # o /\ q # o
    BY <1>5, <2>3 DEF AsyncInv, OpInv, UniqueLive
  <2> QED
    BY <2>2, <2>3
<1>10. InitInv'
  <2> SUFFICES ASSUME NEW p \in Ops, p \notin over', op'[p].state = "INIT" PROVE FALSE
    BY DEF InitInv
  <2>1. p # o /\ p \notin over
    BY DEF OpChanges
  <2>2. op[p].state = "INIT" /\ ~Starting(p)
    BY <2>1 DEF OpStep, Starting
  <2> QED
    BY <1>4, <2>1, <2>2 DEF AsyncInv, OpInv, InitInv
<1>11. MidwayLocked'
  BY <1>6 DEF MidwayLocked, OpChanges
<1> QED
  BY <1>8, <1>9, <1>10, <1>11 DEF OpInv

-----------------------------------------------------------------------------
(***************************************************************************)
(* A function returns, or calls others.                                    *)
(***************************************************************************)
LEMMA PopStep ==
    ASSUME TypeInv, calls # <<>>, NEW r, Returns(r)
    PROVE  /\ StepOn /\ ~ActsThen /\ Len(calls') = Len(calls) - 1
           /\ over' = IF Len(calls) = 1 /\ Top.obj \in Ops /\ r # "next" THEN over \cup {Top.obj} ELSE over
           /\ calls' # <<>> =>
                  LET c == calls[Len(calls) - 1]
                  IN  /\ Len(calls) # 1 /\ Len(calls) - 1 \in 1..(Len(calls) - 1)
                      /\ Top' = c /\ result' = r /\ Above(c, Top)
                      /\ c.do \in Waiting \cup OpWaiting \cup {"closed", "op_closing"}
<1>1. PICK n \in Nat \ {0} : n = Len(calls)
  BY TopFacts
<1>2. /\ Kept /\ Len(calls') = n - 1
      /\ result' = IF n = 1 THEN "null" ELSE r
      /\ over' = IF n = 1 /\ Top.obj \in Ops /\ r # "next" THEN over \cup {Top.obj} ELSE over
  BY <1>1, TopFacts, Pops
<1>3. n - 1 # n + 1 /\ n - 1 # n
  BY <1>1
<1>4. StepOn /\ ~ActsThen
  BY <1>1, <1>2, <1>3 DEF StepOn, ActsThen
<1>5. ASSUME calls' # <<>> PROVE n # 1
  BY <1>2, <1>5, EmptySeq DEF Kept
<1>6. ASSUME n # 1
      PROVE  /\ n - 1 \in 1..(n - 1) /\ Top' = calls[n - 1] /\ result' = r /\ Above(calls[n - 1], Top)
             /\ calls[n - 1].do \in Waiting \cup OpWaiting \cup {"closed", "op_closing"}
  <2>1. n - 1 \in 1..(n - 1)
    BY <1>6
  <2>2. Top' = calls'[n - 1] /\ calls'[n - 1] = calls[n - 1]
    BY <1>1, <1>2, <2>1 DEF Top, Kept
  <2> QED
    BY <1>1, <1>2, <1>6, <2>1, <2>2, TopFacts, Waits
<1> QED
  BY <1>1, <1>2, <1>4, <1>5, <1>6

LEMMA OneStep ==
    ASSUME TypeInv, calls # <<>>, NEW a \in Frame, Goes(<<a>>), a.obj = Top.obj
    PROVE  /\ StepOn /\ (ActsThen <=> IsActivation(a)) /\ Len(calls') = Len(calls)
           /\ calls'[Len(calls)] = a /\ calls' # <<>> /\ Top' = a /\ result' = "null"
<1>1. PICK n \in Nat \ {0} : n = Len(calls)
  BY TopFacts
<1>2. Kept /\ result' = "null" /\ Len(calls') = n /\ calls'[n] = a
  BY <1>1, TopFacts, GoesOne
<1>3. n # n - 1 /\ n # n + 1
  BY <1>1
<1> QED
  BY <1>1, <1>2, <1>3, EmptySeq DEF StepOn, ActsThen, Top

LEMMA TwoStep ==
    ASSUME TypeInv, calls # <<>>, NEW a \in Frame, NEW b \in Frame, Goes(<<a, b>>), a.obj = Top.obj, ~IsActivation(b)
    PROVE  /\ StepOn /\ (ActsThen <=> IsActivation(a)) /\ Len(calls') = Len(calls) + 1
           /\ calls'[Len(calls)] = a /\ calls'[Len(calls) + 1] = b
           /\ calls' # <<>> /\ Top' = b /\ result' = "null"
<1>1. PICK n \in Nat \ {0} : n = Len(calls)
  BY TopFacts
<1>2. Kept /\ result' = "null" /\ Len(calls') = n + 1 /\ calls'[n] = a /\ calls'[n + 1] = b
  BY <1>1, TopFacts, GoesTwo
<1>3. n + 1 # n - 1 /\ n + 1 # 0
  BY <1>1
<1> QED
  BY <1>1, <1>2, <1>3, EmptySeq DEF StepOn, ActsThen, Top

LEMMA PopResult ==
    ASSUME TypeInv, TypeInv', AsyncInv, calls # <<>>, NEW r, Returns(r), OpStep,
           NEW x, x = Top.obj,
           r = "next" => /\ x \in Coroutines => status'[x] = "Running"
                         /\ x \in Ops => op'[x].state = "ITER",
           Top.do \in {"op_throw", "op_throwing"} => op'[x].state = IF r = "next" THEN "ITER" ELSE "CLOSED",
           x \in Asyncgens => (r = "next" <=> Midway(x)')
    PROVE  CalledInv' /\ ResultInv'
<1>1. CASE calls' = <<>>
  BY <1>1 DEF CalledInv, ResultInv, In, OpWaits
<1>2. CASE calls' # <<>>
  <2>1. PICK n \in Nat \ {0} : n = Len(calls)
    BY TopFacts
  <2>2. PICK c : /\ c = calls[n - 1] /\ n - 1 \in 1..(n - 1) /\ Top' = c /\ result' = r /\ Above(c, Top)
                 /\ c.do \in Waiting \cup OpWaiting \cup {"closed", "op_closing"}
    BY <1>2, <2>1, PopStep
  <2>3. CalledInv'
    BY <2>2 DEF CalledInv, In, Waiting, OpWaiting
  <2>4. n - 1 \in 1..n
    BY <2>2
  <2>5. FrameOK(c) /\ OpFrame(c)
    BY <2>1, <2>2, <2>4, CallFacts DEF AsyncInv, StackRunInv, Frames
  <2>6. ASSUME c.do \in {"delegate", "throwing"}, r = "next"
        PROVE  /\ c.to \in Coroutines => status'[c.to] = "Running"
               /\ c.to \in Ops => op'[c.to].state = "ITER"
    <3>1. c.to = x
      BY <2>2, <2>6 DEF Above, OpWaiting
    <3> QED
      BY <2>6, <3>1
  <2>7. ASSUME c.do = "op_closing" PROVE op'[c.obj].state = IF r = "next" THEN "ITER" ELSE "CLOSED"
    BY <2>2, <2>7 DEF Above, OpWaiting
  <2>8. ASSUME c.do \in OpWaiting PROVE r = "next" <=> Midway(op[c.obj].gen)'
    <3>1. c.to = x /\ c.to \in Asyncgens /\ c.obj \in Ops /\ c.obj \notin over /\ op[c.obj].gen = c.to
      BY <2>2, <2>5, <2>8 DEF Above, OpWaiting, FrameOK, OpFrame
    <3>2. op'[c.obj].gen = x
      BY <3>1 DEF OpStep
    <3>3. PICK g \in Asyncgens : g = x
      BY <3>1
    <3> QED
      BY <3>1, <3>2, <3>3
  <2>9. OpWaits' => c.do \in OpWaiting
    BY <2>2 DEF OpWaits, In, OpWaiting
  <2> QED
    BY <1>2, <2>2, <2>3, <2>6, <2>7, <2>8, <2>9 DEF ResultInv, In, State, Gen
<1> QED
  BY <1>1, <1>2

\* Nothing in which c awaits itself.
LEMMA SelfAwait ==
    ASSUME TypeInv, AsyncInv, NEW c \in Coroutines, awaits[c] = c
    PROVE  /\ calls # <<>> /\ Top.obj = c /\ running[c] /\ status[c] = "Running"
           /\ Top.do = "send" \/ (Top.do = "delegate" /\ result = "error")
<1>1. running[c] /\ calls # <<>> /\ Top.obj = c /\ (Top.do = "send" \/ (Top.do = "delegate" /\ result = "error"))
  BY DEF AsyncInv, AwaitInv, SelfInv
<1>2. c \in Runners
  BY DEF Runners
<1>3. PICK i \in 1..Len(calls) : IsActivation(calls[i]) /\ calls[i].obj = c
  BY <1>1, <1>2 DEF AsyncInv, StackRunInv, RunningActive
<1>4. status[c] = "Running"
  BY <1>3 DEF AsyncInv, StackRunInv, Frames, RunnerFrame
<1> QED
  BY <1>1, <1>4

LEMMA SelfSteps ==
    ASSUME TypeInv, AsyncInv, Others, calls # <<>>, Top.obj \in Runners => awaits'[Top.obj] # Top.obj
    PROVE  SelfInv'
<1> SUFFICES ASSUME NEW c \in Coroutines, awaits'[c] = c PROVE FALSE
  BY DEF SelfInv
<1>1. c \in Runners /\ c # Top.obj
  BY DEF Runners
<1>2. awaits[c] = c
  BY <1>1 DEF Others, Quiet
<1> QED
  BY <1>1, <1>2, SelfAwait

LEMMA RunnerPop ==
    ASSUME TypeInv, TypeInv', AsyncInv, calls # <<>>, NEW r, Returns(r), NEW x, x = Top.obj,
           x \in Runners \cup {Future}, Others, Free, RunStep, op' = op, runningAsync' = runningAsync,
           \A o \in Ops : ~Leaving(o),
           x \in Runners => RunnerInv(x)' /\ AwaitedInv(x)' /\ awaits'[x] = awaits[x],
           x \in Coroutines => awaits[x] # x \/ status'[x] = status[x],
           SelfInv',
           x \in Coroutines /\ r = "next" => status'[x] = "Running",
           x \in Asyncgens => (r = "next" <=> Midway(x)')
    PROVE  AsyncInv'
<1>1. x \notin Ops /\ FrameOK(Top)
  BY TopFacts, AsyncAssumption DEF Runners
<1>2. Top.do \notin OpWaiting \cup {"op_throw", "op_send", "op_close"}
  BY <1>1 DEF FrameOK, OpCalled
<1>3. PICK n \in Nat : n = Len(calls)
  BY TopFacts
<1>4. StepOn /\ Len(calls') = n - 1 /\ n - 1 # n + 1 /\ over' = over
  BY <1>1, <1>3, PopStep
<1>5. OpStep /\ OverStep
  BY <1>4 DEF OpStep, OverStep
<1>6. StackRunInv'
  BY <1>3, <1>4, <1>5, FrameSteps
<1>7. AwaitInv'
  BY <1>4, <1>5, AwaitSteps
<1>8. CalledInv' /\ ResultInv'
  <2>1. Top.do \notin {"op_throw", "op_throwing"}
    BY <1>2 DEF OpWaiting
  <2> HIDE DEF CalledInv, ResultInv
  <2> QED
    BY <1>1, <1>5, <2>1, PopResult
<1>9. OpsQuiet
  BY <1>1, <1>2, <1>4 DEF OpsQuiet, Starting
<1>10. OpInv'
  BY <1>4, <1>9, OpsQuietSteps
<1> QED
  BY <1>6, <1>7, <1>8, <1>10 DEF AsyncInv

LEMMA QuietRunners ==
    ASSUME UNCHANGED <<object, awaits>>
    PROVE  \A q \in Runners : Quiet(q)
BY DEF object, Quiet

LEMMA OpPop ==
    ASSUME TypeInv, TypeInv', AsyncInv, calls # <<>>, NEW r, Returns(r), NEW x \in Ops, x = Top.obj,
           \A q \in Runners : Quiet(q), OpStep,
           r = "next" => op'[x].state = "ITER",
           Top.do \in {"op_throw", "op_throwing"} => op'[x].state = IF r = "next" THEN "ITER" ELSE "CLOSED",
           OpInv'
    PROVE  AsyncInv'
<1>1. x \notin Runners /\ FrameOK(Top) /\ ~Acts
  BY TopFacts, AsyncAssumption DEF FrameOK, Acts, IsActivation, Active, Waiting
<1>3. PICK n \in Nat : n = Len(calls)
  BY TopFacts
<1>4. StepOn /\ ~ActsThen /\ Len(calls') = n - 1 /\ n - 1 # n + 1 /\ OverStep
  BY <1>3, PopStep DEF OverStep
<1>5. Others /\ Free /\ RunStep
  BY <1>1, <1>4 DEF Others, Free, RunStep, Quiet
<1>6. StackRunInv'
  BY <1>3, <1>4, <1>5, FrameSteps
<1>7. SelfInv'
  BY <1>1, <1>5, SelfSteps
<1>8. x \notin Coroutines /\ x \notin Asyncgens
  BY <1>1 DEF Runners
<1>9. AwaitInv'
  BY <1>1, <1>4, <1>5, <1>7, <1>8, AwaitSteps
<1>10. CalledInv' /\ ResultInv'
  BY <1>8, PopResult
<1> QED
  BY <1>6, <1>9, <1>10 DEF AsyncInv

\* What becomes of an operation that returns to the one who awaits it.
LEMMA Left ==
    ASSUME TypeInv, calls # <<>>, NEW r, Returns(r), r # "next", NEW x \in Ops, x = Top.obj,
           Top.do \notin {"op_throw", "op_throwing"} \cup Closers
    PROVE  x \in over' \/ Leaving(x)'
<1>1. PICK n \in Nat \ {0} : n = Len(calls)
  BY TopFacts
<1>2. CASE n = 1
  BY <1>1, <1>2, PopStep
<1>3. CASE n # 1
  <2>1. calls' # <<>>
    <3>1. Len(calls') = n - 1 /\ calls' \in Seq(Frame)
      BY <1>1, PopStep DEF StepOn, Kept
    <3>2. n - 1 # 0
      BY <1>3
    <3> QED
      BY <3>1, <3>2
  <2>2. PICK c : /\ c = calls[n - 1] /\ n - 1 \in 1..(n - 1) /\ Top' = c /\ result' = r /\ Above(c, Top)
                 /\ c.do \in Waiting \cup OpWaiting \cup {"closed", "op_closing"}
    BY <1>1, <2>1, PopStep
  <2>3. n - 1 \in 1..n
    BY <2>2
  <2>4. FrameOK(c)
    BY <1>1, <2>2, <2>3, CallFacts
  <2>5. Top.obj \notin Runners /\ Top.obj # Future
    BY AsyncAssumption
  <2>6. Top.do # "future"
    BY <2>5, TopFacts DEF FrameOK
  <2>9. c.do \notin OpWaiting
    BY <2>2, <2>4, <2>5 DEF Above, FrameOK, Runners, OpWaiting
  <2>10. c.do # "closed"
    BY <2>2, <2>4, <2>5 DEF Above, FrameOK, Runners, OpWaiting
  <2>12. Above(c, Top)
    BY <2>2
  <2>13. ASSUME c.do = "op_closing" PROVE FALSE
    BY <2>12, <2>13 DEF Above, OpWaiting
  <2>14. ASSUME c.do = "closing" PROVE FALSE
    BY <2>6, <2>12, <2>14 DEF Above, OpWaiting
  <2>11. c.do # "op_closing" /\ c.do # "closing"
    BY <2>13, <2>14
  <2>7. c.do \in {"delegate", "throwing"}
    BY <2>2, <2>9, <2>10, <2>11 DEF Waiting
  <2>8. c.to = Top.obj
    BY <2>2, <2>7 DEF Above, OpWaiting
  <2> QED
    BY <2>1, <2>2, <2>7, <2>8 DEF Leaving, In
<1> QED
  BY <1>2, <1>3

\* Something else is called in place of the one on top.
LEMMA RunnerOne ==
    ASSUME TypeInv, TypeInv', AsyncInv, calls # <<>>, NEW x \in Runners, x = Top.obj,
           NEW a \in Frame, a.obj = x, a.do \in {"body", "send"}, Goes(<<a>>),
           Others, Free, RunStep, op' = op, runningAsync' = runningAsync,
           a.do = "body" => yieldFrom'[x] = None /\ awaits'[x] = None /\ status'[x] = "Running" /\ running'[x],
           a.do = "send" => ~running'[x],
           RunnerInv(x)', AwaitedInv(x)', awaits'[x] \in {awaits[x], None}, awaits'[x] # x,
           x \in Coroutines => awaits[x] # x \/ status'[x] = status[x],
           OverStep, over \subseteq over', \A o \in Ops : Leaving(o) => Leaving(o)' \/ o \in over'
    PROVE  AsyncInv'
<1>1. x \notin Ops /\ FrameOK(Top)
  BY TopFacts, AsyncAssumption
<1>2. Top.do \notin OpWaiting \cup {"op_throw", "op_send", "op_close"}
  BY <1>1 DEF FrameOK, OpCalled
<1>3. PICK n \in Nat : n = Len(calls)
  BY TopFacts
<1>4. StepOn /\ Len(calls') = n /\ n # n + 1 /\ calls'[n] = a /\ Top' = a /\ calls' # <<>>
  BY <1>3, OneStep
<1>5. OpStep
  BY DEF OpStep
<1>6. RunnerFrame(calls[n])' /\ OpFrame(calls[n])'
  BY <1>1, <1>4 DEF RunnerFrame, OpFrame, IsActivation, OpWaiting
<1>7. StackRunInv'
  BY <1>3, <1>4, <1>5, <1>6, FrameSteps
<1>8. SelfInv'
  BY SelfSteps
<1>9. AwaitInv'
  BY <1>4, <1>5, <1>8, AwaitSteps
<1>10. CalledInv' /\ ResultInv'
  BY <1>4 DEF CalledInv, ResultInv, In, OpWaits
<1>11. OpsQuiet
  BY <1>1, <1>2 DEF OpsQuiet, Starting
<1>12. OpInv'
  BY <1>4, <1>11, OpsQuietSteps
<1> QED
  BY <1>7, <1>9, <1>10, <1>12 DEF AsyncInv

Callee == {"future", "send", "throw", "close", "op_close"} \cup OpCalled

\* The one on top waits for what it calls.
LEMMA TwoCalls ==
    ASSUME TypeInv, TypeInv', AsyncInv, calls # <<>>, NEW x, x = Top.obj,
           NEW a \in Frame, a.obj = x, NEW b \in Frame, b.do \in Callee, Goes(<<a, b>>),
           b.do \in {"throw", "close"} => ~running'[b.obj],
           b.do = "send" => ~running'[b.obj] \/ awaits'[b.obj] = b.obj,
           b.do = "op_throw2" => op'[b.obj].state # "INIT"
    PROVE  /\ StepOn /\ calls' # <<>> /\ Top' = b /\ CalledInv' /\ ResultInv'
           /\ (ActsThen <=> IsActivation(a)) /\ Len(calls') = Len(calls) + 1
           /\ calls'[Len(calls)] = a /\ calls'[Len(calls) + 1] = b
<1>1. ~IsActivation(b)
  BY DEF IsActivation, Callee, OpCalled
<1>2. /\ StepOn /\ (ActsThen <=> IsActivation(a)) /\ Len(calls') = Len(calls) + 1
      /\ calls'[Len(calls)] = a /\ calls'[Len(calls) + 1] = b
      /\ calls' # <<>> /\ Top' = b
  BY <1>1, TwoStep
<1>3. CalledInv' /\ ResultInv'
  BY <1>2 DEF CalledInv, ResultInv, In, OpWaits, Callee, OpCalled, State
<1> QED
  BY <1>2, <1>3

LEMMA RunnerTwo ==
    ASSUME TypeInv, TypeInv', AsyncInv, calls # <<>>, NEW x \in Runners, x = Top.obj,
           NEW a \in Frame, a.obj = x, a.do \in Waiting \cup {"closed"},
           NEW b \in Frame, b.do \in Callee, Goes(<<a, b>>),
           b.do \in {"throw", "close"} => ~running'[b.obj],
           b.do = "send" => ~running'[b.obj] \/ awaits'[b.obj] = b.obj,
           b.do = "op_throw2" => op'[b.obj].state # "INIT",
           b.obj \in Ops => b.obj \notin over',
           Others, Free, RunStep, OpStep,
           a.do \in Waiting => awaits'[x] = a.to /\ status'[x] = "Running" /\ running'[x],
           a.do = "delegate" => yieldFrom'[x] = None,
           a.do \in {"throwing", "closing"} => yieldFrom'[x] = a.to,
           RunnerInv(x)', AwaitedInv(x)', awaits'[x] = awaits[x] \/ Fresh(x, awaits'[x]), SelfInv',
           x \in Coroutines => awaits[x] # x \/ status'[x] = status[x],
           OverStep, OpsQuiet
    PROVE  AsyncInv'
<1>1. x \notin Ops
  BY AsyncAssumption
<1>3. PICK n \in Nat : n = Len(calls)
  BY TopFacts
<1>4. StepOn /\ Len(calls') = n + 1 /\ calls'[n] = a /\ calls'[n + 1] = b /\ CalledInv' /\ ResultInv'
  BY <1>3, TwoCalls
<1>6. RunnerFrame(calls[n])' /\ OpFrame(calls[n])'
  BY <1>1, <1>4 DEF RunnerFrame, OpFrame, IsActivation, OpWaiting, Waiting
<1>7. OpFrame(calls[n + 1])'
  BY <1>4 DEF OpFrame, Callee, OpCalled, OpWaiting
<1>8. StackRunInv'
  BY <1>3, <1>4, <1>6, <1>7, FrameSteps
<1>9. AwaitInv'
  BY <1>4, AwaitSteps
<1>10. OpInv'
  BY <1>4, OpsQuietSteps
<1> QED
  BY <1>4, <1>8, <1>9, <1>10 DEF AsyncInv

LEMMA OpTwo ==
    ASSUME TypeInv, TypeInv', AsyncInv, calls # <<>>, NEW x \in Ops, x = Top.obj,
           NEW a \in Frame, a.obj = x, a.do \in OpWaiting \cup {"op_closing"},
           NEW b \in Frame, b.do \in {"send", "throw", "op_throw"}, Goes(<<a, b>>),
           b.do # "op_throw" => b.obj = a.to /\ a.to \in Asyncgens /\ ~running[a.to],
           b.do = "op_throw" => b.obj = x,
           \A q \in Runners : Quiet(q), OpStep, over' = over,
           a.do \in OpWaiting => op'[x].state = "ITER" /\ op'[x].gen = a.to /\ runningAsync'[a.to],
           StepOn => OpInv'
    PROVE  AsyncInv'
<1>1. x \notin Runners /\ FrameOK(Top) /\ ~Acts /\ x \notin over
  <2>1. PICK n \in Nat \ {0} : n = Len(calls) /\ Top = calls[n] /\ n \in 1..n
    BY TopFacts
  <2> QED
    BY <2>1, TopFacts, AsyncAssumption
       DEF FrameOK, Acts, IsActivation, Active, Waiting, AsyncInv, StackRunInv, Frames, OpFrame
<1>2. ~IsActivation(a)
  BY DEF IsActivation, OpWaiting
<1>3. PICK n \in Nat : n = Len(calls)
  BY TopFacts
<1>4. /\ StepOn /\ ~ActsThen /\ Len(calls') = n + 1 /\ calls'[n] = a /\ calls'[n + 1] = b
      /\ CalledInv' /\ ResultInv'
  <2>1. b.obj \in Asyncgens => ~running'[b.obj]
    BY <1>1 DEF Quiet, Runners
  <2>2. b.do \in Callee /\ b.do \notin {"close", "op_throw2"}
    BY DEF Callee, OpCalled
  <2>3. b.do \in {"send", "throw"} => ~running'[b.obj]
    BY <2>1
  <2> QED
    BY <1>2, <1>3, <2>2, <2>3, TwoCalls
<1>5. Others /\ Free /\ RunStep /\ OverStep
  BY <1>1, <1>4 DEF Others, Free, RunStep, OverStep, Quiet
<1>6. RunnerFrame(calls[n])' /\ OpFrame(calls[n])'
  BY <1>1, <1>2, <1>4 DEF RunnerFrame, OpFrame, IsActivation
<1>7. OpFrame(calls[n + 1])'
  <2>1. a.to \in Asyncgens => a.to \notin Ops
    BY AsyncAssumption DEF Runners
  <2> QED
    BY <1>1, <1>4, <2>1 DEF OpFrame, OpWaiting
<1>8. StackRunInv'
  BY <1>3, <1>4, <1>5, <1>6, <1>7, FrameSteps
<1>9. SelfInv'
  BY <1>1, <1>5, SelfSteps
<1>10. AwaitInv'
  BY <1>1, <1>4, <1>5, <1>9, AwaitSteps DEF Runners
<1> QED
  BY <1>4, <1>8, <1>10 DEF AsyncInv

-----------------------------------------------------------------------------
(***************************************************************************)
(* The actions keep the invariant.  First those that return.               *)
(***************************************************************************)
LEMMA TopFrame ==
    ASSUME TypeInv, AsyncInv, calls # <<>>
    PROVE  FrameOK(Top) /\ RunnerFrame(Top) /\ OpFrame(Top)
<1>1. PICK n \in Nat \ {0} : n = Len(calls) /\ Top = calls[n] /\ n \in 1..n /\ FrameOK(Top)
  BY TopFacts
<1> QED
  BY <1>1 DEF AsyncInv, StackRunInv, Frames

LEMMA AwaitTypes ==
    ASSUME TypeInv, NEW r \in Runners
    PROVE  /\ r # None /\ r \notin Ops /\ r # Future /\ None \notin Awaitables /\ None \notin Coroutines \cup Ops
           /\ awaits[r] = r => r \in Coroutines
           /\ awaits[r] \in Awaitables \cup {None} /\ yieldFrom[r] \in Awaitables \cup {None}
           /\ status[r] \in {"Unused", "Running", "Finished"} /\ running[r] \in BOOLEAN
BY AsyncAssumption DEF TypeInv, ObjectType, Awaitables, Runners

LEMMA FutureKeeps ==
    ASSUME TypeInv, TypeInv', AsyncInv, NEW r \in Results, FutureAnswers(r)
    PROVE  AsyncInv'
<1>1. calls # <<>> /\ Top.do = "future" /\ Returns(r)
  BY DEF FutureAnswers, In
<1>2. Top.obj = Future /\ Future \notin Runners
  BY <1>1, TopFrame, AsyncAssumption DEF FrameOK
<1>3. (\A q \in Runners : Quiet(q)) /\ op' = op /\ runningAsync' = runningAsync
  BY QuietRunners DEF FutureAnswers, lock, object
<1>4. ~Acts /\ ~ActsThen
  BY <1>1, PopStep DEF Acts, IsActivation
<1>5. Others /\ Free /\ RunStep
  BY <1>3, <1>4 DEF Others, Free, RunStep, Quiet
<1>6. \A o \in Ops : ~Leaving(o)
  BY <1>1 DEF Leaving, In
<1>7. SelfInv'
  BY <1>1, <1>2, <1>5, SelfSteps
<1> QED
  BY <1>1, <1>2, <1>3, <1>5, <1>6, <1>7, RunnerPop DEF Runners

LEMMA BodyReturnsKeeps ==
    ASSUME TypeInv, TypeInv', AsyncInv,
           BodyYields \/ \E r \in {"return", "null", "exit", "error"} : BodyEnds(r)
    PROVE  AsyncInv'
<1>1. PICK r : /\ calls # <<>> /\ Top.do = "body" /\ Returns(r) /\ r # "next"
               /\ MarkAsNotRunning(Top.obj) /\ UNCHANGED <<yieldFrom, awaiting, awaits, lock>>
               /\ \/ status' = [status EXCEPT ![Top.obj] = "Finished"]
                  \/ status' = status /\ Top.obj \in Asyncgens
  BY DEF BodyYields, BodyEnds, In
<1>2. PICK x \in Runners : x = Top.obj
  BY <1>1, TopFrame DEF FrameOK, Active
<1>3. yieldFrom[x] = None /\ awaits[x] = None /\ status[x] = "Running" /\ running[x]
  BY <1>1, <1>2, TopFrame DEF RunnerFrame, IsActivation
<1>4. /\ \A q \in Runners : running'[q] = IF q = x THEN FALSE ELSE running[q]
      /\ \A q \in Runners : q # x => status'[q] = status[q]
      /\ x \in Asyncgens \/ status'[x] = "Finished"
      /\ x # None /\ None \notin Coroutines \cup Ops
  BY <1>1, <1>2, AwaitTypes DEF MarkAsNotRunning, TypeInv, ObjectType
<1>5. Acts /\ ~ActsThen
  BY <1>1, PopStep DEF Acts, IsActivation
<1>6. Others
  BY <1>1, <1>2, <1>4 DEF Others, Quiet
<1>7. Free /\ RunStep
  <2>1. ActsThen = FALSE
    BY <1>5 DEF ActsThen
  <2> QED
    BY <1>2, <1>4, <1>5, <2>1 DEF Free, RunStep
<1>8. RunnerInv(x)' /\ AwaitedInv(x)'
  <2>1. RunnerInv(x)
    BY DEF AsyncInv, AwaitInv, RunnersInv
  <2>2. x \in Asyncgens => x \notin Coroutines
    BY AsyncAssumption
  <2> QED
    BY <1>1, <1>2, <1>3, <1>4, <2>1, <2>2 DEF RunnerInv, AwaitedInv
<1>9. \A o \in Ops : ~Leaving(o)
  BY <1>1 DEF Leaving, In
<1>10. awaits'[x] = None
  BY <1>1, <1>3
<1>11. SelfInv'
  BY <1>1, <1>2, <1>4, <1>6, <1>10, SelfSteps
<1>12. ~Midway(x)'
  BY <1>1, <1>3 DEF Midway
<1> QED
  BY <1>1, <1>2, <1>3, <1>4, <1>6, <1>7, <1>8, <1>9, <1>10, <1>11, <1>12, RunnerPop DEF lock

\* Of what stays as it is.
LEMMA StaysKeeps ==
    ASSUME TypeInv, TypeInv', AsyncInv, calls # <<>>, NEW r, Returns(r), r # "next",
           NEW x \in Runners, x = Top.obj, Top.do \in {"close", "closed"} \/ (Top.do = "send" /\ status[x] = "Finished"),
           UNCHANGED <<object, lock, awaits>>
    PROVE  AsyncInv'
<1>1. (\A q \in Runners : Quiet(q)) /\ op' = op /\ runningAsync' = runningAsync
  BY QuietRunners DEF lock, object
<1>2. ~Acts /\ ~ActsThen
  BY PopStep DEF Acts, IsActivation
<1>3. Others /\ Free /\ RunStep
  BY <1>1, <1>2 DEF Others, Free, RunStep, Quiet
<1>4. RunnerInv(x) /\ AwaitedInv(x) /\ Quiet(x) /\ None \notin Coroutines \cup Ops
  BY <1>1, AwaitTypes DEF AsyncInv, AwaitInv, RunnersInv
<1>5. Sending(x) => yieldFrom[x] = None /\ awaits[x] = None
  BY <1>4 DEF Sending, In, RunnerInv
<1>6. RunnerInv(x)'
  BY <1>4, <1>5 DEF RunnerInv, Quiet
<1>7. AwaitedInv(x)'
  <2>1. awaits[x] \in Coroutines => status'[awaits[x]] = status[awaits[x]]
    BY <1>1 DEF Quiet, Runners
  <2> QED
    BY <1>1, <1>4, <1>5, <2>1 DEF AwaitedInv, Quiet
<1>8. \A o \in Ops : ~Leaving(o)
  BY <1>4, <1>5 DEF Leaving, In, Sending
<1>9. awaits[x] # x
  BY <1>4, <1>5, SelfAwait, AwaitTypes DEF Sending, In
<1>10. SelfInv'
  BY <1>1, <1>3, <1>9, SelfSteps DEF Quiet
<1>11. x \in Asyncgens => ~Midway(x)'
  <2>1. x \in Asyncgens => Top.do = "send"
    BY TopFrame, AsyncAssumption DEF FrameOK
  <2> QED
    BY <1>1, <2>1 DEF Midway, Quiet
<1> QED
  BY <1>1, <1>3, <1>4, <1>6, <1>7, <1>8, <1>9, <1>10, <1>11, RunnerPop DEF Quiet

LEMMA FinishedKeeps ==
    ASSUME TypeInv, TypeInv', AsyncInv, SendToFinished \/ CloseOther \/ (CloseReturns /\ In("closed"))
    PROVE  AsyncInv'
<1>1. PICK r : /\ calls # <<>> /\ Returns(r) /\ r # "next" /\ UNCHANGED <<object, lock, awaits>>
               /\ Top.do \in {"close", "closed"} \/ (Top.do = "send" /\ status[Top.obj] = "Finished")
  BY DEF SendToFinished, CloseOther, CloseReturns, In
<1>2. PICK x \in Runners : x = Top.obj
  BY <1>1, TopFrame DEF FrameOK, Active, Runners
<1> QED
  BY <1>1, <1>2, StaysKeeps

\* A coroutine that awaits itself.
LEMMA AlreadyExecutingKeeps ==
    ASSUME TypeInv, TypeInv', AsyncInv, AlreadyExecuting
    PROVE  AsyncInv'
<1>1. /\ calls # <<>> /\ Top.do = "send" /\ Returns("error") /\ running[Top.obj]
      /\ UNCHANGED <<object, lock, awaits>>
  BY DEF AlreadyExecuting, In, MayResume
<1>2. PICK x \in Runners : x = Top.obj
  BY <1>1, TopFrame DEF FrameOK, Active
<1>3. awaits[x] = x /\ x \in Coroutines /\ x \notin Asyncgens
  <2>1. awaits[x] = x
    BY <1>1, <1>2 DEF AsyncInv, CalledInv, In
  <2> QED
    BY <2>1, AwaitTypes, AsyncAssumption
<1>4. (\A q \in Runners : Quiet(q)) /\ op' = op /\ runningAsync' = runningAsync
  BY <1>1, QuietRunners DEF lock, object
<1>5. ~Acts /\ ~ActsThen
  BY <1>1, PopStep DEF Acts, IsActivation
<1>6. Others /\ Free /\ RunStep
  BY <1>4, <1>5 DEF Others, Free, RunStep, Quiet
<1>7. \A o \in Ops : ~Leaving(o)
  BY <1>1, <1>2, <1>3, AwaitTypes DEF Leaving, In
<1>8. RunnerInv(x) /\ Quiet(x)
  BY <1>4 DEF AsyncInv, AwaitInv, RunnersInv
<1>9. RunnerInv(x)' /\ AwaitedInv(x)'
  BY <1>1, <1>2, <1>8 DEF RunnerInv, AwaitedInv, Quiet
<1>10. SelfInv'
  <2> SUFFICES ASSUME NEW c \in Coroutines, awaits'[c] = c
               PROVE  running'[c] /\ calls' # <<>> /\ Top'.obj = c /\ Top'.do = "delegate" /\ result' = "error"
    BY DEF SelfInv
  <2>1. c \in Runners /\ awaits[c] = c
    BY <1>4 DEF Quiet, Runners
  <2>2. /\ c = x /\ Len(calls) # 1
        /\ calls[Len(calls) - 1].do = "delegate" /\ calls[Len(calls) - 1].obj = x
    BY <1>1, <1>2, <2>1 DEF AsyncInv, AwaitInv, SelfInv
  <2>3. calls' # <<>>
    <3>1. PICK n \in Nat \ {0, 1} : n = Len(calls)
      BY <1>1, <2>2, TopFacts
    <3>2. calls' \in Seq(Frame) /\ Len(calls') = n - 1 /\ n - 1 # 0
      BY <1>1, <3>1, PopStep DEF StepOn, Kept
    <3> QED
      BY <3>2
  <2>4. Top' = calls[Len(calls) - 1] /\ result' = "error"
    BY <1>1, <2>3, PopStep
  <2> QED
    BY <1>1, <1>2, <1>4, <2>2, <2>3, <2>4 DEF Quiet
<1> QED
  BY <1>1, <1>2, <1>3, <1>4, <1>6, <1>7, <1>9, <1>10, RunnerPop DEF Quiet

\* The await is not ready.
LEMMA AwaitsKeeps ==
    ASSUME TypeInv, TypeInv', AsyncInv, DelegateAwaits \/ ThrowingAwaits
    PROVE  AsyncInv'
<1>1. /\ calls # <<>> /\ Top.do \in {"delegate", "throwing"} /\ Returns("next") /\ result = "next"
      /\ MarkAsNotRunning(Top.obj) /\ UNCHANGED <<status, awaiting, lock, awaits>>
      /\ \/ Top.do = "delegate" /\ yieldFrom' = [yieldFrom EXCEPT ![Top.obj] = Top.to]
         \/ Top.do = "throwing" /\ yieldFrom' = yieldFrom
  BY DEF DelegateAwaits, ThrowingAwaits, AwaitedNotReady, In
<1>2. PICK x \in Runners : x = Top.obj
  BY <1>1, TopFrame DEF FrameOK, Active, Waiting
<1>3. PICK y \in Awaitables : /\ y = Top.to /\ awaits[x] = y /\ status[x] = "Running" /\ running[x]
                              /\ Top.do = "throwing" => yieldFrom[x] = y
  BY <1>1, <1>2, TopFrame DEF RunnerFrame, FrameOK, IsActivation, Waiting
<1>4. /\ \A q \in Runners : running'[q] = IF q = x THEN FALSE ELSE running[q]
      /\ \A q \in Runners : q # x => yieldFrom'[q] = yieldFrom[q]
      /\ yieldFrom'[x] = y /\ y # None /\ op' = op /\ runningAsync' = runningAsync
  BY <1>1, <1>2, <1>3, AwaitTypes DEF MarkAsNotRunning, TypeInv, ObjectType, lock
<1>5. Acts /\ ~ActsThen /\ ActsThen = FALSE
  BY <1>1, PopStep DEF Acts, ActsThen, IsActivation
<1>6. Others
  BY <1>1, <1>2, <1>4 DEF Others, Quiet
<1>7. Free /\ RunStep
  BY <1>2, <1>4, <1>5 DEF Free, RunStep
<1>8. RunnerInv(x)'
  <2>1. RunnerInv(x)
    BY DEF AsyncInv, AwaitInv, RunnersInv
  <2> QED
    BY <1>1, <1>3, <1>4, <2>1 DEF RunnerInv
<1>9. AwaitedInv(x)'
  BY <1>1, <1>3, <1>4 DEF AwaitedInv, AsyncInv, ResultInv, In
<1>10. \A o \in Ops : ~Leaving(o)
  BY <1>1 DEF Leaving, In
<1>11. awaits[x] # x
  BY <1>1, SelfAwait, AwaitTypes
<1>12. SelfInv'
  BY <1>1, <1>2, <1>6, <1>11, SelfSteps
<1>13. Midway(x)'
  BY <1>1, <1>3, <1>4 DEF Midway
<1> QED
  BY <1>1, <1>2, <1>3, <1>4, <1>6, <1>7, <1>8, <1>9, <1>10, <1>11, <1>12, <1>13, RunnerPop

LEMMA ThrowToOtherKeeps ==
    ASSUME TypeInv, TypeInv', AsyncInv, ThrowToOther
    PROVE  AsyncInv'
<1>1. /\ calls # <<>> /\ Top.do = "throw" /\ yieldFrom[Top.obj] = None /\ status[Top.obj] # "Running"
      /\ status' = [status EXCEPT ![Top.obj] = "Finished"]
      /\ UNCHANGED <<running, yieldFrom, awaiting, lock, awaits>>
  BY DEF ThrowToOther, In
<1>2. PICK x \in Runners : x = Top.obj /\ Top.exc \in Excs
  BY <1>1, TopFrame DEF FrameOK, Active
<1>3. PICK r : Returns(r) /\ r # "next"
  BY <1>2 DEF ThrowToOther, Excs
<1>4. awaits[x] = None /\ ~running[x] /\ RunnerInv(x)
  BY <1>1, <1>2 DEF AsyncInv, AwaitInv, RunnersInv, RunnerInv, CalledInv, In
<1>5. /\ \A q \in Runners : q # x => status'[q] = status[q]
      /\ status'[x] = "Finished" /\ op' = op /\ runningAsync' = runningAsync
      /\ x # None /\ None \notin Coroutines \cup Ops
  BY <1>1, <1>2, AwaitTypes DEF TypeInv, ObjectType, lock
<1>6. ~Acts /\ ~ActsThen
  BY <1>1, <1>3, PopStep DEF Acts, IsActivation
<1>7. Others /\ Free /\ RunStep
  BY <1>1, <1>2, <1>4, <1>5, <1>6 DEF Others, Free, RunStep, Quiet
<1>8. RunnerInv(x)' /\ AwaitedInv(x)'
  BY <1>1, <1>2, <1>4, <1>5 DEF RunnerInv, AwaitedInv
<1>9. \A o \in Ops : ~Leaving(o)
  BY <1>1 DEF Leaving, In
<1>10. SelfInv'
  BY <1>1, <1>2, <1>4, <1>5, <1>7, SelfSteps
<1>11. ~Midway(x)'
  BY <1>5 DEF Midway
<1> QED
  BY <1>1, <1>2, <1>3, <1>4, <1>5, <1>7, <1>8, <1>9, <1>10, <1>11, RunnerPop

(***************************************************************************)
(* Then those that call a body, or _Nuitka_..._send in place of throw.     *)
(***************************************************************************)
LEMMA EntersBodyFacts ==
    ASSUME TypeInv, NEW x \in Runners, NEW exc, EntersBody(x, exc)
    PROVE  /\ \A q \in Runners : awaits'[q] = IF q = x THEN None ELSE awaits[q]
           /\ \A c \in Coroutines : awaiting'[c] = IF c = x THEN FALSE ELSE awaiting[c]
           /\ over' = over \cup ({awaits[x]} \cap Ops) /\ Goes(<<Call("body", x, exc)>>)
BY DEF EntersBody, TypeInv, ObjectType

LEMMA SendToBodyKeeps ==
    ASSUME TypeInv, TypeInv', AsyncInv, SendToBody
    PROVE  AsyncInv'
<1>1. /\ calls # <<>> /\ Top.do = "send" /\ ~running[Top.obj] /\ yieldFrom[Top.obj] = None
      /\ status' = [status EXCEPT ![Top.obj] = "Running"] /\ MarkAsRunning(Top.obj)
      /\ EntersBody(Top.obj, Top.exc) /\ UNCHANGED <<yieldFrom, lock>>
  BY DEF SendToBody, Resumes, MayResume, In
<1>2. PICK x \in Runners : x = Top.obj /\ Top.exc \in Excs
  BY <1>1, TopFrame DEF FrameOK, Active
<1>3. PICK a \in Frame : a = Call("body", x, Top.exc) /\ a.obj = x /\ a.do = "body"
  BY <1>2, RunnerCall DEF Call
<1>4. /\ \A q \in Runners : awaits'[q] = IF q = x THEN None ELSE awaits[q]
      /\ \A c \in Coroutines : awaiting'[c] = IF c = x THEN FALSE ELSE awaiting[c]
      /\ over' = over \cup ({awaits[x]} \cap Ops) /\ Goes(<<a>>)
  BY <1>1, <1>2, <1>3, EntersBodyFacts
<1>5. /\ \A q \in Runners : running'[q] = IF q = x THEN TRUE ELSE running[q]
      /\ \A q \in Runners : status'[q] = IF q = x THEN "Running" ELSE status[q]
      /\ op' = op /\ runningAsync' = runningAsync /\ x # None /\ None \notin Coroutines \cup Ops
  BY <1>1, <1>2, AwaitTypes DEF MarkAsRunning, TypeInv, ObjectType, lock
<1>6. ~Acts /\ ActsThen = TRUE
  BY <1>1, <1>2, <1>3, <1>4, OneStep DEF Acts, ActsThen, IsActivation
<1>7. Others /\ Free /\ RunStep
  BY <1>1, <1>2, <1>4, <1>5, <1>6 DEF Others, Free, RunStep, Quiet
<1>8. RunnerInv(x)' /\ AwaitedInv(x)'
  BY <1>4, <1>5 DEF RunnerInv, AwaitedInv
<1>9. \A o \in Ops : Leaving(o) => o \in over'
  BY <1>1, <1>2, <1>4 DEF Leaving, In
<1>10. awaits[x] # x
  BY <1>1, <1>2, SelfAwait, AwaitTypes
<1>11. OverStep
  BY <1>2, <1>4 DEF OverStep
<1>12. /\ yieldFrom'[x] = None /\ awaits'[x] = None /\ status'[x] = "Running" /\ running'[x]
       /\ awaits'[x] # x /\ over \subseteq over'
  BY <1>1, <1>2, <1>4, <1>5
<1> QED
  BY <1>1, <1>2, <1>3, <1>4, <1>5, <1>7, <1>8, <1>9, <1>10, <1>11, <1>12, RunnerOne

LEMMA DelegateEndsKeeps ==
    ASSUME TypeInv, TypeInv', AsyncInv, DelegateEnds
    PROVE  AsyncInv'
<1>1. /\ calls # <<>> /\ Top.do = "delegate" /\ result # "next"
      /\ EntersBody(Top.obj, Outcome(Top.exc, result)) /\ UNCHANGED <<status, running, yieldFrom, lock>>
  BY DEF DelegateEnds, In
<1>2. PICK x \in Runners : /\ x = Top.obj /\ Top.exc \in Excs /\ yieldFrom[x] = None /\ awaits[x] = Top.to
                           /\ status[x] = "Running" /\ running[x]
  BY <1>1, TopFrame DEF FrameOK, RunnerFrame, IsActivation, Active, Waiting
<1>13. Outcome(Top.exc, result) \in Excs
  <2>1. result \in Results \ {"value", "next"}
    BY <1>1 DEF TypeInv, ResultType, OpWaits, In
  <2> QED
    BY <1>2, <2>1, ResultFacts
<1>3. PICK a \in Frame : a = Call("body", x, Outcome(Top.exc, result)) /\ a.obj = x /\ a.do = "body"
  BY <1>13, RunnerCall DEF Call
<1>4. /\ \A q \in Runners : awaits'[q] = IF q = x THEN None ELSE awaits[q]
      /\ \A c \in Coroutines : awaiting'[c] = IF c = x THEN FALSE ELSE awaiting[c]
      /\ over' = over \cup ({awaits[x]} \cap Ops) /\ Goes(<<a>>)
  BY <1>1, <1>2, <1>3, EntersBodyFacts
<1>5. op' = op /\ runningAsync' = runningAsync /\ x # None /\ None \notin Coroutines \cup Ops
  BY <1>1, AwaitTypes DEF lock
<1>6. Acts /\ ActsThen
  BY <1>1, <1>2, <1>3, <1>4, OneStep DEF Acts, ActsThen, IsActivation
<1>14. ActsThen = TRUE /\ running[x] = TRUE
  BY <1>2, <1>6, AwaitTypes DEF ActsThen
<1>7. Others /\ Free /\ RunStep
  BY <1>1, <1>2, <1>4, <1>6, <1>14 DEF Others, Free, RunStep, Quiet
<1>8. RunnerInv(x)' /\ AwaitedInv(x)'
  BY <1>1, <1>2, <1>4, <1>5 DEF RunnerInv, AwaitedInv
<1>9. \A o \in Ops : Leaving(o) => o \in over'
  BY <1>1, <1>2, <1>4 DEF Leaving, In
<1>11. OverStep
  BY <1>2, <1>4 DEF OverStep
<1>12. /\ yieldFrom'[x] = None /\ awaits'[x] = None /\ status'[x] = "Running" /\ running'[x]
       /\ awaits'[x] # x /\ over \subseteq over' /\ status'[x] = status[x]
  BY <1>1, <1>2, <1>4, <1>5
<1> QED
  BY <1>1, <1>2, <1>3, <1>4, <1>5, <1>7, <1>8, <1>9, <1>11, <1>12, RunnerOne

LEMMA ThrowToStartedKeeps ==
    ASSUME TypeInv, TypeInv', AsyncInv, ThrowToStarted
    PROVE  AsyncInv'
<1>1. /\ calls # <<>> /\ Top.do = "throw" /\ yieldFrom[Top.obj] = None /\ UNCHANGED <<object, lock, awaits, over>>
      /\ Goes(<<Call("send", Top.obj, Top.exc)>>)
  BY DEF ThrowToStarted, In
<1>2. PICK x \in Runners : x = Top.obj /\ Top.exc \in Excs
  BY <1>1, TopFrame DEF FrameOK, Active
<1>3. PICK a \in Frame : a = Call("send", x, Top.exc) /\ a.obj = x /\ a.do = "send"
  BY <1>2, RunnerCall DEF Call
<1>4. (\A q \in Runners : Quiet(q)) /\ op' = op /\ runningAsync' = runningAsync /\ over' = over
  BY <1>1, QuietRunners DEF lock, object
<1>5. ~running[x] /\ RunnerInv(x)
  BY <1>1, <1>2 DEF AsyncInv, AwaitInv, RunnersInv, CalledInv, In
<1>6. ~Acts /\ ~ActsThen /\ calls' # <<>> /\ Top' = a
  BY <1>1, <1>2, <1>3, OneStep DEF Acts, IsActivation
<1>7. Others /\ Free /\ RunStep /\ OverStep
  BY <1>4, <1>6 DEF Others, Free, RunStep, Quiet, OverStep
<1>8. Sending(x)'
  BY <1>3, <1>6 DEF Sending, In
<1>9. RunnerInv(x)' /\ AwaitedInv(x)'
  BY <1>1, <1>2, <1>4, <1>5, <1>8 DEF RunnerInv, AwaitedInv, Quiet
<1>10. \A o \in Ops : ~Leaving(o)
  BY <1>1 DEF Leaving, In
<1>11. awaits[x] # x
  BY <1>1, SelfAwait, AwaitTypes
<1> QED
  BY <1>1, <1>2, <1>3, <1>4, <1>5, <1>7, <1>9, <1>10, <1>11, RunnerOne DEF Quiet

\* What was thrown or closed has ended, the body is next.
LEMMA ThrownKeeps ==
    ASSUME TypeInv, TypeInv', AsyncInv, ClosingReturns \/ ThrowingEnds
    PROVE  AsyncInv'
<1>1. PICK exc : /\ calls # <<>> /\ Top.do \in {"closing", "throwing"}
                 /\ Goes(<<Call("send", Top.obj, exc)>>) /\ exc \in Excs
                 /\ MarkAsNotRunning(Top.obj) /\ UNCHANGED <<status, awaiting, lock, awaits, over>>
                 /\ \/ Top.do = "closing" /\ yieldFrom' = yieldFrom
                    \/ yieldFrom' = [yieldFrom EXCEPT ![Top.obj] = None]
  <2>1. CASE ClosingReturns
    <3>1. (IF result = "return" THEN "exit" ELSE result) \in Excs
      BY <2>1 DEF ClosingReturns, TypeInv, ResultType, Excs
    <3> QED
      BY <2>1, <3>1 DEF ClosingReturns, In
  <2>2. CASE ThrowingEnds
    <3>1. result \in Results \ {"value", "next"}
      BY <2>2 DEF ThrowingEnds, TypeInv, ResultType, OpWaits, In
    <3>2. Outcome("null", result) \in Excs
      BY <3>1, ResultFacts DEF Excs
    <3> QED
      BY <2>2, <3>2 DEF ThrowingEnds, In
  <2> QED
    BY <2>1, <2>2
<1>2. PICK x \in Runners : x = Top.obj
  BY <1>1, TopFrame DEF FrameOK, Active, Waiting
<1>3. PICK y \in Awaitables : y = Top.to /\ awaits[x] = y /\ yieldFrom[x] = y /\ status[x] = "Running" /\ running[x]
  BY <1>1, <1>2, TopFrame DEF RunnerFrame, FrameOK, IsActivation, Waiting
<1>4. PICK a \in Frame : a = Call("send", x, exc) /\ a.obj = x /\ a.do = "send"
  BY <1>1, <1>2, RunnerCall DEF Call
<1>5. /\ \A q \in Runners : running'[q] = IF q = x THEN FALSE ELSE running[q]
      /\ \A q \in Runners : q # x => yieldFrom'[q] = yieldFrom[q]
      /\ yieldFrom'[x] = None \/ (Top.do = "closing" /\ yieldFrom'[x] = y)
      /\ y # None /\ op' = op /\ runningAsync' = runningAsync
  BY <1>1, <1>2, <1>3, AwaitTypes DEF MarkAsNotRunning, TypeInv, ObjectType, lock
<1>6. Acts /\ ~ActsThen /\ ActsThen = FALSE /\ calls' # <<>> /\ Top' = a
  BY <1>1, <1>2, <1>4, OneStep DEF Acts, ActsThen, IsActivation
<1>7. Others /\ Free /\ RunStep /\ OverStep
  BY <1>1, <1>2, <1>5, <1>6 DEF Others, Free, RunStep, Quiet, OverStep
<1>8. Sending(x)'
  BY <1>4, <1>6 DEF Sending, In
<1>9. RunnerInv(x)' /\ AwaitedInv(x)'
  <2>1. RunnerInv(x)
    BY DEF AsyncInv, AwaitInv, RunnersInv
  <2> QED
    BY <1>1, <1>3, <1>5, <1>8, <2>1 DEF RunnerInv, AwaitedInv
<1>10. \A o \in Ops : Leaving(o) => Leaving(o)'
  BY <1>1, <1>2, <1>3, <1>4, <1>5, <1>6 DEF Leaving, In
<1>11. awaits[x] # x
  BY <1>1, SelfAwait, AwaitTypes
<1>12. ~running'[x] /\ awaits'[x] = awaits[x] /\ over' = over /\ status' = status
  BY <1>1, <1>5
<1> QED
  BY <1>1, <1>2, <1>4, <1>5, <1>7, <1>9, <1>10, <1>11, <1>12, RunnerOne

(***************************************************************************)
(* Then those that wait for something else.                                *)
(***************************************************************************)
LEMMA IdleAwaited ==
    ASSUME TypeInv, AsyncInv, calls # <<>>, NEW x \in Runners, x = Top.obj, ~running[x]
    PROVE  /\ awaits[x] # x /\ awaits[x] \notin over
           /\ awaits[x] \in Coroutines => ~running[awaits[x]]
<1>1. awaits[x] # x
  BY SelfAwait, AwaitTypes
<1>2. ASSUME awaits[x] \in Coroutines, running[awaits[x]] PROVE FALSE
  <2>1. PICK i \in 1..Len(calls) : IsActivation(calls[i]) /\ calls[i].obj = awaits[x]
    BY <1>2 DEF AsyncInv, StackRunInv, RunningActive, Runners
  <2>2. awaits[awaits[x]] # awaits[x]
    BY <1>1, <1>2, SelfAwait
  <2> QED
    BY <1>1, <1>2, <2>1, <2>2, AwaiterRuns DEF AsyncInv
<1> QED
  BY <1>1, <1>2 DEF AsyncInv, AwaitInv, RunnersInv

LEMMA SendToAwaitedKeeps ==
    ASSUME TypeInv, TypeInv', AsyncInv, SendToAwaited
    PROVE  AsyncInv'
<1>1. /\ calls # <<>> /\ Top.do = "send" /\ ~running[Top.obj] /\ yieldFrom[Top.obj] # None
      /\ status' = [status EXCEPT ![Top.obj] = "Running"] /\ MarkAsRunning(Top.obj)
      /\ yieldFrom' = [yieldFrom EXCEPT ![Top.obj] = None]
      /\ UNCHANGED <<awaiting, awaits, over, lock>>
  BY DEF SendToAwaited, Resumes, MayResume, In
<1>2. PICK x \in Runners : x = Top.obj /\ Top.exc \in Excs
  BY <1>1, TopFrame DEF FrameOK, Active
<1>3. PICK y \in Awaitables : y = yieldFrom[x] /\ y = awaits[x] /\ status[x] = "Running"
  BY <1>1, <1>2, AwaitTypes DEF AsyncInv, AwaitInv, RunnersInv, RunnerInv
<1>4. PICK a \in Frame : a = Wait("delegate", x, Top.exc, y)
  BY <1>2, WaitCall DEF Waiting
<1>5. a.obj = x /\ a.do = "delegate" /\ a.to = y /\ a.exc = Top.exc
  BY <1>4 DEF Wait
<1>6. PICK b \in Frame : /\ b = PassTo(y, Top.exc) /\ b.obj = y
                         /\ b.do \in {"future", "op_send", "op_throw", "op_close", "send", "throw", "close"}
  BY <1>2, <1>5, PassToFacts
<1>7. Goes(<<a, b>>)
  BY <1>2, <1>3, <1>4, <1>6 DEF SendToAwaited
<1>8. y # x /\ y \notin over /\ (y \in Coroutines => ~running[y])
  BY <1>1, <1>2, <1>3, IdleAwaited
<1>9. b.do \in {"send", "throw", "close"} => y \in Coroutines
  BY <1>6, AsyncAssumption DEF Frame, FrameOK, Active, Awaitables, Runners
<1>10. /\ \A q \in Runners : running'[q] = IF q = x THEN TRUE ELSE running[q]
       /\ \A q \in Runners : status'[q] = status[q]
       /\ \A q \in Runners : q # x => yieldFrom'[q] = yieldFrom[q]
       /\ yieldFrom'[x] = None /\ awaits' = awaits /\ awaiting' = awaiting /\ over' = over
       /\ op' = op /\ runningAsync' = runningAsync
  BY <1>1, <1>2, <1>3 DEF MarkAsRunning, TypeInv, ObjectType, lock
<1>11. ~Acts /\ ActsThen = TRUE
  <2>1. b.do \in Callee /\ ~IsActivation(b) /\ IsActivation(a)
    BY <1>5, <1>6 DEF Callee, OpCalled, IsActivation
  <2> QED
    BY <1>1, <1>2, <1>5, <1>7, <2>1, TwoStep DEF Acts, ActsThen, IsActivation
<1>12. Others /\ Free /\ RunStep /\ OpStep /\ OverStep
  BY <1>1, <1>2, <1>10, <1>11 DEF Others, Free, RunStep, Quiet, OpStep, OverStep
<1>13. RunnerInv(x)' /\ AwaitedInv(x)'
  <2>1. RunnerInv(x)
    BY DEF AsyncInv, AwaitInv, RunnersInv
  <2> QED
    BY <1>3, <1>10, <2>1 DEF RunnerInv, AwaitedInv
<1>14. SelfInv'
  BY <1>1, <1>2, <1>3, <1>8, <1>10, <1>12, SelfSteps
<1>15. OpsQuiet
  BY <1>1, <1>10 DEF OpsQuiet, Leaving, Starting, In, OpWaiting
<1>16. b.do \in {"send", "throw", "close"} => ~running'[y]
  BY <1>8, <1>9, <1>10 DEF Runners
<1>17. b.do \in Callee /\ b.do # "op_throw2" /\ a.do \in Waiting
  BY <1>5, <1>6 DEF Callee, OpCalled, Waiting
<1> QED
  BY <1>1, <1>2, <1>3, <1>5, <1>6, <1>7, <1>8, <1>10, <1>12, <1>13, <1>14, <1>15, <1>16, <1>17, RunnerTwo

LEMMA ThrowToAwaitedKeeps ==
    ASSUME TypeInv, TypeInv', AsyncInv, ThrowToAwaited
    PROVE  AsyncInv'
<1>1. /\ calls # <<>> /\ Top.do = "throw" /\ yieldFrom[Top.obj] # None
      /\ MarkAsRunning(Top.obj) /\ UNCHANGED <<status, yieldFrom, awaiting, lock, awaits, over>>
  BY DEF ThrowToAwaited, In
<1>2. PICK x \in Runners : x = Top.obj /\ Top.exc \in Excs \ {"null"}
  BY <1>1, TopFrame DEF FrameOK, Active
<1>3. ~running[x] /\ ~Sending(x) /\ RunnerInv(x) /\ AwaitedInv(x)
  BY <1>1, <1>2 DEF AsyncInv, AwaitInv, RunnersInv, CalledInv, In, Sending
<1>4. PICK y \in Awaitables : y = yieldFrom[x] /\ y = awaits[x] /\ status[x] = "Running"
  BY <1>1, <1>2, <1>3, AwaitTypes DEF RunnerInv
<1>5. PICK do \in {"closing", "throwing"}, b \in Frame :
          /\ b.obj = y /\ b.do \in {"future", "op_throw", "op_throw2", "throw", "op_close", "close"}
          /\ Goes(<<Wait(do, x, Top.exc, y), b>>)
  <2>1. CASE Closes(x)
    <3>1. PICK a \in Frame : a = Wait("closing", x, Top.exc, y) /\ a.do = "closing" /\ a.to = y
      BY <1>2, WaitCall DEF Waiting, Wait
    <3>2. PICK b \in Frame : b = CloseOf(y) /\ b.obj = y /\ b.do \in {"future", "op_close", "close"}
      BY <3>1, CloseOfFacts
    <3> QED
      BY <1>2, <1>4, <2>1, <3>2 DEF ThrowToAwaited
  <2>2. CASE ~Closes(x)
    <3>1. PICK a \in Frame : a = Wait("throwing", x, Top.exc, y) /\ a.do = "throwing" /\ a.to = y
      BY <1>2, WaitCall DEF Waiting, Wait
    <3>2. PICK b \in Frame : /\ b = ThrowTo(y, Top.exc) /\ b.obj = y
                             /\ b.do \in {"future", "op_throw", "op_throw2", "throw"}
      BY <1>2, <3>1, ThrowToFacts
    <3> QED
      BY <1>2, <1>4, <2>2, <3>2 DEF ThrowToAwaited
  <2> QED
    BY <2>1, <2>2
<1>6. PICK a \in Frame : a = Wait(do, x, Top.exc, y) /\ a.obj = x /\ a.do = do /\ a.to = y
  BY <1>2, WaitCall DEF Waiting, Wait
<1>7. Goes(<<a, b>>)
  BY <1>5, <1>6
<1>8. y # x /\ y \notin over /\ (y \in Coroutines => ~running[y])
  BY <1>1, <1>2, <1>3, <1>4, IdleAwaited
<1>9. b.do \in {"throw", "close"} => y \in Coroutines
  BY <1>5, AsyncAssumption DEF Frame, FrameOK, Active, Awaitables, Runners
<1>10. /\ \A q \in Runners : running'[q] = IF q = x THEN TRUE ELSE running[q]
       /\ status' = status /\ yieldFrom' = yieldFrom /\ awaits' = awaits /\ awaiting' = awaiting
       /\ over' = over /\ op' = op /\ runningAsync' = runningAsync
  BY <1>1, <1>2 DEF MarkAsRunning, TypeInv, ObjectType, lock
<1>11. ~Acts /\ ActsThen = TRUE
  <2>1. ~IsActivation(b) /\ IsActivation(a)
    BY <1>5, <1>6 DEF IsActivation
  <2> QED
    BY <1>1, <1>2, <1>6, <1>7, <2>1, TwoStep DEF Acts, ActsThen, IsActivation
<1>12. Others /\ Free /\ RunStep /\ OpStep /\ OverStep
  BY <1>2, <1>3, <1>10, <1>11 DEF Others, Free, RunStep, Quiet, OpStep, OverStep
<1>13. RunnerInv(x)' /\ AwaitedInv(x)'
  BY <1>3, <1>4, <1>10 DEF RunnerInv, AwaitedInv
<1>14. SelfInv'
  BY <1>1, <1>2, <1>4, <1>8, <1>10, <1>12, SelfSteps
<1>15. OpsQuiet
  BY <1>1, <1>10 DEF OpsQuiet, Leaving, Starting, In, OpWaiting
<1>16. b.do \in {"throw", "close"} => ~running'[y]
  BY <1>8, <1>9, <1>10 DEF Runners
<1>17. b.do = "op_throw2" => op'[y].state # "INIT"
  <2>1. b.do = "op_throw2" => y \in Ops
    BY <1>5 DEF Frame, FrameOK, OpCalled
  <2> QED
    BY <1>3, <1>4, <1>10, <2>1 DEF AwaitedInv
<1>18. b.do \in Callee /\ b.do # "send" /\ a.do \in Waiting /\ a.do # "delegate"
  BY <1>5, <1>6 DEF Callee, OpCalled, Waiting
<1> QED
  BY <1>1, <1>2, <1>4, <1>5, <1>6, <1>7, <1>8, <1>10, <1>12, <1>13, <1>14, <1>15, <1>16, <1>17, <1>18, RunnerTwo

LEMMA CloseStartedKeeps ==
    ASSUME TypeInv, TypeInv', AsyncInv, CloseStarted
    PROVE  AsyncInv'
<1>1. /\ calls # <<>> /\ Top.do = "close" /\ UNCHANGED <<object, lock, awaits, over>>
      /\ Goes(<<Wait("closed", Top.obj, "null", None), CallClosing("send", Top.obj, "exit")>>)
  BY DEF CloseStarted, In
<1>2. PICK x \in Runners : x = Top.obj /\ x \in Coroutines
  BY <1>1, TopFrame DEF FrameOK, Runners
<1>3. PICK a \in Frame : a = Wait("closed", x, "null", None) /\ a.obj = x /\ a.do = "closed"
  BY <1>2, CloseCall DEF Wait
<1>4. PICK b \in Frame : b = CallClosing("send", x, "exit") /\ b.obj = x /\ b.do = "send"
  BY RunnerCall DEF CallClosing, Excs
<1>5. Goes(<<a, b>>)
  BY <1>1, <1>2, <1>3, <1>4
<1>6. (\A q \in Runners : Quiet(q)) /\ op' = op /\ runningAsync' = runningAsync /\ over' = over
  BY <1>1, QuietRunners DEF lock, object
<1>7. ~running[x] /\ ~Sending(x) /\ RunnerInv(x) /\ AwaitedInv(x) /\ awaits[x] # x
  BY <1>1, <1>2, SelfAwait DEF AsyncInv, AwaitInv, RunnersInv, CalledInv, In, Sending
<1>8. b.do \in Callee /\ ~IsActivation(b) /\ ~IsActivation(a)
  BY <1>3, <1>4 DEF Callee, IsActivation
<1>9. ~Acts /\ ~ActsThen /\ calls' # <<>> /\ Top' = b
  BY <1>1, <1>2, <1>3, <1>5, <1>8, TwoStep DEF Acts, IsActivation
<1>10. Others /\ Free /\ RunStep /\ OpStep /\ OverStep
  BY <1>6, <1>9 DEF Others, Free, RunStep, Quiet, OpStep, OverStep
<1>11. Sending(x)'
  BY <1>4, <1>9 DEF Sending, In
<1>12. RunnerInv(x)' /\ AwaitedInv(x)'
  BY <1>6, <1>7, <1>11 DEF RunnerInv, AwaitedInv, Quiet
<1>13. SelfInv'
  BY <1>1, <1>2, <1>6, <1>7, <1>10, SelfSteps DEF Quiet
<1>14. OpsQuiet
  BY <1>1, <1>6 DEF OpsQuiet, Leaving, Starting, In, OpWaiting
<1>15. ~running'[x] /\ awaits'[x] = awaits[x] /\ x \notin Ops
  BY <1>2, <1>6, <1>7, AwaitTypes DEF Quiet
<1>16. a.do \notin Waiting /\ b.do \notin {"throw", "close", "op_throw2"}
  BY <1>3, <1>4 DEF Waiting
<1> QED
  BY <1>1, <1>2, <1>3, <1>4, <1>5, <1>7, <1>8, <1>10, <1>12, <1>13, <1>14, <1>15, <1>16, RunnerTwo DEF Waiting

\* What waits below the top has awaited something.
LEMMA BelowAwaits ==
    ASSUME TypeInv, AsyncInv, calls # <<>>, NEW c \in Coroutines, c # Top.obj,
           NEW i \in 1..Len(calls), calls[i].obj = c
    PROVE  awaits[c] # None
<1>1. PICK n \in Nat \ {0} : n = Len(calls) /\ Top = calls[n]
  BY TopFacts
<1>2. \A j \in 1..n : calls[j].obj = c => j \in 1..(n - 1) /\ j + 1 \in 1..n
  BY <1>1
<1>3. ASSUME NEW j \in 1..n, calls[j].obj = c, calls[j].do \in Waiting PROVE awaits[c] # None
  BY <1>1, <1>3, CallFacts, AwaitTypes DEF AsyncInv, StackRunInv, Frames, RunnerFrame, FrameOK, Waiting, Runners
<1>4. ASSUME NEW j \in 1..n, calls[j].obj = c PROVE calls[j].do \in Waiting \cup {"closed"}
  <2>1. calls[j].do \in Waiting \cup OpWaiting \cup {"closed", "op_closing"} /\ FrameOK(calls[j])
    BY <1>1, <1>2, <1>4, Waits, CallFacts
  <2>2. c \notin Ops
    BY AsyncAssumption DEF Runners
  <2> QED
    BY <1>4, <2>1, <2>2 DEF FrameOK
<1>5. CASE calls[i].do = "closed"
  <2>1. i \in 1..(n - 1) /\ i + 1 \in 1..n /\ i \in 1..n
    BY <1>1, <1>2
  <2>2. Above(calls[i], calls[i + 1])
    BY <1>1, <2>1, Waits
  <2>3. calls[i + 1].obj = c /\ calls[i + 1].do \in Active
    BY <1>5, <2>2 DEF Above, OpWaiting
  <2>4. calls[i + 1].do # "closed"
    BY <2>3 DEF Active, Waiting
  <2> QED
    BY <1>3, <1>4, <2>1, <2>3, <2>4
<1> QED
  BY <1>1, <1>3, <1>4, <1>5

\* A coroutine that is not being awaited.
LEMMA NotAwaited ==
    ASSUME TypeInv, AsyncInv, In("body"), NEW x, x = Top.obj, NEW c \in Coroutines \ Tasks, ~awaiting[c]
    PROVE  /\ ~running[c] \/ c = x
           /\ c # calls[1].obj
           /\ \A q \in Runners : q # x /\ awaits[q] = c => c \in {q, x}
<1>1. calls # <<>> /\ c \in Runners /\ awaits[c] = None /\ RunnerInv(c) /\ Top.do = "body"
  BY DEF In, AsyncInv, AwaitInv, RunnersInv, RunnerInv, Runners
<1>2. ~running[c] \/ c = x
  BY <1>1, BelowAwaits DEF AsyncInv, StackRunInv, RunningActive
<1>3. c # calls[1].obj
  BY <1>1, AsyncAssumption DEF TypeInv, StackInv, Runners
<1>4. ASSUME NEW q \in Runners, q # x, awaits[q] = c, c \notin {q, x} PROVE FALSE
  <2>1. ASSUME ~running[q] PROVE FALSE
    <3>1. status[c] = "Running"
      BY <1>1, <1>4, <2>1 DEF AsyncInv, AwaitInv, RunnersInv, AwaitedInv, Sending, In
    <3> QED
      BY <1>1, <1>2, <1>4, <3>1 DEF RunnerInv
  <2>2. PICK n \in Nat \ {0} : n = Len(calls) /\ Top = calls[n]
    BY <1>1, TopFacts
  <2>3. PICK i \in 1..n : IsActivation(calls[i]) /\ calls[i].obj = q
    BY <2>1, <2>2 DEF AsyncInv, StackRunInv, RunningActive
  <2>4. i # n /\ i \in 1..(n - 1) /\ i + 1 \in 1..n
    BY <1>4, <2>2, <2>3
  <2>5. Above(calls[i], calls[i + 1]) /\ calls[i].do \in Waiting
    BY <2>2, <2>3, <2>4, Waits
  <2>6. calls[i].to = c
    <3>1. RunnerFrame(calls[i])
      BY <2>2 DEF AsyncInv, StackRunInv, Frames
    <3> QED
      BY <1>4, <2>3, <2>5, <3>1 DEF RunnerFrame, Waiting
  <2>7. calls[i + 1].obj = c
    BY <2>5, <2>6 DEF Above, Waiting, OpWaiting
  <2> QED
    BY <1>1, <1>4, <2>2, <2>4, <2>7, BelowAwaits
<1> QED
  BY <1>2, <1>3, <1>4

LEMMA DelegatesKeeps ==
    ASSUME TypeInv, TypeInv', AsyncInv, In("body"), NEW x, x = Top.obj, NEW y \in Awaitables, NEW b \in Frame,
           Delegates(y, b), b.obj = y, b.do \in {"future", "send", "op_send"},
           y \in Coroutines => b.do = "send" /\ b.exc = "null" /\ ~b.closing,
           y \in Ops => b.do = "op_send",
           Fresh(x, y), y \in Coroutines => ~running[y] \/ y = x,
           runningAsync' = runningAsync, over' \subseteq over,
           \A o \in Ops : o \notin over => op'[o] = op[o],
           \A o \in Ops : o \in over => o \in over' \/ (o = y /\ op'[o].state = "INIT")
    PROVE  AsyncInv'
<1>1. calls # <<>> /\ Top.do = "body" /\ UNCHANGED <<status, running, yieldFrom>>
  BY DEF In, Delegates
<1>2. x \in Runners /\ yieldFrom[x] = None /\ status[x] = "Running" /\ running[x] /\ running[x] = TRUE
  BY <1>1, TopFrame, AwaitTypes DEF FrameOK, Active, RunnerFrame, IsActivation
<1>3. PICK a \in Frame : a = Wait("delegate", x, "null", y)
  BY <1>2, WaitCall DEF Waiting, Excs
<1>4. a.obj = x /\ a.do = "delegate" /\ a.to = y
  BY <1>3 DEF Wait
<1>5. Goes(<<a, b>>)
  BY <1>3 DEF Delegates
<1>6. /\ \A q \in Runners : awaits'[q] = IF q = x THEN y ELSE awaits[q]
      /\ \A c \in Coroutines : awaiting'[c] = IF c = x THEN TRUE ELSE awaiting[c]
  <2>1. /\ awaits' = [awaits EXCEPT ![x] = y]
        /\ awaiting' = IF x \in Coroutines THEN [awaiting EXCEPT ![x] = TRUE] ELSE awaiting
    BY DEF Delegates
  <2>2. DOMAIN awaits = Runners /\ DOMAIN awaiting = Coroutines
    BY DEF TypeInv, ObjectType
  <2> QED
    BY <1>2, <2>1, <2>2
<1>7. y # None /\ x \notin Ops
  BY <1>2, AwaitTypes
<1>8. b.do \in Callee /\ b.do \notin {"throw", "close", "op_throw2"} /\ a.do \in Waiting /\ ~IsActivation(b) /\ IsActivation(a)
  BY <1>4 DEF Callee, OpCalled, Waiting, IsActivation
<1>9. PICK n \in Nat \ {0} : n = Len(calls)
  BY <1>1, TopFacts
<1>10. /\ ActsThen = TRUE /\ Acts = TRUE
       /\ calls' # <<>> /\ Top' = b /\ Len(calls') = n + 1 /\ calls'[n] = a
  <2>1. (ActsThen <=> IsActivation(a)) /\ calls' # <<>> /\ Top' = b /\ Len(calls') = n + 1 /\ calls'[n] = a
    BY <1>1, <1>4, <1>5, <1>8, <1>9, TwoStep
  <2> QED
    BY <1>1, <1>8, <2>1 DEF Acts, ActsThen, IsActivation
<1>11. Others /\ Free /\ RunStep
  BY <1>1, <1>2, <1>6, <1>10 DEF Others, Free, RunStep, Quiet
<1>12. OpStep /\ OverStep
  BY DEF OpStep, OverStep
<1>13. RunnerInv(x)' /\ AwaitedInv(x)'
  BY <1>1, <1>2, <1>6, <1>7 DEF RunnerInv, AwaitedInv
<1>14. SelfInv'
  <2> SUFFICES ASSUME NEW c \in Coroutines, awaits'[c] = c
               PROVE  /\ running'[c] /\ calls' # <<>> /\ Top'.obj = c
                      /\ Top'.do = "send" /\ Top'.exc = "null" /\ ~Top'.closing
                      /\ Len(calls') # 1
                      /\ calls'[Len(calls') - 1].do = "delegate" /\ calls'[Len(calls') - 1].obj = c
    BY DEF SelfInv
  <2>1. c \in Runners
    BY DEF Runners
  <2>2. c = x
    BY <1>1, <1>6, <2>1, SelfAwait
  <2>3. y = x
    BY <1>2, <1>6, <2>2
  <2>4. (n + 1) - 1 = n /\ n + 1 # 1
    OBVIOUS
  <2> QED
    BY <1>1, <1>2, <1>4, <1>10, <2>2, <2>3, <2>4
<1>15. OpsQuiet
  <2>1. \A o \in Ops : o = y => Starting(o)'
    BY <1>10 DEF Starting
  <2> QED
    BY <1>1, <2>1 DEF OpsQuiet, Leaving, Starting, In, OpWaiting
<1>16. b.do = "send" => ~running'[y] \/ awaits'[y] = y
  <2>1. b.do = "send" => y \in Coroutines
    BY AsyncAssumption DEF Frame, FrameOK, Active, Awaitables, Runners
  <2> QED
    BY <1>1, <1>2, <1>6, <2>1
<1>17. b.obj \in Ops => b.obj \notin over'
  BY DEF Fresh
<1>18. awaits'[x] = a.to /\ status'[x] = "Running" /\ running'[x] /\ yieldFrom'[x] = None
  BY <1>1, <1>2, <1>4, <1>6
<1>19. awaits'[x] = y /\ status'[x] = status[x]
  BY <1>1, <1>2, <1>6
<1> QED
  BY <1>1, <1>2, <1>4, <1>5, <1>8, <1>11, <1>12, <1>13, <1>14, <1>15, <1>16, <1>17, <1>18, <1>19, RunnerTwo DEF Waiting

LEMMA AwaitKeeps ==
    ASSUME TypeInv, TypeInv', AsyncInv,
           \/ AwaitFuture \/ \E c \in Coroutines \ Tasks : AwaitCoroutine(c)
           \/ \E o \in Ops, kind \in Kinds, g \in Asyncgens : AwaitNewOp(o, kind, g)
    PROVE  AsyncInv'
<1>1. PICK x : x = Top.obj
  OBVIOUS
<1>2. In("body") /\ calls # <<>>
  BY DEF AwaitFuture, AwaitCoroutine, AwaitNewOp, In
<1>3. calls[1].obj \in Tasks \cup Ops /\ over \subseteq Ops /\ (calls[1].obj \in Ops => calls[1].obj \notin over)
  <2>1. PICK n \in Nat \ {0} : n = Len(calls)
    BY <1>2, TopFacts
  <2>2. 1 \in 1..n
    BY <2>1
  <2> QED
    BY <1>2, <2>1, <2>2 DEF TypeInv, StackInv, LockType, AsyncInv, StackRunInv, Frames, OpFrame
<1>4. CASE AwaitFuture
  <2>1. PICK b \in Frame : b = Call("future", Future, "null")
    BY DEF Call, Frame, FrameOK, Functions, Active, Closers, OpCalled, OpWaiting, Waiting, Excs
  <2>2. b.obj = Future /\ b.do = "future"
    BY <2>1 DEF Call
  <2>3. Delegates(Future, b) /\ op' = op /\ runningAsync' = runningAsync /\ over' = over
    BY <1>4, <2>1 DEF AwaitFuture, lock
  <2>4. Future \in Awaitables /\ Future \notin Coroutines \cup Ops /\ Future # calls[1].obj
    BY <1>3, AsyncAssumption DEF Awaitables, Runners
  <2>5. Fresh(x, Future)
    BY <1>3, <2>3, <2>4 DEF Fresh
  <2> QED
    BY <1>1, <1>2, <2>2, <2>3, <2>4, <2>5, DelegatesKeeps
<1>5. ASSUME NEW c \in Coroutines \ Tasks, AwaitCoroutine(c) PROVE AsyncInv'
  <2>1. PICK b \in Frame : b = Call("send", c, "null")
    BY RunnerCall DEF Runners, Excs
  <2>2. b.obj = c /\ b.do = "send" /\ b.exc = "null" /\ ~b.closing
    BY <2>1 DEF Call
  <2>3. Delegates(c, b) /\ op' = op /\ runningAsync' = runningAsync /\ over' = over /\ ~awaiting[c]
    BY <1>5, <2>1 DEF AwaitCoroutine, MayBeAwaited, lock
  <2>4. c \in Awaitables /\ c \notin Ops
    BY AsyncAssumption DEF Awaitables, Runners
  <2>5. Fresh(x, c) /\ (~running[c] \/ c = x)
    BY <1>1, <1>2, <1>3, <2>3, <2>4, NotAwaited DEF Fresh
  <2> QED
    BY <1>1, <1>2, <2>2, <2>3, <2>4, <2>5, DelegatesKeeps
<1>6. ASSUME NEW o \in Ops, NEW kind \in Kinds, NEW g \in Asyncgens, AwaitNewOp(o, kind, g) PROVE AsyncInv'
  <2>1. PICK b \in Frame : b = Call("op_send", o, "null")
    BY OpCall DEF OpCalled, Excs
  <2>2. b.obj = o /\ b.do = "op_send"
    BY <2>1 DEF Call
  <2>3. /\ Delegates(o, b) /\ runningAsync' = runningAsync /\ over' = over \ {o} /\ o \in over
        /\ op' = [op EXCEPT ![o] = [kind |-> kind, gen |-> g, state |-> "INIT"]]
    BY <1>6, <2>1 DEF AwaitNewOp, NewOp
  <2>4. o \in Awaitables /\ o \notin Coroutines
    BY AsyncAssumption DEF Awaitables, Runners
  <2>5. Fresh(x, o)
    BY <1>3, <2>3 DEF Fresh, AsyncInv, AwaitInv, RunnersInv
  <2>6. op'[o].state = "INIT" /\ \A p \in Ops : p # o => op'[p] = op[p]
    BY <2>3 DEF TypeInv, LockType
  <2> QED
    BY <1>1, <1>2, <2>2, <2>3, <2>4, <2>5, <2>6, DelegatesKeeps
<1> QED
  BY <1>4, <1>5, <1>6

(***************************************************************************)
(* Then operations that return.                                            *)
(***************************************************************************)
LEMMA OpQuietKeeps ==
    ASSUME TypeInv, TypeInv', AsyncInv,
           CloseClosedOp \/ (CloseReturns /\ In("op_closing")) \/ OpAlreadyUsed \/ OpOfFinished \/ OpAwaits
    PROVE  AsyncInv'
<1>1. PICK r : /\ calls # <<>> /\ Returns(r) /\ UNCHANGED <<object, lock, awaits>>
               /\ Top.do \in OpCalled \cup OpWaiting \cup {"op_close", "op_closing"}
               /\ r = "next" => Top.do \in OpWaiting /\ result = "next"
               /\ Top.do \in OpWaiting => r = "next" /\ result = "next"
               /\ \/ Top.do \in OpWaiting \cup {"op_closing"} \/ State = "CLOSED"
                  \/ Top.do = "op_send"
  BY DEF CloseClosedOp, CloseReturns, OpAlreadyUsed, OpOfFinished, OpAwaits, OpWaits, In, OpCalled, OpWaiting, State
<1>2. PICK x \in Ops : x = Top.obj
  BY <1>1, TopFrame DEF FrameOK
<1>3. (\A q \in Runners : Quiet(q)) /\ op' = op /\ runningAsync' = runningAsync
  BY <1>1, QuietRunners DEF lock, object
<1>4. StepOn /\ over \subseteq over'
  BY <1>1, PopStep
<1>5. OpStep /\ Others
  BY <1>3 DEF OpStep, Others
<1>6. /\ Top.do \in OpWaiting => op'[x].state = "ITER"
      /\ Top.do = "op_throw" => op'[x].state = "CLOSED"
  BY <1>1, <1>2, <1>3, TopFrame DEF OpFrame, State, OpWaiting
<1>7. OpInv'
  <2>1. \A o \in Ops : ~Leaving(o)
    BY <1>1 DEF Leaving, In, OpCalled, OpWaiting
  <2>2. ASSUME op[x].state = "INIT", Starting(x) PROVE Leaving(x)' \/ x \in over'
    <3>1. Top.do = "op_send" /\ r # "next"
      <4>1. Top.do \notin OpWaiting \cup {"op_closing"}
        BY <2>2 DEF Starting, OpWaiting
      <4> QED
        BY <1>1, <1>2, <2>2, <4>1 DEF State
    <3> QED
      BY <1>1, <1>2, <3>1, Left DEF Closers
  <2>3. OpsQuiet
    BY <1>1, <1>2, <1>3, <1>4, <2>1, <2>2 DEF OpsQuiet, Starting
  <2> QED
    BY <1>4, <1>5, <2>3, OpsQuietSteps
<1>8. Top.do = "op_throwing" => r = "next" /\ op'[x].state = "ITER"
  BY <1>1, <1>6 DEF OpWaiting
<1>9. Top.do = "op_throw" => r # "next"
  BY <1>1 DEF OpWaiting
<1> QED
  BY <1>1, <1>2, <1>3, <1>5, <1>6, <1>7, <1>8, <1>9, OpPop

LEMMA OpReturnsKeeps ==
    ASSUME TypeInv, TypeInv', AsyncInv, calls # <<>>, Top.do \in OpCalled \cup OpWaiting, NEW r, Returns(r), r # "next",
           NEW x, x = Top.obj, UNCHANGED <<object, awaits>>,
           NEW state \in {"ITER", "CLOSED"}, op' = [op EXCEPT ![x].state = state],
           Top.do \in {"op_throw", "op_throwing"} => state = "CLOSED",
           Top.do \in OpWaiting => result # "next",
           \A g \in Asyncgens : runningAsync[g] => runningAsync'[g] \/ (Top.do \in OpWaiting /\ g = Gen)
    PROVE  AsyncInv'
<1>1. x \in Ops /\ OpFrame(Top)
  BY OpFacts, TopFrame
<1>2. \A q \in Runners : Quiet(q)
  BY QuietRunners
<1>3. op'[x].state = state /\ op'[x].gen = op[x].gen /\ \A o \in Ops : o # x => op'[o] = op[o]
  BY <1>1 DEF TypeInv, LockType
<1>4. StepOn /\ over \subseteq over'
  BY PopStep
<1>5. OpStep
  BY <1>1, <1>3 DEF OpStep, OpFrame, Gen
<1>6. ~Live(x)'
  <2>1. CASE Top.do \in {"op_throw", "op_throwing"}
    BY <1>3, <2>1 DEF Live
  <2>2. CASE Top.do \notin {"op_throw", "op_throwing"}
    <3>1. x \in over' \/ Leaving(x)'
      BY <1>1, <2>2, Left DEF OpCalled, OpWaiting, Closers
    <3> QED
      BY <3>1 DEF Live
  <2> QED
    BY <2>1, <2>2
<1>7. ASSUME NEW g \in Asyncgens, ~runningAsync'[g] PROVE ~Midway(g)
  <2>1. CASE ~runningAsync[g]
    BY <2>1 DEF AsyncInv, OpInv, MidwayLocked
  <2>2. CASE Top.do \in OpWaiting /\ g = Gen
    BY <2>2 DEF AsyncInv, ResultInv, OpWaits, OpWaiting, In
  <2> QED
    BY <1>7, <2>1, <2>2
<1>8. OpChanges(x)
  BY <1>2, <1>3, <1>4, <1>6, <1>7 DEF OpChanges
<1>9. OpInv'
  BY <1>1, <1>4, <1>5, <1>8, OpChangesSteps
<1> QED
  BY <1>1, <1>2, <1>3, <1>5, <1>9, OpPop

LEMMA OpEndsKeeps ==
    ASSUME TypeInv, TypeInv', AsyncInv,
           OpRefused \/ OpAfterClose \/ AthrowStarts("bad") \/ AsendEnds \/ AthrowEnds \/ AcloseEnds
    PROVE  AsyncInv'
<1>1. PICK x : x = Top.obj
  OBVIOUS
<1>2. CASE OpRefused \/ OpAfterClose
  <2>1. PICK r : /\ calls # <<>> /\ Top.do \in OpCalled /\ Returns(r) /\ r # "next" /\ UNCHANGED <<object, awaits, runningAsync>>
                 /\ op' = [op EXCEPT ![x].state = "CLOSED"]
    BY <1>1, <1>2 DEF OpRefused, OpAfterClose, OpGoesOn, In, OpCalled, SetState
  <2>2. Top.do \notin OpWaiting
    BY <2>1 DEF OpWaiting, OpCalled
  <2> QED
    BY <1>1, <2>1, <2>2, OpReturnsKeeps
<1>3. CASE AthrowStarts("bad")
  <2>1. /\ calls # <<>> /\ Top.do = "op_send" /\ Returns("error") /\ UNCHANGED <<object, awaits>>
        /\ op' = [op EXCEPT ![x].state = "ITER"]
        /\ runningAsync' = [runningAsync EXCEPT ![Gen] = TRUE]
    BY <1>1, <1>3 DEF AthrowStarts, OpStarts, In, SetState, SetRunningAsync
  <2>2. \A g \in Asyncgens : runningAsync[g] => runningAsync'[g]
    BY <2>1 DEF TypeInv, LockType
  <2>3. Top.do \in OpCalled /\ Top.do \notin OpWaiting
    BY <2>1 DEF OpCalled, OpWaiting
  <2> QED
    BY <1>1, <2>1, <2>2, <2>3, OpReturnsKeeps
<1>4. CASE AsendEnds \/ AthrowEnds \/ AcloseEnds
  <2>1. /\ calls # <<>> /\ Top.do \in OpWaiting /\ result # "next" /\ result \in Results /\ UNCHANGED <<object, awaits>>
        /\ runningAsync' = [runningAsync EXCEPT ![Gen] = FALSE]
    BY <1>4 DEF AsendEnds, AthrowEnds, AcloseEnds, Unwraps, Releases, OpWaits, In, OpWaiting, TypeInv, ResultType
  <2>2. PICK r : Returns(r) /\ r # "next"
    BY <1>4, <2>1 DEF AsendEnds, AthrowEnds, AcloseEnds, Unwrapped, AcloseResult
  <2>3. PICK state \in {"ITER", "CLOSED"} : /\ op' = [op EXCEPT ![x].state = state]
                                            /\ Top.do \in {"op_throw", "op_throwing"} => state = "CLOSED"
    <3>1. Top.do # "op_throw"
      BY <2>1 DEF OpWaiting
    <3> QED
      BY <1>1, <1>4, <2>1, <3>1 DEF AsendEnds, AthrowEnds, AcloseEnds, SetState, In
  <2>4. \A g \in Asyncgens : runningAsync[g] => runningAsync'[g] \/ (Top.do \in OpWaiting /\ g = Gen)
    BY <2>1 DEF TypeInv, LockType
  <2> QED
    BY <1>1, <2>1, <2>2, <2>3, <2>4, OpReturnsKeeps
<1> QED
  BY <1>2, <1>3, <1>4

(***************************************************************************)
(* Operations that use their async generator.                              *)
(***************************************************************************)
LEMMA CloseOpKeeps ==
    ASSUME TypeInv, TypeInv', AsyncInv, CloseOp
    PROVE  AsyncInv'
<1>1. /\ calls # <<>> /\ Top.do = "op_close" /\ UNCHANGED <<object, lock, awaits, over>>
      /\ Goes(<<Wait("op_closing", Top.obj, "null", None), Call("op_throw", Top.obj, "exit")>>)
  BY DEF CloseOp, In
<1>2. PICK x \in Ops : x = Top.obj
  BY <1>1, TopFrame DEF FrameOK
<1>3. PICK a \in Frame : a = Wait("op_closing", x, "null", None) /\ a.obj = x /\ a.do = "op_closing"
  <2>1. Wait("op_closing", x, "null", None) \in Frame
    BY DEF Wait, Frame, FrameOK, Functions, Active, Closers, OpCalled, OpWaiting, Waiting, Excs
  <2> QED
    BY <2>1 DEF Wait
<1>4. PICK b \in Frame : b = Call("op_throw", x, "exit") /\ b.obj = x /\ b.do = "op_throw"
  <2>1. Call("op_throw", x, "exit") \in Frame
    BY OpCall DEF Excs, OpCalled
  <2> QED
    BY <2>1 DEF Call
<1>5. Goes(<<a, b>>)
  BY <1>1, <1>2, <1>3, <1>4
<1>6. (\A q \in Runners : Quiet(q)) /\ op' = op /\ runningAsync' = runningAsync /\ over' = over
  BY <1>1, QuietRunners DEF lock, object
<1>7. OpStep /\ Others
  BY <1>6 DEF OpStep, Others
<1>8. a.do \notin OpWaiting /\ ~IsActivation(b)
  BY <1>3, <1>4 DEF OpWaiting, IsActivation
<1>9. ASSUME StepOn PROVE OpInv'
  <2>1. Starting(x)'
    BY <1>1, <1>2, <1>3, <1>4, <1>5, <1>8, TwoStep DEF Starting
  <2>2. OpsQuiet
    BY <1>1, <1>2, <1>6, <2>1 DEF OpsQuiet, Leaving, Starting, In, OpWaiting
  <2> QED
    BY <1>7, <1>9, <2>2, OpsQuietSteps
<1> QED
  BY <1>1, <1>2, <1>3, <1>4, <1>5, <1>6, <1>7, <1>8, <1>9, OpTwo

\* The async generator of an operation that may use it does not run.
LEMMA GenIdle ==
    ASSUME TypeInv, AsyncInv, calls # <<>>, Top.do \in OpCalled, ~runningAsync[Gen] \/ State = "ITER"
    PROVE  /\ ~running[Gen]
           /\ State = "ITER" => Live(Top.obj) /\ runningAsync[Gen] /\ Midway(Gen)
<1>1. PICK n \in Nat \ {0} : n = Len(calls) /\ Top = calls[n]
  BY TopFacts
<1>2. PICK x \in Ops, g \in Asyncgens : x = Top.obj /\ g = Gen /\ g \in Runners /\ x \notin over
  BY OpFacts, TopFrame DEF OpFrame
<1>3. CASE ~runningAsync[Gen]
  <2>1. ASSUME running[g] PROVE FALSE
    <3>1. PICK i \in 1..n : calls[i].obj = g
      BY <1>1, <1>2, <2>1 DEF AsyncInv, StackRunInv, RunningActive
    <3>2. i - 1 \in 1..n /\ calls[i - 1].do \in OpWaiting /\ calls[i - 1].to = g
      BY <1>1, <1>2, <3>1, GenOwner
    <3> QED
      BY <1>1, <1>2, <1>3, <3>2, UserLive DEF AsyncInv
  <2>2. ASSUME State = "ITER" PROVE FALSE
    <3>1. Live(x)
      BY <1>2, <2>2 DEF Live, Leaving, In, State, OpCalled
    <3> QED
      BY <1>2, <1>3, <3>1 DEF AsyncInv, OpInv, LiveInv, InUse, Gen
  <2> QED
    BY <1>2, <2>1, <2>2
<1>4. CASE State = "ITER"
  <2>1. Live(x)
    BY <1>2, <1>4 DEF Live, Leaving, In, State, OpCalled
  <2>2. ~Using(x)
    <3> SUFFICES ASSUME NEW i \in 1..n, calls[i].do \in OpWaiting, calls[i].obj = x PROVE FALSE
      BY <1>1 DEF Using
    <3>1. i # n
      BY <1>1 DEF OpCalled, OpWaiting
    <3>2. i \in 1..(n - 1)
      BY <3>1
    <3> QED
      BY <1>1, <1>2, <3>2, OpFrameUnique DEF AsyncInv
  <2>3. runningAsync[g] /\ Midway(g)
    BY <1>2, <2>1, <2>2 DEF AsyncInv, OpInv, LiveInv, InUse, Gen
  <2> QED
    BY <1>2, <2>1, <2>3 DEF Midway
<1> QED
  BY <1>3, <1>4

LEMMA OpClaimsKeeps ==
    ASSUME TypeInv, TypeInv', AsyncInv, calls # <<>>, Top.do \in OpCalled, State \in {"INIT", "ITER"},
           State = "INIT" => ~runningAsync[Gen], NEW wait \in OpWaiting,
           NEW b \in Frame, b.obj = Gen, b.do \in {"send", "throw"}, OpClaims(wait, b)
    PROVE  AsyncInv'
<1>1. PICK x \in Ops, g \in Asyncgens : x = Top.obj /\ g = Gen /\ Top.exc \in Excs /\ op[x].gen = g
  BY OpFacts DEF Gen
<1>2. PICK a \in Frame : a = Wait(wait, x, Top.exc, g) /\ a.obj = x /\ a.do = wait /\ a.to = g
  BY <1>1, OpWaitCall DEF Wait
<1>3. /\ Goes(<<a, b>>) /\ UNCHANGED <<object, awaits, over>>
      /\ op' = [op EXCEPT ![x].state = "ITER"] /\ runningAsync' = [runningAsync EXCEPT ![g] = TRUE]
  BY <1>1, <1>2 DEF OpClaims, SetState, SetRunningAsync
<1>4. /\ op'[x].state = "ITER" /\ op'[x].gen = g /\ \A o \in Ops : o # x => op'[o] = op[o]
      /\ runningAsync'[g] /\ \A h \in Asyncgens : runningAsync[h] => runningAsync'[h]
  BY <1>1, <1>3 DEF TypeInv, LockType
<1>5. /\ \A q \in Runners : Quiet(q)
      /\ ~running[g] /\ (Live(x) \/ ~runningAsync[g])
  BY <1>1, <1>3, GenIdle, QuietRunners
<1>6. OpStep
  BY <1>1, <1>4 DEF OpStep
<1>7. ASSUME StepOn PROVE OpInv'
  <2>1. PICK n \in Nat \ {0} : n = Len(calls)
    BY TopFacts
  <2>2. ~IsActivation(b)
    BY DEF IsActivation
  <2>3. Len(calls') = n + 1 /\ calls'[n] = a
    BY <1>1, <1>2, <1>3, <2>1, <2>2, TwoStep
  <2>4. n \in 1..(n + 1)
    BY <2>1
  <2>5. Using(x)'
    BY <1>2, <2>3, <2>4 DEF Using
  <2>6. InUse(x)'
    BY <1>4, <2>5 DEF InUse
  <2>7. \A h \in Asyncgens : ~runningAsync'[h] => ~Midway(h)
    BY <1>4 DEF AsyncInv, OpInv, MidwayLocked
  <2>8. OpChanges(x)
    BY <1>1, <1>3, <1>4, <1>5, <2>6, <2>7 DEF OpChanges
  <2> QED
    BY <1>1, <1>6, <1>7, <2>8, OpChangesSteps
<1>8. a.do \in OpWaiting /\ b.do # "op_throw" /\ b.obj = a.to /\ over' = over
  BY <1>1, <1>2, <1>3
<1> QED
  BY <1>1, <1>2, <1>3, <1>4, <1>5, <1>6, <1>7, <1>8, OpTwo

LEMMA OpUsesKeeps ==
    ASSUME TypeInv, TypeInv', AsyncInv, calls # <<>>, Top.do \in OpCalled, State = "ITER", NEW wait \in OpWaiting,
           NEW b \in Frame, b.obj = Gen, b.do \in {"send", "throw"}, Goes(<<Wait(wait, Top.obj, Top.exc, Gen), b>>),
           UNCHANGED <<object, lock, awaits, over>>
    PROVE  AsyncInv'
<1>1. PICK x \in Ops, g \in Asyncgens : x = Top.obj /\ g = Gen /\ Top.exc \in Excs /\ op[x].gen = g /\ op[x].state = "ITER"
  BY OpFacts DEF Gen, State
<1>2. PICK a \in Frame : a = Wait(wait, x, Top.exc, g) /\ a.obj = x /\ a.do = wait /\ a.to = g
  BY <1>1, OpWaitCall DEF Wait
<1>3. Goes(<<a, b>>) /\ op' = op /\ runningAsync' = runningAsync /\ over' = over
  BY <1>1, <1>2 DEF lock
<1>4. (\A q \in Runners : Quiet(q)) /\ ~running[g] /\ runningAsync[g]
  BY <1>1, GenIdle, QuietRunners
<1>5. OpStep /\ Others
  BY <1>3, <1>4 DEF OpStep, Others
<1>6. ASSUME StepOn PROVE OpInv'
  <2>1. OpsQuiet
    BY <1>1, <1>3 DEF OpsQuiet, Leaving, Starting, In, OpCalled, OpWaiting
  <2> QED
    BY <1>5, <1>6, <2>1, OpsQuietSteps
<1>7. a.do \in OpWaiting /\ b.do # "op_throw" /\ b.obj = a.to
  BY <1>1, <1>2
<1> QED
  BY <1>1, <1>2, <1>3, <1>4, <1>5, <1>6, <1>7, OpTwo

LEMMA OpUsesGenKeeps ==
    ASSUME TypeInv, TypeInv', AsyncInv,
           \/ AsendSends \/ AcloseStarts \/ AthrowGoesOn \/ OpThrowStarts \/ OpThrows
           \/ \E exc \in {"error", "exit"} : AthrowStarts(exc)
    PROVE  AsyncInv'
<1>1. calls # <<>> /\ Top.do \in OpCalled /\ State # "CLOSED"
  BY DEF AsendSends, AcloseStarts, AthrowGoesOn, OpThrowStarts, OpThrows, AthrowStarts, OpStarts, OpGoesOn, In, OpCalled
<1>2. Gen \in Runners /\ Top.exc \in Excs /\ State \in {"INIT", "ITER", "CLOSED"}
  <2>1. Top.obj \in Ops /\ Gen \in Runners /\ Top.exc \in Excs
    BY <1>1, OpFacts
  <2> QED
    BY <2>1 DEF State, TypeInv, LockType
<1>3. Top.do \in {"op_throw", "op_throw2"} => Top.exc # "null"
  BY <1>1, TopFacts DEF FrameOK
<1>4. PICK b \in Frame : b = Call("send", Gen, "null") /\ b.obj = Gen /\ b.do = "send"
  BY <1>2, RunnerCall DEF Call, Excs
<1>5. CASE AsendSends
  <2>1. (State = "INIT" => ~runningAsync[Gen]) /\ OpClaims("op_sending", b)
    BY <1>4, <1>5 DEF AsendSends, MayClaim
  <2> QED
    BY <1>1, <1>2, <1>4, <2>1, OpClaimsKeeps DEF OpWaiting
<1>6. CASE AcloseStarts
  <2>1. PICK c \in Frame : c = CallClosing("throw", Gen, "exit") /\ c.obj = Gen /\ c.do = "throw"
    BY <1>2, RunnerCall DEF CallClosing, Excs
  <2>2. State = "INIT" /\ ~runningAsync[Gen] /\ OpClaims("op_starting", c)
    BY <1>6, <2>1 DEF AcloseStarts, OpStarts, MayClaim
  <2> QED
    BY <1>1, <2>1, <2>2, OpClaimsKeeps DEF OpWaiting
<1>7. CASE AthrowGoesOn
  <2>1. /\ State = "ITER" /\ Goes(<<Wait("op_resending", Top.obj, Top.exc, Gen), b>>)
        /\ UNCHANGED <<object, lock, awaits, over>>
    BY <1>4, <1>7 DEF AthrowGoesOn
  <2> QED
    BY <1>1, <1>4, <2>1, OpUsesKeeps DEF OpWaiting
<1>8. CASE OpThrowStarts
  <2>1. Top.exc # "null"
    BY <1>3, <1>8 DEF OpThrowStarts, In
  <2>2. PICK c \in Frame : c = Call("throw", Gen, Top.exc) /\ c.obj = Gen /\ c.do = "throw"
    BY <1>2, <2>1, RunnerCall DEF Call
  <2>3. State = "INIT" /\ ~runningAsync[Gen] /\ OpClaims("op_throwing", c)
    BY <1>8, <2>2 DEF OpThrowStarts, MayClaim
  <2> QED
    BY <1>1, <2>2, <2>3, OpClaimsKeeps DEF OpWaiting
<1>9. CASE OpThrows
  <2>1. Top.do \in {"op_throw", "op_throw2"} /\ State = "ITER"
    BY <1>1, <1>2, <1>9 DEF OpThrows, In, AsyncInv, CalledInv
  <2>2. PICK c \in Frame : c = Call("throw", Gen, Top.exc) /\ c.obj = Gen /\ c.do = "throw"
    BY <1>2, <1>3, <2>1, RunnerCall DEF Call
  <2>3. /\ Goes(<<Wait("op_throwing", Top.obj, Top.exc, Gen), c>>) /\ UNCHANGED <<object, lock, awaits, over>>
    BY <1>9, <2>2 DEF OpThrows
  <2> QED
    BY <1>1, <2>1, <2>2, <2>3, OpUsesKeeps DEF OpWaiting
<1>10. ASSUME NEW exc \in {"error", "exit"}, AthrowStarts(exc) PROVE AsyncInv'
  <2>1. PICK c \in Frame : c = Call("throw", Gen, exc) /\ c.obj = Gen /\ c.do = "throw"
    BY <1>2, RunnerCall DEF Call, Excs
  <2>2. State = "INIT" /\ ~runningAsync[Gen] /\ OpClaims("op_starting", c)
    BY <1>10, <2>1 DEF AthrowStarts, OpStarts, MayClaim
  <2> QED
    BY <1>1, <2>1, <2>2, OpClaimsKeeps DEF OpWaiting
<1> QED
  BY <1>5, <1>6, <1>7, <1>8, <1>9, <1>10

(***************************************************************************)
(* The event loop: nothing runs below it.                                  *)
(***************************************************************************)
LEMMA LoopCallsKeeps ==
    ASSUME TypeInv, TypeInv', AsyncInv, NEW call \in Frame, LoopCalls(call),
           call.do \in {"send", "throw", "close", "op_send", "op_throw", "op_close"},
           call.obj \in Ops => call.obj \notin over' /\ call.do \in {"op_send", "op_throw", "op_close"},
           \A r \in Runners : awaits[r] # call.obj,
           runningAsync' = runningAsync, over' \subseteq over,
           \A o \in Ops : o \notin over => op'[o] = op[o],
           \A o \in Ops : o \in over => o \in over' \/ (o = call.obj /\ op'[o].state = "INIT")
    PROVE  AsyncInv'
<1>1. calls = <<>> /\ Len(calls) = 0 /\ calls' = <<call>>
  BY DEF LoopCalls, AtLoop
<1>2. Len(calls') = 1 /\ calls'[1] = call /\ calls' # <<>> /\ Top' = call
  BY <1>1 DEF Top
<1>3. \A q \in Runners : Quiet(q)
  BY QuietRunners DEF LoopCalls
<1>4. \A q \in Runners : ~running[q]
  BY <1>1 DEF AsyncInv, StackRunInv, RunningActive
<1>5. \A c \in Coroutines : awaits[c] # c
  BY <1>1 DEF AsyncInv, AwaitInv, SelfInv
<1>6. /\ ~IsActivation(call) /\ call.do \notin OpWaiting \cup Waiting
      /\ \A r \in Runners : ~Sending(r)
      /\ \A o \in Ops : ~Leaving(o) /\ ~Starting(o) /\ ~Using(o)
  BY <1>1 DEF IsActivation, OpWaiting, Waiting, Sending, In, Leaving, Starting, Using
<1>7. StackRunInv'
  <2>1. \A i \in 1..1 : i = 1
    OBVIOUS
  <2>2. RunnerFrame(calls[1])' /\ OpFrame(calls[1])'
    BY <1>2, <1>6 DEF RunnerFrame, OpFrame, IsActivation, Waiting
  <2>3. Frames' /\ OneActivation'
    BY <1>2, <2>1, <2>2 DEF Frames, OneActivation
  <2>4. RunningActive'
    BY <1>3, <1>4 DEF RunningActive, Quiet
  <2> QED
    BY <2>3, <2>4 DEF StackRunInv
<1>8. AwaitInv'
  <2>1. ASSUME NEW r \in Runners PROVE RunnerInv(r)' /\ AwaitedInv(r)' /\ awaits'[r] \notin over'
    <3>1. RunnerInv(r) /\ AwaitedInv(r) /\ awaits[r] \notin over /\ Quiet(r) /\ ~Sending(r) /\ ~running[r]
      BY <1>3, <1>4, <1>6 DEF AsyncInv, AwaitInv, RunnersInv
    <3>2. awaits[r] \in Coroutines => status'[awaits[r]] = status[awaits[r]]
      BY <1>3 DEF Quiet, Runners
    <3> QED
      BY <3>1, <3>2 DEF RunnerInv, AwaitedInv, Quiet
  <2>2. RunnersInv'
    BY <2>1 DEF RunnersInv
  <2>3. UniqueAwait'
    BY <1>3 DEF UniqueAwait, Quiet, AsyncInv, AwaitInv
  <2>4. SelfInv'
    BY <1>3, <1>5 DEF SelfInv, Quiet, Runners
  <2>5. Bottom'
    BY <1>2, <1>3 DEF Bottom, Quiet
  <2> QED
    BY <2>2, <2>3, <2>4, <2>5 DEF AwaitInv
<1>9. CalledInv' /\ ResultInv'
  <2>1. call.do \in {"send", "throw", "close"} => call.obj \in Runners
    BY DEF Frame, FrameOK, Active, Runners
  <2> QED
    BY <1>2, <1>3, <1>4, <1>6, <2>1 DEF CalledInv, ResultInv, In, OpWaits, OpWaiting, Waiting, Quiet
<1>10. OpInv'
  <2>1. ASSUME NEW o \in Ops, Live(o)' PROVE Live(o) /\ op'[o] = op[o]
    <3>1. o \notin over
      BY <2>1 DEF Live
    <3> QED
      BY <1>6, <2>1, <3>1 DEF Live
  <2>2. ASSUME NEW g \in Asyncgens PROVE Midway(g)' <=> Midway(g)
    BY <1>3 DEF Midway, Quiet, Runners
  <2>3. LiveInv'
    <3> SUFFICES ASSUME NEW o \in Ops, Live(o)' PROVE InUse(o)'
      BY DEF LiveInv
    <3>1. Live(o) /\ op'[o] = op[o]
      BY <2>1
    <3>2. PICK g \in Asyncgens : g = op[o].gen /\ g = op'[o].gen
      BY <3>1 DEF TypeInv, LockType
    <3>3. runningAsync[g] /\ Midway(g)
      BY <1>6, <3>1, <3>2 DEF AsyncInv, OpInv, LiveInv, InUse
    <3>4. runningAsync'[g] /\ Midway(g)'
      BY <2>2, <3>3
    <3> QED
      BY <3>2, <3>4 DEF InUse
  <2>4. UniqueLive'
    BY <2>1 DEF UniqueLive, AsyncInv, OpInv
  <2>5. InitInv'
    <3> SUFFICES ASSUME NEW o \in Ops, o \notin over', op'[o].state = "INIT" PROVE Starting(o)'
      BY DEF InitInv
    <3>1. o \in over
      BY <1>6 DEF AsyncInv, OpInv, InitInv
    <3> QED
      BY <1>2, <3>1 DEF Starting
  <2>6. MidwayLocked'
    BY <2>2 DEF MidwayLocked, AsyncInv, OpInv
  <2> QED
    BY <2>3, <2>4, <2>5, <2>6 DEF OpInv
<1> QED
  BY <1>7, <1>8, <1>9, <1>10 DEF AsyncInv

LEMMA LoopKeeps ==
    ASSUME TypeInv, TypeInv', AsyncInv, LoopNext
    PROVE  AsyncInv'
<1>1. ASSUME NEW c \in Tasks, NEW call \in {Call("send", c, "null"), Call("throw", c, "error"),
                                            Call("throw", c, "exit"), Call("close", c, "null")},
             LoopCalls(call), UNCHANGED <<lock, over>>
      PROVE  AsyncInv'
  <2>1. c \in Coroutines /\ c \in Runners /\ c \notin Ops /\ c \notin Awaitables \cup {None}
    BY AsyncAssumption DEF Runners, Awaitables
  <2>2. call \in Frame /\ call.obj = c /\ call.do \in {"send", "throw", "close"}
    <3>1. call \in Frame
      BY <1>1, <2>1, RunnerCall, CloseCall DEF Excs
    <3> QED
      BY <1>1, <3>1 DEF Call
  <2>3. \A r \in Runners : awaits[r] # c
    BY <2>1, AwaitTypes
  <2> QED
    BY <1>1, <2>1, <2>2, <2>3, LoopCallsKeeps DEF lock
<1>2. ASSUME NEW o \in Ops, NEW call \in OpCalls(o), LoopCalls(call), \A r \in Runners : awaits[r] # o,
             o \notin over', over' \subseteq over, runningAsync' = runningAsync,
             \A p \in Ops : p \notin over => op'[p] = op[p],
             \A p \in Ops : p \in over => p \in over' \/ (p = o /\ op'[p].state = "INIT")
      PROVE  AsyncInv'
  <2>1. call \in Frame /\ call.obj = o /\ call.do \in {"op_send", "op_throw", "op_close"}
    <3>1. call \in Frame
      BY <1>2, OpCall DEF OpCalls, OpCalled, Excs
    <3> QED
      BY <1>2, <3>1 DEF Call, OpCalls
  <2> QED
    BY <1>2, <2>1, LoopCallsKeeps
<1>3. CASE \E c \in Tasks : StepTask(c) \/ CloseTask(c) \/ \E exc \in {"error", "exit"} : CancelTask(c, exc)
  BY <1>1, <1>3 DEF StepTask, CloseTask, CancelTask
<1>4. ASSUME NEW o \in Ops, LoopDrivesOp(o) PROVE AsyncInv'
  BY <1>2, <1>4 DEF LoopDrivesOp, Engaged, lock
<1>5. ASSUME NEW o \in Ops, NEW kind \in Kinds, NEW g \in Asyncgens, LoopStartsOp(o, kind, g)
      PROVE  AsyncInv'
  <2>1. /\ runningAsync' = runningAsync /\ over' = over \ {o} /\ o \in over
        /\ op' = [op EXCEPT ![o] = [kind |-> kind, gen |-> g, state |-> "INIT"]]
    BY <1>5 DEF LoopStartsOp, NewOp
  <2>2. op'[o].state = "INIT" /\ \A p \in Ops : p # o => op'[p] = op[p]
    BY <2>1 DEF TypeInv, LockType
  <2>3. \A r \in Runners : awaits[r] # o
    BY <2>1 DEF AsyncInv, AwaitInv, RunnersInv
  <2>4. PICK call \in OpCalls(o) : LoopCalls(call)
    BY <1>5 DEF LoopStartsOp
  <2> QED
    BY <1>2, <2>1, <2>2, <2>3, <2>4
<1> QED
  BY <1>3, <1>4, <1>5 DEF LoopNext

-----------------------------------------------------------------------------
LEMMA InitAsync == Init => AsyncInv
<1> SUFFICES ASSUME Init PROVE AsyncInv
  OBVIOUS
<1>1. calls = <<>> /\ Len(calls) = 0
  BY DEF Init
<1>2. \A r \in Runners : ~running[r] /\ status[r] = "Unused" /\ yieldFrom[r] = None /\ awaits[r] = None
  BY DEF Init
<1>3. \A c \in Coroutines : c \in Runners /\ ~awaiting[c] /\ c # None
  BY AsyncAssumption DEF Init, Runners
<1>4. None \notin Coroutines \cup Ops /\ over = Ops
  BY AsyncAssumption DEF Init, Runners
<1>5. StackRunInv
  BY <1>1, <1>2 DEF StackRunInv, Frames, OneActivation, RunningActive
<1>6. AwaitInv
  BY <1>1, <1>2, <1>3, <1>4 DEF AwaitInv, RunnersInv, RunnerInv, AwaitedInv, UniqueAwait, SelfInv, Bottom
<1>7. CalledInv /\ ResultInv
  BY <1>1 DEF CalledInv, ResultInv, In, OpWaits
<1>8. \A g \in Asyncgens : ~Midway(g)
  BY <1>2 DEF Midway, Runners
<1>9. OpInv
  BY <1>4, <1>8 DEF OpInv, LiveInv, UniqueLive, InitInv, MidwayLocked, Live
<1> QED
  BY <1>5, <1>6, <1>7, <1>9 DEF AsyncInv

LEMMA NextAsync ==
    ASSUME TypeInv, TypeInv', AsyncInv, [Next]_vars
    PROVE  AsyncInv'
<1>1. CASE BodyNext
  BY <1>1, AwaitKeeps, BodyReturnsKeeps, FutureKeeps DEF BodyNext
<1>2. CASE RunnerNext
  <2>1. CloseReturns => In("closed") \/ In("op_closing")
    BY DEF CloseReturns
  <2> QED
    BY <1>2, <2>1, FinishedKeeps, AlreadyExecutingKeeps, SendToBodyKeeps, SendToAwaitedKeeps, AwaitsKeeps,
       DelegateEndsKeeps, ThrowToAwaitedKeeps, ThrowToStartedKeeps, ThrowToOtherKeeps, ThrownKeeps,
       CloseStartedKeeps, OpQuietKeeps
       DEF RunnerNext
<1>3. CASE OpNext
  BY <1>3, CloseOpKeeps, OpQuietKeeps, OpEndsKeeps, OpUsesGenKeeps DEF OpNext
<1>4. CASE UNCHANGED vars
  <2>1. /\ UNCHANGED <<status, running, yieldFrom, awaiting, runningAsync, genClosed, op>>
        /\ UNCHANGED <<calls, result, awaits, over, ignored>>
    BY <1>4 DEF vars, object, lock
  <2>2. StackRunInv'
    BY <2>1
       DEF AsyncInv, StackRunInv, Frames, RunnerFrame, OpFrame, OneActivation, RunningActive, IsActivation
  <2>3. AwaitInv'
    BY <2>1
       DEF AsyncInv, AwaitInv, RunnersInv, RunnerInv, AwaitedInv, Sending, UniqueAwait, SelfInv, Bottom, In, Top
  <2>4. CalledInv' /\ ResultInv'
    BY <2>1 DEF AsyncInv, CalledInv, ResultInv, Midway, In, OpWaits, Top, State, Gen
  <2>5. OpInv'
    BY <2>1
       DEF AsyncInv, OpInv, LiveInv, UniqueLive, Live, InUse, Using, Leaving, InitInv, Starting, MidwayLocked,
           Midway, In, Top
  <2> QED
    BY <2>2, <2>3, <2>4, <2>5 DEF AsyncInv
<1> QED
  BY <1>1, <1>2, <1>3, <1>4, LoopKeeps DEF Next

(***************************************************************************)
(* At every step of every task: each call finds what it relies on when     *)
(* those above it return, nothing is awaited by two, and an operation that *)
(* has not ended holds its async generator alone.                          *)
(***************************************************************************)
THEOREM AsyncInvHolds == Spec => []AsyncInv
<1>1. TypeInv /\ AsyncInv /\ TypeInv' /\ [Next]_vars => AsyncInv'
  BY NextAsync
<1> QED
  BY InitAsync, <1>1, TypeInvHolds, PTL DEF Spec

-----------------------------------------------------------------------------
\* What is in m_yield_from is what was awaited, and never the one who awaits.
LEMMA YieldAwaits ==
    ASSUME TypeInv, AsyncInv, NEW r \in Runners, yieldFrom[r] # None
    PROVE  awaits[r] = yieldFrom[r] /\ awaits[r] # r
<1>1. CASE ~running[r]
  <2>1. awaits[r] = yieldFrom[r]
    BY <1>1 DEF AsyncInv, AwaitInv, RunnersInv, RunnerInv
  <2> QED
    BY <1>1, <2>1, SelfAwait, AwaitTypes
<1>2. CASE running[r]
  <2>1. PICK i \in 1..Len(calls) : IsActivation(calls[i]) /\ calls[i].obj = r
    BY <1>2 DEF AsyncInv, StackRunInv, RunningActive
  <2>2. calls[i].do \in {"throwing", "closing"} /\ awaits[r] = yieldFrom[r]
    BY <2>1 DEF AsyncInv, StackRunInv, Frames, RunnerFrame, IsActivation
  <2>3. ASSUME awaits[r] = r PROVE FALSE
    <3>1. PICK n \in Nat \ {0} : n = Len(calls) /\ Top = calls[n]
      BY <2>3, TopFacts, SelfAwait, AwaitTypes
    <3>2. /\ Top.obj = r
          /\ \/ Top.do = "send" /\ n # 1 /\ calls[n - 1].do = "delegate" /\ calls[n - 1].obj = r
             \/ Top.do = "delegate"
      BY <2>3, <3>1, AwaitTypes DEF AsyncInv, AwaitInv, SelfInv
    <3>3. PICK j \in 1..n : calls[j].do = "delegate" /\ calls[j].obj = r
      <4>1. n \in 1..n /\ (n # 1 => n - 1 \in 1..n)
        OBVIOUS
      <4> QED
        BY <3>1, <3>2, <4>1
    <3> QED
      BY <2>1, <2>2, <3>1, <3>3 DEF AsyncInv, StackRunInv, OneActivation, IsActivation
  <2> QED
    BY <2>2, <2>3
<1> QED
  BY <1>1, <1>2

(***************************************************************************)
(* Whatever tasks, coroutines and async generators do with each other, a   *)
(* body that is suspended waits for what it has awaited, and nothing is    *)
(* awaited by two bodies: no result of an await comes to the wrong one.    *)
(***************************************************************************)
THEOREM AwaitIsKept == Spec => []AwaitKept
<1>1. ASSUME TypeInv, AsyncInv PROVE AwaitKept
  <2>1. ASSUME NEW r \in Runners, status[r] = "Running", \A i \in DOMAIN calls : calls[i].obj # r
        PROVE  yieldFrom[r] = awaits[r]
    <3>1. PICK n \in Nat : n = Len(calls) /\ DOMAIN calls = 1..n
      BY <1>1, LenProperties DEF TypeInv, StackInv
    <3>2. ~running[r]
      BY <1>1, <2>1, <3>1 DEF AsyncInv, StackRunInv, RunningActive
    <3>3. ~Sending(r)
      <4>1. calls # <<>> => Top.obj # r
        <5> SUFFICES ASSUME calls # <<>> PROVE Top.obj # r
          OBVIOUS
        <5>1. n \in 1..n /\ Top = calls[n]
          BY <1>1, <3>1, TopFacts
        <5> QED
          BY <2>1, <3>1, <5>1
      <4> QED
        BY <4>1 DEF Sending, In
    <3> QED
      BY <1>1, <3>2, <3>3 DEF AsyncInv, AwaitInv, RunnersInv, RunnerInv
  <2>2. ASSUME NEW x \in Coroutines \cup Ops PROVE Cardinality({r \in Runners : yieldFrom[r] = x}) <= 1
    <3>1. ASSUME NEW q \in Runners, NEW r \in Runners, yieldFrom[q] = x, yieldFrom[r] = x PROVE q = r
      <4>1. x # None
        BY AsyncAssumption DEF Runners
      <4>2. awaits[q] = x /\ awaits[r] = x /\ x # q /\ x # r
        BY <1>1, <3>1, <4>1, YieldAwaits
      <4> QED
        BY <1>1, <4>2 DEF AsyncInv, AwaitInv, UniqueAwait
    <3>2. CASE \E r \in Runners : yieldFrom[r] = x
      <4>1. PICK r \in Runners : yieldFrom[r] = x
        BY <3>2
      <4>2. {q \in Runners : yieldFrom[q] = x} = {r}
        BY <3>1, <4>1
      <4> QED
        BY <4>2, FS_Singleton
    <3>3. CASE ~\E r \in Runners : yieldFrom[r] = x
      <4>1. {q \in Runners : yieldFrom[q] = x} = {}
        BY <3>3
      <4> QED
        BY <4>1, FS_EmptySet
    <3> QED
      BY <3>2, <3>3
  <2> QED
    BY <2>1, <2>2 DEF AwaitKept
<1> QED
  BY <1>1, TypeInvHolds, AsyncInvHolds, PTL

-----------------------------------------------------------------------------
(***************************************************************************)
(* Live operations stay live until they have given back the generator.     *)
(***************************************************************************)
LEMMA PopLive ==
    ASSUME TypeInv, calls # <<>>, NEW r, Returns(r), NEW o \in Ops, Live(o), op'[o] = op[o],
           o # Top.obj \/ r = "next"
    PROVE  Live(o)'
<1>1. o \notin over'
  BY PopStep DEF Live
<1>2. ASSUME Leaving(o)' PROVE FALSE
  <2>1. calls' # <<>> /\ Top'.do \in {"delegate", "throwing", "send"}
    BY <1>2 DEF Leaving, In
  <2>2. PICK c : /\ Top' = c /\ result' = r /\ Above(c, Top)
                 /\ c.do \in Waiting \cup OpWaiting \cup {"closed", "op_closing"}
    BY <2>1, PopStep
  <2>3. c.do \in {"delegate", "throwing"}
    BY <2>1, <2>2 DEF Waiting, OpWaiting
  <2>4. c.to = o /\ r # "next"
    BY <1>2, <2>2, <2>3 DEF Leaving, In
  <2>5. c.to = Top.obj
    BY <2>2, <2>3 DEF Above, OpWaiting
  <2> QED
    BY <2>4, <2>5
<1> QED
  BY <1>1, <1>2 DEF Live

LEMMA CallLive ==
    ASSUME TypeInv, TypeInv', NEW c, Top' = c, c.do \notin {"delegate", "throwing"},
           c.do = "send" => \/ awaits'[c.obj] = yieldFrom'[c.obj] \/ awaits'[c.obj] \notin Ops
                            \/ Leaving(awaits'[c.obj]),
           NEW o \in Ops, Live(o), op'[o].state = "ITER", o \in over' => o \in over \/ Leaving(o)
    PROVE  Live(o)'
<1>1. o # None
  BY AsyncAssumption
<1> QED
  BY <1>1 DEF Live, Leaving, In

LEMMA HeldStep ==
    ASSUME Held, ignored \subseteq ignored',
           \A g \in Asyncgens : runningAsync'[g] => runningAsync[g],
           \A o \in Ops : Live(o) /\ op[o].gen \notin ignored' /\ runningAsync'[op[o].gen] =>
               Live(o)' /\ op'[o].gen = op[o].gen
    PROVE  Held'
<1> SUFFICES ASSUME NEW g \in Asyncgens \ ignored', runningAsync'[g]
             PROVE  \E o \in Ops : Live(o)' /\ op'[o].gen = g
  BY DEF Held
<1>1. PICK o \in Ops : Live(o) /\ op[o].gen = g
  BY DEF Held
<1> QED
  BY <1>1

\* One that waits for nothing it has not got back has nothing to give to it.
LEMMA IdleYield ==
    ASSUME TypeInv, AsyncInv, NEW r \in Runners, ~running[r], ~Sending(r)
    PROVE  yieldFrom[r] = awaits[r]
BY DEF AsyncInv, AwaitInv, RunnersInv, RunnerInv

LEMMA ReturnsHeld ==
    ASSUME TypeInv, TypeInv', AsyncInv, Held,
           \/ BodyYields \/ \E r \in Results : FutureAnswers(r) \/ BodyEnds(r)
           \/ SendToFinished \/ AlreadyExecuting \/ DelegateAwaits \/ ThrowToOther \/ ThrowingAwaits \/ CloseOther
           \/ (CloseReturns /\ In("closed"))
    PROVE  Held'
<1>1. PICK r : /\ calls # <<>> /\ Returns(r) /\ UNCHANGED <<lock, ignored>>
               /\ Top.do \in Active \cup {"close", "closed", "future"}
  BY DEF BodyYields, FutureAnswers, BodyEnds, SendToFinished, AlreadyExecuting, DelegateAwaits, ThrowToOther,
         ThrowingAwaits, CloseOther, CloseReturns, In, Active, Waiting
<1>2. Top.obj \notin Ops
  <2>1. Top.obj \in Runners \cup {Future}
    BY <1>1, TopFrame DEF FrameOK, Runners
  <2> QED
    BY <2>1, AsyncAssumption
<1>3. op' = op /\ runningAsync' = runningAsync /\ ignored' = ignored
  BY <1>1 DEF lock
<1>4. \A o \in Ops : Live(o) => Live(o)'
  BY <1>1, <1>2, <1>3, PopLive
<1> QED
  BY <1>3, <1>4, HeldStep

LEMMA GoesHeld ==
    ASSUME TypeInv, TypeInv', AsyncInv, Held, runningAsync' = runningAsync, ignored' = ignored,
           \A o \in Ops : o \notin over => op'[o] = op[o],
           NEW c, Top' = c, c.do \notin {"delegate", "throwing"},
           c.do = "send" => \/ awaits'[c.obj] = yieldFrom'[c.obj] \/ awaits'[c.obj] \notin Ops
                            \/ Leaving(awaits'[c.obj]),
           \A o \in Ops : o \in over' => o \in over \/ Leaving(o)
    PROVE  Held'
<1>1. \A o \in Ops : Live(o) => Live(o)' /\ op'[o] = op[o]
  <2> SUFFICES ASSUME NEW o \in Ops, Live(o) PROVE Live(o)' /\ op'[o] = op[o]
    OBVIOUS
  <2>1. op'[o] = op[o] /\ op'[o].state = "ITER"
    BY DEF Live
  <2> QED
    BY <2>1, CallLive
<1> QED
  BY <1>1, HeldStep

LEMMA EntersHeld ==
    ASSUME TypeInv, TypeInv', AsyncInv, Held, SendToBody \/ DelegateEnds
    PROVE  Held'
<1>1. PICK exc : /\ calls # <<>> /\ Top.do \in {"send", "delegate"} /\ EntersBody(Top.obj, exc) /\ UNCHANGED <<lock, ignored>>
                 /\ Top.do = "send" => yieldFrom[Top.obj] = None /\ exc = Top.exc
                 /\ Top.do = "delegate" => result # "next" /\ exc = Outcome(Top.exc, result)
  BY DEF SendToBody, DelegateEnds, Resumes, In
<1>2. PICK x \in Runners : x = Top.obj /\ Top.exc \in Excs /\ (Top.do = "delegate" => awaits[x] = Top.to)
  BY <1>1, TopFrame DEF FrameOK, RunnerFrame, Active, Waiting
<1>3. exc \in Excs
  <2>1. result # "next" /\ Top.do = "delegate" => result \in Results \ {"value", "next"}
    BY <1>1 DEF TypeInv, ResultType, OpWaits, In
  <2> QED
    BY <1>1, <1>2, <2>1, ResultFacts
<1>4. PICK a \in Frame : a = Call("body", x, exc) /\ a.obj = x /\ a.do = "body"
  BY <1>3, RunnerCall DEF Call
<1>5. Goes(<<a>>) /\ over' = over \cup ({awaits[x]} \cap Ops)
  BY <1>1, <1>2, <1>4 DEF EntersBody
<1>6. Top' = a
  BY <1>1, <1>2, <1>4, <1>5, OneStep
<1>7. \A o \in Ops : o \in over' => o \in over \/ Leaving(o)
  BY <1>1, <1>2, <1>5 DEF Leaving, In
<1> QED
  BY <1>1, <1>4, <1>6, <1>7, GoesHeld DEF lock

LEMMA ThrownHeld ==
    ASSUME TypeInv, TypeInv', AsyncInv, Held, ThrowToStarted \/ ClosingReturns \/ ThrowingEnds
    PROVE  Held'
<1>1. PICK exc : /\ calls # <<>> /\ Top.do \in {"throw", "closing", "throwing"}
                 /\ Goes(<<Call("send", Top.obj, exc)>>) /\ UNCHANGED <<lock, ignored, awaits, over>>
                 /\ Top.do = "throw" => yieldFrom[Top.obj] = None /\ exc = Top.exc /\ yieldFrom' = yieldFrom
                 /\ Top.do = "closing" => yieldFrom' = yieldFrom /\ exc = IF result = "return" THEN "exit" ELSE result
                 /\ Top.do = "throwing" => result # "next" /\ exc = Outcome("null", result)
  BY DEF ThrowToStarted, ClosingReturns, ThrowingEnds, object, In
<1>2. PICK x \in Runners : /\ x = Top.obj /\ Top.exc \in Excs
                           /\ Top.do \in {"closing", "throwing"} => yieldFrom[x] = Top.to /\ awaits[x] = Top.to
  BY <1>1, TopFrame DEF FrameOK, RunnerFrame, Active, Waiting
<1>3. exc \in Excs
  <2>1. /\ result # "next" /\ Top.do = "throwing" => result \in Results \ {"value", "next"}
        /\ Top.do = "closing" => result \in {"return", "error"}
    BY <1>1 DEF TypeInv, ResultType, OpWaits, In
  <2> QED
    BY <1>1, <1>2, <2>1, ResultFacts DEF Excs
<1>4. PICK a \in Frame : a = Call("send", x, exc) /\ a.obj = x /\ a.do = "send"
  BY <1>3, RunnerCall DEF Call
<1>5. Top' = a
  BY <1>1, <1>2, <1>4, OneStep
<1>6. awaits'[x] = yieldFrom'[x] \/ Leaving(awaits'[x])
  <2>1. CASE Top.do = "throw"
    <3>1. ~running[x] /\ ~Sending(x)
      BY <1>1, <1>2, <2>1 DEF AsyncInv, CalledInv, In, Sending
    <3> QED
      BY <1>1, <1>2, <2>1, <3>1, IdleYield
  <2>2. CASE Top.do = "closing"
    BY <1>1, <1>2, <2>2
  <2>3. CASE Top.do = "throwing"
    BY <1>1, <1>2, <2>3 DEF Leaving, In
  <2> QED
    BY <1>1, <2>1, <2>2, <2>3
<1> QED
  BY <1>1, <1>4, <1>5, <1>6, GoesHeld DEF lock

LEMMA AwaitHeld ==
    ASSUME TypeInv, TypeInv', AsyncInv, Held,
           \/ AwaitFuture \/ \E c \in Coroutines \ Tasks : AwaitCoroutine(c)
           \/ \E o \in Ops, kind \in Kinds, g \in Asyncgens : AwaitNewOp(o, kind, g)
    PROVE  Held'
<1>1. In("body") /\ calls # <<>> /\ runningAsync' = runningAsync /\ ignored' = ignored
  BY DEF AwaitFuture, AwaitCoroutine, AwaitNewOp, NewOp, Delegates, In, lock
<1>2. PICK x \in Runners : x = Top.obj
  BY <1>1, TopFrame DEF In, FrameOK, Active
<1>3. ASSUME NEW y \in Awaitables, NEW b \in Frame, Delegates(y, b),
             b.do \in {"future", "op_send"} \/ (b.do = "send" /\ b.obj = y /\ y \in Coroutines /\ ~awaiting[y]),
             over' \subseteq over, \A o \in Ops : o \notin over => op'[o] = op[o]
      PROVE  Held'
  <2>1. PICK a \in Frame : a = Wait("delegate", x, "null", y) /\ a.obj = x
    BY WaitCall DEF Waiting, Excs, Wait
  <2>2. Goes(<<a, b>>) /\ ~IsActivation(b)
    BY <1>2, <1>3, <2>1 DEF Delegates, IsActivation
  <2>3. Top' = b
    BY <1>1, <1>2, <2>1, <2>2, TwoStep
  <2>4. ASSUME b.do = "send" PROVE awaits'[b.obj] \notin Ops
    <3>1. y \in Runners /\ y \notin Ops /\ b.obj = y /\ ~awaiting[y]
      BY <1>3, <2>4, AwaitTypes DEF Runners
    <3>2. awaits[y] = None /\ None \notin Ops
      BY <1>3, <2>4, <3>1, AwaitTypes DEF AsyncInv, AwaitInv, RunnersInv, RunnerInv
    <3>3. awaits' = [awaits EXCEPT ![x] = y]
      BY <1>2, <1>3 DEF Delegates
    <3> QED
      BY <3>1, <3>2, <3>3 DEF TypeInv, ObjectType
  <2> QED
    BY <1>1, <1>3, <2>3, <2>4, GoesHeld
<1>4. CASE AwaitFuture
  <2>1. Call("future", Future, "null") \in Frame /\ Future \in Awaitables
    BY DEF Call, Frame, FrameOK, Functions, Active, Closers, OpCalled, OpWaiting, Waiting, Excs, Awaitables
  <2>2. Delegates(Future, Call("future", Future, "null")) /\ op' = op /\ over' = over
    BY <1>4 DEF AwaitFuture, lock
  <2>3. Call("future", Future, "null").do = "future"
    BY DEF Call
  <2> QED
    BY <1>3, <2>1, <2>2, <2>3
<1>5. ASSUME NEW c \in Coroutines \ Tasks, AwaitCoroutine(c) PROVE Held'
  <2>1. Call("send", c, "null") \in Frame /\ c \in Awaitables
    BY RunnerCall DEF Runners, Excs, Awaitables
  <2>2. Delegates(c, Call("send", c, "null")) /\ op' = op /\ over' = over /\ ~awaiting[c]
    BY <1>5 DEF AwaitCoroutine, MayBeAwaited, lock
  <2>3. Call("send", c, "null").do = "send" /\ Call("send", c, "null").obj = c
    BY DEF Call
  <2> QED
    BY <1>3, <2>1, <2>2, <2>3
<1>6. ASSUME NEW o \in Ops, NEW kind \in Kinds, NEW g \in Asyncgens, AwaitNewOp(o, kind, g) PROVE Held'
  <2>1. Call("op_send", o, "null") \in Frame /\ o \in Awaitables
    BY OpCall DEF OpCalled, Excs, Awaitables
  <2>2. /\ Delegates(o, Call("op_send", o, "null")) /\ over' \subseteq over /\ o \in over
        /\ op' = [op EXCEPT ![o] = [kind |-> kind, gen |-> g, state |-> "INIT"]]
    BY <1>6 DEF AwaitNewOp, NewOp
  <2>3. Call("op_send", o, "null").do = "op_send"
    BY DEF Call
  <2>4. \A p \in Ops : p \notin over => op'[p] = op[p]
    BY <2>2 DEF TypeInv, LockType
  <2> QED
    BY <1>3, <2>1, <2>2, <2>3, <2>4
<1> QED
  BY <1>4, <1>5, <1>6

LEMMA AwaitedHeld ==
    ASSUME TypeInv, TypeInv', AsyncInv, Held, SendToAwaited \/ ThrowToAwaited \/ CloseStarted \/ CloseOp
    PROVE  Held'
<1>1. calls # <<>> /\ UNCHANGED <<lock, over, ignored, awaits>> /\ Top.do \in {"send", "throw", "close", "op_close"}
  BY DEF SendToAwaited, ThrowToAwaited, CloseStarted, CloseOp, Resumes, In
<1>2. ASSUME NEW a \in Frame, NEW b \in Frame, a.obj = Top.obj, Goes(<<a, b>>),
             b.do \in {"future", "op_send", "op_throw", "op_throw2", "throw", "op_close", "close", "send"},
             b.do = "send" => awaits'[b.obj] = yieldFrom'[b.obj]
      PROVE  Held'
  <2>1. Top' = b
    BY <1>1, <1>2, TwoStep DEF IsActivation
  <2> QED
    BY <1>1, <1>2, <2>1, GoesHeld DEF lock
<1>3. CASE SendToAwaited \/ ThrowToAwaited
  <2>1. /\ Top.do \in {"send", "throw"} /\ yieldFrom[Top.obj] # None /\ (Top.do = "send" => ~running[Top.obj])
        /\ yieldFrom' = yieldFrom \/ yieldFrom' = [yieldFrom EXCEPT ![Top.obj] = None]
    BY <1>3 DEF SendToAwaited, ThrowToAwaited, Resumes, MayResume, In
  <2>2. PICK x \in Runners : x = Top.obj /\ Top.exc \in Excs /\ (Top.do = "throw" => Top.exc # "null")
    BY <1>1, <2>1, TopFrame DEF FrameOK, Active
  <2>3. ~running[x]
    BY <1>1, <2>1, <2>2 DEF AsyncInv, CalledInv, In
  <2>4. PICK y \in Awaitables : y = yieldFrom[x] /\ y = awaits[x] /\ y # x /\ (y \in Coroutines => ~running[y])
    BY <1>1, <2>1, <2>2, <2>3, YieldAwaits, IdleAwaited, AwaitTypes
  <2>5. PICK a \in Frame, b \in Frame :
            /\ a.obj = x /\ b.obj = y /\ Goes(<<a, b>>)
            /\ b.do \in {"future", "op_send", "op_throw", "op_throw2", "throw", "op_close", "close", "send"}
    <3>1. CASE SendToAwaited
      <4>1. PICK a \in Frame : a = Wait("delegate", x, Top.exc, y) /\ a.do = "delegate" /\ a.to = y /\ a.exc = Top.exc /\ a.obj = x
        BY <2>2, WaitCall DEF Waiting, Wait
      <4>2. PICK b \in Frame : b = PassTo(y, Top.exc) /\ b.obj = y
                               /\ b.do \in {"future", "op_send", "op_throw", "op_close", "send", "throw", "close"}
        BY <2>2, <4>1, PassToFacts
      <4> QED
        BY <2>2, <2>4, <3>1, <4>1, <4>2 DEF SendToAwaited
    <3>2. CASE ThrowToAwaited /\ Closes(x)
      <4>0. Top.exc # "null"
        BY <2>2, <3>2 DEF ThrowToAwaited, In
      <4>1. PICK a \in Frame : a = Wait("closing", x, Top.exc, y) /\ a.do = "closing" /\ a.to = y /\ a.obj = x
        BY <2>2, <4>0, WaitCall DEF Waiting, Wait
      <4>2. PICK b \in Frame : b = CloseOf(y) /\ b.obj = y /\ b.do \in {"future", "op_close", "close"}
        BY <4>1, CloseOfFacts
      <4> QED
        BY <2>2, <2>4, <3>2, <4>1, <4>2 DEF ThrowToAwaited
    <3>3. CASE ThrowToAwaited /\ ~Closes(x)
      <4>0. Top.exc # "null"
        BY <2>2, <3>3 DEF ThrowToAwaited, In
      <4>1. PICK a \in Frame : a = Wait("throwing", x, Top.exc, y) /\ a.do = "throwing" /\ a.to = y /\ a.obj = x
        BY <2>2, <4>0, WaitCall DEF Waiting, Wait
      <4>2. PICK b \in Frame : /\ b = ThrowTo(y, Top.exc) /\ b.obj = y
                               /\ b.do \in {"future", "op_throw", "op_throw2", "throw"}
        BY <2>2, <4>0, <4>1, ThrowToFacts
      <4> QED
        BY <2>2, <2>4, <3>3, <4>1, <4>2 DEF ThrowToAwaited
    <3> QED
      BY <1>3, <3>1, <3>2, <3>3
  <2>6. ASSUME b.do = "send" PROVE awaits'[y] = yieldFrom'[y]
    <3>1. y \in Coroutines /\ y \in Runners
      BY <2>5, <2>6, AsyncAssumption DEF Frame, FrameOK, Active, Awaitables, Runners
    <3>2. yieldFrom[y] = awaits[y]
      BY <2>2, <2>4, <3>1, IdleYield DEF Sending
    <3>3. yieldFrom'[y] = yieldFrom[y]
      BY <2>1, <2>2, <2>4, <3>1 DEF TypeInv, ObjectType
    <3> QED
      BY <1>1, <3>2, <3>3
  <2> QED
    BY <1>2, <2>2, <2>5, <2>6
<1>4. CASE CloseStarted
  <2>1. PICK x \in Runners : x = Top.obj /\ x \in Coroutines
    BY <1>1, <1>4, TopFrame DEF CloseStarted, In, FrameOK, Runners
  <2>2. PICK a \in Frame : a = Wait("closed", x, "null", None) /\ a.obj = x
    BY <2>1, CloseCall DEF Wait
  <2>3. PICK b \in Frame : b = CallClosing("send", x, "exit") /\ b.obj = x /\ b.do = "send"
    BY RunnerCall DEF CallClosing, Excs
  <2>4. ~running[x] /\ ~Sending(x)
    BY <1>4, <2>1 DEF CloseStarted, AsyncInv, CalledInv, In, Sending
  <2>5. awaits'[x] = yieldFrom'[x]
    BY <1>1, <1>4, <2>4, IdleYield DEF CloseStarted, object
  <2>6. Goes(<<a, b>>)
    BY <1>4, <2>1, <2>2, <2>3 DEF CloseStarted
  <2> QED
    BY <1>2, <2>1, <2>2, <2>3, <2>5, <2>6
<1>5. CASE CloseOp
  <2>1. PICK x \in Ops : x = Top.obj
    BY <1>1, <1>5, TopFrame DEF CloseOp, In, FrameOK
  <2>2. Wait("op_closing", x, "null", None) \in Frame
    BY DEF Wait, Frame, FrameOK, Functions, Active, Closers, OpCalled, OpWaiting, Waiting, Excs
  <2>3. Call("op_throw", x, "exit") \in Frame
    BY OpCall DEF Excs, OpCalled
  <2>4. Goes(<<Wait("op_closing", x, "null", None), Call("op_throw", x, "exit")>>)
    BY <1>5, <2>1 DEF CloseOp
  <2>5. Wait("op_closing", x, "null", None).obj = x /\ Call("op_throw", x, "exit").do = "op_throw"
    BY DEF Wait, Call
  <2> QED
    BY <1>2, <2>1, <2>2, <2>3, <2>4, <2>5
<1> QED
  BY <1>3, <1>4, <1>5

LEMMA OpCallsHeld ==
    ASSUME TypeInv, TypeInv', AsyncInv, Held,
           \/ AsendSends \/ AcloseStarts \/ AthrowGoesOn \/ OpThrowStarts \/ OpThrows
           \/ \E exc \in {"error", "exit"} : AthrowStarts(exc)
    PROVE  Held'
<1>1. /\ calls # <<>> /\ Top.do \in OpCalled /\ State # "CLOSED" /\ UNCHANGED <<object, awaits, over, ignored>>
      /\ State = "INIT" /\ ~OpThrows /\ ~AthrowGoesOn => ~runningAsync[Gen]
  BY DEF AsendSends, AcloseStarts, AthrowGoesOn, OpThrowStarts, OpThrows, AthrowStarts, OpStarts, OpGoesOn, OpClaims,
         MayClaim, In, OpCalled
<1>2. PICK x \in Ops, g \in Asyncgens : /\ x = Top.obj /\ g = Gen /\ g \in Runners /\ Top.exc \in Excs /\ op[x].gen = g
                                        /\ x \notin over /\ op[x].state \in {"INIT", "ITER"}
  <2>1. Top.obj \in Ops /\ Gen \in Asyncgens /\ Gen \in Runners /\ Top.exc \in Excs
    BY <1>1, OpFacts
  <2> QED
    BY <1>1, <2>1, TopFrame DEF OpFrame, Gen, State, TypeInv, LockType
<1>3. Top.do \in {"op_throw", "op_throw2"} => Top.exc # "null"
  BY <1>1, TopFacts DEF FrameOK
<1>4. ASSUME OpThrows \/ AthrowGoesOn PROVE State = "ITER"
  BY <1>1, <1>2, <1>4 DEF OpThrows, AthrowGoesOn, In, State, AsyncInv, CalledInv
<1>5. ~running[g] /\ yieldFrom'[g] = awaits'[g]
  <2>1. ~runningAsync[Gen] \/ State = "ITER"
    BY <1>1, <1>2, <1>4 DEF State
  <2>2. ~running[g] /\ ~Sending(g)
    BY <1>1, <1>2, <2>1, GenIdle DEF Sending, In, OpCalled
  <2> QED
    BY <1>1, <1>2, <2>2, IdleYield DEF object
<1>6. PICK wait \in OpWaiting, b \in Frame :
          /\ b.obj = g /\ b.do \in {"send", "throw"} /\ Goes(<<Wait(wait, x, Top.exc, g), b>>)
          /\ \/ UNCHANGED lock
             \/ /\ op' = [op EXCEPT ![x].state = "ITER"] /\ runningAsync' = [runningAsync EXCEPT ![g] = TRUE]
  <2>1. PICK c \in Frame : c = Call("send", g, "null") /\ c.obj = g /\ c.do = "send"
    BY <1>2, RunnerCall DEF Call, Excs
  <2>2. \A exc \in Excs \ {"null"} : Call("throw", g, exc) \in Frame /\ CallClosing("throw", g, exc) \in Frame
    BY <1>2, RunnerCall
  <2>3. \A exc : /\ Call("throw", g, exc).obj = g /\ Call("throw", g, exc).do = "throw"
                 /\ CallClosing("throw", g, exc).obj = g /\ CallClosing("throw", g, exc).do = "throw"
    BY DEF Call, CallClosing
  <2>4. CASE AsendSends
    BY <1>2, <2>1, <2>4 DEF AsendSends, OpClaims, SetState, SetRunningAsync, OpWaiting
  <2>5. CASE AcloseStarts
    <3>1. PICK d \in Frame : d = CallClosing("throw", g, "exit") /\ d.obj = g /\ d.do = "throw"
      BY <2>2, <2>3 DEF Excs
    <3> QED
      BY <1>2, <2>5, <3>1 DEF AcloseStarts, OpClaims, SetState, SetRunningAsync, OpWaiting
  <2>6. CASE AthrowGoesOn
    BY <1>2, <2>1, <2>6 DEF AthrowGoesOn, OpWaiting
  <2>7. CASE OpThrowStarts
    <3>1. Top.exc \in Excs \ {"null"}
      BY <1>1, <1>3, <2>7, TopFacts DEF OpThrowStarts, In, FrameOK, Functions, OpCalled
    <3>2. PICK d \in Frame : d = Call("throw", g, Top.exc) /\ d.obj = g /\ d.do = "throw"
      BY <2>2, <2>3, <3>1
    <3> QED
      BY <1>2, <2>7, <3>2 DEF OpThrowStarts, OpClaims, SetState, SetRunningAsync, OpWaiting
  <2>8. CASE OpThrows
    <3>1. Top.exc \in Excs \ {"null"}
      BY <1>1, <1>3, <2>8, TopFacts DEF OpThrows, In, FrameOK
    <3>2. PICK d \in Frame : d = Call("throw", g, Top.exc) /\ d.obj = g /\ d.do = "throw"
      BY <2>2, <2>3, <3>1
    <3> QED
      BY <1>2, <2>8, <3>2 DEF OpThrows, OpWaiting
  <2>9. ASSUME NEW exc \in {"error", "exit"}, AthrowStarts(exc)
        PROVE  \E wait \in OpWaiting, b \in Frame :
                 /\ b.obj = g /\ b.do \in {"send", "throw"} /\ Goes(<<Wait(wait, x, Top.exc, g), b>>)
                 /\ op' = [op EXCEPT ![x].state = "ITER"] /\ runningAsync' = [runningAsync EXCEPT ![g] = TRUE]
    <3>1. PICK d \in Frame : d = Call("throw", g, exc) /\ d.obj = g /\ d.do = "throw"
      BY <2>2, <2>3 DEF Excs
    <3>2. /\ op' = [op EXCEPT ![x].state = "ITER"] /\ runningAsync' = [runningAsync EXCEPT ![g] = TRUE]
          /\ Goes(<<Wait("op_starting", x, Top.exc, g), d>>)
      BY <1>2, <2>9, <3>1 DEF AthrowStarts, OpClaims, SetState, SetRunningAsync
    <3> QED
      BY <3>1, <3>2 DEF OpWaiting
  <2>10. CASE \E exc \in {"error", "exit"} : AthrowStarts(exc)
    BY <2>9, <2>10
  <2> QED
    BY <2>4, <2>5, <2>6, <2>7, <2>8, <2>10
<1>7. Top' = b
  <2>1. PICK a \in Frame : a = Wait(wait, x, Top.exc, g) /\ a.obj = x
    BY <1>2, OpWaitCall DEF Wait
  <2> QED
    BY <1>1, <1>2, <1>6, <2>1, TwoStep DEF IsActivation
<1>8. CASE UNCHANGED lock
  BY <1>1, <1>5, <1>6, <1>7, <1>8, GoesHeld DEF lock
<1>9. CASE op' = [op EXCEPT ![x].state = "ITER"] /\ runningAsync' = [runningAsync EXCEPT ![g] = TRUE]
  <2>1. /\ op'[x].state = "ITER" /\ op'[x].gen = g /\ \A o \in Ops : o # x => op'[o] = op[o]
        /\ \A h \in Asyncgens : h # g => runningAsync'[h] = runningAsync[h]
    BY <1>2, <1>9 DEF TypeInv, LockType
  <2>2. x # None
    BY AsyncAssumption
  <2>3. Live(x)'
    BY <1>1, <1>2, <1>5, <1>6, <1>7, <2>1, <2>2 DEF Live, Leaving, In
  <2>4. ASSUME NEW h \in Asyncgens \ ignored, h # g, runningAsync[h]
        PROVE  \E o \in Ops : Live(o)' /\ op'[o].gen = h
    <3>1. PICK o \in Ops : Live(o) /\ op[o].gen = h
      BY <2>4 DEF Held
    <3>2. op'[o] = op[o] /\ op'[o].state = "ITER"
      BY <1>2, <2>1, <2>4, <3>1 DEF Live
    <3>3. Live(o)'
      BY <1>1, <1>5, <1>6, <1>7, <3>1, <3>2, CallLive
    <3> QED
      BY <3>1, <3>2, <3>3
  <2> QED
    BY <1>1, <2>1, <2>3, <2>4 DEF Held
<1> QED
  BY <1>6, <1>8, <1>9

LEMMA OpReturnsHeld ==
    ASSUME TypeInv, TypeInv', AsyncInv, Held,
           \/ CloseClosedOp \/ (CloseReturns /\ In("op_closing")) \/ OpAlreadyUsed \/ OpOfFinished \/ OpAwaits
           \/ OpRefused \/ OpAfterClose \/ AsendEnds \/ AthrowEnds \/ AcloseEnds
    PROVE  Held'
<1>1. /\ calls # <<>> /\ Top.do \in OpCalled \cup OpWaiting \cup {"op_close", "op_closing"}
      /\ ignored \subseteq ignored'
      /\ (op' = op) \/ (\E state : SetState(state))
      /\ (runningAsync' = runningAsync) \/ (OpWaits /\ runningAsync' = [runningAsync EXCEPT ![Gen] = FALSE])
  BY DEF CloseClosedOp, CloseReturns, OpAlreadyUsed, OpOfFinished, OpAwaits, OpRefused, OpAfterClose, AsendEnds,
         AthrowEnds, AcloseEnds, OpGoesOn, OpWaits, Unwraps, Releases, In, OpCalled, OpWaiting, lock
<1>2. PICK x \in Ops : x = Top.obj
  BY <1>1, TopFrame DEF FrameOK
<1>3. PICK r : Returns(r) /\ (OpAwaits => r = "next")
  BY DEF CloseClosedOp, CloseReturns, OpAlreadyUsed, OpOfFinished, OpAwaits, OpRefused, OpAfterClose, AsendEnds,
         AthrowEnds, AcloseEnds
<1>4. \A o \in Ops : o # x => op'[o] = op[o]
  BY <1>1, <1>2 DEF SetState, TypeInv, LockType
<1>5. \A g \in Asyncgens : runningAsync'[g] => runningAsync[g]
  BY <1>1 DEF TypeInv, LockType
<1>6. ASSUME Live(x), op[x].gen \notin ignored', runningAsync'[op[x].gen], ~OpAwaits PROVE FALSE
  <2>1. CASE CloseReturns /\ In("op_closing")
    BY <1>2, <1>6, <2>1 DEF CloseReturns, AsyncInv, ResultInv, State, Live
  <2>2. CASE OpOfFinished
    <3>1. Top.do \in OpCalled /\ State = "ITER" /\ status[Gen] = "Finished"
      BY <1>2, <1>6, <2>2 DEF OpOfFinished, In, OpCalled, State, Live
    <3> QED
      BY <1>1, <3>1, GenIdle DEF Midway
  <2>3. CASE CloseClosedOp \/ OpAlreadyUsed \/ OpRefused \/ OpAfterClose
    BY <1>2, <1>6, <2>3 DEF CloseClosedOp, OpAlreadyUsed, OpRefused, OpAfterClose, State, Live
  <2>4. CASE AsendEnds \/ AthrowEnds \/ AcloseEnds
    <3>1. runningAsync' = [runningAsync EXCEPT ![Gen] = FALSE]
      BY <2>4 DEF AsendEnds, AthrowEnds, AcloseEnds, Unwraps, Releases
    <3>2. Gen = op[x].gen /\ op[x].gen \in Asyncgens
      BY <1>2 DEF Gen, TypeInv, LockType
    <3> QED
      BY <1>6, <3>1, <3>2 DEF TypeInv, LockType
  <2> QED
    BY <1>6, <2>1, <2>2, <2>3, <2>4
<1>7. OpAwaits => op' = op
  BY DEF OpAwaits, lock
<1>8. ASSUME NEW o \in Ops, Live(o), op[o].gen \notin ignored', runningAsync'[op[o].gen]
      PROVE  Live(o)' /\ op'[o].gen = op[o].gen
  <2>1. op'[o] = op[o] /\ (o # x \/ r = "next")
    BY <1>3, <1>4, <1>6, <1>7, <1>8
  <2> QED
    BY <1>1, <1>2, <1>3, <1>8, <2>1, PopLive
<1>9. \A o \in Ops : Live(o) /\ op[o].gen \notin ignored' /\ runningAsync'[op[o].gen] =>
                       Live(o)' /\ op'[o].gen = op[o].gen
  BY <1>8
<1>10. ignored \subseteq ignored'
  BY <1>1
<1> QED
  BY <1>5, <1>9, <1>10, HeldStep

LEMMA LoopHeld ==
    ASSUME TypeInv, TypeInv', AsyncInv, Held, LoopNext
    PROVE  Held'
<1>1. calls = <<>>
  BY DEF LoopNext, StepTask, CloseTask, CancelTask, LoopDrivesOp, LoopStartsOp, LoopCalls, AtLoop
<1>2. ASSUME NEW call, LoopCalls(call), call.do \notin {"delegate", "throwing"}, call.do = "send" => call.obj \in Runners,
             runningAsync' = runningAsync, over' \subseteq over, \A o \in Ops : o \notin over => op'[o] = op[o]
      PROVE  Held'
  <2>1. Top' = call /\ UNCHANGED <<object, awaits, ignored>>
    BY <1>2 DEF LoopCalls, Top
  <2>2. ASSUME call.do = "send" PROVE awaits'[call.obj] = yieldFrom'[call.obj]
    <3>1. PICK q \in Runners : q = call.obj
      BY <1>2, <2>2
    <3>2. ~running[q] /\ ~Sending(q)
      BY <1>1 DEF AsyncInv, StackRunInv, RunningActive, Sending, In
    <3> QED
      BY <2>1, <3>1, <3>2, IdleYield DEF object
  <2> QED
    BY <1>2, <2>1, <2>2, GoesHeld
<1>3. \A c \in Tasks : c \in Runners
  BY AsyncAssumption DEF Runners
<1>4. CASE \E c \in Tasks : StepTask(c) \/ CloseTask(c) \/ \E exc \in {"error", "exit"} : CancelTask(c, exc)
  <2>1. \A do, c, exc : Call(do, c, exc).do = do /\ Call(do, c, exc).obj = c
    BY DEF Call
  <2> QED
    BY <1>2, <1>3, <1>4, <2>1 DEF StepTask, CloseTask, CancelTask, lock
<1>5. \A o : \A call \in OpCalls(o) : call.do \in {"op_send", "op_throw", "op_close"}
  BY DEF OpCalls, Call
<1>6. ASSUME NEW o \in Ops, LoopDrivesOp(o) PROVE Held'
  BY <1>2, <1>5, <1>6 DEF LoopDrivesOp, lock
<1>7. ASSUME NEW o \in Ops, NEW kind \in Kinds, NEW g \in Asyncgens, LoopStartsOp(o, kind, g)
      PROVE  Held'
  <2>1. /\ runningAsync' = runningAsync /\ over' \subseteq over /\ o \in over
        /\ op' = [op EXCEPT ![o] = [kind |-> kind, gen |-> g, state |-> "INIT"]]
    BY <1>7 DEF LoopStartsOp, NewOp
  <2>2. \A p \in Ops : p # o => op'[p] = op[p]
    BY <2>1 DEF TypeInv, LockType
  <2> QED
    BY <1>2, <1>5, <1>7, <2>1, <2>2 DEF LoopStartsOp
<1> QED
  BY <1>4, <1>6, <1>7 DEF LoopNext

LEMMA NextHeld ==
    ASSUME TypeInv, TypeInv', AsyncInv, ~BadArguments, Held, [Next]_vars
    PROVE  Held'
<1>1. CASE BodyNext
  <2>1. \A r \in {"return", "null", "exit", "error"} : r \in Results
    BY DEF Results
  <2> QED
    BY <1>1, <2>1, AwaitHeld, ReturnsHeld DEF BodyNext
<1>2. CASE RunnerNext
  <2>1. CloseReturns => In("closed") \/ In("op_closing")
    BY DEF CloseReturns
  <2> QED
    BY <1>2, <2>1, ReturnsHeld, EntersHeld, ThrownHeld, AwaitedHeld, OpReturnsHeld DEF RunnerNext
<1>3. CASE OpNext
  BY <1>3, AwaitedHeld, OpReturnsHeld, OpCallsHeld DEF OpNext
<1>4. CASE UNCHANGED vars
  BY <1>4 DEF vars, object, lock, Held, Live, Leaving, In, Top
<1> QED
  BY <1>1, <1>2, <1>3, <1>4, LoopHeld DEF Next

(***************************************************************************)
(* When athrow is given exceptions only, an async generator that says that *)
(* it is in use, in m_running_async, is in use by an operation that is not *)
(* over, unless it has awaited in answer to GeneratorExit.                 *)
(***************************************************************************)
THEOREM LockIsFreed == ~BadArguments => (Spec => []LockFreed)
<1> SUFFICES ASSUME ~BadArguments PROVE Spec => []LockFreed
  OBVIOUS
<1>1. Init => Held
  BY DEF Init, Held
<1>2. TypeInv /\ TypeInv' /\ AsyncInv /\ Held /\ [Next]_vars => Held'
  BY NextHeld
<1>3. Held => LockFreed
  BY DEF Held, LockFreed, Live
<1> QED
  BY <1>1, <1>2, <1>3, TypeInvHolds, AsyncInvHolds, PTL DEF Spec

-----------------------------------------------------------------------------
(***************************************************************************)
(* A step either returns from the function on top, or calls another one.   *)
(***************************************************************************)
NewCalls == {"body", "future", "send", "throw", "close", "op_close"} \cup OpCalled

Lower == \A i \in 1..(Len(calls) - 1) : i \in 1..Len(calls') /\ calls'[i] = calls[i]

LEMMA GoesOn ==
    ASSUME TypeInv, calls # <<>>, NEW S, Frame \subseteq S, NEW new \in Seq(S), new # <<>>, Goes(new)
    PROVE  /\ calls' # <<>> /\ result' = "null" /\ Lower
           /\ Top' = new[Len(new)]
           /\ Len(calls) \in 1..Len(calls') /\ calls'[Len(calls)] = new[1]
<1>1. /\ Below \in Seq(Frame) /\ Len(Below) = Len(calls) - 1 /\ Len(calls) \in Nat \ {0}
      /\ \A i \in 1..(Len(calls) - 1) : Below[i] = calls[i]
  BY TopFacts, StackFacts
<1>2. Below \in Seq(S)
  <2>1. \A i \in 1..Len(Below) : Below[i] \in S
    BY <1>1, ElementOfSeq
  <2>2. Below = [i \in 1..Len(Below) |-> Below[i]] /\ Len(Below) \in Nat
    BY <1>1, LenProperties
  <2> QED
    BY <2>1, <2>2, IsASeq
<1>3. /\ calls' \in Seq(S) /\ Len(calls') = Len(Below) + Len(new) /\ Len(new) \in Nat \ {0}
      /\ \A i \in 1..(Len(Below) + Len(new)) :
             calls'[i] = IF i <= Len(Below) THEN Below[i] ELSE new[i - Len(Below)]
  BY <1>2, ConcatProperties, LenProperties, EmptySeq DEF Goes
<1>4. PICK l \in Nat \ {0}, k \in Nat, m \in Nat \ {0} : l = Len(calls) /\ k = Len(Below) /\ m = Len(new)
  BY <1>1, <1>3
<1> HIDE DEF Frame, Below
<1>5. /\ k = l - 1 /\ Len(calls') = k + m
      /\ \A i \in 1..(k + m) : calls'[i] = IF i <= k THEN Below[i] ELSE new[i - k]
  BY <1>1, <1>3, <1>4
<1>6. ASSUME NEW i \in 1..(l - 1) PROVE i \in 1..(k + m) /\ calls'[i] = calls[i]
  <2>1. i \in 1..(k + m) /\ i <= k
    BY <1>4, <1>5
  <2> QED
    BY <1>1, <1>4, <1>5, <2>1
<1>7. /\ l \in 1..(k + m) /\ ~(l <= k) /\ l - k = 1
      /\ k + m \in 1..(k + m) /\ ~(k + m <= k) /\ (k + m) - k = m
  BY <1>4, <1>5
<1>8. calls'[l] = new[1] /\ calls'[k + m] = new[m] /\ k + m # 0
  BY <1>5, <1>7
<1>9. calls' # <<>>
  BY <1>3, <1>5, <1>8, EmptySeq
<1> QED
  BY <1>3, <1>4, <1>5, <1>6, <1>7, <1>8, <1>9 DEF Goes, Lower, Top

LEMMA NewOne ==
    ASSUME TypeInv, calls # <<>>, NEW b, Goes(<<b>>)
    PROVE  calls' # <<>> /\ Top' = b /\ result' = "null" /\ Lower
<1>1. <<b>> \in Seq(Frame \cup {b}) /\ <<b>> # <<>> /\ Len(<<b>>) = 1 /\ <<b>>[1] = b
  OBVIOUS
<1> QED
  BY <1>1, GoesOn

LEMMA NewTwo ==
    ASSUME TypeInv, calls # <<>>, NEW a, NEW b, Goes(<<a, b>>)
    PROVE  /\ calls' # <<>> /\ Top' = b /\ result' = "null" /\ Lower
           /\ Len(calls) \in 1..Len(calls') /\ calls'[Len(calls)] = a
<1>1. /\ <<a, b>> \in Seq(Frame \cup {a, b}) /\ <<a, b>> # <<>> /\ Len(<<a, b>>) = 2
      /\ <<a, b>>[1] = a /\ <<a, b>>[2] = b
  OBVIOUS
<1> QED
  BY <1>1, GoesOn

LEMMA CallNames ==
    /\ \A do, x, exc : Call(do, x, exc).do = do /\ Call(do, x, exc).obj = x /\ Call(do, x, exc).exc = exc
    /\ \A do, x, exc : CallClosing(do, x, exc).do = do /\ CallClosing(do, x, exc).obj = x
                       /\ CallClosing(do, x, exc).exc = exc
    /\ \A do, x, exc, y : Wait(do, x, exc, y).do = do /\ Wait(do, x, exc, y).to = y
                          /\ Wait(do, x, exc, y).obj = x
BY DEF Call, CallClosing, Wait

LEMMA AwaitCalls ==
    ASSUME NEW r \in Runners, NEW x \in Awaitables, NEW exc \in Excs
    PROVE  /\ PassTo(x, exc).do \in NewCalls /\ PassTo(x, exc).obj = x
           /\ exc # "null" => CloseOf(x).do \in NewCalls \ {"send"} /\ ThrowTo(x, exc).do \in NewCalls \ {"send"}
<1>1. PICK c \in Frame : c.do = "delegate" /\ c.to = x /\ c.exc = exc
  <2>1. Wait("delegate", r, exc, x) \in Frame
    BY WaitCall DEF Waiting
  <2> QED
    BY <2>1 DEF Wait
<1>2. /\ PassTo(x, exc).obj = x
      /\ PassTo(x, exc).do \in {"future", "op_send", "op_throw", "op_close", "send", "throw", "close"}
  BY <1>1, PassToFacts
<1>3. ASSUME exc # "null" PROVE CloseOf(x).do \in NewCalls \ {"send"} /\ ThrowTo(x, exc).do \in NewCalls \ {"send"}
  <2>1. PICK w \in Frame, d \in Frame : w.do = "closing" /\ w.to = x /\ d.do = "throwing" /\ d.to = x
    <3>1. Wait("closing", r, exc, x) \in Frame /\ Wait("throwing", r, exc, x) \in Frame
      BY <1>3, WaitCall DEF Waiting
    <3> QED
      BY <3>1 DEF Wait
  <2>2. CloseOf(x).do \in {"future", "op_close", "close"}
    BY <2>1, CloseOfFacts
  <2>3. ThrowTo(x, exc).do \in {"future", "op_throw", "op_throw2", "throw"}
    BY <1>3, <2>1, ThrowToFacts
  <2> QED
    BY <2>2, <2>3 DEF NewCalls, OpCalled
<1> QED
  BY <1>2, <1>3 DEF NewCalls, OpCalled

-----------------------------------------------------------------------------
(***************************************************************************)
(* What an awaiter is told of the end of what it waits for is so.          *)
(***************************************************************************)
LEMMA CallsDone ==
    ASSUME NEW b, calls' # <<>>, Top' = b, b.do \in NewCalls, NEW y,
           b.do = "send" => /\ y = awaits'[b.obj]
                            /\ b.exc # "null" \/ y = yieldFrom'[b.obj] \/ y = b.obj \/ Done(y)'
    PROVE  EndedInv' /\ DoneInv'
BY DEF EndedInv, DoneInv, OpWaits, In, NewCalls, OpCalled, Done

LEMMA PopsDone ==
    ASSUME TypeInv, TypeInv', AsyncInv', calls # <<>>, NEW r, Returns(r), NEW x, x = Top.obj,
           r \in {"return", "null"} /\ x \in Coroutines \cup Ops /\ Top.do \notin Closers => Done(x)',
           x \in Asyncgens => r # "return" /\ (r \in {"stop", "exit", "null"} => status'[x] = "Finished")
    PROVE  EndedInv' /\ DoneInv'
<1>1. CASE calls' = <<>>
  BY <1>1 DEF EndedInv, DoneInv, OpWaits, In
<1>2. CASE calls' # <<>>
  <2>1. PICK c : /\ Top' = c /\ result' = r /\ Above(c, Top)
                 /\ c.do \in Waiting \cup OpWaiting \cup {"closed", "op_closing"}
    BY <1>2, PopStep
  <2>2. FrameOK(c)
    <3>1. Len(calls) - 1 \in 1..Len(calls) /\ c = calls[Len(calls) - 1]
      <4>1. Top' = calls[Len(calls) - 1] /\ Len(calls) - 1 \in 1..(Len(calls) - 1) /\ Len(calls) \in Nat
        BY <1>2, PopStep, TopFacts
      <4> QED
        BY <2>1, <4>1
    <3> QED
      BY <3>1, CallFacts
  <2>3. ASSUME c.do \in OpWaiting PROVE x = Gen' /\ x \in Asyncgens
    <3>1. x = c.to /\ c.to \in Asyncgens
      BY <2>1, <2>2, <2>3 DEF Above, OpWaiting, FrameOK
    <3>2. Len(calls') \in 1..Len(calls') /\ Top' = calls'[Len(calls')]
      BY <1>2, EmptySeq, LenProperties DEF TypeInv, StackInv, Top
    <3>3. op'[c.obj].gen = c.to
      BY <2>1, <2>3, <3>2 DEF AsyncInv, StackRunInv, Frames, OpFrame
    <3> QED
      BY <2>1, <3>1, <3>3 DEF Gen
  <2>4. EndedInv'
    BY <2>1, <2>3 DEF EndedInv, OpWaits, In, OpWaiting
  <2>5. ASSUME c.do \in {"delegate", "throwing"}, c.do = "delegate" => c.exc # "exit", r \in {"return", "null"}
        PROVE  Done(c.to)'
    <3>1. x = c.to /\ Top.do \notin Closers
      BY <2>1, <2>5 DEF Above, OpWaiting
    <3>2. CASE x \in Coroutines \cup Ops
      BY <2>5, <3>1, <3>2
    <3>3. CASE x \notin Coroutines \cup Ops
      BY <3>1, <3>3 DEF Done
    <3> QED
      BY <3>2, <3>3
  <2>6. DoneInv'
    BY <2>1, <2>5 DEF DoneInv, In, Waiting, OpWaiting
  <2> QED
    BY <2>4, <2>6
<1> QED
  BY <1>1, <1>2

LEMMA PopLower ==
    ASSUME TypeInv, calls # <<>>, NEW r, Returns(r)
    PROVE  Lower
<1>1. Kept /\ Len(calls') = Len(calls) - 1 /\ Len(calls) \in Nat
  BY PopStep, TopFacts DEF StepOn
<1> QED
  BY <1>1 DEF Kept, Lower

LEMMA FreedKeeps ==
    ASSUME TypeInv, TypeInv', AsyncInv, FinishedFreed, Lower,
           \A g \in Asyncgens : status'[g] = "Finished" =>
               status[g] = "Finished" \/ (calls # <<>> /\ Top.obj = g),
           \A g \in Asyncgens : runningAsync'[g] /\ status'[g] = "Finished" =>
               runningAsync[g] /\ ~(calls # <<>> /\ Top.do \in OpWaiting /\ Top.to = g)
    PROVE  FinishedFreed'
<1> SUFFICES ASSUME NEW g \in Asyncgens, status'[g] = "Finished", runningAsync'[g]
             PROVE  \E i \in 1..Len(calls') : calls'[i].do \in OpWaiting /\ calls'[i].to = g
  BY DEF FinishedFreed
<1>1. PICK n \in Nat : n = Len(calls) /\ (n # 0 => calls # <<>> /\ Top = calls[n])
  BY LenProperties, EmptySeq DEF TypeInv, StackInv, Top
<1>2. \E i \in 1..n : calls[i].do \in OpWaiting /\ calls[i].to = g /\ (i = n => Top.obj = g)
  <2>1. CASE status[g] = "Finished"
    <3>1. PICK i \in 1..n : calls[i].do \in OpWaiting /\ calls[i].to = g
      BY <1>1, <2>1 DEF FinishedFreed
    <3>2. i # n
      BY <1>1, <3>1
    <3> QED
      BY <3>1, <3>2
  <2>2. CASE calls # <<>> /\ Top.obj = g
    <3>1. PICK i \in 1..(n - 1) : calls[i].do \in OpWaiting /\ calls[i].to = g
      BY <1>1, <2>2, GenUser
    <3> QED
      BY <1>1, <3>1
  <2> QED
    BY <2>1, <2>2
<1>3. PICK i \in 1..n : calls[i].do \in OpWaiting /\ calls[i].to = g /\ (i = n => Top.obj = g)
  BY <1>2
<1>4. i # n
  <2>1. ASSUME i = n PROVE FALSE
    <3>1. calls # <<>> /\ Top.do \in OpWaiting /\ Top.to = g
      BY <1>1, <1>3, <2>1
    <3> QED
      BY <3>1
  <2> QED
    BY <2>1
<1>5. i \in 1..(n - 1)
  BY <1>3, <1>4
<1> QED
  BY <1>1, <1>3, <1>5 DEF Lower

\* What AsyncInv needs in addition for the ends of awaits and of aclose.
DoneKept == FinishedFreed /\ EndedInv /\ DoneInv

\* The lock stays as it is.
LEMMA FreedQuiet ==
    ASSUME TypeInv, TypeInv', AsyncInv, FinishedFreed, Lower, calls = <<>> \/ Top.do \notin OpWaiting,
           runningAsync' = runningAsync,
           \A g \in Asyncgens : status'[g] = "Finished" =>
               status[g] = "Finished" \/ (calls # <<>> /\ Top.obj = g)
    PROVE  FinishedFreed'
BY FreedKeeps

LEMMA LoopDone ==
    ASSUME TypeInv, TypeInv', AsyncInv, FinishedFreed, LoopNext
    PROVE  DoneKept'
<1>1. calls = <<>> /\ \E call : LoopCalls(call)
  BY DEF LoopNext, StepTask, CloseTask, CancelTask, LoopDrivesOp, LoopStartsOp, LoopCalls, AtLoop
<1>2. UNCHANGED <<object, awaits>> /\ runningAsync' = runningAsync
  BY <1>1 DEF LoopCalls, LoopNext, StepTask, CloseTask, CancelTask, LoopDrivesOp, LoopStartsOp, NewOp, lock
<1>3. Lower
  BY <1>1 DEF Lower
<1>4. FinishedFreed'
  BY <1>1, <1>2, <1>3, FreedQuiet DEF object
<1>5. ASSUME NEW call, LoopCalls(call), call.do \in NewCalls, call.do = "send" => call.obj \in Runners
      PROVE  EndedInv' /\ DoneInv'
  <2>1. Top' = call /\ calls' # <<>>
    BY <1>5 DEF LoopCalls, Top
  <2>2. PICK y : y = awaits'[call.obj]
    OBVIOUS
  <2>3. ASSUME call.do = "send" PROVE y = yieldFrom'[call.obj]
    <3>1. PICK q \in Runners : q = call.obj
      BY <1>5, <2>3
    <3>2. ~running[q] /\ ~Sending(q)
      BY <1>1 DEF AsyncInv, StackRunInv, RunningActive, Sending, In
    <3> QED
      BY <1>2, <2>2, <3>1, <3>2, IdleYield DEF object
  <2> QED
    BY <1>5, <2>1, <2>2, <2>3, CallsDone
<1>6. \A c \in Tasks : c \in Runners
  BY AsyncAssumption DEF Runners
<1>7. \A o : \A call \in OpCalls(o) : call.do \in {"op_send", "op_throw", "op_close"}
  BY DEF OpCalls, Call
<1>8. \E call : LoopCalls(call) /\ call.do \in NewCalls /\ (call.do = "send" => call.obj \in Runners)
  <2>1. CASE \E c \in Tasks : StepTask(c) \/ CloseTask(c) \/ \E exc \in {"error", "exit"} : CancelTask(c, exc)
    BY <1>6, <2>1, CallNames DEF StepTask, CloseTask, CancelTask, NewCalls
  <2>2. ASSUME NEW o \in Ops, LoopDrivesOp(o) \/ \E kind \in Kinds, g \in Asyncgens : LoopStartsOp(o, kind, g)
        PROVE  \E call \in OpCalls(o) : LoopCalls(call)
    BY <2>2 DEF LoopDrivesOp, LoopStartsOp
  <2> QED
    BY <1>7, <2>1, <2>2 DEF LoopNext, NewCalls, OpCalled
<1> QED
  BY <1>4, <1>5, <1>8 DEF DoneKept

LEMMA BodyCallsDone ==
    ASSUME TypeInv, TypeInv', AsyncInv, FinishedFreed,
           \/ AwaitFuture \/ \E c \in Coroutines \ Tasks : AwaitCoroutine(c)
           \/ \E o \in Ops, kind \in Kinds, g \in Asyncgens : AwaitNewOp(o, kind, g)
    PROVE  DoneKept'
<1>1. In("body") /\ calls # <<>> /\ runningAsync' = runningAsync /\ status' = status /\ yieldFrom' = yieldFrom
  BY DEF AwaitFuture, AwaitCoroutine, AwaitNewOp, NewOp, Delegates, In, lock
<1>2. PICK x \in Runners : x = Top.obj
  BY <1>1, TopFrame DEF In, FrameOK, Active
<1>3. ASSUME NEW z, NEW b, Delegates(z, b), b.do \in {"future", "op_send"} \/ (b.do = "send" /\ b.obj = z /\ z \in Coroutines /\ ~awaiting[z])
      PROVE  DoneKept'
  <2>1. /\ calls' # <<>> /\ Top' = b /\ result' = "null" /\ Lower
        /\ awaits' = [awaits EXCEPT ![x] = z]
    BY <1>1, <1>2, <1>3, NewTwo DEF Delegates
  <2>2. FinishedFreed'
    BY <1>1, <2>1, FreedQuiet DEF In, OpWaiting
  <2>3. PICK y : y = awaits'[b.obj]
    OBVIOUS
  <2>4. ASSUME b.do = "send" PROVE y = b.obj \/ y = yieldFrom'[b.obj]
    <3>1. z \in Runners /\ b.obj = z /\ ~awaiting[z] /\ z \in Coroutines
      BY <1>3, <2>4 DEF Runners
    <3>2. CASE z = x
      BY <1>3, <2>1, <2>3, <3>1, <3>2 DEF TypeInv, ObjectType
    <3>3. CASE z # x
      <4>1. awaits[z] = None /\ awaits'[z] = None
        BY <2>1, <3>1, <3>3 DEF AsyncInv, AwaitInv, RunnersInv, RunnerInv, TypeInv, ObjectType
      <4>2. yieldFrom[z] = None
        BY <3>1, <4>1, YieldAwaits
      <4> QED
        BY <1>1, <2>3, <3>1, <4>1, <4>2
    <3> QED
      BY <3>2, <3>3
  <2>5. EndedInv' /\ DoneInv'
    BY <1>3, <2>1, <2>3, <2>4, CallsDone DEF NewCalls, OpCalled
  <2> QED
    BY <2>2, <2>5 DEF DoneKept
<1> QED
  BY <1>3, CallNames DEF AwaitFuture, AwaitCoroutine, AwaitNewOp, MayBeAwaited

LEMMA PopsQuietDone ==
    ASSUME TypeInv, TypeInv', AsyncInv', AsyncInv, FinishedFreed,
           \/ BodyYields \/ \E r \in Results : FutureAnswers(r)
           \/ \E r \in {"return", "null", "exit", "error"} : BodyEnds(r)
           \/ SendToFinished \/ AlreadyExecuting \/ DelegateAwaits \/ ThrowToOther \/ ThrowingAwaits \/ CloseOther
           \/ CloseReturns
    PROVE  DoneKept'
<1>1. /\ calls # <<>> /\ runningAsync' = runningAsync /\ op' = op
      /\ Top.do \in Active \cup Closers \cup {"future"}
      /\ status' = status \/ status' = [status EXCEPT ![Top.obj] = "Finished"]
  BY DEF BodyYields, BodyEnds, FutureAnswers, SendToFinished, AlreadyExecuting, DelegateAwaits, ThrowToOther,
         ThrowingAwaits, CloseOther, CloseReturns, In, lock, object, Active, Waiting, Closers
<1>2. PICK x : x = Top.obj /\ (Top.do = "future" => x = Future) /\ (Top.do \in Active => x \in Runners)
               /\ (Top.do \in Closers => x \notin Asyncgens) /\ (Top.do # "future" => Top.exc \in Excs)
  BY <1>1, TopFrame, AsyncAssumption DEF FrameOK, Closers, Runners
<1>3. \A g \in Asyncgens : status'[g] = "Finished" => status[g] = "Finished" \/ (calls # <<>> /\ Top.obj = g)
  BY <1>1 DEF TypeInv, ObjectType, Runners
<1>4. ASSUME NEW r, Returns(r),
             r \in {"return", "null"} /\ x \in Coroutines \cup Ops /\ Top.do \notin Closers => Done(x)',
             x \in Asyncgens => r # "return" /\ (r \in {"stop", "exit", "null"} => status'[x] = "Finished")
      PROVE  DoneKept'
  <2>1. Lower
    BY <1>1, <1>4, PopLower
  <2>2. FinishedFreed'
    BY <1>1, <1>3, <2>1, FreedQuiet DEF Active, Waiting, Closers, OpWaiting
  <2>3. EndedInv' /\ DoneInv'
    BY <1>1, <1>2, <1>4, PopsDone
  <2> QED
    BY <2>2, <2>3 DEF DoneKept
<1>5. ASSUME status' = [status EXCEPT ![x] = "Finished"], x \in Runners
      PROVE  status'[x] = "Finished" /\ Done(x)'
  BY <1>5, AsyncAssumption DEF TypeInv, ObjectType, Done
<1>6. CASE BodyYields
  BY <1>1, <1>2, <1>4, <1>6 DEF BodyYields
<1>7. ASSUME NEW r \in Results, FutureAnswers(r) PROVE DoneKept'
  <2>1. x \notin Coroutines \cup Ops \cup Asyncgens
    BY <1>2, <1>7, AsyncAssumption DEF FutureAnswers, In, Runners
  <2> QED
    BY <1>4, <1>7, <2>1 DEF FutureAnswers
<1>8. ASSUME NEW r \in {"return", "null", "exit", "error"}, BodyEnds(r) PROVE DoneKept'
  <2>1. x \in Runners /\ status' = [status EXCEPT ![x] = "Finished"] /\ (r = "return" => x \in Coroutines)
    BY <1>2, <1>8 DEF BodyEnds, In, Active
  <2> QED
    BY <1>4, <1>5, <1>8, <2>1, AsyncAssumption DEF BodyEnds
<1>9. CASE SendToFinished
  <2>1. x \in Runners /\ status'[x] = "Finished"
    BY <1>2, <1>9 DEF SendToFinished, In, Active, object
  <2>2. Done(x)'
    BY <2>1, AsyncAssumption DEF Done
  <2> QED
    BY <1>2, <1>4, <1>9, <2>1, <2>2 DEF SendToFinished
<1>10. CASE AlreadyExecuting
  BY <1>4, <1>10 DEF AlreadyExecuting
<1>11. CASE DelegateAwaits \/ ThrowingAwaits
  BY <1>4, <1>11 DEF DelegateAwaits, ThrowingAwaits
<1>12. CASE ThrowToOther
  <2>1. x \in Runners /\ status' = [status EXCEPT ![x] = "Finished"] /\ Top.exc \in Excs /\ Top.exc # "return"
    BY <1>2, <1>12 DEF ThrowToOther, In, Active, Excs
  <2> QED
    BY <1>4, <1>5, <1>12, <2>1 DEF ThrowToOther
<1>13. CASE CloseOther \/ CloseReturns
  BY <1>2, <1>4, <1>13 DEF CloseOther, CloseReturns, In, Closers
<1> QED
  BY <1>6, <1>7, <1>8, <1>9, <1>10, <1>11, <1>12, <1>13

LEMMA EntersDone ==
    ASSUME TypeInv, TypeInv', AsyncInv, FinishedFreed, SendToBody \/ DelegateEnds
    PROVE  DoneKept'
<1>1. PICK exc : /\ calls # <<>> /\ Top.do \in {"send", "delegate"} /\ EntersBody(Top.obj, exc) /\ UNCHANGED lock
                 /\ status' = status \/ status' = [status EXCEPT ![Top.obj] = "Running"]
  BY DEF SendToBody, DelegateEnds, Resumes, In
<1>2. PICK b : b = Call("body", Top.obj, exc) /\ b.do = "body"
  BY CallNames
<1>3. calls' # <<>> /\ Top' = b /\ Lower
  BY <1>1, <1>2, NewOne DEF EntersBody
<1>4. \A g \in Asyncgens : status'[g] = "Finished" => status[g] = "Finished"
  BY <1>1 DEF TypeInv, ObjectType, Runners
<1>5. FinishedFreed'
  BY <1>1, <1>3, <1>4, FreedQuiet DEF OpWaiting, lock
<1>6. EndedInv' /\ DoneInv'
  BY <1>2, <1>3, CallsDone DEF NewCalls
<1> QED
  BY <1>5, <1>6 DEF DoneKept

LEMMA ThrownDone ==
    ASSUME TypeInv, TypeInv', AsyncInv, FinishedFreed, DoneInv, ThrowToStarted \/ ClosingReturns \/ ThrowingEnds
    PROVE  DoneKept'
<1>1. PICK exc : /\ calls # <<>> /\ Top.do \in {"throw", "closing", "throwing"}
                 /\ Goes(<<Call("send", Top.obj, exc)>>) /\ UNCHANGED <<status, lock, awaits, over>>
                 /\ Top.do = "throw" => exc = Top.exc
                 /\ Top.do = "closing" => exc = IF result = "return" THEN "exit" ELSE result
                 /\ Top.do = "throwing" => result # "next" /\ exc = Outcome("null", result)
  BY DEF ThrowToStarted, ClosingReturns, ThrowingEnds, object, In
<1>2. PICK x \in Runners : /\ x = Top.obj /\ (Top.do = "throw" => Top.exc # "null")
                           /\ Top.do \in {"closing", "throwing"} => awaits[x] = Top.to
  BY <1>1, TopFrame DEF FrameOK, RunnerFrame, Active, Waiting
<1>3. PICK b : b = Call("send", x, exc) /\ b.obj = x /\ b.do = "send" /\ b.exc = exc
  BY CallNames
<1>4. calls' # <<>> /\ Top' = b /\ Lower
  BY <1>1, <1>2, <1>3, NewOne
<1>5. FinishedFreed'
  BY <1>1, <1>4, FreedQuiet DEF OpWaiting, lock
<1>6. PICK y : y = awaits'[x]
  OBVIOUS
<1>7. ASSUME exc = "null" PROVE Done(y)'
  <2>1. Top.do = "throwing"
    <3>1. Top.do = "closing" => result \in {"return", "error"}
      BY <1>1 DEF TypeInv, ResultType, In
    <3> QED
      BY <1>1, <1>2, <1>7, <3>1
  <2>2. result \in {"return", "null"}
    BY <1>1, <1>7, <2>1 DEF Outcome
  <2>3. Done(y)
    BY <1>1, <1>2, <1>6, <2>1, <2>2 DEF DoneInv, In
  <2> QED
    BY <1>1, <2>3 DEF Done, lock
<1>8. EndedInv' /\ DoneInv'
  BY <1>3, <1>4, <1>6, <1>7, CallsDone DEF NewCalls
<1> QED
  BY <1>5, <1>8 DEF DoneKept

LEMMA AwaitedDone ==
    ASSUME TypeInv, TypeInv', AsyncInv, FinishedFreed, SendToAwaited \/ ThrowToAwaited \/ CloseStarted \/ CloseOp
    PROVE  DoneKept'
<1>1. /\ calls # <<>> /\ UNCHANGED <<lock, awaits>> /\ Top.do \in {"send", "throw", "close", "op_close"}
      /\ status' = status \/ status' = [status EXCEPT ![Top.obj] = "Running"]
  BY DEF SendToAwaited, ThrowToAwaited, CloseStarted, CloseOp, Resumes, In, object
<1>2. \A g \in Asyncgens : status'[g] = "Finished" => status[g] = "Finished"
  BY <1>1 DEF TypeInv, ObjectType, Runners
<1>3. ASSUME NEW a, NEW b, Goes(<<a, b>>), b.do \in NewCalls, NEW y,
             b.do = "send" => y = awaits'[b.obj] /\ (b.exc # "null" \/ y = yieldFrom'[b.obj])
      PROVE  DoneKept'
  <2>1. calls' # <<>> /\ Top' = b /\ Lower
    BY <1>1, <1>3, NewTwo
  <2>2. FinishedFreed'
    BY <1>1, <1>2, <2>1, FreedQuiet DEF OpWaiting, lock
  <2>3. EndedInv' /\ DoneInv'
    BY <1>3, <2>1, CallsDone
  <2> QED
    BY <2>2, <2>3 DEF DoneKept
<1>4. CASE SendToAwaited
  <2>1. /\ In("send") /\ yieldFrom[Top.obj] # None /\ ~running[Top.obj] /\ yieldFrom' = [yieldFrom EXCEPT ![Top.obj] = None]
    BY <1>4 DEF SendToAwaited, Resumes, MayResume
  <2>2. PICK x \in Runners : x = Top.obj /\ Top.exc \in Excs
    BY <2>1, TopFrame DEF FrameOK, Active, In
  <2>3. PICK z \in Awaitables : z = yieldFrom[x] /\ z = awaits[x] /\ z # x /\ (z \in Coroutines => ~running[z])
    BY <1>1, <2>1, <2>2, YieldAwaits, IdleAwaited, AwaitTypes
  <2>4. PICK b \in Frame : b = PassTo(z, Top.exc) /\ b.obj = z /\ b.do \in NewCalls
    <3>1. PICK c \in Frame : c.do = "delegate" /\ c.to = z /\ c.exc = Top.exc
      <4>1. Wait("delegate", x, Top.exc, z) \in Frame
        BY <2>2, WaitCall DEF Waiting
      <4> QED
        BY <4>1 DEF Wait
    <3>2. PassTo(z, Top.exc) \in Frame
      BY <2>2, <3>1, PassToFacts
    <3> QED
      BY <2>2, <3>2, AwaitCalls
  <2>5. Goes(<<Wait("delegate", x, Top.exc, z), b>>)
    BY <1>4, <2>2, <2>3, <2>4 DEF SendToAwaited
  <2>6. PICK y : y = awaits'[b.obj]
    OBVIOUS
  <2>7. ASSUME b.do = "send" PROVE y = yieldFrom'[b.obj]
    <3>1. z \in Coroutines /\ z \in Runners
      BY <2>4, <2>7, AsyncAssumption DEF Frame, FrameOK, Active, Awaitables, Runners
    <3>2. yieldFrom[z] = awaits[z]
      BY <2>2, <2>3, <3>1, IdleYield DEF Sending
    <3>3. yieldFrom'[z] = yieldFrom[z]
      BY <2>1, <2>2, <2>3, <3>1 DEF TypeInv, ObjectType
    <3> QED
      BY <1>1, <2>4, <2>6, <3>2, <3>3
  <2> QED
    BY <1>3, <2>4, <2>5, <2>6, <2>7
<1>5. CASE ThrowToAwaited
  <2>1. In("throw") /\ yieldFrom[Top.obj] # None
    BY <1>5 DEF ThrowToAwaited
  <2>2. PICK x \in Runners : x = Top.obj /\ Top.exc \in Excs /\ Top.exc # "null"
    BY <2>1, TopFrame DEF FrameOK, Active, In
  <2>3. PICK z \in Awaitables : z = yieldFrom[x]
    BY <2>1, <2>2, AwaitTypes
  <2>4. PICK a, b : Goes(<<a, b>>) /\ b \in {CloseOf(z), ThrowTo(z, Top.exc)}
    BY <1>5, <2>2, <2>3 DEF ThrowToAwaited
  <2>5. b.do \in NewCalls /\ b.do # "send"
    BY <2>2, <2>4, AwaitCalls
  <2> QED
    BY <1>3, <2>4, <2>5
<1>6. CASE CloseStarted
  <2>1. PICK a, b : /\ a = Wait("closed", Top.obj, "null", None) /\ b = CallClosing("send", Top.obj, "exit")
                    /\ b.do = "send" /\ b.exc = "exit"
    BY CallNames
  <2>2. Goes(<<a, b>>)
    BY <1>6, <2>1 DEF CloseStarted
  <2>3. PICK y : y = awaits'[b.obj]
    OBVIOUS
  <2> QED
    BY <1>3, <2>1, <2>2, <2>3 DEF NewCalls
<1>7. CASE CloseOp
  <2>1. PICK a, b : /\ a = Wait("op_closing", Top.obj, "null", None) /\ b = Call("op_throw", Top.obj, "exit")
                    /\ b.do = "op_throw"
    BY CallNames
  <2>2. Goes(<<a, b>>)
    BY <1>7, <2>1 DEF CloseOp
  <2>3. b.do \in NewCalls /\ b.do # "send"
    BY <2>1 DEF NewCalls, OpCalled
  <2> QED
    BY <1>3, <2>2, <2>3
<1> QED
  BY <1>4, <1>5, <1>6, <1>7

LEMMA OpCallsDone ==
    ASSUME TypeInv, TypeInv', AsyncInv, FinishedFreed,
           \/ AsendSends \/ AcloseStarts \/ AthrowGoesOn \/ OpThrowStarts \/ OpThrows
           \/ \E exc \in {"error", "exit"} : AthrowStarts(exc)
    PROVE  DoneKept'
<1>1. /\ calls # <<>> /\ Top.do \in OpCalled /\ UNCHANGED <<object, awaits>>
      /\ ~runningAsync[Gen] \/ State = "ITER"
      /\ runningAsync' = runningAsync \/ runningAsync' = [runningAsync EXCEPT ![Gen] = TRUE]
  <2>1. calls # <<>> /\ Top.do \in OpCalled /\ State # "CLOSED" /\ UNCHANGED <<object, awaits>>
    BY DEF AsendSends, AcloseStarts, AthrowGoesOn, OpThrowStarts, OpThrows, AthrowStarts, OpStarts, OpGoesOn, OpClaims,
           In, OpCalled
  <2>2. State \in {"INIT", "ITER", "CLOSED"}
    BY <2>1, OpFacts DEF State, TypeInv, LockType
  <2>3. OpThrows => In("op_throw2") \/ State # "INIT"
    BY DEF OpThrows
  <2>4. In("op_throw2") => State # "INIT"
    BY DEF AsyncInv, CalledInv
  <2>5. ~runningAsync[Gen] \/ State = "ITER"
    BY <2>1, <2>2, <2>3, <2>4 DEF AsendSends, AcloseStarts, AthrowGoesOn, OpThrowStarts, AthrowStarts, OpStarts, MayClaim
  <2>6. runningAsync' = runningAsync \/ runningAsync' = [runningAsync EXCEPT ![Gen] = TRUE]
    BY DEF AsendSends, AcloseStarts, AthrowGoesOn, OpThrowStarts, OpThrows, AthrowStarts, OpClaims, SetRunningAsync, lock
  <2> QED
    BY <2>1, <2>5, <2>6
<1>2. PICK g \in Asyncgens : g = Gen /\ g \in Runners /\ Top.exc \in Excs
  BY <1>1, OpFacts
<1>3. ~running[g] /\ yieldFrom[g] = awaits[g]
  <2>1. ~running[g] /\ ~Sending(g)
    BY <1>1, <1>2, GenIdle DEF Sending, In, OpCalled
  <2> QED
    BY <1>2, <2>1, IdleYield
<1>4. PICK wait, b :
          /\ wait \in OpWaiting
          /\ Goes(<<Wait(wait, Top.obj, Top.exc, g), b>>) /\ b.do \in {"send", "throw"} /\ b.obj = g
  <2>1. \E wait \in OpWaiting, do \in {"send", "throw"}, exc \in Excs :
            \/ Goes(<<Wait(wait, Top.obj, Top.exc, g), Call(do, g, exc)>>)
            \/ Goes(<<Wait(wait, Top.obj, Top.exc, g), CallClosing(do, g, exc)>>)
    <3>1. CASE AsendSends
      BY <1>2, <3>1 DEF AsendSends, OpClaims, OpWaiting, Excs
    <3>2. CASE AcloseStarts
      BY <1>2, <3>2 DEF AcloseStarts, OpClaims, OpWaiting, Excs
    <3>3. CASE AthrowGoesOn
      BY <1>2, <3>3 DEF AthrowGoesOn, OpWaiting, Excs
    <3>4. CASE OpThrowStarts
      BY <1>2, <3>4 DEF OpThrowStarts, OpClaims, OpWaiting, Excs
    <3>5. CASE OpThrows
      BY <1>2, <3>5 DEF OpThrows, OpWaiting
    <3>6. ASSUME NEW exc \in {"error", "exit"}, AthrowStarts(exc)
          PROVE  Goes(<<Wait("op_starting", Top.obj, Top.exc, g), Call("throw", g, exc)>>)
      BY <1>2, <3>6 DEF AthrowStarts, OpClaims
    <3> QED
      BY <3>1, <3>2, <3>3, <3>4, <3>5, <3>6 DEF OpWaiting, Excs
  <2>2. PICK wait \in OpWaiting, do \in {"send", "throw"}, exc \in Excs :
            \/ Goes(<<Wait(wait, Top.obj, Top.exc, g), Call(do, g, exc)>>)
            \/ Goes(<<Wait(wait, Top.obj, Top.exc, g), CallClosing(do, g, exc)>>)
    BY <2>1
  <2>3. PICK b \in {Call(do, g, exc), CallClosing(do, g, exc)} : Goes(<<Wait(wait, Top.obj, Top.exc, g), b>>)
    BY <2>2
  <2>4. b.do = do /\ b.obj = g
    BY CallNames
  <2> QED
    BY <2>2, <2>3, <2>4
<1>5. PICK a : a = Wait(wait, Top.obj, Top.exc, g) /\ a.do = wait /\ a.to = g
  BY CallNames
<1>6. calls' # <<>> /\ Top' = b /\ Lower /\ Len(calls) \in 1..Len(calls') /\ calls'[Len(calls)] = a
  BY <1>1, <1>4, <1>5, NewTwo
<1>7. ASSUME NEW h \in Asyncgens, status'[h] = "Finished", runningAsync'[h]
      PROVE  \E i \in 1..Len(calls') : calls'[i].do \in OpWaiting /\ calls'[i].to = h
  <2>1. CASE h = g
    BY <1>4, <1>5, <1>6, <2>1
  <2>2. CASE h # g
    <3>1. status[h] = "Finished" /\ runningAsync[h]
      BY <1>1, <1>2, <1>7, <2>2 DEF object, TypeInv, LockType
    <3>2. PICK n \in Nat \ {0} : n = Len(calls) /\ Top = calls[n]
      BY <1>1, TopFacts
    <3>3. PICK i \in 1..n : calls[i].do \in OpWaiting /\ calls[i].to = h
      BY <3>1, <3>2 DEF FinishedFreed
    <3>4. i # n
      BY <1>1, <3>2, <3>3 DEF OpCalled, OpWaiting
    <3>5. i \in 1..(n - 1)
      BY <3>4
    <3> QED
      BY <1>6, <3>2, <3>3, <3>5 DEF Lower
  <2> QED
    BY <2>1, <2>2
<1>8. PICK y : y = awaits'[g]
  OBVIOUS
<1>9. y = yieldFrom'[g]
  BY <1>1, <1>3, <1>8 DEF object
<1>10. EndedInv' /\ DoneInv'
  BY <1>4, <1>6, <1>8, <1>9, CallsDone DEF NewCalls
<1> QED
  BY <1>7, <1>10 DEF DoneKept, FinishedFreed

LEMMA FinishedIdle ==
    ASSUME TypeInv, AsyncInv, FinishedFreed, calls # <<>>, Top.obj \in Ops, Top.do \notin OpWaiting,
           NEW g \in Asyncgens, status[g] = "Finished"
    PROVE  ~runningAsync[g]
<1> SUFFICES ASSUME runningAsync[g] PROVE FALSE
  OBVIOUS
<1>1. PICK n \in Nat \ {0} : n = Len(calls) /\ Top = calls[n]
  BY TopFacts
<1>2. PICK i \in 1..n : calls[i].do \in OpWaiting /\ calls[i].to = g
  BY <1>1 DEF FinishedFreed
<1>3. i \in 1..(n - 1)
  <2>1. i # n
    BY <1>1, <1>2
  <2> QED
    BY <2>1
<1>4. i + 1 \in 1..n /\ calls[i + 1].obj = g
  BY <1>1, <1>2, <1>3, Waits DEF Above, OpWaiting
<1>5. i + 1 # n
  BY <1>1, <1>4, AsyncAssumption DEF Runners
<1>6. PICK j \in 1..(n - 1) : j = i + 1
  BY <1>4, <1>5
<1>7. j \in 1..n /\ calls[j].obj = g
  BY <1>4, <1>6
<1>8. calls[j].do \in Waiting \cup OpWaiting \cup {"closed", "op_closing"} /\ FrameOK(calls[j])
  BY <1>1, <1>6, <1>7, Waits, CallFacts
<1>9. IsActivation(calls[j])
  BY <1>7, <1>8, AsyncAssumption DEF FrameOK, Runners, IsActivation, Waiting
<1>10. status[calls[j].obj] = "Running"
  BY <1>1, <1>7, <1>9 DEF AsyncInv, StackRunInv, Frames, RunnerFrame
<1> QED
  BY <1>7, <1>10

LEMMA OpReturnsDone ==
    ASSUME TypeInv, TypeInv', AsyncInv, AsyncInv', FinishedFreed,
           \/ CloseClosedOp \/ OpAlreadyUsed \/ OpOfFinished \/ OpAwaits \/ AthrowStarts("bad")
           \/ OpRefused \/ OpAfterClose \/ AsendEnds \/ AthrowEnds \/ AcloseEnds
    PROVE  DoneKept'
<1>1. /\ calls # <<>> /\ Top.do \in OpCalled \cup OpWaiting \cup {"op_close"} /\ status' = status
      /\ OpWaits \/ Top.do \notin OpWaiting
  BY DEF CloseClosedOp, OpAlreadyUsed, OpOfFinished, OpAwaits, OpRefused, OpAfterClose, AsendEnds, AthrowEnds,
         AcloseEnds, AthrowStarts, OpStarts, OpGoesOn, OpWaits, In, OpCalled, OpWaiting, object
<1>2. PICK x \in Ops, g \in Asyncgens : x = Top.obj /\ g = Gen /\ g = op[x].gen /\ (Top.do \in OpWaiting => Top.to = g)
  <2>1. Top.obj \in Ops /\ (Top.do \in OpWaiting => op[Top.obj].gen = Top.to)
    BY <1>1, TopFrame DEF FrameOK, OpFrame
  <2>2. Gen = op[Top.obj].gen /\ Gen \in Asyncgens
    BY <2>1 DEF Gen, TypeInv, LockType
  <2> QED
    BY <2>1, <2>2
<1>3. \A r : Returns(r) => Lower
  BY <1>1, PopLower
<1>4. ASSUME NEW r, Returns(r), r \in {"return", "null"} /\ Top.do \notin Closers => Done(x)'
      PROVE  Lower /\ EndedInv' /\ DoneInv'
  BY <1>1, <1>2, <1>3, <1>4, PopsDone, AsyncAssumption DEF Runners
<1>5. CASE OpAwaits
  <2>1. runningAsync' = runningAsync /\ status[g] # "Finished"
    BY <1>2, <1>5 DEF OpAwaits, lock, AsyncInv, ResultInv, Midway
  <2>2. Lower /\ EndedInv' /\ DoneInv'
    BY <1>4, <1>5 DEF OpAwaits
  <2>3. FinishedFreed'
    BY <1>1, <1>2, <2>1, <2>2, FreedKeeps
  <2> QED
    BY <2>2, <2>3 DEF DoneKept
<1>6. CASE AsendEnds \/ AthrowEnds \/ AcloseEnds
  <2>1. /\ runningAsync' = [runningAsync EXCEPT ![g] = FALSE]
        /\ \E state : SetState(state)
    BY <1>2, <1>6 DEF AsendEnds, AthrowEnds, AcloseEnds, Unwraps, Releases
  <2>2. ~runningAsync'[g] /\ op'[x].gen = g /\ \A h \in Asyncgens : runningAsync'[h] => runningAsync[h] /\ h # g
    BY <1>2, <2>1 DEF SetState, TypeInv, LockType
  <2>3. Done(x)'
    BY <2>2, AsyncAssumption DEF Done, Runners
  <2>4. Lower /\ EndedInv' /\ DoneInv'
    BY <1>4, <1>6, <2>3 DEF AsendEnds, AthrowEnds, AcloseEnds
  <2>5. FinishedFreed'
    BY <1>1, <1>2, <2>2, <2>4, FreedKeeps
  <2> QED
    BY <2>4, <2>5 DEF DoneKept
<1>7. CASE AthrowStarts("bad")
  <2>1. runningAsync' = [runningAsync EXCEPT ![g] = TRUE] /\ status[g] # "Finished" /\ Top.do = "op_send"
    BY <1>2, <1>7 DEF AthrowStarts, OpStarts, OpGoesOn, SetRunningAsync, In
  <2>2. \A h \in Asyncgens : runningAsync'[h] => runningAsync[h] \/ h = g
    BY <1>2, <2>1 DEF TypeInv, LockType
  <2>3. Lower /\ EndedInv' /\ DoneInv'
    BY <1>4, <1>7 DEF AthrowStarts
  <2>4. FinishedFreed'
    BY <1>1, <2>1, <2>2, <2>3, FreedKeeps DEF OpWaiting
  <2> QED
    BY <2>3, <2>4 DEF DoneKept
<1>8. CASE CloseClosedOp \/ OpAlreadyUsed \/ OpOfFinished \/ OpRefused \/ OpAfterClose
  <2>1. runningAsync' = runningAsync /\ Top.do \notin OpWaiting
    BY <1>8 DEF CloseClosedOp, OpAlreadyUsed, OpOfFinished, OpRefused, OpAfterClose, OpGoesOn, In, OpWaiting, lock
  <2>2. ASSUME OpAlreadyUsed PROVE Lower /\ EndedInv' /\ DoneInv'
    <3>1. Done(x)'
      BY <1>2, <2>2, AsyncAssumption DEF OpAlreadyUsed, State, Done, Runners, lock
    <3> QED
      BY <1>4, <2>2, <3>1 DEF OpAlreadyUsed
  <2>3. ASSUME OpOfFinished PROVE Lower /\ EndedInv' /\ DoneInv'
    <3>1. status[g] = "Finished" /\ op' = op /\ runningAsync' = runningAsync
      BY <1>2, <2>3 DEF OpOfFinished, lock
    <3>2. Done(x)'
      BY <1>1, <1>2, <2>1, <3>1, FinishedIdle, AsyncAssumption DEF Done, Runners
    <3> QED
      BY <1>4, <2>3, <3>2 DEF OpOfFinished
  <2>4. ASSUME CloseClosedOp \/ OpRefused \/ OpAfterClose PROVE Lower /\ EndedInv' /\ DoneInv'
    BY <1>4, <2>4 DEF CloseClosedOp, OpRefused, OpAfterClose, In, Closers
  <2>5. Lower /\ EndedInv' /\ DoneInv'
    BY <1>8, <2>2, <2>3, <2>4
  <2>6. FinishedFreed'
    BY <1>1, <2>1, <2>5, FreedQuiet
  <2> QED
    BY <2>5, <2>6 DEF DoneKept
<1> QED
  BY <1>5, <1>6, <1>7, <1>8

LEMMA NextDone ==
    ASSUME TypeInv, TypeInv', AsyncInv, AsyncInv', DoneKept, [Next]_vars
    PROVE  DoneKept'
<1>0. FinishedFreed /\ DoneInv
  BY DEF DoneKept
<1>1. CASE BodyNext
  BY <1>0, <1>1, BodyCallsDone, PopsQuietDone DEF BodyNext
<1>2. CASE RunnerNext
  BY <1>0, <1>2, PopsQuietDone, EntersDone, ThrownDone, AwaitedDone DEF RunnerNext
<1>3. CASE OpNext
  <2>1. ASSUME NEW exc \in {"error", "exit"} \cup (IF BadArguments THEN {"bad"} ELSE {}), AthrowStarts(exc)
        PROVE  DoneKept'
    BY <1>0, <2>1, OpCallsDone, OpReturnsDone
  <2> QED
    BY <1>0, <1>3, <2>1, AwaitedDone, OpCallsDone, OpReturnsDone DEF OpNext
<1>4. CASE UNCHANGED vars
  BY <1>4 DEF vars, object, lock, DoneKept, FinishedFreed, EndedInv, DoneInv, Done, OpWaits, Gen, In, Top
<1> QED
  BY <1>0, <1>1, <1>2, <1>3, <1>4, LoopDone DEF Next

(***************************************************************************)
(* An end that is reported, to an awaiter or to an operation, is the end   *)
(* of what was waited for, and a finished async generator is not left      *)
(* marked as in use.                                                       *)
(***************************************************************************)
THEOREM DoneKeptHolds == Spec => []DoneKept
<1>1. Init => DoneKept
  BY DEF Init, DoneKept, FinishedFreed, EndedInv, DoneInv, OpWaits, In
<1>2. TypeInv /\ TypeInv' /\ AsyncInv /\ AsyncInv' /\ DoneKept /\ [Next]_vars => DoneKept'
  BY NextDone
<1> QED
  BY <1>1, <1>2, TypeInvHolds, AsyncInvHolds, PTL DEF Spec

\* An await ends only where the body goes on.
LEMMA AwaitEnds ==
    ASSUME TypeInv, [Next]_vars, NEW r \in Runners, awaits[r] # None, awaits'[r] = None
    PROVE  SendToBody \/ DelegateEnds
<1>1. CASE LoopNext
  BY <1>1 DEF LoopNext, StepTask, CloseTask, CancelTask, LoopDrivesOp, LoopStartsOp, LoopCalls
<1>2. CASE BodyNext
  <2>1. ASSUME NEW z \in Awaitables, NEW b, Delegates(z, b) PROVE FALSE
    <3>1. awaits' = [awaits EXCEPT ![Top.obj] = z] /\ z # None
      BY <2>1, AwaitTypes, AsyncAssumption DEF Delegates, Awaitables, Runners
    <3> QED
      BY <3>1 DEF TypeInv, ObjectType
  <2>2. AwaitFuture => \E z \in Awaitables, b \in {Call("future", Future, "null")} : Delegates(z, b)
    BY DEF AwaitFuture, Awaitables
  <2>3. \A c \in Coroutines \ Tasks : AwaitCoroutine(c) => \E z \in Awaitables, b \in {Call("send", c, "null")} : Delegates(z, b)
    BY DEF AwaitCoroutine, Awaitables
  <2>4. \A o \in Ops, kind \in Kinds, g \in Asyncgens :
            AwaitNewOp(o, kind, g) => \E z \in Awaitables, b \in {Call("op_send", o, "null")} : Delegates(z, b)
    BY DEF AwaitNewOp, Awaitables
  <2> QED
    BY <1>2, <2>1, <2>2, <2>3, <2>4 DEF BodyNext, BodyYields, BodyEnds, FutureAnswers
<1>3. CASE RunnerNext
  BY <1>3 DEF RunnerNext, SendToFinished, AlreadyExecuting, SendToAwaited, DelegateAwaits, ThrowToAwaited,
              ThrowToStarted, ThrowToOther, ClosingReturns, ThrowingAwaits, ThrowingEnds, CloseStarted, CloseOther,
              CloseReturns
<1>4. CASE OpNext
  BY <1>4 DEF OpNext, CloseOp, CloseClosedOp, OpAlreadyUsed, OpOfFinished, OpRefused, OpAfterClose, AsendSends,
              AcloseStarts, AthrowGoesOn, AthrowStarts, OpThrowStarts, OpThrows, OpAwaits, AsendEnds, AthrowEnds,
              AcloseEnds, OpClaims
<1>5. CASE UNCHANGED vars
  BY <1>5 DEF vars
<1> QED
  BY <1>1, <1>2, <1>3, <1>4, <1>5 DEF Next

(***************************************************************************)
(* A body that goes on after an await without an exception goes on when    *)
(* what it has waited for is over: the SEND_TO of m_yield_from never takes *)
(* an answer for the end of something that has not ended.                  *)
(***************************************************************************)
THEOREM AwaitIsOver == Spec => ResumedAfterAwait
<1>1. ASSUME TypeInv, AsyncInv, DoneKept, [Next]_vars, NEW r \in Runners,
             awaits[r] \in Coroutines \cup Ops, awaits'[r] = None,
             calls' # <<>>, Top'.do = "body", Top'.obj = r, Top'.exc = "null"
      PROVE  IF awaits[r] \in Coroutines THEN status[awaits[r]] = "Finished"
             ELSE op[awaits[r]].state = "CLOSED" \/ ~runningAsync[op[awaits[r]].gen]
  <2>1. awaits[r] # None
    BY <1>1, AsyncAssumption DEF Runners
  <2>2. SendToBody \/ DelegateEnds
    BY <1>1, <2>1, AwaitEnds
  <2>3. PICK exc : /\ calls # <<>> /\ Goes(<<Call("body", Top.obj, exc)>>)
                   /\ SendToBody => exc = Top.exc
                   /\ DelegateEnds => exc = Outcome(Top.exc, result)
    BY <2>2 DEF SendToBody, DelegateEnds, EntersBody, Resumes, In
  <2>4. Top.obj = r /\ exc = "null"
    <3>1. PICK b : b = Call("body", Top.obj, exc) /\ b.obj = Top.obj /\ b.exc = exc
      BY CallNames
    <3>2. Top' = b
      BY <1>1, <2>3, <3>1, NewOne
    <3> QED
      BY <1>1, <3>1, <3>2
  <2>5. Done(awaits[r])
    <3>1. CASE SendToBody
      <4>1. In("send") /\ yieldFrom[r] = None /\ ~running[r] /\ Top.exc = "null"
        BY <2>3, <2>4, <3>1 DEF SendToBody, Resumes, MayResume
      <4>2. awaits[r] # r
        BY <1>1, <2>3, <2>4, <4>1, SelfAwait, AwaitTypes
      <4> QED
        BY <1>1, <2>1, <2>4, <4>1, <4>2 DEF DoneKept, DoneInv
    <3>2. CASE DelegateEnds
      <4>1. In("delegate") /\ Top.exc # "exit" /\ result \in {"return", "null"}
        BY <2>3, <2>4, <3>2 DEF DelegateEnds, Outcome
      <4>2. awaits[r] = Top.to
        BY <1>1, <2>3, <2>4, <4>1, TopFrame DEF RunnerFrame, In
      <4> QED
        BY <1>1, <4>1, <4>2 DEF DoneKept, DoneInv
    <3> QED
      BY <2>2, <3>1, <3>2
  <2> QED
    BY <1>1, <2>5 DEF Done
<1>2. TypeInv /\ AsyncInv /\ DoneKept /\ [Next]_vars =>
         [\A r \in Runners :
          /\ awaits[r] \in Coroutines \cup Ops
          /\ awaits'[r] = None
          /\ calls' # <<>> /\ Top'.do = "body" /\ Top'.obj = r /\ Top'.exc = "null"
          => IF awaits[r] \in Coroutines THEN status[awaits[r]] = "Finished"
             ELSE op[awaits[r]].state = "CLOSED" \/ ~runningAsync[op[awaits[r]].gen]]_vars
  BY <1>1
<1> QED
  BY <1>2, TypeInvHolds, AsyncInvHolds, DoneKeptHolds, PTL DEF Spec, ResumedAfterAwait

(***************************************************************************)
(* An aclose that reports success has ended the generator.                 *)
(***************************************************************************)
THEOREM AcloseEnded == Spec => AcloseEndsBody
<1>1. ASSUME TypeInv, DoneKept, NEW o \in Ops, calls # <<>>, Top.obj = o, AcloseEnds, AcloseResult(result) = "return"
      PROVE  status[op[o].gen] = "Finished"
  <2>1. OpWaits /\ result \in {"stop", "exit", "return"}
    BY <1>1 DEF AcloseEnds, AcloseResult
  <2> QED
    BY <1>1, <2>1 DEF DoneKept, EndedInv, Gen
<1>2. TypeInv /\ DoneKept /\ [Next]_vars =>
         [\A o \in Ops :
          calls # <<>> /\ Top.obj = o /\ AcloseEnds
          /\ AcloseResult(result) = "return" => status[op[o].gen] = "Finished"]_vars
  BY <1>1
<1> QED
  BY <1>2, TypeInvHolds, DoneKeptHolds, PTL DEF Spec, AcloseEndsBody

-----------------------------------------------------------------------------
(***************************************************************************)
(* The operations use an async generator one at a time.                    *)
(***************************************************************************)
\* The body of g runs, or waits for what it awaits: its user must not change.
Inside(g) == status[g] = "Running" /\ (running[g] \/ yieldFrom[g] # None)

UsersOf(g) == {o \in Ops \ over : op[o].gen = g /\ op[o].state = "ITER"}

\* The awaiter of one that has not given its async generator back is about to
\* be told that it is over: its answer has not been waited for.
LeavingInv ==
    \A o \in Ops : Leaving(o) /\ o \notin over /\ op[o].state = "ITER" =>
        /\ Top.do = "delegate"
        /\ \A p \in Ops : Live(p) => op[p].gen # op[o].gen
        /\ Inside(op[o].gen) => op[o].gen \in ignored

LEMMA UsersOne ==
    ASSUME AsyncInv, LeavingInv, NEW g \in Asyncgens, NEW o \in UsersOf(g), NEW p \in UsersOf(g)
    PROVE  o = p
<1>1. /\ o \in Ops /\ o \notin over /\ op[o].state = "ITER" /\ op[o].gen = g
      /\ p \in Ops /\ p \notin over /\ op[p].state = "ITER" /\ op[p].gen = g
  BY DEF UsersOf
<1>2. CASE Live(o) /\ Live(p)
  BY <1>1, <1>2 DEF AsyncInv, OpInv, UniqueLive
<1>3. ASSUME Leaving(o) PROVE Top.do = "delegate" /\ Top.to = o /\ ~Live(p)
  BY <1>1, <1>3 DEF LeavingInv, Leaving, In
<1>4. ASSUME Leaving(p) PROVE Top.do = "delegate" /\ Top.to = p /\ ~Live(o)
  BY <1>1, <1>4 DEF LeavingInv, Leaving, In
<1> QED
  BY <1>1, <1>2, <1>3, <1>4 DEF Live

\* An async generator that runs, or waits for something, is in use.
LEMMA InsideUsed ==
    ASSUME TypeInv, AsyncInv, NEW g \in Asyncgens, Inside(g)
    PROVE  runningAsync[g]
<1>1. CASE running[g]
  <2>1. PICK i \in 1..Len(calls) : calls[i].obj = g
    BY <1>1 DEF AsyncInv, StackRunInv, RunningActive, Runners
  <2>2. i - 1 \in 1..Len(calls) /\ calls[i - 1].do \in OpWaiting /\ calls[i - 1].to = g
    BY <2>1, GenOwner
  <2> QED
    BY <2>2, UserLive DEF AsyncInv
<1>2. CASE ~running[g]
  BY <1>2 DEF Inside, AsyncInv, OpInv, MidwayLocked, Midway
<1> QED
  BY <1>1, <1>2

LEMMA Unlocked ==
    ASSUME TypeInv, AsyncInv, LeavingInv, NEW g \in Asyncgens, ~runningAsync[g], calls = <<>> \/ Top.do # "delegate"
    PROVE  ~Inside(g) /\ UsersOf(g) = {} /\ \A p \in Ops : Live(p) => op[p].gen # g
<1>1. ~Inside(g)
  BY InsideUsed
<1>2. \A p \in Ops : Live(p) => op[p].gen # g
  BY DEF AsyncInv, OpInv, LiveInv, InUse
<1>3. ASSUME NEW p \in UsersOf(g) PROVE FALSE
  <2>1. p \in Ops /\ p \notin over /\ op[p].state = "ITER" /\ op[p].gen = g
    BY DEF UsersOf
  <2>2. Leaving(p)
    BY <1>2, <2>1 DEF Live
  <2>3. calls # <<>> /\ Top.do = "delegate"
    BY <2>1, <2>2 DEF LeavingInv, Leaving, In
  <2> QED
    BY <2>3
<1> QED
  BY <1>1, <1>2, <1>3

-----------------------------------------------------------------------------
\* The steps of the operations, as what they are for those of AsyncIteration.
OnStackRuns == \A g \in Asyncgens : OnStack(g) <=> running[g]

LEMMA RunsOnStack ==
    ASSUME TypeInv, AsyncInv
    PROVE  OnStackRuns
<1>1. \A g \in Asyncgens : g \in Runners
  BY DEF Runners
<1>2. DOMAIN calls = 1..Len(calls)
  BY LenProperties DEF TypeInv, StackInv
<1> QED
  BY <1>1, <1>2 DEF OnStackRuns, OnStack, AsyncInv, StackRunInv, Frames, RunnerFrame, RunningActive

IterationStep == Iteration!Next \/ UNCHANGED Iteration!vars

LEMMA MidwayIs ==
    ASSUME OnStackRuns, OnStackRuns'
    PROVE  LET M == {g \in Asyncgens : status[g] = "Running" /\ (OnStack(g) \/ yieldFrom[g] # None)}
           IN  M = {g \in Asyncgens : Inside(g)} /\ M' = {g \in Asyncgens : Inside(g)'}
BY DEF OnStackRuns, Inside

\* The body of at most one async generator stops or goes on.
LEMMA BodyMoves ==
    ASSUME TypeInv, AsyncInv, OnStackRuns, OnStackRuns', ignored' = ignored,
           \A g \in Asyncgens : UsersOf(g)' = UsersOf(g),
           \A g \in Asyncgens : Inside(g)' = Inside(g) \/ (calls # <<>> /\ g = Top.obj)
    PROVE  IterationStep
<1>1. CASE \A g \in Asyncgens : Inside(g)' = Inside(g)
  BY <1>1, MidwayIs DEF IterationStep, Iteration!vars, UsersOf
<1>2. CASE ~ \A g \in Asyncgens : Inside(g)' = Inside(g)
  <2>1. PICK g \in Asyncgens : Inside(g)' # Inside(g) /\ calls # <<>> /\ g = Top.obj
    BY <1>2
  <2>2. UsersOf(g) # {}
    <3>1. PICK o \in Ops : Live(o) /\ op[o].gen = g
      BY <2>1, GenUser
    <3> QED
      BY <3>1 DEF Live, UsersOf
  <2>3. \A h \in Asyncgens : h # g => Inside(h)' = Inside(h)
    BY <2>1
  <2> DEFINE M == {h \in Asyncgens : status[h] = "Running" /\ (OnStack(h) \/ yieldFrom[h] # None)}
  <2>4. M = {h \in Asyncgens : Inside(h)} /\ M' = {h \in Asyncgens : Inside(h)'}
    BY MidwayIs
  <2>5. M' = M \cup {g} \/ M' = M \ {g}
    BY <2>1, <2>3, <2>4
  <2>6. Iteration!Resume(g) \/ Iteration!Rest(g)
    BY <2>2, <2>5 DEF Iteration!Resume, Iteration!Rest, UsersOf
  <2> QED
    BY <2>6 DEF IterationStep, Iteration!Next
<1> QED
  BY <1>1, <1>2

LEMMA OneUses ==
    ASSUME NEW g \in Asyncgens, NEW S, UsersOf(g)' = S,
           \A h \in Asyncgens : h # g => UsersOf(h)' = UsersOf(h)
    PROVE  LET U == [h \in Asyncgens |-> {o \in Ops \ over : op[o].gen = h /\ op[o].state = "ITER"}]
           IN  U' = [U EXCEPT ![g] = S] /\ U[g] = UsersOf(g)
<1> DEFINE U == [h \in Asyncgens |-> UsersOf(h)]
<1>1. U' = [h \in Asyncgens |-> UsersOf(h)']
  OBVIOUS
<1>2. U' = [U EXCEPT ![g] = S]
  BY <1>1
<1>3. U = [h \in Asyncgens |-> {o \in Ops \ over : op[o].gen = h /\ op[o].state = "ITER"}]
  BY DEF UsersOf
<1>4. U' = [h \in Asyncgens |-> {o \in Ops \ over : op[o].gen = h /\ op[o].state = "ITER"}]'
  BY DEF UsersOf
<1> QED
  BY <1>2, <1>3, <1>4

LEMMA MidwayStays ==
    ASSUME OnStackRuns, OnStackRuns', \A h \in Asyncgens : Inside(h)' = Inside(h)
    PROVE  UNCHANGED {g \in Asyncgens : status[g] = "Running" /\ (OnStack(g) \/ yieldFrom[g] # None)}
BY MidwayIs

LEMMA OpBegins ==
    ASSUME OnStackRuns, OnStackRuns', ignored' = ignored,
           NEW g \in Asyncgens, NEW o \in Ops, UsersOf(g) = {}, ~Inside(g), UsersOf(g)' = {o},
           \A h \in Asyncgens : h # g => UsersOf(h)' = UsersOf(h),
           \A h \in Asyncgens : Inside(h)' = Inside(h)
    PROVE  IterationStep
<1>1. Iteration!Begin(g, o)
  BY MidwayIs, MidwayStays, OneUses DEF Iteration!Begin
<1> QED
  BY <1>1 DEF IterationStep, Iteration!Next

LEMMA OpGoes ==
    ASSUME OnStackRuns, OnStackRuns', ignored' = ignored,
           NEW g \in Asyncgens, ~Inside(g) \/ g \in ignored, UsersOf(g)' = {},
           \A h \in Asyncgens : h # g => UsersOf(h)' = UsersOf(h),
           \A h \in Asyncgens : Inside(h)' = Inside(h)
    PROVE  IterationStep
<1>1. Iteration!End(g) \/ Iteration!Drop(g)
  BY MidwayIs, MidwayStays, OneUses DEF Iteration!End, Iteration!Drop
<1> QED
  BY <1>1 DEF IterationStep, Iteration!Next

LEMMA OpAbandons ==
    ASSUME OnStackRuns, OnStackRuns',
           NEW g \in Asyncgens, Inside(g), ignored' = ignored \cup {g}, UsersOf(g)' \in {UsersOf(g), {}},
           \A h \in Asyncgens : h # g => UsersOf(h)' = UsersOf(h),
           \A h \in Asyncgens : Inside(h)' = Inside(h)
    PROVE  IterationStep
<1>1. CASE UsersOf(g)' = {}
  <2>1. Iteration!Abandon(g)
    BY <1>1, MidwayIs, MidwayStays, OneUses DEF Iteration!Abandon
  <2> QED
    BY <2>1 DEF IterationStep, Iteration!Next
<1>2. CASE UsersOf(g)' = UsersOf(g)
  <2>1. \A h \in Asyncgens : UsersOf(h)' = UsersOf(h)
    BY <1>2
  <2>2. UNCHANGED [h \in Asyncgens |-> {o \in Ops \ over : op[o].gen = h /\ op[o].state = "ITER"}]
    BY <2>1 DEF UsersOf
  <2>3. Iteration!Abandon(g)
    BY <2>2, MidwayIs, MidwayStays DEF Iteration!Abandon
  <2> QED
    BY <2>3 DEF IterationStep, Iteration!Next
<1> QED
  BY <1>1, <1>2

-----------------------------------------------------------------------------
(***************************************************************************)
(* The actions.  What is not on top stays as it is.                        *)
(***************************************************************************)
LEMMA OthersStay ==
    ASSUME TypeInv, [Next]_vars, NEW q \in Runners, calls = <<>> \/ q # Top.obj
    PROVE  /\ status'[q] = status[q] /\ running'[q] = running[q]
           /\ yieldFrom'[q] = yieldFrom[q] /\ awaits'[q] = awaits[q]
<1>0. /\ status \in [Runners -> {"Unused", "Running", "Finished"}] /\ running \in [Runners -> BOOLEAN]
      /\ yieldFrom \in [Runners -> Awaitables \cup {None}] /\ awaits \in [Runners -> Awaitables \cup {None}]
  BY DEF TypeInv, ObjectType
<1>1. CASE LoopNext
  BY <1>1 DEF LoopNext, StepTask, CloseTask, CancelTask, LoopDrivesOp, LoopStartsOp, LoopCalls, object
<1>2. CASE BodyNext
  <2>1. ASSUME NEW z, NEW b, In("body"), Delegates(z, b) PROVE status' = status /\ running' = running /\ yieldFrom' = yieldFrom /\ awaits'[q] = awaits[q]
    BY <1>0, <2>1 DEF Delegates, In
  <2>2. CASE \E r \in Results : FutureAnswers(r)
    BY <2>2 DEF FutureAnswers, object
  <2>3. CASE BodyYields \/ \E r \in {"return", "null", "exit", "error"} : BodyEnds(r)
    BY <1>0, <2>3 DEF BodyYields, BodyEnds, MarkAsNotRunning, In
  <2>4. CASE \/ AwaitFuture \/ \E c \in Coroutines \ Tasks : AwaitCoroutine(c)
             \/ \E o \in Ops, kind \in Kinds, g \in Asyncgens : AwaitNewOp(o, kind, g)
    <3>1. In("body") /\ \E z, b : Delegates(z, b)
      BY <2>4 DEF AwaitFuture, AwaitCoroutine, AwaitNewOp
    <3> QED
      BY <2>1, <3>1
  <2> QED
    BY <1>2, <2>2, <2>3, <2>4 DEF BodyNext
<1>3. CASE RunnerNext
  <2>1. CASE SendToFinished \/ AlreadyExecuting \/ ThrowToStarted \/ CloseStarted \/ CloseOther \/ CloseReturns
    BY <2>1 DEF SendToFinished, AlreadyExecuting, ThrowToStarted, CloseStarted, CloseOther, CloseReturns, object
  <2>2. CASE SendToBody \/ SendToAwaited \/ DelegateEnds
    BY <1>0, <2>2 DEF SendToBody, SendToAwaited, DelegateEnds, Resumes, MarkAsRunning, EntersBody, In
  <2>3. CASE DelegateAwaits \/ ThrowToAwaited \/ ThrowToOther \/ ClosingReturns \/ ThrowingAwaits \/ ThrowingEnds
    BY <1>0, <2>3 DEF DelegateAwaits, ThrowToAwaited, ThrowToOther, ClosingReturns, ThrowingAwaits, ThrowingEnds,
                      AwaitedNotReady, MarkAsRunning, MarkAsNotRunning, In
  <2> QED
    BY <1>3, <2>1, <2>2, <2>3 DEF RunnerNext
<1>4. CASE OpNext
  BY <1>4 DEF OpNext, CloseOp, CloseClosedOp, OpAlreadyUsed, OpOfFinished, OpRefused, OpAfterClose, AsendSends,
              AcloseStarts, AthrowGoesOn, AthrowStarts, OpThrowStarts, OpThrows, OpAwaits, AsendEnds, AthrowEnds,
              AcloseEnds, OpClaims, object
<1>5. CASE UNCHANGED vars
  BY <1>5 DEF vars, object
<1> QED
  BY <1>1, <1>2, <1>3, <1>4, <1>5 DEF Next

\* No await of something else ends with a call, but for the one that throws.
LEMMA CallsLeave ==
    ASSUME TypeInv, TypeInv', AsyncInv, AsyncInv', [Next]_vars,
           NEW b, calls' # <<>>, Top' = b, b.do \in NewCalls,
           b.do = "send" => \/ b.obj \in Runners /\ (calls = <<>> \/ b.obj # Top.obj)
                            \/ yieldFrom'[b.obj] = awaits'[b.obj] \/ awaits'[b.obj] \notin Ops \ over'
                            \/ op'[awaits'[b.obj]].state # "ITER"
    PROVE  LeavingInv'
<1> SUFFICES ASSUME NEW o \in Ops, Leaving(o)', o \notin over', op'[o].state = "ITER" PROVE FALSE
  BY DEF LeavingInv
<1>1. b.do = "send" /\ yieldFrom'[b.obj] = None /\ awaits'[b.obj] = o
  BY DEF Leaving, In, NewCalls, OpCalled
<1>2. None \notin Ops /\ Ops \cap Runners = {}
  BY AsyncAssumption
<1>3. PICK y \in Runners : y = b.obj /\ (calls = <<>> \/ y # Top.obj)
  BY <1>1, <1>2
<1>4. ~running'[y]
  <2>1. running'[y] => awaits'[y] = y
    BY <1>1, <1>3 DEF AsyncInv, CalledInv, In
  <2> QED
    BY <1>1, <1>2, <1>3, <2>1
<1>5. /\ running'[y] = running[y] /\ yieldFrom'[y] = yieldFrom[y] /\ awaits'[y] = awaits[y]
  BY <1>3, OthersStay
<1>6. yieldFrom[y] = awaits[y]
  BY <1>3, <1>4, <1>5, IdleYield DEF Sending, In
<1> QED
  BY <1>1, <1>2, <1>3, <1>5, <1>6

Iterates == LeavingInv' /\ IterationStep

LEMMA SameUsers ==
    ASSUME op' = op, over' = over
    PROVE  \A g \in Asyncgens : UsersOf(g)' = UsersOf(g)
BY DEF UsersOf

\* What the bodies do is not felt by any other.
LEMMA InsideStays ==
    ASSUME TypeInv, [Next]_vars
    PROVE  \A g \in Asyncgens : Inside(g)' = Inside(g) \/ (calls # <<>> /\ g = Top.obj)
BY OthersStay DEF Inside, Runners

LEMMA NewUsers ==
    ASSUME NEW o \in Ops, NEW kind \in Kinds, NEW h \in Asyncgens, NewOp(o, kind, h), TypeInv
    PROVE  \A g \in Asyncgens : UsersOf(g)' = UsersOf(g)
<1>1. op' = [op EXCEPT ![o] = [kind |-> kind, gen |-> h, state |-> "INIT"]] /\ over' = over \ {o} /\ o \in over
  BY DEF NewOp
<1>2. op'[o].state = "INIT" /\ \A p \in Ops : p # o => op'[p] = op[p]
  BY <1>1 DEF TypeInv, LockType
<1> QED
  BY <1>1, <1>2 DEF UsersOf

LEMMA LoopIterates ==
    ASSUME TypeInv, TypeInv', AsyncInv, AsyncInv', OnStackRuns, OnStackRuns', LoopNext
    PROVE  Iterates
<1>1. calls = <<>> /\ ignored' = ignored /\ Next
  BY DEF LoopNext, StepTask, CloseTask, CancelTask, LoopDrivesOp, LoopStartsOp, LoopCalls, AtLoop, Next
<1>2. \A c \in Tasks : c \in Runners
  BY AsyncAssumption DEF Runners
<1>3. \A o : \A call \in OpCalls(o) : call.do \in {"op_send", "op_throw", "op_close"}
  BY DEF OpCalls, Call
<1>4. \E call : LoopCalls(call) /\ call.do \in NewCalls /\ (call.do = "send" => call.obj \in Runners)
  <2>1. CASE \E c \in Tasks : StepTask(c) \/ CloseTask(c) \/ \E exc \in {"error", "exit"} : CancelTask(c, exc)
    BY <1>2, <2>1, CallNames DEF StepTask, CloseTask, CancelTask, NewCalls
  <2>2. ASSUME NEW o \in Ops, LoopDrivesOp(o) \/ \E kind \in Kinds, g \in Asyncgens : LoopStartsOp(o, kind, g)
        PROVE  \E call \in OpCalls(o) : LoopCalls(call)
    BY <2>2 DEF LoopDrivesOp, LoopStartsOp
  <2> QED
    BY <1>3, <2>1, <2>2 DEF LoopNext, NewCalls, OpCalled
<1>5. PICK call : LoopCalls(call) /\ call.do \in NewCalls /\ (call.do = "send" => call.obj \in Runners)
  BY <1>4
<1>6. Top' = call /\ calls' # <<>>
  BY <1>5 DEF LoopCalls, Top
<1>7. LeavingInv'
  BY <1>1, <1>5, <1>6, CallsLeave
<1>8. \A g \in Asyncgens : UsersOf(g)' = UsersOf(g)
  <2>1. CASE op' = op /\ over' = over
    BY <2>1, SameUsers
  <2>2. CASE \E o \in Ops, kind \in Kinds, h \in Asyncgens : NewOp(o, kind, h)
    BY <2>2, NewUsers
  <2> QED
    BY <2>1, <2>2 DEF LoopNext, StepTask, CloseTask, CancelTask, LoopDrivesOp, LoopStartsOp, lock
<1>9. \A g \in Asyncgens : Inside(g)' = Inside(g) \/ (calls # <<>> /\ g = Top.obj)
  BY <1>1, InsideStays
<1> QED
  BY <1>1, <1>7, <1>8, <1>9, BodyMoves DEF Iterates

LEMMA BodyCallsIterate ==
    ASSUME TypeInv, TypeInv', AsyncInv, AsyncInv', OnStackRuns, OnStackRuns',
           \/ AwaitFuture \/ \E c \in Coroutines \ Tasks : AwaitCoroutine(c)
           \/ \E o \in Ops, kind \in Kinds, g \in Asyncgens : AwaitNewOp(o, kind, g)
    PROVE  Iterates
<1>1. In("body") /\ calls # <<>> /\ ignored' = ignored /\ Next
  BY DEF AwaitFuture, AwaitCoroutine, AwaitNewOp, Delegates, In, Next, BodyNext
<1>2. PICK x \in Runners : x = Top.obj
  BY <1>1, TopFrame DEF In, FrameOK, Active
<1>3. PICK z, b : /\ Delegates(z, b)
                  /\ b.do \in {"future", "op_send"} \/ (b.do = "send" /\ b.obj = z /\ z \in Coroutines)
  <2>1. CASE AwaitFuture
    <3>1. PICK b : b = Call("future", Future, "null") /\ b.do = "future"
      BY CallNames
    <3> QED
      BY <2>1, <3>1 DEF AwaitFuture
  <2>2. ASSUME NEW c \in Coroutines \ Tasks, AwaitCoroutine(c)
        PROVE  \E b : Delegates(c, b) /\ b.do = "send" /\ b.obj = c
    <3>1. PICK b : b = Call("send", c, "null") /\ b.do = "send" /\ b.obj = c
      BY CallNames
    <3> QED
      BY <2>2, <3>1 DEF AwaitCoroutine
  <2>3. ASSUME NEW o \in Ops, \E kind \in Kinds, g \in Asyncgens : AwaitNewOp(o, kind, g)
        PROVE  \E b : Delegates(o, b) /\ b.do = "op_send"
    <3>1. PICK b : b = Call("op_send", o, "null") /\ b.do = "op_send"
      BY CallNames
    <3> QED
      BY <2>3, <3>1 DEF AwaitNewOp
  <2> QED
    BY <2>1, <2>2, <2>3
<1>4. calls' # <<>> /\ Top' = b /\ awaits' = [awaits EXCEPT ![x] = z]
  BY <1>1, <1>2, <1>3, NewTwo DEF Delegates
<1>5. ASSUME b.do = "send" PROVE b.obj \in Runners /\ (b.obj # Top.obj \/ awaits'[b.obj] \notin Ops \ over')
  <2>1. b.obj = z /\ z \in Runners /\ z \notin Ops
    BY <1>3, <1>5, AsyncAssumption DEF Runners
  <2>2. awaits'[x] = z
    BY <1>2, <1>4 DEF TypeInv, ObjectType
  <2> QED
    BY <1>2, <2>1, <2>2
<1>6. b.do \in NewCalls
  BY <1>3 DEF NewCalls, OpCalled
<1>7. LeavingInv'
  BY <1>1, <1>4, <1>5, <1>6, CallsLeave
<1>8. \A g \in Asyncgens : UsersOf(g)' = UsersOf(g)
  <2>1. CASE op' = op /\ over' = over
    BY <2>1, SameUsers
  <2>2. CASE \E o \in Ops, kind \in Kinds, h \in Asyncgens : NewOp(o, kind, h)
    BY <2>2, NewUsers
  <2> QED
    BY <2>1, <2>2 DEF AwaitFuture, AwaitCoroutine, AwaitNewOp, lock
<1>9. \A g \in Asyncgens : Inside(g)' = Inside(g) \/ (calls # <<>> /\ g = Top.obj)
  BY <1>1, InsideStays
<1> QED
  BY <1>1, <1>7, <1>8, <1>9, BodyMoves DEF Iterates

LEMMA ThrownIterate ==
    ASSUME TypeInv, TypeInv', AsyncInv, AsyncInv', OnStackRuns, OnStackRuns', LeavingInv,
           ThrowToStarted \/ ClosingReturns \/ ThrowingEnds
    PROVE  Iterates
<1>1. PICK exc : /\ calls # <<>> /\ Top.do \in {"throw", "closing", "throwing"}
                 /\ Goes(<<Call("send", Top.obj, exc)>>)
                 /\ op' = op /\ awaits' = awaits /\ over' = over /\ ignored' = ignored /\ Next
                 /\ Top.do = "throw" => yieldFrom[Top.obj] = None /\ yieldFrom' = yieldFrom
                 /\ Top.do = "closing" => yieldFrom' = yieldFrom
                 /\ Top.do = "throwing" => result # "next"
  BY DEF ThrowToStarted, ClosingReturns, ThrowingEnds, object, lock, In, Next, RunnerNext
<1>2. PICK x \in Runners : /\ x = Top.obj
                           /\ Top.do \in {"closing", "throwing"} => awaits[x] = Top.to /\ yieldFrom[x] = Top.to
  BY <1>1, TopFrame DEF FrameOK, RunnerFrame, Active, Waiting
<1>3. PICK b : b = Call("send", x, exc) /\ b.obj = x /\ b.do = "send"
  BY CallNames
<1>4. calls' # <<>> /\ Top' = b
  BY <1>1, <1>2, <1>3, NewOne
<1>5. CASE Top.do = "throw"
  <2>1. ~running[x] /\ ~Sending(x)
    BY <1>1, <1>2, <1>5 DEF AsyncInv, CalledInv, Sending, In
  <2>2. yieldFrom'[x] = awaits'[x]
    BY <1>1, <1>2, <1>5, <2>1, IdleYield
  <2> QED
    BY <1>1, <1>3, <1>4, <2>2, CallsLeave, SameUsers, InsideStays, BodyMoves DEF Iterates, NewCalls
<1>6. CASE Top.do = "closing"
  <2>1. yieldFrom'[x] = awaits'[x]
    BY <1>1, <1>2, <1>6
  <2> QED
    BY <1>1, <1>3, <1>4, <2>1, CallsLeave, SameUsers, InsideStays, BodyMoves DEF Iterates, NewCalls
<1>7. CASE Top.do = "throwing"
  <2>1. ASSUME Top.to \in Ops, Top.to \notin over PROVE op[Top.to].state # "ITER"
    <3>1. PICK o \in Ops : o = Top.to
      BY <2>1
    <3>2. Leaving(o)
      BY <1>1, <1>7, <3>1 DEF Leaving, In
    <3> QED
      BY <1>7, <2>1, <3>1, <3>2 DEF LeavingInv
  <2>2. awaits'[x] \notin Ops \ over' \/ op'[awaits'[x]].state # "ITER"
    BY <1>1, <1>2, <1>7, <2>1
  <2> QED
    BY <1>1, <1>3, <1>4, <2>2, CallsLeave, SameUsers, InsideStays, BodyMoves DEF Iterates, NewCalls
<1> QED
  BY <1>1, <1>5, <1>6, <1>7

LEMMA EntersIterate ==
    ASSUME TypeInv, TypeInv', AsyncInv, AsyncInv', OnStackRuns, OnStackRuns', LeavingInv,
           SendToBody \/ DelegateEnds
    PROVE  Iterates
<1>1. PICK exc : /\ calls # <<>> /\ Top.do \in {"send", "delegate"} /\ EntersBody(Top.obj, exc)
                 /\ op' = op /\ ignored' = ignored /\ Next
                 /\ Top.do = "send" => yieldFrom[Top.obj] = None
                 /\ Top.do = "delegate" => result # "next" /\ UNCHANGED <<status, running, yieldFrom>>
  BY DEF SendToBody, DelegateEnds, Resumes, In, lock, Next, RunnerNext
<1>2. PICK x \in Runners : x = Top.obj /\ (Top.do = "delegate" => awaits[x] = Top.to)
  BY <1>1, TopFrame DEF FrameOK, RunnerFrame, Active, Waiting
<1>3. PICK b : b = Call("body", x, exc) /\ b.do = "body"
  BY CallNames
<1>4. calls' # <<>> /\ Top' = b
  BY <1>1, <1>2, <1>3, NewOne DEF EntersBody
<1>5. LeavingInv'
  BY <1>1, <1>3, <1>4, CallsLeave DEF NewCalls
<1>6. over' = over \cup ({awaits[x]} \cap Ops)
  BY <1>1, <1>2 DEF EntersBody
<1>7. ASSUME NEW o \in Ops, o = awaits[x], o \notin over, op[o].state = "ITER" PROVE IterationStep
  <2>1. Leaving(o)
    BY <1>1, <1>2, <1>7 DEF Leaving, In
  <2>2. PICK g \in Asyncgens : g = op[o].gen
    BY DEF TypeInv, LockType
  <2>3. Top.do = "delegate" /\ (Inside(g) => g \in ignored)
    BY <1>7, <2>1, <2>2 DEF LeavingInv
  <2>4. \A h \in Asyncgens : Inside(h)' = Inside(h)
    BY <1>1, <2>3 DEF Inside
  <2>5. o \in UsersOf(g) /\ o \in over' /\ \A p \in Ops : p \in over' => p \in over \/ p = o
    BY <1>6, <1>7, <2>2 DEF UsersOf
  <2>6. UsersOf(g)' = {}
    <3>1. ASSUME NEW p \in Ops, p \notin over', op[p].gen = g, op[p].state = "ITER" PROVE FALSE
      <4>1. p \in UsersOf(g)
        BY <1>6, <3>1 DEF UsersOf
      <4> QED
        BY <2>5, <3>1, <4>1, UsersOne
    <3> QED
      BY <1>1, <3>1 DEF UsersOf
  <2>7. \A h \in Asyncgens : h # g => UsersOf(h)' = UsersOf(h)
    BY <1>1, <1>6, <2>2, <2>5 DEF UsersOf
  <2> QED
    BY <1>1, <2>3, <2>4, <2>6, <2>7, OpGoes
<1>8. CASE ~ \E o \in Ops : o = awaits[x] /\ o \notin over /\ op[o].state = "ITER"
  <2>1. \A p \in Ops : op[p].state = "ITER" => (p \in over' <=> p \in over)
    BY <1>6, <1>8
  <2>2. \A g \in Asyncgens : UsersOf(g)' = UsersOf(g)
    BY <1>1, <2>1 DEF UsersOf
  <2>3. IterationStep
    BY <1>1, <2>2, InsideStays, BodyMoves
  <2> QED
    BY <1>5, <2>3 DEF Iterates
<1> QED
  BY <1>5, <1>7, <1>8 DEF Iterates

LEMMA AwaitedIterate ==
    ASSUME TypeInv, TypeInv', AsyncInv, AsyncInv', OnStackRuns, OnStackRuns',
           SendToAwaited \/ ThrowToAwaited \/ CloseStarted \/ CloseOp
    PROVE  Iterates
<1>1. /\ calls # <<>> /\ Top.do \in {"send", "throw", "close", "op_close"}
      /\ op' = op /\ over' = over /\ awaits' = awaits /\ ignored' = ignored /\ Next
  BY DEF SendToAwaited, ThrowToAwaited, CloseStarted, CloseOp, Resumes, In, lock, Next, RunnerNext, OpNext
<1>2. IterationStep
  BY <1>1, SameUsers, InsideStays, BodyMoves
<1>3. ASSUME NEW a, NEW b, Goes(<<a, b>>), b.do \in NewCalls,
             b.do = "send" => b.obj \in Runners /\ (b.obj # Top.obj \/ yieldFrom'[b.obj] = awaits'[b.obj])
      PROVE  Iterates
  <2>1. calls' # <<>> /\ Top' = b
    BY <1>1, <1>3, NewTwo
  <2>2. LeavingInv'
    BY <1>1, <1>3, <2>1, CallsLeave
  <2> QED
    BY <1>2, <2>2 DEF Iterates
<1>4. CASE SendToAwaited
  <2>1. In("send") /\ yieldFrom[Top.obj] # None
    BY <1>4 DEF SendToAwaited, Resumes
  <2>2. PICK x \in Runners : x = Top.obj /\ Top.exc \in Excs
    BY <2>1, TopFrame DEF FrameOK, Active, In
  <2>3. PICK z \in Awaitables : z = yieldFrom[x] /\ z # x
    BY <2>1, <2>2, YieldAwaits, AwaitTypes
  <2>4. PICK b \in Frame : b = PassTo(z, Top.exc) /\ b.obj = z /\ b.do \in NewCalls
    <3>1. PICK c \in Frame : c.do = "delegate" /\ c.to = z /\ c.exc = Top.exc
      <4>1. Wait("delegate", x, Top.exc, z) \in Frame
        BY <2>2, WaitCall DEF Waiting
      <4> QED
        BY <4>1 DEF Wait
    <3>2. PassTo(z, Top.exc) \in Frame
      BY <2>2, <3>1, PassToFacts
    <3> QED
      BY <2>2, <3>2, AwaitCalls
  <2>5. Goes(<<Wait("delegate", x, Top.exc, z), b>>)
    BY <1>4, <2>2, <2>3, <2>4 DEF SendToAwaited
  <2>6. b.do = "send" => b.obj \in Runners
    BY <2>4 DEF Frame, FrameOK, Active
  <2> QED
    BY <1>3, <2>2, <2>3, <2>4, <2>5, <2>6
<1>5. CASE ThrowToAwaited
  <2>1. In("throw") /\ yieldFrom[Top.obj] # None
    BY <1>5 DEF ThrowToAwaited
  <2>2. PICK x \in Runners : x = Top.obj /\ Top.exc \in Excs /\ Top.exc # "null"
    BY <2>1, TopFrame DEF FrameOK, Active, In
  <2>3. PICK z \in Awaitables : z = yieldFrom[x]
    BY <2>1, <2>2, AwaitTypes
  <2>4. PICK a, b : Goes(<<a, b>>) /\ b \in {CloseOf(z), ThrowTo(z, Top.exc)}
    BY <1>5, <2>2, <2>3 DEF ThrowToAwaited
  <2>5. b.do \in NewCalls /\ b.do # "send"
    BY <2>2, <2>4, AwaitCalls
  <2> QED
    BY <1>3, <2>4, <2>5
<1>6. CASE CloseStarted
  <2>1. PICK x \in Runners : x = Top.obj /\ x \in Coroutines
    BY <1>1, <1>6, TopFrame DEF CloseStarted, FrameOK, In, Runners
  <2>2. PICK a, b : /\ a = Wait("closed", x, "null", None) /\ b = CallClosing("send", x, "exit")
                    /\ b.do = "send" /\ b.obj = x
    BY CallNames
  <2>3. Goes(<<a, b>>) /\ In("close") /\ yieldFrom' = yieldFrom
    BY <1>6, <2>1, <2>2 DEF CloseStarted, object
  <2>4. ~running[x] /\ ~Sending(x)
    BY <2>1, <2>3 DEF AsyncInv, CalledInv, Sending, In
  <2>5. yieldFrom'[x] = awaits'[x]
    BY <1>1, <2>3, <2>4, IdleYield
  <2> QED
    BY <1>3, <2>2, <2>3, <2>5 DEF NewCalls
<1>7. CASE CloseOp
  <2>1. PICK a, b : /\ a = Wait("op_closing", Top.obj, "null", None) /\ b = Call("op_throw", Top.obj, "exit")
                    /\ b.do = "op_throw"
    BY CallNames
  <2>2. Goes(<<a, b>>)
    BY <1>7, <2>1 DEF CloseOp
  <2>3. b.do \in NewCalls /\ b.do # "send"
    BY <2>1 DEF NewCalls, OpCalled
  <2> QED
    BY <1>3, <2>2, <2>3
<1> QED
  BY <1>4, <1>5, <1>6, <1>7

LEMMA OneOpChanges ==
    ASSUME NEW o \in Ops, o \notin over, NEW g, g = op[o].gen, op'[o].gen = g,
           \A p \in Ops : p # o => op'[p] = op[p], over' \in {over, over \cup {o}}
    PROVE  /\ \A h \in Asyncgens : h # g => UsersOf(h)' = UsersOf(h)
           /\ UsersOf(g)' = (UsersOf(g) \ {o}) \cup (IF op'[o].state = "ITER" /\ o \notin over' THEN {o} ELSE {})
BY DEF UsersOf

LEMMA OpCallsIterate ==
    ASSUME TypeInv, TypeInv', AsyncInv, AsyncInv', OnStackRuns, OnStackRuns', LeavingInv,
           \/ AsendSends \/ AcloseStarts \/ AthrowGoesOn \/ OpThrowStarts \/ OpThrows
           \/ \E exc \in {"error", "exit"} : AthrowStarts(exc)
    PROVE  Iterates
<1>0. Next
  BY DEF Next, OpNext
<1>1. /\ calls # <<>> /\ Top.do \in OpCalled /\ over' = over /\ ignored' = ignored
      /\ ~runningAsync[Gen] \/ State = "ITER"
      /\ op' = op \/ op' = [op EXCEPT ![Top.obj].state = "ITER"]
  <2>1. /\ calls # <<>> /\ Top.do \in OpCalled /\ State # "CLOSED" /\ over' = over /\ ignored' = ignored
        /\ op' = op \/ op' = [op EXCEPT ![Top.obj].state = "ITER"]
    BY DEF AsendSends, AcloseStarts, AthrowGoesOn, OpThrowStarts, OpThrows, AthrowStarts, OpStarts, OpGoesOn, OpClaims,
           SetState, In, OpCalled, lock
  <2>2. State \in {"INIT", "ITER", "CLOSED"}
    BY <2>1, OpFacts DEF State, TypeInv, LockType
  <2>3. OpThrows => In("op_throw2") \/ State # "INIT"
    BY DEF OpThrows
  <2>4. In("op_throw2") => State # "INIT"
    BY DEF AsyncInv, CalledInv
  <2>5. ~runningAsync[Gen] \/ State = "ITER"
    BY <2>1, <2>2, <2>3, <2>4 DEF AsendSends, AcloseStarts, AthrowGoesOn, OpThrowStarts, AthrowStarts, OpStarts, MayClaim
  <2> QED
    BY <2>1, <2>5
<1>2. PICK o \in Ops, g \in Asyncgens :
          o = Top.obj /\ g = Gen /\ g = op[o].gen /\ g \in Runners /\ g # o /\ o \notin over /\ State = op[o].state
  BY <1>1, OpFacts, TopFrame, AsyncAssumption DEF OpFrame, Gen, State
<1>3. \E wait, exc : \E do \in {"send", "throw"} :
          \/ Goes(<<Wait(wait, Top.obj, Top.exc, g), Call(do, g, exc)>>)
          \/ Goes(<<Wait(wait, Top.obj, Top.exc, g), CallClosing(do, g, exc)>>)
  <2>1. CASE AsendSends
    BY <1>2, <2>1 DEF AsendSends, OpClaims
  <2>2. CASE AcloseStarts
    BY <1>2, <2>2 DEF AcloseStarts, OpClaims
  <2>3. CASE AthrowGoesOn
    BY <1>2, <2>3 DEF AthrowGoesOn
  <2>4. CASE OpThrowStarts
    BY <1>2, <2>4 DEF OpThrowStarts, OpClaims
  <2>5. CASE OpThrows
    BY <1>2, <2>5 DEF OpThrows
  <2>6. CASE \E exc \in {"error", "exit"} : AthrowStarts(exc)
    BY <1>2, <2>6 DEF AthrowStarts, OpClaims
  <2> QED
    BY <2>1, <2>2, <2>3, <2>4, <2>5, <2>6
<1>4. PICK a, b : Goes(<<a, b>>) /\ b.do \in NewCalls /\ b.obj = g
  <2>1. PICK wait, exc : \E do \in {"send", "throw"} :
            \/ Goes(<<Wait(wait, Top.obj, Top.exc, g), Call(do, g, exc)>>)
            \/ Goes(<<Wait(wait, Top.obj, Top.exc, g), CallClosing(do, g, exc)>>)
    BY <1>3
  <2>2. PICK do \in {"send", "throw"} :
            \E b \in {Call(do, g, exc), CallClosing(do, g, exc)} : Goes(<<Wait(wait, Top.obj, Top.exc, g), b>>)
    BY <2>1
  <2>3. PICK b \in {Call(do, g, exc), CallClosing(do, g, exc)} : Goes(<<Wait(wait, Top.obj, Top.exc, g), b>>)
    BY <2>2
  <2>4. b.do = do /\ b.obj = g
    BY CallNames
  <2> QED
    BY <2>3, <2>4 DEF NewCalls
<1>5. calls' # <<>> /\ Top' = b
  BY <1>1, <1>4, NewTwo
<1>6. LeavingInv'
  BY <1>0, <1>2, <1>4, <1>5, CallsLeave
<1>7. \A h \in Asyncgens : Inside(h)' = Inside(h)
  <2>1. \A h \in Asyncgens : h # Top.obj
    BY <1>2, AsyncAssumption DEF Runners
  <2> QED
    BY <1>0, <2>1, InsideStays
<1>8. CASE op' = op
  BY <1>1, <1>6, <1>7, <1>8, SameUsers, BodyMoves DEF Iterates
<1>9. CASE op' = [op EXCEPT ![o].state = "ITER"]
  <2>1. op'[o].gen = g /\ op'[o].state = "ITER" /\ \A p \in Ops : p # o => op'[p] = op[p]
    BY <1>2, <1>9 DEF TypeInv, LockType
  <2>2. /\ \A h \in Asyncgens : h # g => UsersOf(h)' = UsersOf(h)
        /\ UsersOf(g)' = (UsersOf(g) \ {o}) \cup {o}
    BY <1>1, <1>2, <2>1, OneOpChanges
  <2>3. CASE State = "ITER"
    <3>1. o \in UsersOf(g)
      BY <1>2, <2>3 DEF UsersOf
    <3>2. \A h \in Asyncgens : UsersOf(h)' = UsersOf(h)
      BY <2>2, <3>1
    <3> QED
      BY <1>1, <1>6, <1>7, <3>2, BodyMoves DEF Iterates
  <2>4. CASE ~runningAsync[g]
    <3>1. ~Inside(g) /\ UsersOf(g) = {}
      BY <1>1, <2>4, Unlocked DEF OpCalled
    <3>2. UsersOf(g)' = {o}
      BY <2>2, <3>1
    <3> QED
      BY <1>1, <1>6, <1>7, <2>2, <3>1, <3>2, OpBegins DEF Iterates
  <2> QED
    BY <1>1, <1>2, <2>3, <2>4
<1> QED
  BY <1>1, <1>2, <1>8, <1>9

LEMMA PopsLeave ==
    ASSUME TypeInv, calls # <<>>, NEW r, Returns(r), NEW o \in Ops, Leaving(o)'
    PROVE  /\ Top.obj = o /\ r # "next"
           /\ Top.do \in Closers \cup OpSent => Top'.do = "delegate"
<1>1. calls' # <<>> /\ Top'.do \in {"delegate", "throwing", "send"}
  BY DEF Leaving, In
<1>2. PICK c : /\ Top' = c /\ result' = r /\ Above(c, Top)
               /\ c.do \in Waiting \cup OpWaiting \cup {"closed", "op_closing"}
  BY <1>1, PopStep
<1>3. c.do \in {"delegate", "throwing"} /\ c.to = o /\ r # "next"
  BY <1>1, <1>2 DEF Leaving, In, Waiting, OpWaiting
<1> QED
  BY <1>2, <1>3 DEF Above, OpWaiting

\* Nothing that an operation waits for is over.
LEMMA QuietIterates ==
    ASSUME TypeInv, AsyncInv, OnStackRuns, OnStackRuns', Next,
           calls # <<>>, NEW r, Returns(r), Top.obj \notin Ops \/ r = "next", op' = op, ignored' = ignored
    PROVE  Iterates
<1>1. over' = over
  BY PopStep
<1>2. LeavingInv'
  BY PopsLeave DEF LeavingInv
<1> QED
  BY <1>1, <1>2, SameUsers, InsideStays, BodyMoves DEF Iterates

LEMMA PopsQuietIterate ==
    ASSUME TypeInv, AsyncInv, OnStackRuns, OnStackRuns',
           \/ BodyYields \/ \E r \in Results : FutureAnswers(r)
           \/ \E r \in {"return", "null", "exit", "error"} : BodyEnds(r)
           \/ SendToFinished \/ AlreadyExecuting \/ DelegateAwaits \/ ThrowToOther \/ ThrowingAwaits \/ CloseOther
           \/ (CloseReturns /\ In("closed")) \/ OpAwaits
    PROVE  Iterates
<1>1. Next
  BY DEF Next, BodyNext, RunnerNext, OpNext
<1>2. \E r : /\ calls # <<>> /\ Returns(r) /\ op' = op /\ ignored' = ignored
             /\ Top.do \in Active \cup {"future", "close", "closed"} \/ r = "next"
  <2>1. CASE BodyYields \/ \E r \in {"return", "null", "exit", "error"} : BodyEnds(r)
    BY <2>1 DEF BodyYields, BodyEnds, In, Active, lock
  <2>2. CASE \E r \in Results : FutureAnswers(r)
    BY <2>2 DEF FutureAnswers, In, lock
  <2>3. CASE SendToFinished
    BY <2>3 DEF SendToFinished, In, Active, lock
  <2>4. CASE AlreadyExecuting
    BY <2>4 DEF AlreadyExecuting, In, Active, lock
  <2>5. CASE DelegateAwaits \/ ThrowingAwaits
    BY <2>5 DEF DelegateAwaits, ThrowingAwaits, In, lock
  <2>6. CASE ThrowToOther
    BY <2>6 DEF ThrowToOther, In, Active, lock
  <2>7. CASE CloseOther
    BY <2>7 DEF CloseOther, In, lock
  <2>8. CASE CloseReturns /\ In("closed")
    BY <2>8 DEF CloseReturns, In, lock
  <2>9. CASE OpAwaits
    BY <2>9 DEF OpAwaits, OpWaits, In, lock
  <2> QED
    BY <2>1, <2>2, <2>3, <2>4, <2>5, <2>6, <2>7, <2>8, <2>9
<1>3. calls # <<>> /\ FrameOK(Top)
  BY <1>2, TopFrame
<1>4. Top.do \in Active \cup {"future", "close", "closed"} => Top.obj \notin Ops
  BY <1>3, AsyncAssumption DEF FrameOK, Runners
<1> QED
  BY <1>1, <1>2, <1>4, QuietIterates

\* An operation that returns has not left its async generator midway.
LEMMA OpPopsLeave ==
    ASSUME TypeInv, calls # <<>>, NEW r, Returns(r), NEW o \in Ops, o = Top.obj,
           Top.do \notin {"delegate", "throwing", "send"}, NEW g \in Asyncgens, op'[o].gen = g,
           \A p \in Ops : p # o => op'[p] = op[p],
           op'[o].state = "ITER" => /\ Top.do \in Closers \cup OpSent
                                    /\ Inside(g)' => g \in ignored'
                                    /\ \A p \in Ops : p # o /\ Live(p) => op[p].gen # g
    PROVE  LeavingInv'
<1>1. ASSUME NEW q \in Ops, Leaving(q)' PROVE q = o /\ (Top.do \in Closers \cup OpSent => Top'.do = "delegate")
  BY <1>1, PopsLeave
<1>2. ASSUME Leaving(o)', NEW p \in Ops, Live(p)', op'[o].state = "ITER" PROVE op'[p].gen # g
  <2>1. p # o
    BY <1>2 DEF Live
  <2>2. op'[p] = op[p] /\ p \notin over' /\ op'[p].state = "ITER"
    BY <1>2, <2>1 DEF Live
  <2>3. p \notin over
    BY <2>2, PopStep
  <2>4. ~Leaving(p)
    BY DEF Leaving, In
  <2> QED
    BY <1>2, <2>1, <2>2, <2>3, <2>4 DEF Live
<1> QED
  BY <1>1, <1>2 DEF LeavingInv, Inside

LEMMA OpPopsUsers ==
    ASSUME AsyncInv, LeavingInv, NEW o \in Ops, o \notin over, NEW g \in Asyncgens, g = op[o].gen, op'[o].gen = g,
           \A p \in Ops : p # o => op'[p] = op[p], over' \in {over, over \cup {o}},
           op[o].state = "ITER" \/ UsersOf(g) = {}
    PROVE  /\ \A h \in Asyncgens : h # g => UsersOf(h)' = UsersOf(h)
           /\ UsersOf(g)' \in {{}, {o}} /\ (op[o].state = "ITER" => UsersOf(g) = {o})
<1>1. /\ \A h \in Asyncgens : h # g => UsersOf(h)' = UsersOf(h)
      /\ UsersOf(g)' = (UsersOf(g) \ {o}) \cup (IF op'[o].state = "ITER" /\ o \notin over' THEN {o} ELSE {})
  BY OneOpChanges
<1>2. ASSUME op[o].state = "ITER" PROVE UsersOf(g) = {o}
  <2>1. o \in UsersOf(g)
    BY <1>2 DEF UsersOf
  <2> QED
    BY <2>1, UsersOne
<1> QED
  BY <1>1, <1>2

\* The async generator that is used by the one on top has given control back.
LEMMA UserIdle ==
    ASSUME TypeInv, AsyncInv, OpWaits, result # "next"
    PROVE  ~Inside(Gen)
<1>1. calls # <<>> /\ Top.do \in OpWaiting
  BY DEF OpWaits, In, OpWaiting
<1>2. PICK n \in Nat \ {0} : n = Len(calls) /\ Top = calls[n] /\ n \in 1..n
  BY <1>1, TopFacts
<1>3. PICK o \in Ops, g \in Asyncgens : o = Top.obj /\ g = Gen /\ g = op[o].gen /\ g \in Runners
  BY <1>1, OpFacts DEF Gen
<1>4. ASSUME running[g] PROVE FALSE
  <2>1. PICK i \in 1..n : calls[i].obj = g
    BY <1>2, <1>3, <1>4 DEF AsyncInv, StackRunInv, RunningActive
  <2>2. PICK j \in 1..(n - 1) : j \in 1..n /\ calls[j].do \in OpWaiting /\ calls[j].to = g
    BY <1>2, <1>3, <2>1, GenOwner
  <2>3. calls[j].obj \in Ops /\ Live(calls[j].obj) /\ op[calls[j].obj].gen = g
    BY <1>2, <2>2, UserLive DEF AsyncInv
  <2>4. Live(o)
    BY <1>1, <1>2, <1>3, UserLive DEF AsyncInv
  <2>5. calls[j].obj = o
    BY <1>3, <2>3, <2>4 DEF AsyncInv, OpInv, UniqueLive
  <2> QED
    BY <1>1, <1>2, <1>3, <2>2, <2>5, OpFrameUnique DEF AsyncInv
<1>5. ~Midway(g)
  BY <1>3 DEF AsyncInv, ResultInv
<1> QED
  BY <1>3, <1>4, <1>5 DEF Inside, Midway

LEMMA OpReturnsIterate ==
    ASSUME TypeInv, TypeInv', AsyncInv, AsyncInv', OnStackRuns, OnStackRuns', LeavingInv,
           \/ CloseClosedOp \/ (CloseReturns /\ In("op_closing")) \/ OpAlreadyUsed \/ OpOfFinished
           \/ OpRefused \/ OpAfterClose \/ AthrowStarts("bad") \/ AsendEnds \/ AthrowEnds \/ AcloseEnds
    PROVE  Iterates
<1>0. Next \/ AthrowStarts("bad")
  BY DEF Next, RunnerNext, OpNext
<1>1. /\ calls # <<>> /\ Top.do \in OpCalled \cup OpWaiting \cup {"op_close", "op_closing"}
      /\ status' = status /\ running' = running /\ yieldFrom' = yieldFrom
  BY DEF CloseClosedOp, CloseReturns, OpAlreadyUsed, OpOfFinished, OpRefused, OpAfterClose, AsendEnds, AthrowEnds,
         AcloseEnds, AthrowStarts, OpStarts, OpGoesOn, OpWaits, In, OpCalled, OpWaiting, object
<1>2. PICK o \in Ops, g \in Asyncgens :
          /\ o = Top.obj /\ g = Gen /\ g = op[o].gen /\ State = op[o].state /\ o \notin over
          /\ Top.do \in OpWaiting => op[o].state = "ITER"
  <2>1. Top.obj \in Ops /\ OpFrame(Top)
    BY <1>1, TopFrame DEF FrameOK
  <2>2. Gen \in Asyncgens
    BY <2>1 DEF Gen, TypeInv, LockType
  <2> QED
    BY <2>1, <2>2 DEF OpFrame, Gen, State
<1>3. PICK r : Returns(r) /\ r # "next"
  <2>1. \A q \in Results \ {"next"} : Unwrapped(q) # "next" /\ AcloseResult(q) # "next"
    BY DEF Unwrapped, AcloseResult
  <2>2. CASE AsendEnds \/ AthrowEnds
    BY <2>1, <2>2 DEF AsendEnds, AthrowEnds, TypeInv, ResultType
  <2>3. CASE AcloseEnds
    <3>1. PICK q \in Results \ {"next"} : Returns(AcloseResult(q))
      BY <2>3 DEF AcloseEnds, TypeInv, ResultType, Results
    <3> QED
      BY <2>1, <3>1
  <2>4. CASE CloseClosedOp \/ OpOfFinished \/ OpRefused \/ OpAfterClose \/ AthrowStarts("bad")
    <3>1. Returns("return") \/ Returns("error") \/ Returns("stop")
      BY <2>4 DEF CloseClosedOp, OpOfFinished, OpRefused, OpAfterClose, AthrowStarts
    <3> QED
      BY <3>1
  <2>5. CASE CloseReturns \/ OpAlreadyUsed
    <3>1. \E r \in {"return", "error"} : Returns(r)
      BY <2>5 DEF CloseReturns, OpAlreadyUsed
    <3> QED
      BY <3>1
  <2> QED
    BY <2>2, <2>3, <2>4, <2>5
<1>4. over' \in {over, over \cup {o}}
  BY <1>1, <1>2, <1>3, PopStep
<1>5. \A h \in Asyncgens : Inside(h)' = Inside(h)
  BY <1>1 DEF Inside
<1>6. Top.do \notin {"delegate", "throwing", "send"}
  BY <1>1 DEF OpCalled, OpWaiting
<1>7. \A p \in Ops : p # o /\ Live(o) /\ Live(p) => op[p].gen # g
  BY <1>2 DEF AsyncInv, OpInv, UniqueLive
<1>8. op[o].state = "ITER" => Live(o)
  BY <1>2, <1>6 DEF Live, Leaving, In
<1>9. CASE CloseClosedOp \/ OpAlreadyUsed \/ OpRefused \/ OpAfterClose
  <2>1. /\ op[o].state # "ITER" /\ ignored' = ignored
        /\ op' = op \/ op' = [op EXCEPT ![o].state = "CLOSED"]
    BY <1>2, <1>9 DEF CloseClosedOp, OpAlreadyUsed, OpRefused, OpAfterClose, SetState, State, lock
  <2>2. op'[o].gen = g /\ op'[o].state # "ITER" /\ \A p \in Ops : p # o => op'[p] = op[p]
    BY <1>2, <2>1 DEF TypeInv, LockType
  <2>3. LeavingInv'
    BY <1>1, <1>2, <1>3, <1>6, <2>2, OpPopsLeave
  <2>4. /\ \A h \in Asyncgens : h # g => UsersOf(h)' = UsersOf(h)
        /\ UsersOf(g)' = UsersOf(g) \ {o} /\ o \notin UsersOf(g)
    BY <1>2, <1>4, <2>1, <2>2, OneOpChanges DEF UsersOf
  <2>5. \A h \in Asyncgens : UsersOf(h)' = UsersOf(h)
    BY <2>4
  <2> QED
    BY <1>5, <2>1, <2>3, <2>5, BodyMoves DEF Iterates
<1>10. CASE OpOfFinished
  <2>1. op' = op /\ ignored' = ignored /\ ~Inside(g) /\ Top.do = "op_send"
    BY <1>2, <1>10 DEF OpOfFinished, Inside, In, lock
  <2>2. LeavingInv'
    BY <1>1, <1>2, <1>3, <1>5, <1>6, <1>7, <1>8, <2>1, OpPopsLeave DEF OpSent
  <2>3. CASE op[o].state = "ITER"
    <3>1. /\ \A h \in Asyncgens : h # g => UsersOf(h)' = UsersOf(h)
          /\ UsersOf(g)' \in {{}, {o}} /\ UsersOf(g) = {o}
      BY <1>2, <1>4, <2>1, <2>3, OpPopsUsers
    <3>2. UsersOf(g)' = {} \/ \A h \in Asyncgens : UsersOf(h)' = UsersOf(h)
      BY <3>1
    <3> QED
      BY <1>5, <2>1, <2>2, <3>1, <3>2, BodyMoves, OpGoes DEF Iterates
  <2>4. CASE op[o].state # "ITER"
    <3>1. \A h \in Asyncgens : UsersOf(h)' = UsersOf(h)
      BY <1>4, <2>1, <2>4 DEF UsersOf
    <3> QED
      BY <1>5, <2>1, <2>2, <3>1, BodyMoves DEF Iterates
  <2> QED
    BY <2>3, <2>4
<1>11. CASE AthrowStarts("bad")
  <2>1. /\ op' = [op EXCEPT ![o].state = "ITER"] /\ ignored' = ignored /\ Top.do = "op_send"
        /\ ~runningAsync[g] /\ op[o].state = "INIT"
    BY <1>2, <1>11 DEF AthrowStarts, OpStarts, OpGoesOn, MayClaim, SetState, In
  <2>2. op'[o].gen = g /\ op'[o].state = "ITER" /\ \A p \in Ops : p # o => op'[p] = op[p]
    BY <1>2, <2>1 DEF TypeInv, LockType
  <2>3. ~Inside(g) /\ UsersOf(g) = {} /\ \A p \in Ops : Live(p) => op[p].gen # g
    BY <1>6, <2>1, Unlocked
  <2>4. LeavingInv'
    BY <1>1, <1>2, <1>3, <1>5, <1>6, <2>1, <2>2, <2>3, OpPopsLeave DEF OpSent
  <2>5. /\ \A h \in Asyncgens : h # g => UsersOf(h)' = UsersOf(h)
        /\ UsersOf(g)' \in {{}, {o}}
    BY <1>2, <1>4, <2>2, <2>3, OpPopsUsers
  <2>6. UsersOf(g)' = {o} \/ \A h \in Asyncgens : UsersOf(h)' = UsersOf(h)
    BY <2>3, <2>5
  <2> QED
    BY <1>5, <2>1, <2>3, <2>4, <2>5, <2>6, BodyMoves, OpBegins DEF Iterates
<1>12. CASE AsendEnds \/ AthrowEnds \/ AcloseEnds
  <2>1. OpWaits /\ result # "next" /\ ignored' = ignored
    BY <1>12 DEF AsendEnds, AthrowEnds, AcloseEnds
  <2>2. PICK state \in {"ITER", "CLOSED"} : SetState(state) /\ (In("op_throwing") => state = "CLOSED")
    <3>1. CASE AsendEnds
      BY <3>1 DEF AsendEnds
    <3>2. CASE AthrowEnds
      BY <3>2 DEF AthrowEnds
    <3>3. CASE AcloseEnds
      BY <3>3 DEF AcloseEnds
    <3> QED
      BY <1>12, <3>1, <3>2, <3>3
  <2>3. op'[o].gen = g /\ op'[o].state = state /\ \A p \in Ops : p # o => op'[p] = op[p]
    BY <1>2, <2>2 DEF SetState, TypeInv, LockType
  <2>4. op[o].state = "ITER" /\ (op'[o].state = "ITER" => Top.do \in OpSent)
    <3>1. Top.do \in OpWaiting
      BY <2>1 DEF OpWaits, In, OpWaiting
    <3> QED
      BY <1>1, <1>2, <2>3, <2>2, <3>1 DEF In, OpWaiting, OpSent
  <2>5. ~Inside(g)
    BY <1>2, <2>1, UserIdle
  <2>6. LeavingInv'
    BY <1>1, <1>2, <1>3, <1>5, <1>6, <1>7, <1>8, <2>3, <2>4, <2>5, OpPopsLeave
  <2>7. /\ \A h \in Asyncgens : h # g => UsersOf(h)' = UsersOf(h)
        /\ UsersOf(g)' \in {{}, {o}} /\ UsersOf(g) = {o}
    BY <1>2, <1>4, <2>3, <2>4, OpPopsUsers
  <2>8. UsersOf(g)' = {} \/ \A h \in Asyncgens : UsersOf(h)' = UsersOf(h)
    BY <2>7
  <2> QED
    BY <1>5, <2>1, <2>5, <2>6, <2>7, <2>8, BodyMoves, OpGoes DEF Iterates
<1>13. CASE CloseReturns /\ In("op_closing")
  <2>1. op' = op /\ Top.do = "op_closing" /\ (op[o].state = "ITER" <=> result = "next") /\ ignored' = (IF result = "next" THEN ignored \cup {g} ELSE ignored)
    BY <1>2, <1>13 DEF CloseReturns, In, lock, Gen, AsyncInv, ResultInv
  <2>2. op[o].state = "ITER" => g \in ignored'
    BY <2>1
  <2>3. LeavingInv'
    BY <1>1, <1>2, <1>3, <1>5, <1>6, <1>7, <1>8, <2>1, <2>2, OpPopsLeave DEF Closers
  <2>4. CASE result = "next"
    <3>1. Live(o)
      BY <1>8, <2>1, <2>4
    <3>2. ~Using(o)
      <4>1. PICK n \in Nat \ {0} : n = Len(calls) /\ Top = calls[n]
        BY <1>1, TopFacts
      <4>2. ASSUME NEW i \in 1..n, calls[i].do \in OpWaiting, calls[i].obj = o PROVE FALSE
        <5>1. i # n
          BY <2>1, <4>1, <4>2 DEF OpWaiting
        <5>2. i \in 1..(n - 1)
          BY <5>1
        <5> QED
          BY <1>1, <1>2, <4>1, <4>2, <5>2, OpFrameUnique DEF AsyncInv
      <4> QED
        BY <4>1, <4>2 DEF Using
    <3>3. Inside(g)
      BY <1>2, <3>1, <3>2 DEF AsyncInv, OpInv, LiveInv, InUse, Midway, Inside
    <3>4. /\ \A h \in Asyncgens : h # g => UsersOf(h)' = UsersOf(h)
          /\ UsersOf(g)' \in {{}, {o}} /\ UsersOf(g) = {o}
      BY <1>2, <1>4, <2>1, <2>4, OpPopsUsers
    <3>5. ignored' = ignored \cup {g}
      BY <2>1, <2>4
    <3> QED
      BY <1>5, <2>3, <3>3, <3>4, <3>5, OpAbandons DEF Iterates
  <2>5. CASE result # "next"
    <3>1. \A h \in Asyncgens : UsersOf(h)' = UsersOf(h)
      BY <1>4, <2>1, <2>5 DEF UsersOf
    <3> QED
      BY <1>5, <2>1, <2>3, <2>5, <3>1, BodyMoves DEF Iterates
  <2> QED
    BY <2>4, <2>5
<1> QED
  BY <1>9, <1>10, <1>11, <1>12, <1>13

LEMMA NextIterates ==
    ASSUME TypeInv, TypeInv', AsyncInv, AsyncInv', OnStackRuns, OnStackRuns', LeavingInv, [Next]_vars
    PROVE  Iterates
<1>1. CASE BodyNext
  BY <1>1, BodyCallsIterate, PopsQuietIterate DEF BodyNext
<1>2. CASE RunnerNext
  <2>1. CloseReturns => In("closed") \/ In("op_closing")
    BY DEF CloseReturns
  <2> QED
    BY <1>2, <2>1, PopsQuietIterate, OpReturnsIterate, EntersIterate, ThrownIterate, AwaitedIterate DEF RunnerNext
<1>3. CASE OpNext
  <2>1. ASSUME NEW exc \in {"error", "exit"} \cup (IF BadArguments THEN {"bad"} ELSE {}), AthrowStarts(exc)
        PROVE  Iterates
    BY <2>1, OpCallsIterate, OpReturnsIterate
  <2> QED
    BY <1>3, <2>1, AwaitedIterate, OpCallsIterate, OpReturnsIterate, PopsQuietIterate DEF OpNext
<1>4. CASE UNCHANGED vars
  <2>1. op' = op /\ over' = over /\ ignored' = ignored
    BY <1>4 DEF vars, lock
  <2>2. IterationStep
    BY <2>1, SameUsers, InsideStays, BodyMoves
  <2>3. LeavingInv'
    BY <1>4 DEF vars, object, lock, LeavingInv, Leaving, Live, Inside, In, Top
  <2> QED
    BY <2>2, <2>3 DEF Iterates
<1> QED
  BY <1>1, <1>2, <1>3, <1>4, LoopIterates DEF Next

(***************************************************************************)
(* Async generators are used as AsyncIteration says, IsAsyncIteration, by  *)
(* any number of tasks, bodies and operations, whatever athrow is given:   *)
(* one operation at a time uses a generator, and it is done with it only   *)
(* where the body has come to a yield or to its end, unless the body has   *)
(* awaited in answer to GeneratorExit.                                     *)
(***************************************************************************)
THEOREM IsAsyncIterationHolds == Spec => IsAsyncIteration
<1>1. Init => Iteration!Init /\ LeavingInv
  <2> SUFFICES ASSUME Init PROVE Iteration!Init /\ LeavingInv
    OBVIOUS
  <2>1. \A g \in Asyncgens : g \in Runners /\ status[g] # "Running"
    BY DEF Init, Runners
  <2>2. over = Ops /\ ignored = {}
    BY DEF Init
  <2>3. LeavingInv
    BY <2>2 DEF LeavingInv
  <2> QED
    BY <2>1, <2>2, <2>3 DEF Iteration!Init
<1>2. TypeInv /\ AsyncInv => OnStackRuns
  BY RunsOnStack
<1>3. /\ TypeInv /\ TypeInv' /\ AsyncInv /\ AsyncInv' /\ OnStackRuns /\ OnStackRuns' /\ LeavingInv
      /\ [Next]_vars
      => LeavingInv' /\ [Iteration!Next]_(Iteration!vars)
  BY NextIterates DEF Iterates, IterationStep
<1> QED
  BY <1>1, <1>2, <1>3, TypeInvHolds, AsyncInvHolds, PTL DEF Spec, IsAsyncIteration, Iteration!Spec

-----------------------------------------------------------------------------
(***************************************************************************)
(* Which body runs, and which one has resumed another, on a stack.         *)
(***************************************************************************)
InnermostOf(s, n) ==
    LET active == {i \in 1..n : IsActivation(s[i])}
    IN  IF active = {} THEN None
        ELSE s[CHOOSE i \in active : \A j \in active : j <= i].obj

RunsIn(s, i, x) == i \in 1..Len(s) /\ IsActivation(s[i]) /\ s[i].obj = x

ResumerOf(s, x) ==
    IF ~\E i \in DOMAIN s : s[i].obj = x /\ IsActivation(s[i]) THEN None
    ELSE CHOOSE y \in Runners \cup {None} :
            \E i \in DOMAIN s : s[i].obj = x /\ IsActivation(s[i]) /\ y = InnermostOf(s, i - 1)

\* x runs in the i-th call, and in no other.
RunsOnlyIn(s, i, x) == RunsIn(s, i, x) /\ \A j \in Nat : RunsIn(s, j, x) => j = i

LEMMA LeastOfNat ==
    ASSUME NEW T \in SUBSET Nat, T # {}
    PROVE  \E n \in T : \A m \in T : n <= m
<1>1. \E x \in T : \A y \in T : ~(<<y, x>> \in OpToRel(<, Nat))
  BY WFMin, NatLessThanWellFounded
<1>2. PICK x \in T : \A y \in T : ~(<<y, x>> \in OpToRel(<, Nat))
  BY <1>1
<1>3. \A y \in T : ~(y < x)
  BY <1>2 DEF OpToRel
<1> QED
  BY <1>3

LEMMA GreatestUpTo ==
    ASSUME NEW n \in Nat, NEW S \in SUBSET (1..n), S # {}
    PROVE  \E i \in S : \A j \in S : j <= i
<1> DEFINE T == {n - i : i \in S}
<1>1. T \in SUBSET Nat /\ T # {}
  <2>1. \A i \in S : i \in Nat /\ n - i \in Nat
    OBVIOUS
  <2>2. PICK i : i \in S
    OBVIOUS
  <2>3. n - i \in T
    BY <2>2
  <2> QED
    BY <2>1, <2>3
<1>2. PICK k \in T : \A m \in T : k <= m
  BY <1>1, LeastOfNat
<1>3. PICK i \in S : k = n - i
  BY <1>2
<1>4. \A j \in S : n - i <= n - j
  BY <1>2, <1>3
<1> HIDE DEF T
<1>5. ASSUME NEW j \in S PROVE j <= i
  <2>1. j \in 1..n /\ i \in 1..n /\ n - i <= n - j
    BY <1>4
  <2> QED
    BY <2>1
<1> QED
  BY <1>5

LEMMA InnermostIs ==
    ASSUME NEW s, NEW n \in Nat, NEW i \in 1..n, IsActivation(s[i]),
           \A j \in 1..n : IsActivation(s[j]) => j <= i
    PROVE  InnermostOf(s, n) = s[i].obj
<1> DEFINE active == {j \in 1..n : IsActivation(s[j])}
<1>1. i \in active /\ \A j \in active : j <= i
  OBVIOUS
<1>2. \A k \in active : (\A j \in active : j <= k) => k = i
  BY <1>1
<1>3. (CHOOSE k \in active : \A j \in active : j <= k) = i
  BY <1>1, <1>2
<1> QED
  BY <1>1, <1>3 DEF InnermostOf

LEMMA InnermostType ==
    ASSUME NEW s, NEW n \in Nat, \A i \in 1..n : IsActivation(s[i]) => s[i].obj \in Runners
    PROVE  InnermostOf(s, n) \in Runners \cup {None}
<1> DEFINE active == {j \in 1..n : IsActivation(s[j])}
<1>1. CASE active = {}
  BY <1>1 DEF InnermostOf
<1>2. CASE active # {}
  <2>1. PICK i \in active : \A j \in active : j <= i
    BY <1>2, GreatestUpTo
  <2> QED
    BY <2>1, InnermostIs
<1> QED
  BY <1>1, <1>2

LEMMA InnermostSkips ==
    ASSUME NEW s, NEW n \in Nat \ {0}, ~IsActivation(s[n])
    PROVE  InnermostOf(s, n) = InnermostOf(s, n - 1)
<1> DEFINE S == {j \in 1..n : IsActivation(s[j])}
           R == {j \in 1..(n - 1) : IsActivation(s[j])}
<1>1. (\A j \in 1..n : j = n \/ j \in 1..(n - 1)) /\ (\A j \in 1..(n - 1) : j \in 1..n)
  OBVIOUS
<1>2. S = R
  BY <1>1
<1>3. CASE S = {}
  BY <1>2, <1>3 DEF InnermostOf
<1>4. CASE S # {}
  <2>1. PICK i \in S : \A j \in S : j <= i
    BY <1>4, GreatestUpTo
  <2>2. n - 1 \in Nat /\ i \in R /\ \A j \in R : j <= i
    BY <1>2, <2>1
  <2>3. InnermostOf(s, n) = s[i].obj /\ InnermostOf(s, n - 1) = s[i].obj
    BY <2>1, <2>2, InnermostIs
  <2> QED
    BY <2>3
<1> QED
  BY <1>3, <1>4

LEMMA InnermostSame ==
    ASSUME NEW s, NEW r, NEW n \in Nat, \A i \in 1..n : s[i] = r[i]
    PROVE  InnermostOf(s, n) = InnermostOf(r, n)
<1> DEFINE S == {j \in 1..n : IsActivation(s[j])}
           R == {j \in 1..n : IsActivation(r[j])}
<1>1. S = R
  OBVIOUS
<1>2. CASE S = {}
  BY <1>1, <1>2 DEF InnermostOf
<1>3. CASE S # {}
  <2>1. PICK i \in S : \A j \in S : j <= i
    BY <1>3, GreatestUpTo
  <2>2. InnermostOf(s, n) = s[i].obj /\ InnermostOf(r, n) = r[i].obj
    BY <2>1, InnermostIs
  <2> QED
    BY <2>1, <2>2
<1> QED
  BY <1>2, <1>3

LEMMA ResumerIs ==
    ASSUME NEW s \in Seq(Frame), NEW i \in Nat, NEW x, RunsOnlyIn(s, i, x)
    PROVE  ResumerOf(s, x) = InnermostOf(s, i - 1)
<1>1. DOMAIN s = 1..Len(s) /\ Len(s) \in Nat
  BY LenProperties
<1>2. InnermostOf(s, i - 1) \in Runners \cup {None}
  <2>1. i - 1 \in Nat /\ \A j \in 1..(i - 1) : j \in 1..Len(s)
    BY <1>1 DEF RunsOnlyIn, RunsIn
  <2>2. \A j \in 1..Len(s) : s[j] \in Frame
    BY ElementOfSeq
  <2>3. \A j \in 1..(i - 1) : IsActivation(s[j]) => s[j].obj \in Runners
    BY <2>1, <2>2 DEF Frame, FrameOK, IsActivation, Active, Waiting
  <2> QED
    BY <2>1, <2>3, InnermostType
<1>3. \A j \in DOMAIN s : s[j].obj = x /\ IsActivation(s[j]) => j = i
  BY <1>1 DEF RunsOnlyIn, RunsIn
<1>4. i \in DOMAIN s /\ s[i].obj = x /\ IsActivation(s[i])
  BY <1>1 DEF RunsOnlyIn, RunsIn
<1> DEFINE P(y) == \E j \in DOMAIN s : s[j].obj = x /\ IsActivation(s[j]) /\ y = InnermostOf(s, j - 1)
<1>5. \A y : P(y) <=> y = InnermostOf(s, i - 1)
  BY <1>3, <1>4
<1>6. (CHOOSE y \in Runners \cup {None} : P(y)) = InnermostOf(s, i - 1)
  BY <1>2, <1>5
<1> QED
  BY <1>4, <1>6 DEF ResumerOf

LEMMA ResumerNone ==
    ASSUME NEW s \in Seq(Frame), NEW x, \A j \in Nat : ~RunsIn(s, j, x)
    PROVE  ResumerOf(s, x) = None
<1>1. DOMAIN s = 1..Len(s) /\ Len(s) \in Nat
  BY LenProperties
<1> QED
  BY <1>1 DEF ResumerOf, RunsIn

\* Nobody runs twice.
RunsOnce(s) == \A x \in Runners : \A i, j \in Nat : RunsIn(s, i, x) /\ RunsIn(s, j, x) => i = j

LEMMA OnceResumer ==
    ASSUME NEW s \in Seq(Frame), RunsOnce(s), NEW i \in Nat, NEW x \in Runners, RunsIn(s, i, x)
    PROVE  ResumerOf(s, x) = InnermostOf(s, i - 1)
<1>1. RunsOnlyIn(s, i, x)
  BY DEF RunsOnlyIn, RunsOnce
<1> QED
  BY <1>1, ResumerIs

\* The resumer of one that runs below what changes stays.
LEMMA ResumerKept ==
    ASSUME NEW s \in Seq(Frame), NEW r \in Seq(Frame), RunsOnce(s), RunsOnce(r),
           NEW n \in Nat \ {0}, \A i \in 1..(n - 1) : r[i] = s[i], NEW x \in Runners,
           \A i \in Nat : RunsIn(r, i, x) <=> RunsIn(s, i, x), \A i \in Nat : RunsIn(s, i, x) => i <= n
    PROVE  ResumerOf(r, x) = ResumerOf(s, x)
<1>1. CASE \A i \in Nat : ~RunsIn(s, i, x)
  BY <1>1, ResumerNone
<1>2. ASSUME NEW i \in Nat, RunsIn(s, i, x)
      PROVE  ResumerOf(r, x) = ResumerOf(s, x)
  <2>1. ResumerOf(s, x) = InnermostOf(s, i - 1)
    BY <1>2, OnceResumer
  <2>2. ResumerOf(r, x) = InnermostOf(r, i - 1)
    BY <1>2, OnceResumer
  <2>3. i - 1 \in Nat /\ i <= n
    BY <1>2 DEF RunsIn
  <2>4. \A j \in 1..(i - 1) : s[j] = r[j]
    BY <2>3
  <2>5. InnermostOf(s, i - 1) = InnermostOf(r, i - 1)
    BY <2>3, <2>4, InnermostSame
  <2> QED
    BY <2>1, <2>2, <2>5
<1> QED
  BY <1>1, <1>2

-----------------------------------------------------------------------------
(***************************************************************************)
(* What a step changes of it.                                              *)
(***************************************************************************)
Around == InnermostOf(calls, Len(calls) - 1)

TopChanges(x) ==
    /\ InnermostOf(calls, Len(calls)) = IF Acts THEN x ELSE Around
    /\ InnermostOf(calls', Len(calls')) = IF ActsThen THEN x ELSE Around
    /\ \A y \in Runners : y # x \/ (~Acts /\ ~ActsThen) =>
           ResumerOf(calls', y) = ResumerOf(calls, y) /\ (OnStack(y)' <=> OnStack(y))
    /\ x \in Runners =>
           /\ IF Acts THEN OnStack(x) /\ ResumerOf(calls, x) = Around ELSE ActsThen => ~OnStack(x)
           /\ IF ActsThen THEN OnStack(x)' /\ ResumerOf(calls', x) = Around
              ELSE Acts => ~OnStack(x)' /\ ResumerOf(calls', x) = None

LEMMA Once ==
    ASSUME OneActivation
    PROVE  RunsOnce(calls)
BY DEF OneActivation, RunsOnce, RunsIn

LEMMA OnceNext ==
    ASSUME OneActivation'
    PROVE  RunsOnce(calls')
BY DEF OneActivation, RunsOnce, RunsIn

LEMMA TopChangesOnly ==
    ASSUME TypeInv, TypeInv', OneActivation, OneActivation', StepOn, NEW x, x = Top.obj
    PROVE  TopChanges(x)
<1>1. PICK n \in Nat \ {0} : n = Len(calls) /\ Top = calls[n]
  BY TopFacts DEF StepOn
<1>2. calls \in Seq(Frame) /\ calls' \in Seq(Frame)
  BY DEF TypeInv, StackInv
<1>3. PICK m \in Nat : m = Len(calls')
  BY <1>2, LenProperties
<1>4. /\ m \in {n - 1, n, n + 1}
      /\ m # n - 1 => calls'[n].obj = x
      /\ m = n + 1 => ~IsActivation(calls'[n + 1])
      /\ \A i \in 1..(n - 1) : calls'[i] = calls[i]
  BY <1>1, <1>3 DEF StepOn, Kept
<1>5. RunsOnce(calls) /\ RunsOnce(calls')
  BY Once, OnceNext
<1>6. calls[n].obj = x /\ (Acts <=> IsActivation(calls[n])) /\ (ActsThen <=> m # n - 1 /\ IsActivation(calls'[n]))
  BY <1>1, <1>3 DEF Acts, ActsThen
<1>7. n - 1 \in Nat /\ n \in 1..n /\ n \in Nat /\ (m # n - 1 <=> n \in 1..m)
  BY <1>4
<1>8. Around = InnermostOf(calls, n - 1) /\ InnermostOf(calls', n - 1) = Around
  BY <1>1, <1>4, <1>7, InnermostSame DEF Around
<1>9. InnermostOf(calls, n) = IF Acts THEN x ELSE Around
  <2>1. CASE Acts
    <3>1. \A j \in 1..n : IsActivation(calls[j]) => j <= n
      OBVIOUS
    <3> QED
      BY <1>6, <1>7, <2>1, <3>1, InnermostIs
  <2>2. CASE ~Acts
    BY <1>6, <1>8, <2>2, InnermostSkips
  <2> QED
    BY <2>1, <2>2
<1>10. m # n - 1 => InnermostOf(calls', n) = IF ActsThen THEN x ELSE Around
  <2> SUFFICES ASSUME m # n - 1 PROVE InnermostOf(calls', n) = IF ActsThen THEN x ELSE Around
    OBVIOUS
  <2>1. CASE ActsThen
    <3>1. \A j \in 1..n : IsActivation(calls'[j]) => j <= n
      OBVIOUS
    <3> QED
      BY <1>4, <1>6, <1>7, <2>1, <3>1, InnermostIs
  <2>2. CASE ~ActsThen
    BY <1>6, <1>8, <2>2, InnermostSkips
  <2> QED
    BY <2>1, <2>2
<1>11. InnermostOf(calls', m) = IF ActsThen THEN x ELSE Around
  <2>1. CASE m = n - 1
    BY <1>6, <1>8, <2>1
  <2>2. CASE m = n
    BY <1>7, <1>10, <2>2
  <2>3. CASE m = n + 1
    <3>1. m \in Nat \ {0} /\ m - 1 = n /\ m # n - 1
      BY <2>3
    <3>2. InnermostOf(calls', m) = InnermostOf(calls', n)
      BY <1>4, <2>3, <3>1, InnermostSkips
    <3> QED
      BY <1>10, <3>1, <3>2
  <2> QED
    BY <1>4, <2>1, <2>2, <2>3
<1>12. \A y : \A i \in Nat : RunsIn(calls', i, y) <=> IF i = n THEN ActsThen /\ y = x ELSE RunsIn(calls, i, y)
  <2> TAKE y
  <2> TAKE i \in Nat
  <2>1. CASE i = n
    BY <1>3, <1>4, <1>6, <1>7, <2>1 DEF RunsIn
  <2>2. CASE i < n
    <3>1. /\ i \in 1..m <=> i \in 1..(n - 1)
          /\ i \in 1..n <=> i \in 1..(n - 1)
          /\ i # n
      BY <1>4, <2>2
    <3> QED
      BY <1>1, <1>3, <1>4, <3>1 DEF RunsIn
  <2>3. CASE i > n
    <3>1. i \notin 1..n /\ i # n /\ (i \in 1..m => m = n + 1 /\ i = n + 1)
      BY <1>4, <2>3
    <3> QED
      BY <1>1, <1>3, <1>4, <3>1 DEF RunsIn
  <2> QED
    BY <2>1, <2>2, <2>3
<1>13. \A y : RunsIn(calls, n, y) <=> Acts /\ y = x
  BY <1>1, <1>6, <1>7 DEF RunsIn
<1>14. \A y : \A i \in Nat : RunsIn(calls, i, y) => i <= n
  BY <1>1 DEF RunsIn
<1>15. \A y : (OnStack(y) <=> \E i \in Nat : RunsIn(calls, i, y)) /\ (OnStack(y)' <=> \E i \in Nat : RunsIn(calls', i, y))
  <2>1. DOMAIN calls = 1..Len(calls) /\ DOMAIN calls' = 1..Len(calls') /\ Len(calls) \in Nat /\ Len(calls') \in Nat
    BY <1>2, LenProperties
  <2> QED
    BY <2>1 DEF OnStack, RunsIn
<1>16. ASSUME NEW y \in Runners, y # x \/ (~Acts /\ ~ActsThen)
       PROVE  ResumerOf(calls', y) = ResumerOf(calls, y) /\ (OnStack(y)' <=> OnStack(y))
  <2>1. \A i \in Nat : RunsIn(calls', i, y) <=> RunsIn(calls, i, y)
    BY <1>12, <1>13, <1>16
  <2>2. ResumerOf(calls', y) = ResumerOf(calls, y)
    BY <1>2, <1>4, <1>5, <1>14, <2>1, ResumerKept
  <2> QED
    BY <1>15, <2>1, <2>2
<1>17. x \in Runners /\ Acts => OnStack(x) /\ ResumerOf(calls, x) = Around
  BY <1>2, <1>5, <1>7, <1>8, <1>13, <1>15, OnceResumer
<1>18. x \in Runners /\ ActsThen => OnStack(x)' /\ ResumerOf(calls', x) = Around
  BY <1>2, <1>5, <1>7, <1>8, <1>12, <1>15, OnceResumer
<1>19. x \in Runners /\ ~Acts /\ ActsThen => ~OnStack(x)
  <2> SUFFICES ASSUME x \in Runners, ~Acts, ActsThen, NEW i \in Nat, RunsIn(calls, i, x) PROVE FALSE
    BY <1>15
  <2>1. i # n /\ RunsIn(calls', i, x) /\ RunsIn(calls', n, x)
    BY <1>7, <1>12, <1>13
  <2> QED
    BY <1>5, <1>7, <2>1 DEF RunsOnce
<1>20. x \in Runners /\ Acts /\ ~ActsThen => ~OnStack(x)' /\ ResumerOf(calls', x) = None
  <2> SUFFICES ASSUME x \in Runners, Acts, ~ActsThen PROVE ~OnStack(x)' /\ ResumerOf(calls', x) = None
    OBVIOUS
  <2>1. \A i \in Nat : RunsIn(calls, i, x) => i = n
    BY <1>5, <1>7, <1>13 DEF RunsOnce
  <2>2. \A i \in Nat : ~RunsIn(calls', i, x)
    BY <1>12, <2>1
  <2> QED
    BY <1>2, <1>15, <2>2, ResumerNone
<1> QED
  BY <1>1, <1>3, <1>9, <1>11, <1>16, <1>17, <1>18, <1>19, <1>20 DEF TopChanges

-----------------------------------------------------------------------------
(***************************************************************************)
(* Each step of C code or of a body leaves, enters or keeps what runs.     *)
(***************************************************************************)
LEMMA NewInFrame ==
    ASSUME TypeInv', NEW i \in 1..Len(calls')
    PROVE  calls'[i] \in Frame
BY ElementOfSeq DEF TypeInv, StackInv

LEMMA OneGoes ==
    ASSUME TypeInv, TypeInv', calls # <<>>, NEW a, Goes(<<a>>), a.obj = Top.obj
    PROVE  StepOn /\ (ActsThen <=> IsActivation(a))
<1>1. /\ <<a>> \in Seq(Frame \cup {a}) /\ <<a>> # <<>> /\ Len(<<a>>) = 1 /\ <<a>>[1] = a
  OBVIOUS
<1>2. Len(calls) \in 1..Len(calls') /\ calls'[Len(calls)] = a
  BY <1>1, GoesOn
<1>3. a \in Frame
  BY <1>2, NewInFrame
<1> QED
  BY <1>3, OneStep

LEMMA TwoGo ==
    ASSUME TypeInv, TypeInv', calls # <<>>, NEW a, NEW b, Goes(<<a, b>>), a.obj = Top.obj, ~IsActivation(b)
    PROVE  StepOn /\ (ActsThen <=> IsActivation(a))
<1>1. calls' # <<>> /\ Top' = b /\ Len(calls) \in 1..Len(calls') /\ calls'[Len(calls)] = a
  BY NewTwo
<1>2. a \in Frame
  BY <1>1, NewInFrame
<1>3. b \in Frame
  <2>1. calls' \in Seq(Frame)
    BY DEF TypeInv, StackInv
  <2>2. Len(calls') \in 1..Len(calls')
    BY <1>1, <2>1, EmptySeq, LenProperties
  <2> QED
    BY <1>1, <2>2, NewInFrame DEF Top
<1> QED
  BY <1>2, <1>3, TwoStep

LEMMA WaitGoes ==
    ASSUME TypeInv, TypeInv', calls # <<>>, NEW do, NEW exc, NEW x, NEW b, ~IsActivation(b),
           Goes(<<Wait(do, Top.obj, exc, x), b>>)
    PROVE  StepOn /\ (do \in Waiting => ActsThen)
<1>1. PICK a : a = Wait(do, Top.obj, exc, x)
  OBVIOUS
<1>2. a.obj = Top.obj /\ a.do = do
  BY <1>1 DEF Wait
<1>3. a \in Frame /\ StepOn /\ (ActsThen <=> IsActivation(a))
  <2>1. Len(calls) \in 1..Len(calls') /\ calls'[Len(calls)] = a
    BY <1>1, NewTwo
  <2> QED
    BY <1>1, <1>2, <2>1, NewInFrame, TwoGo
<1> QED
  BY <1>2, <1>3 DEF IsActivation, Waiting

\* Only where a body is entered is a status set to "Running".
StatusMoves ==
    \/ status' = status
    \/ Acts /\ ~ActsThen /\ status'[Top.obj] = "Finished"
    \/ ActsThen /\ status[Top.obj] # "Finished"
    \/ ~Acts /\ ~ActsThen /\ status[Top.obj] # "Running" /\ status'[Top.obj] = "Finished"

Moves == StepOn /\ StatusMoves

LEMMA ReturnsMove ==
    ASSUME TypeInv, AsyncInv, calls # <<>>, NEW r, Returns(r),
           \/ status' = status
           \/ Top.obj \in Runners /\ Acts /\ status'[Top.obj] = "Finished"
           \/ Top.obj \in Runners /\ ~Acts /\ status[Top.obj] # "Running" /\ status'[Top.obj] = "Finished"
    PROVE  Moves
BY PopStep DEF Moves, StatusMoves

LEMMA PopsMove ==
    ASSUME TypeInv, AsyncInv,
           \/ BodyYields \/ (\E r \in {"return", "null", "exit", "error"} : BodyEnds(r))
           \/ (\E r \in Results : FutureAnswers(r))
           \/ SendToFinished \/ AlreadyExecuting \/ DelegateAwaits \/ ThrowToOther \/ ThrowingAwaits
           \/ CloseOther \/ CloseReturns
    PROVE  Moves
<1>1. CASE BodyYields \/ (\E r \in Results : FutureAnswers(r))
  <2>1. \E r : Returns(r) /\ calls # <<>> /\ status' = status
    BY <1>1 DEF BodyYields, FutureAnswers, In, object
  <2> QED
    BY <2>1, ReturnsMove
<1>2. ASSUME NEW r, BodyEnds(r) PROVE Moves
  <2>1. Returns(r) /\ calls # <<>> /\ Top.do = "body"
    BY <1>2 DEF BodyEnds, In
  <2>2. Top.obj \in Runners /\ Acts
    BY <2>1, TopFacts DEF FrameOK, Active, Acts, IsActivation
  <2>3. status'[Top.obj] = "Finished"
    BY <1>2, <2>2 DEF BodyEnds, TypeInv, ObjectType
  <2> QED
    BY <2>1, <2>2, <2>3, ReturnsMove
<1>3. CASE SendToFinished \/ AlreadyExecuting \/ DelegateAwaits \/ ThrowingAwaits
  <2>1. \E r : Returns(r) /\ calls # <<>> /\ status' = status
    BY <1>3 DEF SendToFinished, AlreadyExecuting, DelegateAwaits, ThrowingAwaits, In, object
  <2> QED
    BY <2>1, ReturnsMove
<1>4. CASE CloseOther \/ CloseReturns
  <2>1. \E r : Returns(r) /\ calls # <<>> /\ status' = status
    BY <1>4 DEF CloseOther, CloseReturns, In, object
  <2> QED
    BY <2>1, ReturnsMove
<1>5. CASE ThrowToOther
  <2>1. calls # <<>> /\ Top.do = "throw" /\ status[Top.obj] # "Running" /\ \E r : Returns(r)
    BY <1>5 DEF ThrowToOther, In
  <2>2. Top.obj \in Runners /\ ~Acts
    BY <2>1, TopFacts DEF FrameOK, Active, Acts, IsActivation
  <2>3. status'[Top.obj] = "Finished"
    BY <1>5, <2>2 DEF ThrowToOther, TypeInv, ObjectType
  <2> QED
    BY <2>1, <2>2, <2>3, ReturnsMove
<1> QED
  BY <1>1, <1>2, <1>3, <1>4, <1>5

LEMMA OpPopsMove ==
    ASSUME TypeInv, AsyncInv,
           \/ CloseClosedOp \/ OpAlreadyUsed \/ OpOfFinished \/ OpRefused \/ OpAfterClose \/ AthrowStarts("bad")
           \/ OpAwaits \/ AsendEnds \/ AthrowEnds \/ AcloseEnds
    PROVE  Moves
<1>1. calls # <<>> /\ status' = status
  BY DEF CloseClosedOp, OpAlreadyUsed, OpOfFinished, OpRefused, OpAfterClose, AthrowStarts, OpStarts, OpGoesOn,
         OpAwaits, AsendEnds, AthrowEnds, AcloseEnds, OpWaits, In, object
<1>2. CASE CloseClosedOp \/ OpAlreadyUsed \/ OpOfFinished \/ OpRefused \/ OpAfterClose \/ AthrowStarts("bad")
  <2>1. \E r : Returns(r)
    BY <1>2 DEF CloseClosedOp, OpAlreadyUsed, OpOfFinished, OpRefused, OpAfterClose, AthrowStarts
  <2> QED
    BY <1>1, <2>1, ReturnsMove
<1>3. CASE OpAwaits \/ AsendEnds \/ AthrowEnds \/ AcloseEnds
  <2>1. \E r : Returns(r)
    BY <1>3 DEF OpAwaits, AsendEnds, AthrowEnds, AcloseEnds
  <2> QED
    BY <1>1, <2>1, ReturnsMove
<1> QED
  BY <1>2, <1>3

LEMMA EntersMove ==
    ASSUME TypeInv, TypeInv', AsyncInv,
           SendToBody \/ DelegateEnds \/ ThrowToStarted \/ ClosingReturns \/ ThrowingEnds
    PROVE  Moves
<1>1. CASE SendToBody
  <2>1. PICK a : Goes(<<a>>) /\ a.obj = Top.obj /\ IsActivation(a)
    BY <1>1, CallNames DEF SendToBody, EntersBody, IsActivation
  <2>2. calls # <<>> /\ status[Top.obj] # "Finished"
    BY <1>1 DEF SendToBody, Resumes, In
  <2> QED
    BY <2>1, <2>2, OneGoes DEF Moves, StatusMoves
<1>2. CASE DelegateEnds
  <2>1. PICK a : Goes(<<a>>) /\ a.obj = Top.obj
    BY <1>2, CallNames DEF DelegateEnds, EntersBody
  <2>2. calls # <<>> /\ status' = status
    BY <1>2 DEF DelegateEnds, In
  <2> QED
    BY <2>1, <2>2, OneGoes DEF Moves, StatusMoves
<1>3. CASE ThrowToStarted \/ ClosingReturns \/ ThrowingEnds
  <2>1. PICK a : Goes(<<a>>) /\ a.obj = Top.obj
    BY <1>3, CallNames DEF ThrowToStarted, ClosingReturns, ThrowingEnds
  <2>2. calls # <<>> /\ status' = status
    BY <1>3 DEF ThrowToStarted, ClosingReturns, ThrowingEnds, In, object
  <2> QED
    BY <2>1, <2>2, OneGoes DEF Moves, StatusMoves
<1> QED
  BY <1>1, <1>2, <1>3

\* What is called for something else is no activation of it.
LEMMA CalledQuiet ==
    /\ \A x, exc : ~IsActivation(Call("future", x, exc)) /\ ~IsActivation(Call("send", x, exc))
                  /\ ~IsActivation(Call("op_send", x, exc)) /\ ~IsActivation(Call("op_throw", x, exc))
                  /\ ~IsActivation(Call("op_throw2", x, exc)) /\ ~IsActivation(Call("throw", x, exc))
                  /\ ~IsActivation(CallClosing("send", x, exc)) /\ ~IsActivation(CallClosing("throw", x, exc))
    /\ \A x, exc : ~IsActivation(PassTo(x, exc)) /\ ~IsActivation(CloseOf(x)) /\ ~IsActivation(ThrowTo(x, exc))
<1>1. \A do, x, exc : do \notin {"body", "delegate", "throwing", "closing"} =>
          ~IsActivation(Call(do, x, exc)) /\ ~IsActivation(CallClosing(do, x, exc))
  BY CallNames DEF IsActivation
<1>2. \A x, exc : ~IsActivation(CloseOf(x)) /\ ~IsActivation(ThrowTo(x, exc))
  BY <1>1 DEF CloseOf, ThrowTo
<1>3. \A x, exc : ~IsActivation(PassTo(x, exc))
  BY <1>1, <1>2 DEF PassTo
<1> QED
  BY <1>1, <1>2, <1>3

LEMMA CallsMove ==
    ASSUME TypeInv, TypeInv', AsyncInv,
           \/ AwaitFuture \/ (\E c \in Coroutines \ Tasks : AwaitCoroutine(c))
           \/ (\E o \in Ops, kind \in Kinds, g \in Asyncgens : AwaitNewOp(o, kind, g))
           \/ SendToAwaited \/ ThrowToAwaited \/ CloseStarted
    PROVE  Moves
<1>1. ASSUME NEW x, NEW b, In("body"), Delegates(x, b), ~IsActivation(b) PROVE Moves
  <2>1. /\ calls # <<>> /\ status' = status /\ Wait("delegate", Top.obj, "null", x).obj = Top.obj
        /\ Goes(<<Wait("delegate", Top.obj, "null", x), b>>)
    BY <1>1, CallNames DEF Delegates, In, Wait
  <2> QED
    BY <1>1, <2>1, TwoGo DEF Moves, StatusMoves
<1>2. CASE \/ AwaitFuture \/ (\E c \in Coroutines \ Tasks : AwaitCoroutine(c))
           \/ (\E o \in Ops, kind \in Kinds, g \in Asyncgens : AwaitNewOp(o, kind, g))
  BY <1>1, <1>2, CalledQuiet DEF AwaitFuture, AwaitCoroutine, AwaitNewOp
<1>3. CASE SendToAwaited
  <2>1. calls # <<>> /\ status[Top.obj] # "Finished"
    BY <1>3 DEF SendToAwaited, Resumes, In
  <2>2. Goes(<<Wait("delegate", Top.obj, Top.exc, yieldFrom[Top.obj]), PassTo(yieldFrom[Top.obj], Top.exc)>>)
    BY <1>3 DEF SendToAwaited
  <2>3. StepOn /\ ActsThen
    BY <2>1, <2>2, CalledQuiet, WaitGoes DEF Waiting
  <2> QED
    BY <2>1, <2>3 DEF Moves, StatusMoves
<1>4. CASE ThrowToAwaited
  <2>1. calls # <<>> /\ status' = status
    BY <1>4 DEF ThrowToAwaited, In
  <2>2. PICK x : Goes(IF Closes(Top.obj)
                      THEN <<Wait("closing", Top.obj, Top.exc, x), CloseOf(x)>>
                      ELSE <<Wait("throwing", Top.obj, Top.exc, x), ThrowTo(x, Top.exc)>>)
    BY <1>4 DEF ThrowToAwaited
  <2>3. CASE Closes(Top.obj)
    BY <2>1, <2>2, <2>3, CalledQuiet, WaitGoes DEF Moves, StatusMoves
  <2>4. CASE ~Closes(Top.obj)
    BY <2>1, <2>2, <2>4, CalledQuiet, WaitGoes DEF Moves, StatusMoves
  <2> QED
    BY <2>3, <2>4
<1>5. CASE CloseStarted
  <2>1. calls # <<>> /\ status' = status
    BY <1>5 DEF CloseStarted, In, object
  <2>2. Goes(<<Wait("closed", Top.obj, "null", None), CallClosing("send", Top.obj, "exit")>>)
    BY <1>5 DEF CloseStarted
  <2> QED
    BY <2>1, <2>2, CalledQuiet, WaitGoes DEF Moves, StatusMoves
<1> QED
  BY <1>2, <1>3, <1>4, <1>5

LEMMA OpCallsMove ==
    ASSUME TypeInv, TypeInv', AsyncInv,
           \/ CloseOp \/ AsendSends \/ AcloseStarts \/ AthrowGoesOn \/ OpThrowStarts \/ OpThrows
           \/ (\E exc \in {"error", "exit"} : AthrowStarts(exc))
    PROVE  Moves
<1>1. calls # <<>> /\ status' = status
  BY DEF CloseOp, AsendSends, AcloseStarts, AthrowGoesOn, OpThrowStarts, OpThrows, AthrowStarts, OpStarts, OpGoesOn,
         OpClaims, In, object
<1>2. ASSUME NEW do, NEW exc, NEW x, NEW b, Goes(<<Wait(do, Top.obj, exc, x), b>>), ~IsActivation(b)
      PROVE  Moves
  BY <1>1, <1>2, WaitGoes DEF Moves, StatusMoves
<1>3. CASE CloseOp
  <2>1. Goes(<<Wait("op_closing", Top.obj, "null", None), Call("op_throw", Top.obj, "exit")>>)
    BY <1>3 DEF CloseOp
  <2> QED
    BY <1>2, <2>1, CalledQuiet
<1>4. CASE AthrowGoesOn
  <2>1. Goes(<<Wait("op_resending", Top.obj, Top.exc, Gen), Call("send", Gen, "null")>>)
    BY <1>4 DEF AthrowGoesOn
  <2> QED
    BY <1>2, <2>1, CalledQuiet
<1>5. CASE OpThrows
  <2>1. Goes(<<Wait("op_throwing", Top.obj, Top.exc, Gen), Call("throw", Gen, Top.exc)>>)
    BY <1>5 DEF OpThrows
  <2> QED
    BY <1>2, <2>1, CalledQuiet
<1>6. ASSUME NEW wait, NEW b, OpClaims(wait, b), ~IsActivation(b)
      PROVE  Moves
  BY <1>2, <1>6 DEF OpClaims
<1>7. CASE AsendSends
  <2>1. OpClaims("op_sending", Call("send", Gen, "null"))
    BY <1>7 DEF AsendSends
  <2> QED
    BY <1>6, <2>1, CalledQuiet
<1>8. CASE AcloseStarts
  <2>1. OpClaims("op_starting", CallClosing("throw", Gen, "exit"))
    BY <1>8 DEF AcloseStarts
  <2> QED
    BY <1>6, <2>1, CalledQuiet
<1>9. CASE OpThrowStarts
  <2>1. OpClaims("op_throwing", Call("throw", Gen, Top.exc))
    BY <1>9 DEF OpThrowStarts
  <2> QED
    BY <1>6, <2>1, CalledQuiet
<1>10. ASSUME NEW exc \in {"error", "exit"}, AthrowStarts(exc) PROVE Moves
  <2>1. OpClaims("op_starting", Call("throw", Gen, exc))
    BY <1>10 DEF AthrowStarts
  <2> QED
    BY <1>6, <2>1, CalledQuiet
<1> QED
  BY <1>3, <1>4, <1>5, <1>7, <1>8, <1>9, <1>10

LEMMA NextMoves ==
    ASSUME TypeInv, TypeInv', AsyncInv, BodyNext \/ RunnerNext \/ OpNext
    PROVE  Moves
<1>1. CASE BodyNext
  BY <1>1, PopsMove, CallsMove DEF BodyNext
<1>2. CASE RunnerNext
  BY <1>2, PopsMove, EntersMove, CallsMove DEF RunnerNext
<1>3. CASE OpNext
  <2>1. ASSUME NEW exc \in {"error", "exit"} \cup (IF BadArguments THEN {"bad"} ELSE {}), AthrowStarts(exc)
        PROVE  Moves
    BY <2>1, OpPopsMove, OpCallsMove
  <2> QED
    BY <1>3, <2>1, OpPopsMove, OpCallsMove DEF OpNext
<1> QED
  BY <1>1, <1>2, <1>3

-----------------------------------------------------------------------------
(***************************************************************************)
(* The refinement, step by step.                                           *)
(***************************************************************************)
LEMMA Maps ==
    /\ Innermost(Len(calls)) = InnermostOf(calls, Len(calls))
    /\ Innermost(Len(calls))' = InnermostOf(calls', Len(calls'))
    /\ \A r \in Runners : Resumer(r) = ResumerOf(calls, r) /\ Resumer(r)' = ResumerOf(calls', r)
<1>1. \A n : Innermost(n) = InnermostOf(calls, n)
  BY DEF Innermost, InnermostOf
<1>2. Innermost(Len(calls))' = InnermostOf(calls', Len(calls'))
  BY DEF Innermost, InnermostOf
<1>3. \A r \in Runners : Resumer(r) = ResumerOf(calls, r)
  BY DEF Resumer, ResumerOf, OnStack, Innermost, InnermostOf
<1>4. \A r \in Runners : Resumer(r)' = ResumerOf(calls', r)
  BY DEF Resumer, ResumerOf, OnStack, Innermost, InnermostOf
<1> QED
  BY <1>1, <1>2, <1>3, <1>4

SameState(x) == \A r \in Runners : r # x => GeneratorState(r)' = GeneratorState(r)

LEMMA Same ==
    ASSUME TypeInv, [Next]_vars, NEW x, x = Top.obj, calls # <<>>, TopChanges(x)
    PROVE  SameState(x) /\ (~Acts /\ ~ActsThen /\ status' = status => UNCHANGED Generator!vars)
<1>1. SameState(x)
  BY OthersStay DEF SameState, GeneratorState, TopChanges
<1>2. ASSUME ~Acts, ~ActsThen, status' = status PROVE UNCHANGED Generator!vars
  <2>1. \A r \in Runners : GeneratorState(r)' = GeneratorState(r)
    BY <1>2 DEF GeneratorState, TopChanges
  <2>2. Innermost(Len(calls))' = Innermost(Len(calls)) /\ \A r \in Runners : Resumer(r)' = Resumer(r)
    BY <1>2, Maps DEF TopChanges
  <2> QED
    BY <2>1, <2>2 DEF Generator!vars
<1> QED
  BY <1>1, <1>2

CoroutineStep == Generator!Next \/ UNCHANGED Generator!vars

LEMMA RunnerResumes ==
    ASSUME NEW x \in Runners, TopChanges(x), SameState(x), ~Acts, ActsThen,
           status[x] \in {"Unused", "Running"}, status'[x] = "Running"
    PROVE  CoroutineStep
<1>1. GeneratorState(x) \in {"GEN_CREATED", "GEN_SUSPENDED"} /\ GeneratorState(x)' = "GEN_RUNNING"
  BY DEF GeneratorState, TopChanges
<1>2. /\ Innermost(Len(calls))' = x /\ Resumer(x)' = Innermost(Len(calls))
      /\ \A r \in Runners : r # x => Resumer(r)' = Resumer(r)
  BY Maps DEF TopChanges
<1>3. Generator!Resume(None, x)
  BY <1>1, <1>2 DEF Generator!Resume, SameState
<1> QED
  BY <1>3 DEF CoroutineStep, Generator!Next

LEMMA RunnerLeaves ==
    ASSUME NEW x \in Runners, TopChanges(x), SameState(x), Acts, ~ActsThen,
           status[x] = "Running", status'[x] \in {"Running", "Finished"}
    PROVE  CoroutineStep
<1>1. GeneratorState(x) = "GEN_RUNNING" /\ GeneratorState(x)' \in {"GEN_SUSPENDED", "GEN_CLOSED"}
  BY DEF GeneratorState, TopChanges
<1>2. /\ Innermost(Len(calls)) = x /\ Innermost(Len(calls))' = Resumer(x) /\ Resumer(x)' = None
      /\ \A r \in Runners : r # x => Resumer(r)' = Resumer(r)
  BY Maps DEF TopChanges
<1>3. Generator!Leave(None, x)
  BY <1>1, <1>2 DEF Generator!Leave, SameState
<1> QED
  BY <1>3 DEF CoroutineStep, Generator!Next

LEMMA RunnerStays ==
    ASSUME NEW x \in Runners, TopChanges(x), SameState(x), Acts, ActsThen,
           status[x] = "Running", status'[x] = "Running"
    PROVE  CoroutineStep
<1>1. GeneratorState(x) = GeneratorState(x)'
  BY DEF GeneratorState, TopChanges
<1>2. Innermost(Len(calls)) = Innermost(Len(calls))' /\ \A r \in Runners : Resumer(r)' = Resumer(r)
  BY Maps DEF TopChanges
<1> QED
  BY <1>1, <1>2 DEF CoroutineStep, Generator!vars, SameState

LEMMA RunnerThrown ==
    ASSUME NEW x \in Runners, TopChanges(x), SameState(x), ~Acts, ~ActsThen, ~OnStack(x),
           status[x] \in {"Unused", "Finished"}, status'[x] = "Finished"
    PROVE  CoroutineStep
<1>1. ~OnStack(x)'
  BY DEF TopChanges
<1>2. GeneratorState(x) \in {"GEN_CREATED", "GEN_CLOSED"} /\ GeneratorState(x)' = "GEN_CLOSED"
  BY <1>1 DEF GeneratorState
<1>3. Innermost(Len(calls)) = Innermost(Len(calls))' /\ \A r \in Runners : Resumer(r)' = Resumer(r)
  BY Maps DEF TopChanges
<1>4. CASE GeneratorState(x) = "GEN_CREATED"
  <2>1. Generator!ThrowFirst(x)
    BY <1>2, <1>3, <1>4 DEF Generator!ThrowFirst, SameState
  <2> QED
    BY <2>1 DEF CoroutineStep, Generator!Next
<1>5. CASE GeneratorState(x) = "GEN_CLOSED"
  BY <1>2, <1>3, <1>5 DEF CoroutineStep, Generator!vars, SameState
<1> QED
  BY <1>2, <1>4, <1>5

\* An activation is of a coroutine or async generator that has started.
LEMMA ActsRunning ==
    ASSUME TypeInv, AsyncInv, calls # <<>>, Acts
    PROVE  Top.obj \in Runners /\ status[Top.obj] = "Running"
BY TopFrame DEF FrameOK, RunnerFrame, Acts, IsActivation, Active, Waiting

LEMMA OnStackRunning ==
    ASSUME TypeInv, AsyncInv, NEW x, OnStack(x)
    PROVE  status[x] = "Running"
<1>1. DOMAIN calls = 1..Len(calls)
  BY LenProperties DEF TypeInv, StackInv
<1> QED
  BY <1>1 DEF OnStack, IsActivation, AsyncInv, StackRunInv, Frames, RunnerFrame

LEMMA ActsThenRunning ==
    ASSUME TypeInv, TypeInv', AsyncInv', StepOn, ActsThen
    PROVE  Top.obj \in Runners /\ status'[Top.obj] = "Running"
<1>1. PICK n \in Nat \ {0} : n = Len(calls)
  BY TopFacts DEF StepOn
<1>2. PICK m \in Nat : m = Len(calls')
  BY LenProperties DEF TypeInv, StackInv
<1>3. n \in 1..m /\ calls'[n].obj = Top.obj /\ IsActivation(calls'[n])
  BY <1>1, <1>2 DEF StepOn, ActsThen
<1>4. calls'[n] \in Frame
  BY <1>2, <1>3, NewInFrame
<1>5. status'[calls'[n].obj] = "Running"
  BY <1>2, <1>3 DEF AsyncInv, StackRunInv, Frames, RunnerFrame, IsActivation
<1> QED
  BY <1>3, <1>4, <1>5 DEF Frame, FrameOK, IsActivation, Active, Waiting

LEMMA MoveMaps ==
    ASSUME TypeInv, TypeInv', AsyncInv, AsyncInv', [Next]_vars, Moves
    PROVE  CoroutineStep
<1>1. PICK x : x = Top.obj
  OBVIOUS
<1>2. calls # <<>> /\ StepOn /\ StatusMoves
  BY DEF Moves, StepOn
<1>3. TopChanges(x)
  BY <1>1, <1>2, TopChangesOnly DEF AsyncInv, StackRunInv
<1>4. SameState(x) /\ (~Acts /\ ~ActsThen /\ status' = status => UNCHANGED Generator!vars)
  BY <1>1, <1>2, <1>3, Same
<1>5. Acts => x \in Runners /\ status[x] = "Running"
  BY <1>1, <1>2, ActsRunning
<1>6. ActsThen => x \in Runners /\ status'[x] = "Running"
  BY <1>1, <1>2, ActsThenRunning
<1>7. x \in Runners => status[x] \in {"Unused", "Running", "Finished"}
  BY DEF TypeInv, ObjectType
<1>8. CASE Acts /\ ActsThen
  BY <1>3, <1>4, <1>5, <1>6, <1>8, RunnerStays
<1>9. CASE Acts /\ ~ActsThen
  <2>1. status'[x] \in {"Running", "Finished"}
    BY <1>1, <1>2, <1>5, <1>9 DEF StatusMoves
  <2> QED
    BY <1>3, <1>4, <1>5, <1>9, <2>1, RunnerLeaves
<1>10. CASE ~Acts /\ ActsThen
  <2>1. status[x] # "Finished"
    BY <1>1, <1>2, <1>6, <1>10 DEF StatusMoves
  <2> QED
    BY <1>3, <1>4, <1>6, <1>7, <1>10, <2>1, RunnerResumes
<1>11. CASE ~Acts /\ ~ActsThen
  <2>1. CASE status' = status
    BY <1>4, <1>11, <2>1 DEF CoroutineStep
  <2>2. CASE status' # status
    <3>1. status[x] # "Running" /\ status'[x] = "Finished"
      BY <1>1, <1>2, <1>11, <2>2 DEF StatusMoves
    <3>2. CASE x \in Runners
      <4>1. ~OnStack(x)
        BY <3>1, OnStackRunning
      <4> QED
        BY <1>3, <1>4, <1>7, <1>11, <3>1, <3>2, <4>1, RunnerThrown
    <3>3. CASE x \notin Runners
      <4>1. \A q \in Runners : status'[q] = status[q]
        BY <1>1, <3>3, OthersStay
      <4>2. status' = status
        BY <4>1 DEF TypeInv, ObjectType
      <4> QED
        BY <2>2, <4>2
    <3> QED
      BY <3>2, <3>3
  <2> QED
    BY <2>1, <2>2
<1> QED
  BY <1>8, <1>9, <1>10, <1>11

\* The event loop calls, no body runs yet.
LEMMA LoopMaps ==
    ASSUME TypeInv, TypeInv', LoopNext
    PROVE  UNCHANGED Generator!vars
<1>1. PICK call : ~IsActivation(call) /\ calls = <<>> /\ calls' = <<call>> /\ status' = status
  <2>1. ASSUME NEW o, NEW call \in OpCalls(o) PROVE ~IsActivation(call)
    BY <2>1, CallNames DEF OpCalls, IsActivation
  <2>2. ASSUME NEW c PROVE /\ \A exc : ~IsActivation(Call("send", c, exc)) /\ ~IsActivation(Call("throw", c, exc))
                           /\ ~IsActivation(Call("close", c, "null"))
    BY CallNames DEF IsActivation
  <2> QED
    BY <2>1, <2>2 DEF LoopNext, StepTask, CancelTask, CloseTask, LoopStartsOp, LoopDrivesOp, LoopCalls, AtLoop, object
<1>2. Len(calls) = 0 /\ DOMAIN calls = {} /\ Len(calls') = 1 /\ DOMAIN calls' = {1} /\ calls'[1] = call
  BY <1>1
<1>3. \A r \in Runners : ~OnStack(r) /\ ~OnStack(r)'
  BY <1>1, <1>2 DEF OnStack
<1>4. \A r \in Runners : GeneratorState(r)' = GeneratorState(r) /\ Resumer(r)' = Resumer(r)
  BY <1>1, <1>3 DEF GeneratorState, Resumer
<1>5. Innermost(Len(calls)) = None /\ Innermost(Len(calls))' = None
  <2>1. \A i \in 1..0 : FALSE
    OBVIOUS
  <2>2. \A i \in 1..1 : i = 1
    OBVIOUS
  <2>3. InnermostOf(calls, 0) = None
    BY <2>1 DEF InnermostOf
  <2>4. InnermostOf(calls', 1) = None
    BY <1>1, <1>2, <2>2 DEF InnermostOf
  <2> QED
    BY <1>2, <2>3, <2>4, Maps
<1> QED
  BY <1>4, <1>5 DEF Generator!vars

LEMMA NextMaps ==
    ASSUME TypeInv, TypeInv', AsyncInv, AsyncInv', [Next]_vars
    PROVE  CoroutineStep
<1>1. CASE BodyNext \/ RunnerNext \/ OpNext
  BY <1>1, NextMoves, MoveMaps
<1>2. CASE LoopNext
  BY <1>2, LoopMaps DEF CoroutineStep
<1>3. CASE UNCHANGED vars
  <2>1. calls' = calls /\ status' = status
    BY <1>3 DEF vars, object
  <2>2. \A r \in Runners : OnStack(r)' <=> OnStack(r)
    BY <2>1 DEF OnStack
  <2>3. \A r \in Runners : GeneratorState(r)' = GeneratorState(r)
    BY <2>1, <2>2 DEF GeneratorState
  <2> QED
    BY <2>1, <2>3, Maps DEF CoroutineStep, Generator!vars
<1> QED
  BY <1>1, <1>2, <1>3 DEF Next

(***************************************************************************)
(* Coroutines and async generators are what GeneratorStates says of        *)
(* generators, IsCoroutine, whatever throws, closes and awaits there are:  *)
(* a body is entered only where it is suspended, and control goes back to  *)
(* the body that it came from.                                             *)
(***************************************************************************)
THEOREM IsCoroutineHolds == Spec => IsCoroutine
<1>1. Init => Generator!Init
  <2> SUFFICES ASSUME Init PROVE Generator!Init
    OBVIOUS
  <2>1. calls = <<>> /\ Len(calls) = 0 /\ DOMAIN calls = {} /\ \A r \in Runners : status[r] = "Unused"
    BY DEF Init
  <2>2. \A r \in Runners : GeneratorState(r) = "GEN_CREATED" /\ Resumer(r) = None
    BY <2>1 DEF GeneratorState, Resumer, OnStack
  <2>3. Innermost(Len(calls)) = None
    <3>1. \A i \in 1..0 : FALSE
      OBVIOUS
    <3> QED
      BY <2>1, <3>1 DEF Innermost
  <2> QED
    BY <2>2, <2>3 DEF Generator!Init
<1>2. TypeInv /\ TypeInv' /\ AsyncInv /\ AsyncInv' /\ [Next]_vars => [Generator!Next]_(Generator!vars)
  BY NextMaps DEF CoroutineStep
<1> QED
  BY <1>1, <1>2, TypeInvHolds, AsyncInvHolds, PTL DEF Spec, IsCoroutine, Generator!Spec

===============================================================================
