----------------------------- MODULE ValueTracing -----------------------------
(***************************************************************************)
(* The tracing of the values of a function's variables, and what it makes  *)
(* of the function body: one Pass is one computation of the body, that     *)
(* follows all its paths with a collection of the traces that are current, *)
(* forks the collection at branches, merges it behind them, and removes    *)
(* what it proves useless.  Passes are repeated until none changes the     *)
(* body, and for as long as another function of the module changes.        *)
(*                                                                         *)
(* A trace is <<b, level>>: the b-th one that the pass gave the variable,  *)
(* as it is ("plain"), after its content "escaped", or after other code    *)
(* may have set the variable ("unknown").  These are the versions modulo 3 *)
(* of the code.  The state of the computation is one record t:             *)
(*   rec    the plain traces of each variable                              *)
(*   col    the collection: the current traces, and whether there may be   *)
(*          one a call can make escape (has_unescaped_variables)           *)
(*   exits  the collections at each way out that is caught                 *)
(*   ref    the trace a node has found for its variable                    *)
(*   noted  the nodes that annotated an exception exit for a variable that *)
(*          may be unset                                                   *)
(*   changed, failed  did the pass change anything, or end with an error   *)
(* and what nodes remember from pass to pass: vars and hints of the loops, *)
(* and may, the tried_may_raise of each "try".                             *)
(***************************************************************************)
EXTENDS Executions, FiniteSetsExt, SequencesExt, TLC

CONSTANT Cases      \* records of a body and the kind of each variable

VARIABLES kind,     \* who else uses a variable: see Executions
          source,   \* the body before any optimization
          body,
          t,        \* the last computation of the body
          complete  \* is all use of the variables known (locals_scope.complete)

vars == <<kind, source, body, t, complete>>

Var == DOMAIN kind

-----------------------------------------------------------------------------
(* What traces say.                                                        *)

Rec(s, v, tr) == s.rec[v][tr[1]]
Plain(b) == <<b, "plain">>

RECURSIVE MustHave(_, _, _, _), MustNot(_, _, _), Unchanged(_, _, _, _),
          MutUnchanged(_, _, _, _)

(* mustHaveValue of a merge: its traces have no merge among them.          *)
AllAssigned(s, v, r) == \A p \in r.from : p[2] = "plain" /\ Rec(s, v, p).k = "assign"

(* mustHaveValue; "open" are the loop traces that are being asked.         *)
MustHave(s, v, tr, open) ==
    LET r == Rec(s, v, tr)
    IN  /\ tr[2] # "unknown"
        /\ CASE r.k = "assign" -> TRUE
             [] r.k \in {"uninit", "del"} -> FALSE
             [] r.k = "merge" -> AllAssigned(s, v, r)
             [] r.k = "loop" ->
                    IF r.stable THEN MustHave(s, v, r.entry, open)
                    ELSE IF ~r.done THEN r.must
                    ELSE tr[1] \in open
                         \/ \A p \in r.from \cup {r.entry} :
                                MustHave(s, v, p, open \cup {tr[1]})

MustNot(s, v, tr) ==
    LET r == Rec(s, v, tr)
    IN  /\ tr[2] # "unknown"
        /\ \/ r.k \in {"uninit", "del"}
           \/ r.k = "merge" /\ \A p \in r.from : MustNot(s, v, p)

(* Mutant: one unchanged trace of a merge is taken for all.                *)
MutUnchanged(s, v, tr, entry) ==
    \/ tr = entry
    \/ tr[2] # "plain" /\ MutUnchanged(s, v, Plain(tr[1]), entry)
    \/ /\ tr[2] = "plain"
       /\ Rec(s, v, tr).k = "merge"
       /\ \E p \in Rec(s, v, tr).from : MutUnchanged(s, v, p, entry)

(* isUnchangedResumeTrace, for the entry trace of a loop.                  *)
Unchanged(s, v, tr, entry) ==
    \/ tr = entry
    \/ tr[2] # "plain" /\ Unchanged(s, v, Plain(tr[1]), entry)
    \/ /\ tr[2] = "plain"
       /\ Rec(s, v, tr).k = "merge"
       /\ \A p \in Rec(s, v, tr).from : Unchanged(s, v, p, entry)

Must(s, n, v) == MustHave(s, v, s.ref[n], {})

-----------------------------------------------------------------------------
(* The collection.                                                         *)

(* markCurrentVariableTrace                                                *)
Marked(col, v, tr) == [live |-> (v :> tr) @@ col.live, esc |-> TRUE]

(* The same with a trace that is new.                                      *)
Set(s, v, r) ==
    [s EXCEPT !.rec = (v :> Append(@[v], r)) @@ @,
              !.col = Marked(@, v, Plain(Len(s.rec[v]) + 1))]

Trace(k, n) == [k |-> k, n |-> n]

(* markActiveVariableAsEscaped                                             *)
Escaped(s, v) ==
    LET tr == s.col.live[v]
    IN  IF tr[2] = "plain" /\ Rec(s, v, tr).k # "uninit" THEN <<tr[1], "escaped">> ELSE tr

Escape(s, v) ==
    IF Escaped(s, v) = s.col.live[v] THEN s
    ELSE [s EXCEPT !.col = Marked(@, v, Escaped(s, v))]

(* onControlFlowEscape: who knows what the called code does.               *)
MayBeSetOutside(s, v) == kind[v] = "written" \/ (kind[v] = "read" /\ ~complete)
MayBeUsedOutside(s, v) == kind[v] = "read" \/ ~complete

ControlFlowEscape(s) ==
    IF ~s.col.esc THEN s
    ELSE [s EXCEPT !.col = [live |-> [v \in Var |->
                                IF MayBeSetOutside(s, v) THEN <<s.col.live[v][1], "unknown">>
                                ELSE IF MayBeUsedOutside(s, v) THEN Escaped(s, v)
                                ELSE s.col.live[v]],
                            esc |-> FALSE]]

(* onLoopBreak, onLoopContinue, onFunctionReturn                           *)
Exit(s, way) == [s EXCEPT !.exits[way] = Append(@, s.col)]

RaiseExit(s) ==
    IF s.exits.raise # <<>> /\ Last(s.exits.raise) = s.col THEN s ELSE Exit(s, "raise")

(* mergeBranches and mergeMultipleBranches.  A trace goes where its        *)
(* escaped form is there too.                                              *)
Kept(traces) == {tr \in traces : ~(tr[2] = "plain" /\ <<tr[1], "escaped">> \in traces)}

(* A merge takes what is merged by one in its place, unless that escaped.  *)
Shorted(s, v, traces) ==
    UNION {IF tr[2] = "plain" /\ Rec(s, v, tr).k = "merge" THEN Rec(s, v, tr).from ELSE {tr}
             : tr \in traces}

Merge(s, v, traces) == [k |-> "merge", n |-> 0, from |-> Shorted(s, v, traces)]

Combined(s, cols) ==
    LET Traces(v) == Kept({cols[i].live[v] : i \in DOMAIN cols})
        new == {v \in Var : Cardinality(Traces(v)) > 1}
    IN  [s EXCEPT
            !.rec = [v \in Var |->
                        IF v \in new THEN Append(@[v], Merge(s, v, Traces(v))) ELSE @[v]],
            !.col = [live |-> [v \in Var |-> IF v \in new THEN Plain(Len(s.rec[v]) + 1)
                                             ELSE CHOOSE tr \in Traces(v) : TRUE],
                     esc |-> new # {} \/ \E i \in DOMAIN cols : cols[i].esc]]

MergeMultiple(s, cols) ==
    IF Len(cols) = 1 \/ (Len(cols) = 2 /\ cols[1].live = cols[2].live)
    THEN [s EXCEPT !.col = cols[1]]
    ELSE Combined(s, cols)

MergeBranch(s, col) ==
    IF s.col.live = col.live THEN s ELSE Combined(s, <<s.col, col>>)

-----------------------------------------------------------------------------
(* What statements can do, as far as the tracing knows.                    *)

RECURSIVE May(_, _, _), MayOne(_, _, _), Aborting(_, _), AbortingOne(_, _)

Handlers(x) == {x.parts[i] : i \in 3..5} \ {<<>>}

(* mayRaiseException, mayBreak, mayContinue and mayReturn of a sequence.   *)
May(s, way, seq) == \E i \in DOMAIN seq : MayOne(s, way, seq[i])

MayOne(s, way, x) ==
    CASE x.op \in {"return", "rereturn"} -> way = "return"
      [] x.op \in {"break", "continue"} -> way = x.op
      [] x.op \in {"raise", "reraise", "call"} -> way = "raise"
      [] x.op = "del" -> way = "raise" /\ ~(x.n \in DOMAIN s.ref /\ Must(s, x.n, x.var))
      [] x.op \in {"assign", "discard"} -> FALSE
      [] x.op = "if" -> May(s, way, x.parts[1]) \/ May(s, way, x.parts[2])
      [] x.op = "loop" -> way = "raise" \/ (way = "return" /\ May(s, way, x.parts[1]))
      [] x.op = "try" -> \/ way # "raise" /\ May(s, way, x.parts[1])
                         \/ x.n \notin s.quiet /\ May(s, way, x.parts[2])
                         \/ \E h \in Handlers(x) : May(s, way, h)

(* isStatementAborting: nothing behind it is reached.                      *)
Aborting(s, seq) == seq # <<>> /\ AbortingOne(s, Last(seq))

AbortingOne(s, x) ==
    CASE x.op \in Ways \cup {"reraise", "rereturn"} -> TRUE
      [] x.op \in {"assign", "call", "del", "discard"} -> FALSE
      [] x.op = "if" -> Aborting(s, x.parts[1]) /\ Aborting(s, x.parts[2])
      [] x.op = "loop" -> ~May(s, "break", x.parts[1])
      [] x.op = "try" -> /\ x.n \notin s.quiet => Aborting(s, x.parts[2])
                         /\ \A h \in Handlers(x) : Aborting(s, h)
                         /\ Aborting(s, x.parts[1])

-----------------------------------------------------------------------------
(* The computation of statements: each gives the state behind it, and the  *)
(* statements it is replaced with.                                         *)

Result(s, seq) == [t |-> s, seq |-> seq]
Replaced(s, seq) == Result([s EXCEPT !.changed = TRUE], seq)
Failure(s, x) == Result([s EXCEPT !.failed = TRUE], <<x>>)

(* Then(value), with the value computed only once.                         *)
With(value, Then(_)) == CHOOSE y \in {Then(x) : x \in {value}} : TRUE

(* The reference to the variable of a node.                                *)
Refer(s, x) == [s EXCEPT !.ref = (x.n :> s.col.live[x.var]) @@ @]
Checked(s, x) ==
    IF Must(s, x.n, x.var) THEN s ELSE [RaiseExit(s) EXCEPT !.noted = @ \cup {x.n}]

Fails(s, x) == Replaced(s, <<[x EXCEPT !.op = "raise"]>>)

ComputeAssign(s, x) == Result(Set(s, x.var, Trace("assign", x.n)), <<x>>)

Called(s, x) == With(ControlFlowEscape(s), LAMBDA q : Result(RaiseExit(q), <<x>>))

ComputeCall(s, x) ==
    IF x.var = NoVar THEN Called(s, x)
    ELSE With(Checked(Refer(s, x), x),
              LAMBDA r : IF MustNot(r, x.var, r.ref[x.n]) THEN Fails(r, x)
                         ELSE With(Escape(r, x.var), LAMBDA q : Called(q, x)))

Deleted(s, x) == Result(ControlFlowEscape(Set(s, x.var, Trace("del", x.n))), <<x>>)

ComputeDel(s, x) ==
    With(Checked(Refer(s, x), x),
         LAMBDA r : IF MustNot(r, x.var, r.ref[x.n]) THEN Fails(r, x) ELSE Deleted(r, x))

ComputeDiscard(s, x) ==
    IF MustNot(s, x.var, s.col.live[x.var]) THEN Replaced(s, <<>>) ELSE Deleted(s, x)

ComputeJump(s, x) ==
    Result(CASE x.op \in {"raise", "reraise"} -> RaiseExit(s)
             [] x.op \in {"return", "rereturn"} -> Exit(s, "return")
             [] x.op \in {"break", "continue"} -> Exit(s, x.op), <<x>>)

RECURSIVE Compute(_, _), ComputeStatement(_, _), ComputeIf(_, _),
          ComputeLoop(_, _), ComputeTry(_, _)

(* computeStatementsSequence: a statement that is left out takes no part,  *)
(* nothing behind one that is aborting does.                               *)
Compute(s, seq) ==
    IF seq = <<>> THEN Result(s, <<>>)
    ELSE With(ComputeStatement(s, Head(seq)),
              LAMBDA r :
                IF Tail(seq) # <<>> /\ Aborting(r.t, r.seq) THEN Replaced(r.t, r.seq)
                ELSE With(Compute(r.t, Tail(seq)),
                          LAMBDA rest : Result(rest.t, r.seq \o rest.seq)))

ComputeStatement(s, x) ==
    CASE x.op = "assign" -> ComputeAssign(s, x)
      [] x.op = "call" -> ComputeCall(s, x)
      [] x.op = "del" -> ComputeDel(s, x)
      [] x.op = "discard" -> ComputeDiscard(s, x)
      [] x.op = "if" -> ComputeIf(s, x)
      [] x.op = "loop" -> ComputeLoop(s, x)
      [] x.op = "try" -> ComputeTry(s, x)
      [] x.op \in Ways \cup {"reraise", "rereturn"} -> ComputeJump(s, x)

In(s, col) == [s EXCEPT !.col = col]

(* The branches of x, computed one after the other from the collection col.*)
Branched(col, x, yes, no) ==
    LET r == In(no.t, col)
        endsYes == Aborting(r, yes.seq)
        endsNo == Aborting(r, no.seq)
        goesOn == (IF x.parts[1] # <<>> /\ ~endsYes THEN <<yes.t.col>> ELSE <<>>)
                     \o (IF x.parts[2] # <<>> /\ ~endsNo THEN <<no.t.col>> ELSE <<>>)
    IN  IF goesOn = <<>> THEN r
        ELSE IF endsYes \/ endsNo THEN In(r, goesOn[1])
        ELSE IF Len(goesOn) = 1 THEN MergeBranch(r, goesOn[1])
        ELSE MergeMultiple(r, goesOn)

ComputeIf(s, x) ==
    With(Compute(s, x.parts[1]),
    LAMBDA yes : With(Compute(In(yes.t, s.col), x.parts[2]),
    LAMBDA no :
        LET r == Branched(s.col, x, yes, no)
        IN  IF yes.seq = <<>> /\ no.seq = <<>> THEN Replaced(r, <<>>)
            ELSE IF yes.seq = <<>> THEN Replaced(r, <<[x EXCEPT !.parts = <<no.seq, <<>>>>]>>)
            ELSE Result(r, <<[x EXCEPT !.parts = <<yes.seq, no.seq>>]>>)))

LoopVars(s, x) == {v \in Var : <<x.n, v>> \in s.loop}

(* Mutant: a variable has a value in the body, unless it turns out not to. *)
MutLoopEntered(s, x) ==
    FoldSet(LAMBDA v, r :
                Set(r, v, [k |-> "loop", n |-> x.n, from |-> {}, entry |-> r.col.live[v],
                           done |-> FALSE, stable |-> <<x.n, v>> \in s.stable,
                           must |-> TRUE]),
            [s EXCEPT !.exits.break = <<>>, !.exits.continue = <<>>], LoopVars(s, x))

(* The traces with which the variables of a loop enter it.                 *)
LoopEntered(s, x) ==
    FoldSet(LAMBDA v, r :
                Set(r, v, [k |-> "loop", n |-> x.n, from |-> {}, entry |-> r.col.live[v],
                           done |-> FALSE, stable |-> <<x.n, v>> \in s.stable,
                           must |-> <<x.n, v>> \in s.must]),
            [s EXCEPT !.exits.break = <<>>, !.exits.continue = <<>>], LoopVars(s, x))

(* _noteValueIdentityStable and _noteMustHaveValue: what is known in the   *)
(* next pass.  Another one is needed for what is gained only.              *)
Noted(hints, hint, holds) == IF holds THEN hints \cup {hint} ELSE hints \ {hint}

(* Mutant: what is known already counts as gained.                         *)
MutHinted(s, hint, stable, must) ==
    [s EXCEPT !.stable = Noted(@, hint, stable), !.must = Noted(@, hint, must),
              !.changed = @ \/ stable \/ must]

Hinted(s, hint, stable, must) ==
    [s EXCEPT !.stable = Noted(@, hint, stable), !.must = Noted(@, hint, must),
              !.changed = \/ @
                          \/ stable /\ hint \notin s.stable
                          \/ must /\ hint \notin s.must]

(* The loop trace of a variable, when the body has been traced: the traces *)
(* with which it comes back are known now.                                 *)
Resumed(s, x, v, entry) ==
    LET resume == {s.exits.continue[i].live[v] : i \in DOMAIN s.exits.continue}
        own == {tr \in resume : tr[2] = "plain" /\ Rec(s, v, tr).k = "loop"
                                                /\ Rec(s, v, tr).n = x.n}
        proven == Cardinality(resume) <= 1 /\ own = resume
        done == [Rec(s, v, entry) EXCEPT !.done = TRUE, !.from = IF proven THEN {} ELSE resume]
    IN  With([s EXCEPT !.rec = (v :> [@[v] EXCEPT ![entry[1]] = done]) @@ @],
             LAMBDA r : IF proven THEN [r EXCEPT !.loop = @ \ {<<x.n, v>>},
                                                 !.stable = @ \ {<<x.n, v>>},
                                                 !.must = @ \ {<<x.n, v>>},
                                                 !.changed = TRUE]
                        ELSE Hinted(r, <<x.n, v>>,
                                    \A tr \in resume : Unchanged(r, v, tr, entry),
                                    MustHave(r, v, entry, {})))

LoopTraced(s, x) ==
    With(LoopEntered(s, x),
    LAMBDA in : With(Compute(in, x.parts[1]),
    LAMBDA b : With(IF b.seq = <<>> \/ Aborting(b.t, b.seq) THEN b.t ELSE Exit(b.t, "continue"),
    LAMBDA r : Result(FoldSet(LAMBDA v, q : Resumed(q, x, v, in.col.live[v]), r, LoopVars(s, x)),
                      b.seq))))

(* Behind the loop: where its breaks lead.                                 *)
LoopLeft(s, x, r) ==
    LET out == [r.t EXCEPT !.col = s.col, !.exits.break = s.exits.break,
                           !.exits.continue = s.exits.continue]
        breaks == r.t.exits.break
        last == IF r.seq = <<>> THEN "" ELSE Last(r.seq).op
        Body(seq) == <<[x EXCEPT !.parts = <<seq>>]>>
    IN  With(IF breaks = <<>> THEN out ELSE MergeMultiple(out, breaks),
             LAMBDA m :
                IF last = "break" /\ r.t.exits.continue = <<>> /\ Len(breaks) = 1
                THEN Replaced(m, Front(r.seq))
                ELSE IF last = "continue"
                THEN IF Len(r.seq) = 1 THEN Failure(m, x)   \* no "subnode_body"
                     ELSE Replaced(RaiseExit(m), Body(Front(r.seq)))
                ELSE Result(RaiseExit(m), Body(r.seq)))

ComputeLoop(s, x) ==
    IF x.parts[1] = <<>> THEN Result(RaiseExit(s), <<x>>)
    ELSE With(LoopTraced(s, x), LAMBDA r : LoopLeft(s, x, r))

Handled == [break |-> 3, continue |-> 4, return |-> 5]

(* Mutant: a "break", "continue" or "return" is moved out like the others. *)
MutMoved(s, x) ==
    LET tried == x.parts[1]
        stays == {i \in DOMAIN tried : MayOne(s, "raise", tried[i])}
        first == IF stays = {} THEN Len(tried) + 1 ELSE Min(stays)
        last == IF stays = {} \/ ~Aborting(s, x.parts[2]) THEN Len(tried) ELSE Max(stays)
    IN  [pre |-> SubSeq(tried, 1, first - 1), tried |-> SubSeq(tried, first, last),
         post |-> SubSeq(tried, last + 1, Len(tried))]

(* Statements at the ends of the tried block that no handler is for.       *)
Moved(s, x) ==
    LET tried == x.parts[1]
        Stays(y) == \/ MayOne(s, "raise", y)
                    \/ \E w \in DOMAIN Handled : x.parts[Handled[w]] # <<>> /\ MayOne(s, w, y)
        stays == {i \in DOMAIN tried : Stays(tried[i])}
        first == IF stays = {} THEN Len(tried) + 1 ELSE Min(stays)
        last == IF stays = {} \/ ~Aborting(s, x.parts[2]) THEN Len(tried) ELSE Max(stays)
    IN  [pre |-> SubSeq(tried, 1, first - 1), tried |-> SubSeq(tried, first, last),
         post |-> SubSeq(tried, last + 1, Len(tried))]

Caught(x) == {"raise"} \cup {w \in DOMAIN Handled : x.parts[Handled[w]] # <<>>}

(* The tried block, and then what the exits of the "try" itself are.       *)
Tried(s, x) ==
    Compute([s EXCEPT !.exits = [w \in Caught(x) |-> <<>>] @@ @], x.parts[1])

Uncaught(s, x, r) ==
    LET quiet == x.n \in s.quiet \/ ~May(r.t, "raise", r.seq)
    IN  [r.t EXCEPT !.exits = [w \in Caught(x) |-> s.exits[w]] @@ @,
                    !.quiet = IF quiet THEN @ \cup {x.n} ELSE @,
                    !.changed = @ \/ (quiet /\ x.parts[2] # <<>>)]

(* The handler of one way out of the tried block r.                        *)
Handler(s, col, x, r, w) ==
    LET h == x.parts[Handled[w]]
    IN  IF h = <<>> \/ ~May(s, w, r.seq) THEN Result(s, <<>>)
        ELSE IF r.t.exits[w] = <<>> THEN Failure(s, x)
        ELSE Compute(MergeMultiple(In(s, col), r.t.exits[w]), h)

TryReduced(s, x, may) ==
    LET mv == Moved(s, x)
    IN  IF /\ ~may \/ (x.parts[2] # <<>> /\ x.parts[2][1].op = "reraise")
           /\ \A w \in DOMAIN Handled : x.parts[Handled[w]] = <<>>
        THEN Replaced(s, x.parts[1])
        ELSE IF mv.tried = <<>> THEN Failure(s, x)
        ELSE IF mv.pre = <<>> /\ mv.post = <<>> THEN Result(s, <<x>>)
        ELSE Replaced(s, mv.pre \o <<[x EXCEPT !.parts[1] = mv.tried]>> \o mv.post)

ComputeTry(s, x) ==
    With(Tried(s, x),
    LAMBDA r :
      IF r.seq = <<>> THEN Replaced([r.t EXCEPT !.exits = s.exits], <<>>)
      ELSE With(Uncaught(s, x, r),
    LAMBDA out :
      LET may == x.n \notin out.quiet IN
      IF may /\ r.t.exits.raise = <<>> THEN Failure(out, x)
      ELSE With(IF may THEN Compute(MergeMultiple(In(out, s.col), r.t.exits.raise), x.parts[2])
                ELSE Result(out, <<>>),
    LAMBDA e : With(Handler(e.t, s.col, x, r, "break"),
    LAMBDA b : With(Handler(b.t, s.col, x, r, "continue"),
    LAMBDA c : With(Handler(c.t, s.col, x, r, "return"),
    LAMBDA f :
      LET back == IF f.seq # <<>> /\ f.seq[1].op = "rereturn" THEN <<>> ELSE f.seq
          m == IF ~may \/ Aborting(f.t, e.seq) THEN In(f.t, r.t.col)
               ELSE IF Aborting(f.t, r.seq) THEN In(f.t, [r.t.col EXCEPT !.live = e.t.col.live])
               ELSE MergeBranch(In(f.t, r.t.col), e.t.col)
      IN  With(m, LAMBDA q :
              TryReduced(q, [x EXCEPT !.parts = <<r.seq, e.seq, b.seq, c.seq, back>>], may))))))))

-----------------------------------------------------------------------------
(* TraceCollectionFunction, for the variables that are the function's own. *)
(* The releases of them at its end are behind a "try" around the body, so  *)
(* that all ways out are caught.                                           *)
Started ==
    [t EXCEPT !.rec = [v \in Var |-> <<Trace("uninit", 0)>>],
              !.col = [live |-> [v \in Var |-> Plain(1)], esc |-> TRUE],
              !.exits = [w \in Ways |-> <<>>] @@ <<>>,
              !.ref = <<>>, !.noted = {}, !.changed = FALSE]

Init ==
    /\ \E c \in Cases : kind = c.kind /\ source = Numbered(c.body, 1)
    /\ body = source
    /\ t = [rec |-> <<>>, col |-> <<>>, exits |-> <<>>, ref |-> <<>>, noted |-> {},
            changed |-> TRUE, failed |-> FALSE, quiet |-> {}, stable |-> {}, must |-> {},
            loop |-> UNION {{<<x.n, v>> : v \in Var \cap {y.var : y \in Nodes(<<x>>)}}
                                : x \in {y \in Nodes(source) : y.op = "loop"}}]
    /\ complete = FALSE

(* One computation of the body; the module is complete after its first.    *)
Pass ==
    /\ ~t.failed
    /\ \E r \in {Compute(Started, body)} :
           /\ t' = [r.t EXCEPT !.changed = @ \/ ~complete]
           /\ body' = r.seq
    /\ complete' = TRUE
    /\ UNCHANGED <<kind, source>>

Next == Pass

Spec == Init /\ [][Next]_vars /\ WF_vars(Pass)

-----------------------------------------------------------------------------
(* What the properties compare: the executions of a body from its entry,   *)
(* where no variable has a value, and the nodes of it that use one.        *)
Shown(b) == Exec(kind, b, [Var -> {Unset}])
Uses(b) == {x \in Nodes(b) : x.op \in {"call", "del"} /\ x.var # NoVar}

(* The passes are over: this is what C code is generated from.             *)
Settled == ~t.changed /\ ~t.failed

(***************************************************************************)
(* Where the generated code uses a variable without a check for NULL, as   *)
(* mustHaveValue of its trace allows, the variable has a value in every    *)
(* execution of the source: in all orders of the branches, exceptions and  *)
(* iterations, and whatever the functions that share the variable do.      *)
(***************************************************************************)
HasValueWhenClaimed ==
    Settled =>
        LET at == Shown(source).at
        IN  \A x \in Uses(body) : Must(t, x.n, x.var) =>
                \A a \in at : a[1] = x.n => a[2][x.var] # Unset

(***************************************************************************)
(* After any pass: a use of a variable whose trace is an assignment, and   *)
(* so may be replaced with the value that was assigned, has the value of   *)
(* that assignment in every execution that gets there.                     *)
(***************************************************************************)
AssignedAsClaimed ==
    LET at == Shown(source).at
    IN  \A x \in Uses(body) : x.n \in DOMAIN t.ref =>
            LET tr == t.ref[x.n]
            IN  tr[2] # "unknown" /\ Rec(t, x.var, tr).k = "assign" =>
                    \A a \in at : a[1] = x.n => a[2][x.var] = Rec(t, x.var, tr).n

(***************************************************************************)
(* The traces claim nothing that is false: both of these.                  *)
(***************************************************************************)
ClaimsHold == HasValueWhenClaimed /\ AssignedAsClaimed

(***************************************************************************)
(* What a pass leaves out, turns into an error, or moves out of a "try" or *)
(* a loop changes nothing: the body can leave in the same ways with the    *)
(* same values in the variables, and every statement that is still there   *)
(* is reached in the same states as in the source.                         *)
(***************************************************************************)
SameBehaviour ==
    LET was == Shown(source)
        now == Shown(body)
        ids == {x.n : x \in {y \in Nodes(body) : y.op # "try"}}
    IN  /\ \A way \in {"next", "raise", "return"} : was[way] = now[way]
        /\ {a \in now.at : a[1] \in ids} = {a \in was.at : a[1] \in ids}

(***************************************************************************)
(* Where the generated code checks a variable and raises, the pass that it *)
(* is generated from has annotated that exit, so that handlers were traced *)
(* for it: what a reference answers when it is computed, with the loops    *)
(* around it still open, is not less than what it answers afterwards.      *)
(***************************************************************************)
ExitsAnnotated ==
    Settled => \A x \in Uses(body) : ~Must(t, x.n, x.var) => x.n \in t.noted

(***************************************************************************)
(* The passes over a body come to an end: what loops note of a variable    *)
(* for the next pass, and give up again, asks for finitely many of them.   *)
(***************************************************************************)
Settles == <>[](~t.changed)
=============================================================================
