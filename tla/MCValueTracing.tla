---------------------------- MODULE MCValueTracing ----------------------------
(***************************************************************************)
(* The function bodies that the runs start from.  Each template fixes a    *)
(* structure (a loop, a "try" with a handler, with a final block, one      *)
(* within the other) and fills its places with the statements that can     *)
(* change what is known of a variable there.                               *)
(***************************************************************************)
EXTENDS ValueTracing

A == <<Assign("x")>>
C == <<Call("x")>>
O == <<Call(NoVar)>>
D == <<Del("x")>>
I == <<Discard("x")>>
J(op) == <<Jump(op)>>
Nothing == {<<>>}
Some == {<<>>, A, O, D}

Loops ==
    {a \o <<Loop(p \o <<If(q \o e, r)>> \o u)>> \o C :
        a \in {<<>>, A}, p \in Some, q \in Some, e \in {J("break"), J("return")},
        r \in {<<>>, J("continue"), D}, u \in {<<>>, A, C, D}}

Tries ==
    {a \o <<TryExcept(b \o c \o d \o e, h \o g)>> \o k \o C :
        a \in {<<>>, A}, b \in Some, c \in {O, D}, d \in {<<>>, A, I},
        e \in {<<>>, J("raise")}, h \in Some, g \in {<<>>, J("return")}, k \in {<<>>, O}}

TriedLoops ==
    {a \o <<TryExcept(<<Loop(b \o <<If(c \o J("break"), <<>>)>> \o d)>>, f)>> \o C :
        a \in {<<>>, A}, b \in {<<>>, A, C, I}, c \in {<<>>, A, D},
        d \in {<<>>, A, D, I}, f \in {<<>>, A, C, J("return")}}

Finallies ==
    {a \o TryFinally(b \o c \o <<If(d, J("return"))>> \o e, {"raise", "return"}, f) \o C :
        a \in {<<>>, A}, b \in {<<>>, A, I}, c \in {O, C, D}, d \in Some,
        e \in {<<>>, A}, f \in Some}

LoopTries ==
    {a \o <<Loop(b \o <<TryExcept(c \o <<If(d, J("break"))>>, f \o g)>> \o h)>> \o C :
        a \in {<<>>, A}, b \in {<<>>, I}, c \in {O, C}, d \in {<<>>, A, D, J("continue")},
        f \in Some, g \in {<<>>, J("break"), J("continue")}, h \in {<<>>, D}}

LoopFinallies ==
    {a \o <<Loop(b \o TryFinally(O \o <<If(d \o J("break"), e)>>,
                                 {"raise", "break", "continue"}, f) \o h)>> \o C :
        a \in {<<>>, A}, b \in {<<>>, A}, d \in {<<>>, A, D},
        e \in {<<>>, J("continue"), A \o J("continue"), D}, f \in {<<>>, A, D}, h \in {<<>>, C}}

NestedLoops ==
    {a \o <<Loop(b \o <<Loop(c \o <<If(d \o J("break"), e)>>)>> \o
                 <<If(J("break"), <<>>)>> \o h)>> \o C :
        a \in {<<>>, A}, b \in {<<>>, A, D}, c \in {<<>>, C, D}, d \in {<<>>, A, D},
        e \in {<<>>, A, D}, h \in {<<>>, A, D}}

(* Branches in branches: merges of merges.                                 *)
Branches ==
    {a \o <<If(<<If(b, c)>> \o d, e)>> \o <<TryExcept(C \o f, g)>> \o C :
        a \in {<<>>, A}, b \in {A, D}, c \in {<<>>, A, D}, d \in {<<>>, O},
        e \in {<<>>, A, D}, f \in {<<>>, A, O}, g \in {<<>>, A, D}}

(* Two variables: what one does to the collection, the other shares.       *)
E == <<Assign("y")>>
F == <<Call("y")>>
Pairs ==
    {a \o <<If(b, c)>> \o O \o <<TryExcept(d \o O \o e, f)>> \o C \o F :
        a \in {A, E, A \o E}, b \in {<<>>, D, E}, c \in {<<>>, E, A},
        d \in {<<>>, A, E}, e \in {<<>>, A, D, E}, f \in {<<>>, A, E, C}}

All == UNION {Loops, Tries, TriedLoops, Finallies, LoopTries, LoopFinallies, NestedLoops,
              Branches}

Shared == UNION {Loops, Tries, LoopTries, Branches}

Of(bodies, who) == [body : bodies, kind : {[x |-> who]}]

Sound == UNION {Of(All, "local"), Of(Shared, "read"), Of(Finallies \cup Branches, "written"),
                [body : Pairs, kind : {[x |-> "local", y |-> "written"],
                                       [x |-> "read", y |-> "local"]}]}

(* A closure changes the variable in a loop that does not name it.         *)
LoopsOfCalls ==
    Of({a \o <<Loop(p \o <<If(J(e), <<>>)>> \o u)>> \o c :
           a \in {<<>>, A}, p \in {<<>>, O}, e \in {"break", "return"}, u \in {<<>>, O},
           c \in {C, D}}, "written")
===============================================================================
