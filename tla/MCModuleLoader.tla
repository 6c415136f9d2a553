--------------------------- MODULE MCModuleLoader ---------------------------
EXTENDS ModuleLoader, TLC

CONSTANTS t1, t2, p, c, q, x, g, f, y

\* A package p, a module c in it and q import each other.  x runs before c, and
\* imports it.  There is a fixed import of f in the package g, which imports c
\* and has y run after it.
MCNames == {p, c, q, x, g, f, y}
Nowhere == [m \in MCNames |-> None]
MCParent == [Nowhere EXCEPT ![c] = p, ![f] = g]
MCPreLoad == [Nowhere EXCEPT ![c] = x]
MCPostLoad == [Nowhere EXCEPT ![f] = y]
MCUses == [m \in MCNames |->
    CASE m \in {p, q, x} -> {c} [] m = c -> {p, q} [] m = f -> {c} [] m = y -> {f} [] OTHER -> {}]

\* g.p.c
DeepParent == [Nowhere EXCEPT ![c] = p, ![p] = g]
NoUses == [m \in MCNames |-> {}]

Symmetric == Permutations(Threads)
=============================================================================
