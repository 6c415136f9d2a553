----------------------------- MODULE MCBytecodeCache -----------------------------
(***************************************************************************)
(* Instances of BytecodeCache: a package with one module in it, and two    *)
(* keys: another module's, and one of the module that is asserted.         *)
(***************************************************************************)
EXTENDS BytecodeCache, TLC

CONSTANTS p, s, k1, k2

MCNames == {p, s}
MCPackages == (p :> {}) @@ (s :> {p})
MCKeys == {k1, k2}
MCAsserted == {k2}

Installed(forP, forS) == (p :> forP) @@ (s :> forS)
SubmoduleChanges ==
    {Installed("package", "absent"), Installed("package", "file")}

\* "from p import s" and "import p.s"
FromImport ==
    (k1 :> {[module |-> p, items |-> {s}]}) @@ (k2 :> {[module |-> s, items |-> {}]})
MCSynthetic == {p}

Symmetry == Permutations(Compilations)
=============================================================================
