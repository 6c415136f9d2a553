------------------------- MODULE MCModuleOptimization -------------------------
(***************************************************************************)
(* A program "main" that imports the submodule "ab" of the package "a" and *)
(* the standard library module "s", which the user included too; "t" that  *)
(* is there for the standard library alone, an extension module "x", a     *)
(* module "opt" that a plugin follows once "ab" is there, a trigger module *)
(* "trig" of "ab" and a fake module "fake" of "s".                         *)
(***************************************************************************)
EXTENDS ModuleOptimization

Table(f) == [n \in Names |-> IF n \in DOMAIN f THEN f[n] ELSE {}]

MCNames == {"main", "a", "ab", "s", "t", "x", "opt", "trig", "fake"}
MCRoots == {"main", "s"}
MCPackage == [n \in Names |-> IF n = "ab" THEN "a" ELSE "toplevel"]
MCFollow == [n \in Names |-> CASE n \in {"opt"} -> "none"
                               [] n \in {"main"} -> "false"
                               [] OTHER -> "true"]
MCKind == [n \in Names |-> CASE n \in {"s", "t", "trig"} -> "bytecode"
                             [] n = "opt" -> "uncompiled"
                             [] n = "x" -> "extension"
                             [] OTHER -> "compiled"]
MCImports == Table([main |-> {"ab", "s"}, a |-> {"t"}, ab |-> {"opt"},
                    s |-> {"t"}, opt |-> {"x", "t"}])
MCStdlib == {"t"}
MCImplicit == Table([x |-> {"a"}])
MCAutoFollow == Table([ab |-> {"opt"}])
MCTriggers == Table([ab |-> {"trig"}])
MCFakes == Table([s |-> {"fake"}])

\* A plugin or the profile asks for bytecode for all modules it has not seen.
KindFakeBytecode == [MCKind EXCEPT !["fake"] = "bytecode"]
===============================================================================
