-------------------------- MODULE MCOnefileBootstrap --------------------------
(***************************************************************************)
(* A payload of the program, a library, and maybe a symbolic link to it.   *)
(***************************************************************************)
EXTENDS OnefileBootstrap

Files == <<"program", "library">>
FilesAndLink == <<"program", "link", "library">>

NoLinks == [e \in {} |-> "library"]
OneLink == [e \in {"link"} |-> "library"]
===============================================================================
