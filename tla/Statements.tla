------------------------------ MODULE Statements ------------------------------
(***************************************************************************)
(* The statement nodes of a function body, as far as they matter for the   *)
(* values of its variables.  An expression is opaque: the call of "call"   *)
(* can run any code and raise, the condition of "if" neither ("p is q").   *)
(*   parts   <<yes, no>> of an "if", <<body>> of a "loop", and <<tried,    *)
(*           except, break, continue, return>> of a "try"; an empty one is *)
(*           None in the code                                              *)
(*   n       the identity of the node                                      *)
(***************************************************************************)
EXTENDS Integers, Sequences

NoVar == "-"

Node(op, var, parts) == [op |-> op, var |-> var, parts |-> parts, n |-> 0]

Assign(v) == Node("assign", v, <<>>)     \* of a constant
Call(v) == Node("call", v, <<>>)         \* a call with v, or NoVar, as argument
Del(v) == Node("del", v, <<>>)
Discard(v) == Node("discard", v, <<>>)   \* the tolerant "del"
If(yes, no) == Node("if", NoVar, <<yes, no>>)
Loop(body) == Node("loop", NoVar, <<body>>)
Jump(op) == Node(op, NoVar, <<>>)

TryExcept(tried, handler) ==
    Node("try", NoVar, <<tried, handler, <<>>, <<>>, <<>>>>)

(* A copy of the final block in the handler of every way out of the tried  *)
(* block, and one behind it.                                               *)
TryFinally(tried, ways, final) ==
    LET Handler(way, jump) == IF way \in ways THEN Append(final, Jump(jump)) ELSE <<>>
    IN  <<Node("try", NoVar, <<tried, Handler("raise", "reraise"),
                               Handler("break", "break"),
                               Handler("continue", "continue"),
                               Handler("return", "rereturn")>>)>> \o final

RECURSIVE Size(_), Numbered(_, _), NumberedParts(_, _), Nodes(_)

Size(seq) ==
    IF seq = <<>> THEN 0
    ELSE LET RECURSIVE Sum(_)
             Sum(parts) == IF parts = <<>> THEN 0
                           ELSE Size(Head(parts)) + Sum(Tail(parts))
         IN  1 + Sum(Head(seq).parts) + Size(Tail(seq))

(* The statements with the identities from n on, in the source's order.    *)
Numbered(seq, n) ==
    IF seq = <<>> THEN <<>>
    ELSE LET s == [Head(seq) EXCEPT !.n = n, !.parts = NumberedParts(@, n + 1)]
         IN  <<s>> \o Numbered(Tail(seq), n + Size(<<s>>))

NumberedParts(parts, n) ==
    IF parts = <<>> THEN <<>>
    ELSE <<Numbered(Head(parts), n)>>
             \o NumberedParts(Tail(parts), n + Size(Head(parts)))

(* The nodes of a sequence, and those below them.                          *)
Nodes(seq) ==
    UNION {{seq[i]} \cup UNION {Nodes(seq[i].parts[j]) : j \in DOMAIN seq[i].parts}
               : i \in DOMAIN seq}
=============================================================================
