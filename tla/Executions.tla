------------------------------ MODULE Executions ------------------------------
(***************************************************************************)
(* What a function body does when it runs: for a set of states of its      *)
(* variables at the entry, all the states in which each of its nodes is    *)
(* reached and each way out is taken, whatever the calls do and however    *)
(* the conditions come out.  It is the meaning the optimization of the     *)
(* body has to keep.                                                       *)
(*                                                                         *)
(* The value of a variable is the assignment it comes from, Outside for    *)
(* one that other code has set, or Unset.                                  *)
(***************************************************************************)
EXTENDS Statements, FiniteSets

CONSTANT Interrupts     \* a signal handler may raise at the end of a loop

Unset == 0
Outside == -1

Ways == {"raise", "break", "continue", "return"}

(* "kind" says of a variable who uses it outside the function: nobody, one *)
(* that reads it, or one that writes it ("nonlocal").                      *)
AfterCall(kind, states) ==
    LET Values(v) == {s[v] : s \in states}
                         \cup (IF kind[v] = "written" THEN {Unset, Outside} ELSE {})
    IN  {t \in [DOMAIN kind -> UNION {Values(v) : v \in DOMAIN kind}] :
            \E s \in states : \A v \in DOMAIN kind :
                t[v] = s[v] \/ (kind[v] = "written" /\ t[v] \in {Unset, Outside})}

Nowhere == [at |-> {}, next |-> {}, raise |-> {}, break |-> {}, continue |-> {},
            return |-> {}]

Join(r, q) == [f \in DOMAIN r |-> r[f] \cup q[f]]

RECURSIVE Exec(_, _, _), ExecStatement(_, _, _), Iterations(_, _, _)

Exec(kind, seq, states) ==
    IF seq = <<>> \/ states = {} THEN [Nowhere EXCEPT !.next = states]
    ELSE LET r == ExecStatement(kind, Head(seq), states)
         IN  Join([r EXCEPT !.next = {}], Exec(kind, Tail(seq), r.next))

(* The states at the head of a loop, from those known so far.              *)
Iterations(kind, body, states) ==
    LET r == Exec(kind, body, states)
        more == states \cup r.next \cup r.continue
    IN  IF more = states THEN states ELSE Iterations(kind, body, more)

ExecStatement(kind, s, states) ==
    LET here == [Nowhere EXCEPT !.at = {<<s.n, st>> : st \in states}]
        has == {st \in states : s.var \in DOMAIN st => st[s.var] # Unset}
        Set(sts, value) == {[st EXCEPT ![s.var] = value] : st \in sts}
        part == s.parts
        Jumps(way) == [here EXCEPT ![way] = states]
    IN  CASE s.op = "assign" -> [here EXCEPT !.next = Set(states, s.n)]
          [] s.op = "call" ->
                [here EXCEPT !.next = AfterCall(kind, has),
                             !.raise = AfterCall(kind, has) \cup (states \ has)]
          [] s.op = "del" -> [here EXCEPT !.next = Set(has, Unset),
                                          !.raise = states \ has]
          [] s.op = "discard" -> [here EXCEPT !.next = Set(states, Unset)]
          [] s.op = "if" -> Join(here, Join(Exec(kind, part[1], states),
                                            Exec(kind, part[2], states)))
          [] s.op = "loop" ->
                LET r == Exec(kind, part[1], Iterations(kind, part[1], states))
                IN  Join(here, [r EXCEPT
                        !.next = r.break, !.break = {}, !.continue = {},
                        !.raise = @ \cup (IF Interrupts THEN r.next ELSE {})])
          [] s.op = "try" ->
                LET r == Exec(kind, part[1], states)
                    Handled(way, h) == IF h = <<>> THEN [Nowhere EXCEPT ![way] = r[way]]
                                       ELSE Exec(kind, h, r[way])
                IN  Join([here EXCEPT !.at = @ \cup r.at, !.next = r.next],
                    Join(Exec(kind, part[2], r.raise),
                    Join(Handled("break", part[3]),
                    Join(Handled("continue", part[4]), Handled("return", part[5])))))
          [] s.op \in {"raise", "reraise"} -> Jumps("raise")
          [] s.op \in {"return", "rereturn"} -> Jumps("return")
          [] s.op \in {"break", "continue"} -> Jumps(s.op)
=============================================================================
