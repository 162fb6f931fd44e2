------------------------------ MODULE Meanings ------------------------------
(***************************************************************************)
(* What the expressions and statements of an Alpha program mean, told from *)
(* their structure and without jumps: operands from left to right, "and"   *)
(* and "or" only as far as they are needed, loops and their break and      *)
(* continue.                                                               *)
(*                                                                         *)
(* A value is "true" or "false".  Calls are all that can be observed: each *)
(* is recorded with its arguments and with the value it returns, which may *)
(* be either.  A run goes on for at most MaxCalls calls, so a loop that    *)
(* does not end is followed as far as that.                                *)
(***************************************************************************)
EXTENDS Integers, Sequences

CONSTANT MaxCalls

Bits == {"true", "false"}

Truth(v) == v = "true"
Bit(b)   == IF b THEN "true" ELSE "false"

\* The relational operators: false is less than true.
Relational == {"eq", "noteq", "less", "lesseq", "greater", "greatereq"}

Holds(op, a, b) ==
  LET Rank(v) == IF Truth(v) THEN 1 ELSE 0 IN
    \/ op \in {"eq", "lesseq", "greatereq"} /\ Rank(a) = Rank(b)
    \/ op \in {"less", "lesseq", "noteq"} /\ Rank(a) < Rank(b)
    \/ op \in {"greater", "greatereq", "noteq"} /\ Rank(a) > Rank(b)

\* A run: the calls so far, the variable x, the value of the expression or
\* the return, and how the run left: "normal", "break", "continue",
\* "return", or "cut" after MaxCalls calls.
Start == [trace |-> <<>>, x |-> "undef", val |-> "undef", how |-> "normal"]

Called(run, callee, args) ==
  IF Len(run.trace) = MaxCalls THEN {[run EXCEPT !.how = "cut"]}
  ELSE {[run EXCEPT !.trace = Append(@, [callee |-> callee, args |-> args, result |-> v]),
                    !.val = v] : v \in Bits}

\* Where the runs that left normally can go on to.
Then(runs, Step(_)) == UNION {IF r.how = "normal" THEN Step(r) ELSE {r} : r \in runs}

RECURSIVE Eval(_, _), Apply(_, _, _, _), EvalList(_, _), Exec(_, _), ExecList(_, _), Loop(_, _)

Eval(e, run) ==
  CASE e.op = "call" -> Apply(e.callee, e.args, <<>>, run)
    [] e.op \in Relational ->
         Then(Eval(e.left, run), LAMBDA l :
           Then(Eval(e.right, l), LAMBDA r : {[r EXCEPT !.val = Bit(Holds(e.op, l.val, r.val))]}))
    [] e.op = "and" ->
         Then(Eval(e.left, run), LAMBDA l : IF Truth(l.val) THEN Eval(e.right, l) ELSE {l})
    [] e.op = "or" ->
         Then(Eval(e.left, run), LAMBDA l : IF Truth(l.val) THEN {l} ELSE Eval(e.right, l))
    [] e.op = "not" ->
         Then(Eval(e.left, run), LAMBDA l : {[l EXCEPT !.val = Bit(~ Truth(@))]})
    [] e.op = "assign" ->
         Then(Eval(e.left, run), LAMBDA l : {[l EXCEPT !.x = l.val]})

\* vals: of the arguments before args.
Apply(callee, args, vals, run) ==
  IF args = <<>> THEN Called(run, callee, vals)
  ELSE Then(Eval(Head(args), run),
            LAMBDA r : Apply(callee, Tail(args), Append(vals, r.val), r))

EvalList(exprs, run) ==
  IF exprs = <<>> THEN {run}
  ELSE Then(Eval(Head(exprs), run), LAMBDA r : EvalList(Tail(exprs), r))

Exec(s, run) ==
  CASE s.op = "expr" -> Eval(s.cond, run)
    [] s.op = "if" ->
         Then(Eval(s.cond, run), LAMBDA c : IF Truth(c.val) THEN Exec(s.body, c) ELSE {c})
    [] s.op = "ifelse" ->
         Then(Eval(s.cond, run), LAMBDA c : Exec(IF Truth(c.val) THEN s.body ELSE s.other, c))
    [] s.op = "for" -> Then(EvalList(s.init, run), LAMBDA r : Loop(s, r))
    [] s.op \in {"break", "continue"} -> {[run EXCEPT !.how = s.op]}
    [] s.op = "return" ->
         Then(EvalList(s.value, run),
              LAMBDA r : {[r EXCEPT !.how = "return", !.val = IF s.value = <<>> THEN "undef" ELSE @]})
    [] s.op = "block" -> ExecList(s.stmts, run)

ExecList(stmts, run) ==
  IF stmts = <<>> THEN {run}
  ELSE Then(Exec(Head(stmts), run), LAMBDA r : ExecList(Tail(stmts), r))

\* A while is a for with nothing before the loop and nothing between its rounds.
Loop(s, run) ==
  Then(Eval(s.cond, run), LAMBDA c :
    IF ~ Truth(c.val) THEN {c}
    ELSE UNION {CASE b.how = "break" -> {[b EXCEPT !.how = "normal"]}
                  [] b.how \in {"normal", "continue"} ->
                       Then(EvalList(s.step, [b EXCEPT !.how = "normal"]), LAMBDA r : Loop(s, r))
                  [] OTHER -> {b} : b \in Exec(s.body, c)})

\* What can be seen of a run.
Outcome(run) ==
  [trace |-> run.trace, x |-> run.x, how |-> run.how,
   val |-> IF run.how = "return" THEN run.val ELSE "undef"]

Outcomes(stmts) == {Outcome(r) : r \in ExecList(stmts, Start)}
=============================================================================
