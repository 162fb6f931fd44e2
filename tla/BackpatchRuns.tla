--------------------------- MODULE BackpatchRuns ---------------------------
(***************************************************************************)
(* What the quads of Backpatch do when they are executed, compared with    *)
(* what Meanings says of the syntax tree.                                  *)
(***************************************************************************)
EXTENDS Backpatch, Meanings

-----------------------------------------------------------------------------
(* What the quads do.  A function is run on its own; declaring it is passed over. *)

EndOf(start) ==
  CHOOSE e \in start + 1..Len(quads) - 1 :
    LET Count(op, n) == Cardinality({k \in start..n : quads[k + 1].op = op})
    IN  /\ Count("funcstart", e) = Count("funcend", e)
        /\ \A n \in start..e - 1 : Count("funcstart", n) > Count("funcend", n)

Machine == [run |-> Start, temps |-> [n \in 0..Len(quads) |-> "undef"], params |-> <<>>]

\* Whether a quad jumps: NumCond and JeqCond of the machine, on booleans.
Taken(op, a, b) ==
  CASE op = "if_eq" -> a = b
    [] op = "if_noteq" -> a # b
    [] op = "if_less" -> ~ Truth(a) /\ Truth(b)
    [] op = "if_lesseq" -> ~ Truth(a) \/ Truth(b)
    [] op = "if_greater" -> Truth(a) /\ ~ Truth(b)
    [] op = "if_greatereq" -> Truth(a) \/ ~ Truth(b)

Fetch(m, arg) ==
  CASE "temp" \in DOMAIN arg -> m.temps[arg.temp]
    [] "const" \in DOMAIN arg -> arg.const
    [] "var" \in DOMAIN arg -> m.run.x

Stored(m, place, v) ==
  IF "temp" \in DOMAIN place THEN [m EXCEPT !.temps[place.temp] = v] ELSE [m EXCEPT !.run.x = v]

\* The runs of the machine from quad pc on.  A program that needs more steps
\* than any with so few calls goes round without one.
MaxSteps == (MaxCalls + 1) * (Len(quads) + 1)

RECURSIVE Runs(_, _, _)

Runs(pc, m, steps) ==
  IF steps = 0 THEN {[m.run EXCEPT !.how = "spins"]}
  ELSE IF pc = Len(quads) THEN {m.run}
  ELSE
    LET q == quads[pc + 1]
        GoOn(to, then) == Runs(to, then, steps - 1)
    IN  CASE q.op = "jump" -> GoOn(q.label, m)
          [] q.op \in Range(IfOps) ->
               GoOn(IF Taken(q.op, Fetch(m, q.arg1), Fetch(m, q.arg2)) THEN q.label ELSE pc + 1, m)
          [] q.op = "assign" -> GoOn(pc + 1, Stored(m, q.result, Fetch(m, q.arg1)))
          [] q.op = "param" ->
               GoOn(pc + 1, [m EXCEPT !.params = <<Fetch(m, q.arg1)>> \o @])
          [] q.op = "call" ->
               UNION {IF r.how = "cut" THEN {r}
                      ELSE GoOn(pc + 1, [m EXCEPT !.run = r, !.params = <<>>]) :
                        r \in Called(m.run, q.arg1.func, m.params)}
          [] q.op = "getretval" -> GoOn(pc + 1, Stored(m, q.result, m.run.val))
          [] q.op = "funcstart" -> GoOn(EndOf(pc) + 1, m)
          [] q.op = "funcend" -> {m.run}
          [] q.op = "ret" ->
               {[m.run EXCEPT !.how = "return",
                              !.val = IF q.result = NoArg THEN "undef" ELSE Fetch(m, q.result)]}

QuadOutcomes(start) == {Outcome(r) : r \in Runs(start, Machine, MaxSteps)}

\* A finished program and each of its functions make the calls, with the
\* arguments, assign and return what its syntax tree says, whatever the
\* calls return (parser.y:228-263, 403-472, 724-746, 931-1003).
MeaningPreserved ==
  Finished =>
    /\ QuadOutcomes(0) = Outcomes(Top.stmts)
    /\ \A i \in DOMAIN bodies : QuadOutcomes(bodies[i].start + 1) = Outcomes(bodies[i].stmts)
=============================================================================
