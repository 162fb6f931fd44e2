---------------------------- MODULE Activations ----------------------------
(***************************************************************************)
(* What a call promises to the Alpha program: every activation of a        *)
(* function has arguments and locals of its own; an instruction changes at *)
(* most one variable, of the running activation or global; a call hands    *)
(* over exactly the arguments pushed for it, the last one pushed first,    *)
(* after the table itself when a table is called; a return resumes the     *)
(* caller, whose variables are as it left them.                            *)
(*                                                                         *)
(* There is no stack here and no addresses.  What the instructions compute *)
(* is left open: only what they may touch is said.                         *)
(***************************************************************************)
EXTENDS Integers, Sequences, FiniteSets

CONSTANTS Undef   \* the value of a variable that was not assigned

VARIABLES
  globals,  \* from the numbers of the globals to values
  frames,   \* the active calls, oldest first: arguments, locals, where to return
  pending,  \* the arguments pushed for the coming call, the last one first
  retval,
  pc,
  running

vars == <<globals, frames, pending, retval, pc, running>>

Init ==
  /\ globals = [g \in DOMAIN globals |-> Undef]
  /\ frames = <<>>
  /\ pending = <<>>
  /\ retval = Undef
  /\ pc = 0
  /\ running \in BOOLEAN

Last == frames[Len(frames)]

\* The arguments as called: what was pushed, and a called table before it.
Passed(args) == args = pending \/ (args # <<>> /\ Tail(args) = pending)

Differences(f, g) == {x \in DOMAIN f : f[x] # g[x]}

\* The variables that a step changes, tagged with where they live.
Changed ==
  {<<"global", x>> : x \in Differences(globals, globals')}
    \cup (IF retval' = retval THEN {} ELSE {<<"retval">>})
    \cup (IF frames = <<>> THEN {} ELSE
            {<<"arg", x>> : x \in Differences(Last.args, Last'.args)}
              \cup {<<"local", x>> : x \in Differences(Last.locals, Last'.locals)})

\* The step keeps the activations: who they are, and all but the last whole.
SameActivations ==
  /\ DOMAIN globals' = DOMAIN globals
  /\ Len(frames') = Len(frames)
  /\ \A k \in 1..Len(frames) - 1 : frames'[k] = frames[k]
  /\ frames # <<>> => /\ Last'.ret = Last.ret
                      /\ DOMAIN Last'.args = DOMAIN Last.args
                      /\ DOMAIN Last'.locals = DOMAIN Last.locals

Compute ==
  /\ pending = <<>> /\ pending' = <<>>
  /\ SameActivations
  /\ Cardinality(Changed) <= 1

Push ==
  /\ pending' # <<>> /\ Tail(pending') = pending
  /\ pc' = pc + 1
  /\ UNCHANGED <<globals, frames, retval>>

\* A new activation, whose locals do not exist before its first instruction.
Call ==
  /\ Len(frames') = Len(frames) + 1
  /\ \A k \in 1..Len(frames) : frames'[k] = frames[k]
  /\ Passed(Last'.args)
  /\ Last'.locals = <<>>
  /\ Last'.ret = pc + 1
  /\ pending' = <<>>
  /\ UNCHANGED <<globals, retval, running>>

Enter ==
  /\ pending = <<>>
  /\ frames # <<>> /\ Last.locals = <<>>
  /\ \E n \in {Cardinality(DOMAIN Last'.locals)} :
       frames' = [frames EXCEPT ![Len(frames)].locals = [x \in 0..n - 1 |-> Undef]]
  /\ pc' = pc + 1
  /\ UNCHANGED <<globals, pending, retval, running>>

Return ==
  /\ pending = <<>>
  /\ frames # <<>> /\ frames' = SubSeq(frames, 1, Len(frames) - 1)
  /\ pc' = Last.ret
  /\ UNCHANGED <<globals, pending, retval, running>>

\* A library function sees the pending arguments and answers in retval.
LibCall ==
  /\ pending' = <<>>
  /\ pc' = pc + 1
  /\ UNCHANGED <<globals, frames, running>>

\* The machine stops at a call that it cannot make.
Stop ==
  /\ ~ running'
  /\ pending' = <<>>
  /\ UNCHANGED <<globals, frames, retval>>

Next == running /\ (Compute \/ Push \/ Call \/ Enter \/ Return \/ LibCall \/ Stop)

Spec == Init /\ [][Next]_vars
=============================================================================
