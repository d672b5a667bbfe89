--------------------------- MODULE DirectExecution --------------------------
(***************************************************************************)
(* What memoization promises its users: none of it can be seen.  A call    *)
(* returns, and does to the tracked value, what running the bodies from    *)
(* scratch would.  Bodies run on a machine whose configuration has the     *)
(* calls under way, the tracked value, the immutable calls made so far and *)
(* what the run gives once it is over.                                     *)
(***************************************************************************)
EXTENDS Naturals, SequencesExt

CONSTANTS
  Funs, Args, States, Body(_, _, _), Result(_, _), Effect(_, _), Unit,
  Steps   \* the lengths of runs considered: Nat, unless TLC has to try them

VARIABLES value, last

Opened(fun, key) == [fun |-> fun, key |-> key, obs |-> <<>>]

(* The innermost call, if there is one, gets to see what it asked for *)
Observe(frames, val) ==
  IF frames = <<>> THEN <<>>
  ELSE [frames EXCEPT ![Len(frames)].obs = Append(@, val)]

Start(fun, key, s) ==
  [frames |-> <<Opened(fun, key)>>, state |-> s, asked |-> {}, value |-> Unit]

Move(c) ==
  LET top == Last(c.frames)
      op  == Body(top.fun, top.key, top.obs)
      ret == Result(op.call, c.state)
  IN IF c.frames = <<>> THEN c
     ELSE CASE op.op = "read" ->
            [c EXCEPT !.frames = Observe(@, ret), !.asked = @ \cup {op.call}]
       [] op.op = "write" ->
            [c EXCEPT !.frames = Observe(@, Unit), !.state = Effect(op.call, @)]
       [] op.op = "call" ->
            [c EXCEPT !.frames = Append(@, Opened(op.fun, op.key))]
       [] op.op = "return" ->
            [c EXCEPT !.frames = Observe(Front(@), op.value),
                      !.value = IF Len(c.frames) = 1 THEN op.value ELSE @]

(* The configuration n moves after c *)
Moves(c, n) ==
  LET at[i \in 0 .. n] == IF i = 0 THEN c ELSE Move(at[i - 1])
  IN at[n]

(* Running fun from state s returns val and leaves the state t *)
Runs(fun, key, s, val, t) ==
  \E n \in Steps : LET c == Moves(Start(fun, key, s), n)
                   IN c.frames = <<>> /\ c.value = val /\ c.state = t

Init == value \in States /\ last = [op |-> "none"]

(* What the call gave can be told by what is left of it *)
Call(fun, key) ==
  /\ last'.op = "call"
  /\ last' = [op |-> "call", fun |-> fun, key |-> key, before |-> value,
              value |-> last'.value, after |-> value']
  /\ Runs(fun, key, value, last'.value, value')

Edit == value' \in States /\ last' = [op |-> "none"]

Evict == last' = [op |-> "none"] /\ UNCHANGED value

Next == (\E f \in Funs, k \in Args : Call(f, k)) \/ Edit \/ Evict

Spec == Init /\ [][Next]_<<value, last>>
=============================================================================
