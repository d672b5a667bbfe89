-------------------------- MODULE SeveralProperties -------------------------
(***************************************************************************)
(* What memoized calls with several tracked parameters promise: to be      *)
(* invisible.                                                              *)
(***************************************************************************)
EXTENDS SeveralInvariants

CONSTANT Steps   \* the lengths of direct runs considered: Nat, but for TLC

(* A body run directly gets its cells with its argument, and names the     *)
(* cell where it names a parameter.                                        *)
DirectBody(f, k, obs) ==
  LET op == Body(f, k.key, obs) IN
  IF op.op = "return" THEN op
  ELSE IF op.op = "call"
    THEN [op |-> "call", fun |-> op.fun,
          key |-> [key |-> op.key,
                   cells |-> [i \in DOMAIN op.params |-> k.cells[op.params[i]]]]]
    ELSE [op |-> op.op, call |-> [cell |-> k.cells[op.param], call |-> op.call]]

Direct == INSTANCE DirectExecution WITH
  Args   <- [key : Args, cells : UNION {Tuples[f] : f \in Funs}],
  States <- [Cells -> States],
  Body   <- DirectBody,
  Result <- LAMBDA c, s : Result(c.call, s[c.cell]),
  Effect <- LAMBDA c, s : [s EXCEPT ![c.cell] = Effect(c.call, @)],
  value  <- IF Running THEN stack[1].before ELSE cells,
  last   <- IF last.op = "call"
              THEN [op |-> "call", fun |-> last.fun,
                    key |-> [key |-> last.key, cells |-> last.cells],
                    before |-> last.before, value |-> last.value, after |-> last.after]
              ELSE [op |-> "none"]

(* Memoization over several cells is invisible, whichever cell is passed   *)
(* for which parameter, and the same two in either order (memoize2 to      *)
(* memoize6, with the merged calls of the generated oracle and replay).    *)
Transparent == Direct!Spec
=============================================================================
