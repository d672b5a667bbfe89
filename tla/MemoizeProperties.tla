-------------------------- MODULE MemoizeProperties -------------------------
(***************************************************************************)
(* That memoization cannot be seen: what the runtime promises, measured    *)
(* against running the functions from scratch.  MemoizeInvariants has the  *)
(* properties that need no such comparison.                                *)
(***************************************************************************)
EXTENDS MemoizeInvariants

CONSTANT Steps   \* the lengths of direct runs considered: Nat, but for TLC

(* Outside the running calls the tracked value has not moved yet *)
Direct == INSTANCE DirectExecution WITH
  value <- IF Running THEN stack[1].before ELSE value,
  last  <- IF last.op = "call"
             THEN [op |-> "call", fun |-> last.fun, key |-> last.key,
                   before |-> last.before, value |-> last.value, after |-> last.after]
             ELSE [op |-> "none"]

(* What a mutable call does to an answer depends on that answer alone *)
Uniform ==
  \A w \in Writes, c \in Reads : \A s, t \in States :
    Result(c, s) = Result(c, t) => Result(c, Effect(w, s)) = Result(c, Effect(w, t))

(* An immutable call made for the first time after n moves of a run gets   *)
(* the answer that it would have had when the run began.                   *)
FreshReads(fun, key, n) ==
  \A s \in States :
    LET c == Direct!Moves(Direct!Start(fun, key, s), n)
    IN \A call \in Direct!Move(c).asked \ c.asked : Result(call, c.state) = Result(call, s)

(* Memoization is invisible: every top-level call returns and leaves       *)
(* behind what a run from scratch would, whether it hit or missed, through *)
(* whatever nested calls, edits and evictions came before (memoize,        *)
(* mutable replay, Cache::lookup and insert).                              *)
Transparent == Direct!Spec

(* A recorded path is enough to trust an entry: in any state of the world  *)
(* that answers its calls as recorded, running the function would give the *)
(* same output and the recorded writes would do what the run does.  This   *)
(* is what lets Cache::lookup stand in for running the function.           *)
EntriesSound ==
  \A f \in Funs : \A e \in caches[f] : \A s \in States :
    (\A q \in Range(e.path) : Result(q.call, s) = q.ret) =>
      Direct!Runs(f, e.key, s, e.value, Replay(e.mutable, s))
=============================================================================
