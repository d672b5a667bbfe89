--------------------------- MODULE MemoizeSeveral ---------------------------
(***************************************************************************)
(* memoize2 to memoize6 of src/lib/memoize.mbt: memoized calls with        *)
(* several tracked parameters.  The variants differ in nothing but their   *)
(* number of parameters, here the length of the tuple of cells passed.     *)
(* One recorder is attached to the cell of each parameter.  The calls it   *)
(* gets are of one enum that says for which parameter a call is; there are *)
(* two ways of wiring that:                                                *)
(*   - all cells have the call type of the bundle, and the code that makes *)
(*     a call says for which parameter (src/lib/g5_shared.mbt);            *)
(*   - Merged: each cell has a call type of its own, and the closure given *)
(*     to attach wraps the call, passing on the hash it gets, which is     *)
(*     that of the call alone (g_eval of src/lib/gen_test.mbt, and the     *)
(*     wrapper that gen/gen.py writes).                                    *)
(*                                                                         *)
(* A cached entry keeps the array of mutable calls of its constraint       *)
(* itself, not a copy (Constraint::take), so constraints are objects with  *)
(* an identity, their position in constraints.                             *)
(*                                                                         *)
(* Views are made anew for every memoized call (track_mut, reborrow), so   *)
(* that a lookup finds no accelerated answer; Memoize has accelerators.    *)
(***************************************************************************)
EXTENDS DecisionPaths, Constraint, SequencesExt

CONSTANTS
  Cells,           \* tracked values
  States,          \* what a cell can be
  Worlds,          \* the states cells start in and are edited to
  Funs, Args,      \* memoized functions, their untracked arguments
  Tuples,          \* function |-> the tuples of cells the top level passes
  Body(_, _, _),   \* function, argument, observations |-> next operation
  Result(_, _),    \* immutable call, state |-> its return value
  Effect(_, _),    \* mutable call, state |-> the state after it
  Bypassed,        \* functions called with enabled = false
  Merged,          \* the wiring
  MaxAge,          \* bound: largest max_age passed to evict
  MaxRuns,         \* bound: constraints made before a top-level call runs
  MaxEdits         \* bound: edits of the cells

ASSUME WorldsAssumption == Worlds \subseteq States
ASSUME TuplesAssumption ==
  /\ DOMAIN Tuples = Funs
  /\ \A f \in Funs : \A t \in Tuples[f] : t \in Seq(Cells) /\ Len(t) \in 1 .. 6
ASSUME MergedAssumption == Merged \in BOOLEAN
ASSUME BoundsAssumption == MaxAge \in Nat /\ MaxRuns \in Nat /\ MaxEdits \in Nat

VARIABLES
  cells,         \* the tracked values
  slots,         \* cell |-> the recorders its calls reach, innermost first
  constraints,   \* every constraint made, running or not
  caches,        \* function |-> entries of its call tree
  stack,         \* the calls whose bodies are running, outermost first
  edits,         \* edits so far
  wasHit,        \* last_was_hit_flag of testing.mbt
  panicked,      \* a recorder ended the program
  last           \* the last top-level call that completed (history)

vars == <<cells, slots, constraints, caches, stack, edits, wasHit, panicked, last>>

Unit == "unit"

Top == Last(stack)
Running == stack # <<>>
NextOp == Body(Top.fun, Top.key, Top.obs)

(* The cell behind a parameter of the running body *)
CellOf(param) == Top.cells[param]

Init ==
  /\ cells \in [Cells -> Worlds]
  /\ slots = [c \in Cells |-> <<>>]
  /\ constraints = <<>>
  /\ caches = [f \in Funs |-> {}]
  /\ stack = <<>>
  /\ edits = 0
  /\ wasHit = FALSE /\ panicked = FALSE
  /\ last = [op |-> "none"]

-----------------------------------------------------------------------------
(* Recorders.  A link [con, param] of a chain records into constraint con  *)
(* what is heard on parameter param of con's call.                         *)

(* A faulty Tagged: every call is said to be for the first parameter *)
Untagged(link, param, call) == [param |-> 1, call |-> call]

(* The call that a link records, made on parameter param of the body *)
Tagged(link, param, call) ==
  [param |-> IF Merged THEN link.param ELSE param, call |-> call]

(* What the hash that comes with a recorded call tells of it *)
Hashed(tagged) == IF Merged THEN tagged.call ELSE tagged

(* The pairs under the hash of a call, [call, <<ret>>], or [call, <<>>]    *)
(* once a tree insertion has taken the pair.                               *)
RecordedAs(con, tagged) == {p \in Range(con.immutable) : Hashed(p.call) = Hashed(tagged)}

Conflict(con, tagged, ret) ==
  \E p \in RecordedAs(con, tagged) : p.ret \notin {<<>>, <<ret>>}

(* A faulty Record: a known return hash is taken for a known call *)
RecordOncePerReturn(con, tagged, ret) ==
  IF \E p \in Range(con.immutable) : p.ret = <<ret>> THEN con
  ELSE [con EXCEPT !.immutable = Append(@, [call |-> tagged, ret |-> <<ret>>])]

(* Constraint::record, for one link *)
Record(con, tagged, ret) ==
  IF RecordedAs(con, tagged) # {} THEN con
  ELSE [con EXCEPT !.immutable = Append(@, [call |-> tagged, ret |-> <<ret>>])]

(* The recorders of the cell are told of a call, innermost first *)
RecordRead(param, call, ret) ==
  LET links == slots[CellOf(param)]
      told[n \in 0 .. Len(links)] ==
        IF n = 0 THEN constraints
        ELSE [told[n - 1] EXCEPT ![links[n].con] = Record(@, Tagged(links[n], param, call), ret)]
  IN told[Len(links)]

RecordWrite(cons, cell, param, call) ==
  LET links == slots[cell]
      told[n \in 0 .. Len(links)] ==
        IF n = 0 THEN cons
        ELSE [told[n - 1] EXCEPT ![links[n].con] =
                RecordMutable(@, <<Tagged(links[n], param, call)>>)]
  IN told[Len(links)]

(* attach of each parameter in turn: its link goes in front of the chain   *)
(* it finds, which it returns for detach.                                  *)
Attach(tuple, con) ==
  LET at[n \in 0 .. Len(tuple)] ==
        IF n = 0 THEN slots
        ELSE [at[n - 1] EXCEPT ![tuple[n]] = <<[con |-> con, param |-> n]>> \o @]
  IN [slots |-> at[Len(tuple)], prevs |-> [n \in 1 .. Len(tuple) |-> at[n - 1][tuple[n]]]]

(* A faulty Detach: the last parameter keeps its recorder *)
DetachAllButLast(tuple, prevs) ==
  LET left[n \in 0 .. Len(tuple)] ==
        IF n = 0 THEN slots ELSE [left[n - 1] EXCEPT ![tuple[n]] = prevs[n]]
  IN left[Len(tuple) - 1]

(* detach of each parameter, in the order they were attached in *)
Detach(tuple, prevs) ==
  LET left[n \in 0 .. Len(tuple)] ==
        IF n = 0 THEN slots ELSE [left[n - 1] EXCEPT ![tuple[n]] = prevs[n]]
  IN left[Len(tuple)]

-----------------------------------------------------------------------------
(* Lookup.                                                                 *)

(* The calls that the entries of fun ask *)
Asks(fun) == UNION {CallsOf(e.path) : e \in caches[fun]}

(* The generated oracle sends a merged call to the parameter it names *)
Oracle(fun, tuple) == [c \in Asks(fun) |-> <<Result(c.call, cells[tuple[c.param]])>>]

Hits(fun, key, tuple) == Matching(caches[fun], key, Oracle(fun, tuple))

(* A completed call hands its value to the body that made it, or to the    *)
(* top level.                                                              *)
Complete(frames, fun, key, tuple, before, val, hit) ==
  /\ stack' = IF frames = <<>> THEN <<>>
              ELSE [frames EXCEPT ![Len(frames)].obs = Append(@, val)]
  /\ last' = IF frames = <<>>
               THEN [op |-> "call", fun |-> fun, key |-> key, cells |-> tuple,
                     before |-> before, value |-> val, after |-> cells', hit |-> hit]
               ELSE last

(* replay_mut of the entry's mutable calls in order, each through the      *)
(* parameter it was made on: the cell changes and its recorders are told.  *)
Replayed(calls, tuple) ==
  LET done[n \in 0 .. Len(calls)] ==
        IF n = 0 THEN [cells |-> cells, cons |-> constraints]
        ELSE LET c == calls[n]
                 cell == tuple[c.param]
             IN [cells |-> [done[n - 1].cells EXCEPT ![cell] = Effect(c.call, @)],
                 cons  |-> RecordWrite(done[n - 1].cons, cell, c.param, c.call)]
  IN done[Len(calls)]

Hit(fun, key, tuple) ==
  /\ fun \notin Bypassed
  /\ \E e \in Hits(fun, key, tuple) :
       LET done == Replayed(constraints[e.con].mutable, tuple) IN
       /\ caches' = [caches EXCEPT ![fun] = (@ \ {e}) \cup {[e EXCEPT !.age = 0]}]
       /\ cells' = done.cells
       /\ constraints' = done.cons
       /\ Complete(stack, fun, key, tuple, cells, e.value, TRUE)
  /\ wasHit' = TRUE
  /\ UNCHANGED <<slots, edits, panicked>>

Frame(fun, key, tuple, con, prevs) ==
  [fun |-> fun, key |-> key, cells |-> tuple, con |-> con, prevs |-> prevs,
   obs |-> <<>>, before |-> cells]

WithinBound == Running \/ Len(constraints) < MaxRuns

Miss(fun, key, tuple) ==
  /\ fun \notin Bypassed
  /\ Hits(fun, key, tuple) = {}
  /\ WithinBound
  /\ LET con == Len(constraints) + 1
         attached == Attach(tuple, con)
     IN /\ slots' = attached.slots
        /\ constraints' = Append(constraints, EmptyConstraint)
        /\ stack' = Append(stack, Frame(fun, key, tuple, con, attached.prevs))
  /\ UNCHANGED <<cells, caches, edits, wasHit, panicked, last>>

(* enabled = false: no lookup, recorder or insertion *)
Bypass(fun, key, tuple) ==
  /\ fun \in Bypassed
  /\ WithinBound
  /\ stack' = Append(stack, Frame(fun, key, tuple, 0, <<>>))
  /\ wasHit' = FALSE
  /\ UNCHANGED <<cells, slots, constraints, caches, edits, panicked, last>>

Call(fun, key, tuple) ==
  Hit(fun, key, tuple) \/ Miss(fun, key, tuple) \/ Bypass(fun, key, tuple)

-----------------------------------------------------------------------------
(* The body of the innermost call.                                         *)

Active(op) == Running /\ ~panicked /\ NextOp.op = op

Observe(val) == stack' = [stack EXCEPT ![Len(stack)].obs = Append(@, val)]

Seen == Result(NextOp.call, cells[CellOf(NextOp.param)])

Impure ==
  \E l \in Range(slots[CellOf(NextOp.param)]) :
    Conflict(constraints[l.con], Tagged(l, NextOp.param, NextOp.call), Seen)

BodyRead ==
  /\ Active("read") /\ ~Impure
  /\ constraints' = RecordRead(NextOp.param, NextOp.call, Seen)
  /\ Observe(Seen)
  /\ UNCHANGED <<cells, slots, caches, edits, wasHit, panicked, last>>

(* A recorder has another return hash for the call: panic() *)
ReadPanic ==
  /\ Active("read") /\ Impure
  /\ panicked' = TRUE
  /\ UNCHANGED <<cells, slots, constraints, caches, stack, edits, wasHit, last>>

BodyWrite ==
  /\ Active("write")
  /\ cells' = [cells EXCEPT ![CellOf(NextOp.param)] = Effect(NextOp.call, @)]
  /\ constraints' = RecordWrite(constraints, CellOf(NextOp.param), NextOp.param, NextOp.call)
  /\ Observe(Unit)
  /\ UNCHANGED <<slots, caches, edits, wasHit, panicked, last>>

(* A memoized call that passes on parameters of the body *)
BodyCall ==
  /\ Active("call")
  /\ Call(NextOp.fun, NextOp.key, [i \in DOMAIN NextOp.params |-> CellOf(NextOp.params[i])])

BypassReturn ==
  /\ Active("return") /\ Top.fun \in Bypassed
  /\ cells' = cells
  /\ Complete(Front(stack), Top.fun, Top.key, Top.cells, Top.before, NextOp.value, FALSE)
  /\ UNCHANGED <<slots, constraints, caches, edits, wasHit, panicked>>

(* Insertion under the constraint the body left; an error is dropped *)
Tree == caches[Top.fun]
Path == constraints[Top.con].immutable

(* The pairs that extract can find: the walk asks with the hash of the     *)
(* whole call, which is not the one a merged call was recorded under.      *)
Extractable == IF Merged THEN <<>> ELSE Path

Lacks == LacksCall(Tree, Top.key, Extractable)
Fails == AlreadyThere(Tree, Top.key, Extractable) \/ Lacks

NewEntry ==
  [key |-> Top.key, path |-> NewPath(Tree, Top.key, Path), value |-> NextOp.value,
   con |-> Top.con, age |-> 0]

(* The walk takes the calls it asks out of the sequence, a new path all *)
Taken ==
  IF Fails
    THEN {x.call : x \in Reached(Tree, Top.key, Extractable)} \cap CallsOf(Extractable)
  ELSE CallsOf(Path)

LeftOf(path, taken) ==
  [n \in DOMAIN path |->
     IF path[n].call \in taken THEN [path[n] EXCEPT !.ret = <<>>] ELSE path[n]]

Consumed == [constraints EXCEPT ![Top.con].immutable = LeftOf(Path, Taken)]

FlagKept == wasHit' = wasHit              \* faulty RegisterMiss: left out
RegisterMiss == wasHit' = FALSE

Return ==
  /\ Active("return") /\ Top.fun \notin Bypassed
  /\ cells' = cells
  /\ slots' = Detach(Top.cells, Top.prevs)
  /\ caches' = IF Fails THEN caches ELSE [caches EXCEPT ![Top.fun] = @ \cup {NewEntry}]
  /\ constraints' = Consumed
  /\ RegisterMiss
  /\ Complete(Front(stack), Top.fun, Top.key, Top.cells, Top.before, NextOp.value, FALSE)
  /\ UNCHANGED <<edits, panicked>>

-----------------------------------------------------------------------------
(* The top level.                                                          *)

TopCall ==
  /\ ~Running /\ ~panicked
  /\ \E f \in Funs, k \in Args : \E t \in Tuples[f] : Call(f, k, t)

Edit ==
  /\ ~Running /\ ~panicked /\ edits < MaxEdits
  /\ \E c \in Cells : \E w \in Worlds \ {cells[c]} : cells' = [cells EXCEPT ![c] = w]
  /\ edits' = edits + 1
  /\ last' = [op |-> "none"]
  /\ UNCHANGED <<slots, constraints, caches, stack, wasHit, panicked>>

Evict(maxAge) ==
  /\ ~Running /\ ~panicked
  /\ caches' = [f \in Funs |->
       {[e EXCEPT !.age = @ + 1] : e \in {x \in caches[f] : x.age + 1 <= maxAge}}]
  /\ last' = [op |-> "none"]
  /\ UNCHANGED <<cells, slots, constraints, stack, edits, wasHit, panicked>>

Next ==
  \/ TopCall \/ Edit
  \/ \E m \in 0 .. MaxAge : Evict(m)
  \/ BodyRead \/ ReadPanic \/ BodyWrite \/ BodyCall \/ BypassReturn \/ Return

Spec == Init /\ [][Next]_vars
=============================================================================
