-------------------------- MODULE SeveralInvariants -------------------------
(***************************************************************************)
(* The properties of memoized calls with several tracked parameters that   *)
(* speak of their own state, and the inductive invariant that the proofs   *)
(* of SeveralProofs use.                                                   *)
(***************************************************************************)
EXTENDS MemoizeSeveral

CONSTANT Arity   \* function |-> the number of its tracked parameters

(* The constraints a running call may still record into *)
Live == {stack[d].con : d \in DOMAIN stack}

(* A recorder hears a cell only while its call runs, and only as the       *)
(* parameters the cell was passed for; inner calls come first (attach and  *)
(* detach of tracked.mbt).                                                 *)
ChainsNest ==
  \A c \in Cells :
    /\ Range(slots[c]) =
         UNION {{[con |-> stack[d].con, param |-> i] :
                   i \in {j \in DOMAIN stack[d].cells : stack[d].cells[j] = c}} :
                d \in {e \in DOMAIN stack : stack[e].fun \notin Bypassed}}
    /\ \A m, n \in DOMAIN slots[c] : m < n => slots[c][m].con >= slots[c][n].con

(* What a completed call has recorded is never written again: not its      *)
(* sequence, and not the replay list that its cached entry shares with it. *)
(* tracked.mbt:59-62 gives detach as the reason.                           *)
FinishedUntouched ==
  [][\A n \in DOMAIN constraints \ Live : constraints'[n] = constraints[n]]_vars

(* The purity check of a recorder never takes one parameter's call for     *)
(* another's: it ends the program only over a cell that its own call has   *)
(* heard being written, by itself, a nested call or the replay of a hit    *)
(* (the panic of insert_with_hash).                                        *)
OnlyWritersBlamed ==
  panicked =>
    \E l \in Range(slots[CellOf(NextOp.param)]) :
      \E w \in Range(constraints[l.con].mutable) : w.param = NextOp.param

(* A body that depends on nothing but what it reads records, at every      *)
(* question of its tree that it gets to, an answer: tree.mbt:53-56 takes   *)
(* a missing one for a sign of non-determinism (CallTree::insert).         *)
NoCallMissing == Active("return") /\ Top.fun \notin Bypassed => ~Lacks

(* last_was_hit() tells of the outermost call. *)
HitFlagExact ==
  last.op = "call" /\ ~Running /\ last.fun \notin Bypassed => wasHit = last.hit

-----------------------------------------------------------------------------
(* The inductive invariant. *)

FrameFields == {"fun", "key", "cells", "con", "prevs", "obs", "before"}
EntryFields == {"key", "path", "value", "con", "age"}

Recording(frame) == frame.fun \notin Bypassed

Distinctly(tuple) == \A i, j \in DOMAIN tuple : tuple[i] = tuple[j] => i = j

(* The links of a cell that frame attached *)
LinksOf(frame, c) ==
  {[con |-> frame.con, param |-> i] :
     i \in {j \in DOMAIN frame.cells : frame.cells[j] = c}}

(* s holds the links of cell c among the first n frames, innermost first *)
IsChain(s, frames, n, c) ==
  /\ s \in Seq(Range(s))
  /\ Range(s) = UNION {LinksOf(frames[d], c) : d \in {e \in 1 .. n : Recording(frames[e])}}
  /\ \A i, j \in DOMAIN s : i < j => s[i].con > s[j].con

(* The running calls: each on cells of its own for all its parameters, no  *)
(* more than the call around it has, and a recorded one with a constraint  *)
(* made after those around it.                                             *)
Shaped(frames, made) ==
  /\ frames \in Seq(Range(frames))
  /\ \A d \in DOMAIN frames :
       /\ DOMAIN frames[d] = FrameFields
       /\ frames[d].fun \in Funs
       /\ frames[d].cells \in Seq(Cells) /\ Len(frames[d].cells) = Arity[frames[d].fun]
       /\ Distinctly(frames[d].cells)
       /\ frames[d].con \in Nat
       /\ Recording(frames[d]) => frames[d].con \in 1 .. made
  /\ \A d, e \in DOMAIN frames : d < e =>
       /\ Arity[frames[e].fun] <= Arity[frames[d].fun]
       /\ Recording(frames[d]) /\ Recording(frames[e]) => frames[d].con < frames[e].con

(* What detach will restore: the chain around the call *)
DetachRestores(frames) ==
  \A d \in DOMAIN frames : Recording(frames[d]) =>
    \A i \in DOMAIN frames[d].cells :
      IsChain(frames[d].prevs[i], frames, d - 1, frames[d].cells[i])

Attached == \A c \in Cells : IsChain(slots[c], stack, Len(stack), c)

ConstraintsShaped(cons) ==
  /\ cons \in Seq(Range(cons))
  /\ \A n \in DOMAIN cons :
       /\ DOMAIN cons[n] = {"immutable", "mutable"}
       /\ cons[n].immutable \in Seq(Range(cons[n].immutable))
       /\ cons[n].mutable \in Seq(Range(cons[n].mutable))

(* The recorded writes are on parameters that the function has *)
WritesOn(con, fun) == \A w \in Range(con.mutable) : w.param \in 1 .. Arity[fun]

(* An entry shares a constraint that no running call writes any more *)
EntriesFinished ==
  \A f \in Funs : \A e \in caches[f] :
    /\ DOMAIN e = EntryFields
    /\ e.con \in DOMAIN constraints
    /\ \A d \in DOMAIN stack : Recording(stack[d]) => stack[d].con # e.con
    /\ WritesOn(constraints[e.con], f)

RunningWrites ==
  \A d \in DOMAIN stack : Recording(stack[d]) => WritesOn(constraints[stack[d].con], stack[d].fun)

IInv ==
  /\ ConstraintsShaped(constraints)
  /\ DOMAIN slots = Cells /\ DOMAIN caches = Funs
  /\ Shaped(stack, Len(constraints)) /\ DetachRestores(stack) /\ Attached
  /\ EntriesFinished /\ RunningWrites

-----------------------------------------------------------------------------
(* What OnlyWritersBlamed needs, when calls are recorded under their own   *)
(* hash and bodies pass their parameters on in place.                      *)

(* The calls around a call have its cells, as the same parameters *)
InPlace(frames) ==
  \A d, e \in DOMAIN frames : d < e =>
    \A i \in DOMAIN frames[e].cells : frames[d].cells[i] = frames[e].cells[i]

(* Every recorded answer still stands, but for what has been written since *)
Standing(frames, current, cons) ==
  \A d \in DOMAIN frames : Recording(frames[d]) =>
    \A p \in Range(cons[frames[d].con].immutable) :
      /\ p.call.param \in DOMAIN frames[d].cells
      /\ \/ \E w \in Range(cons[frames[d].con].mutable) : w.param = p.call.param
         \/ p.ret = <<Result(p.call.call, current[frames[d].cells[p.call.param]])>>

AnswersStand ==
  /\ DOMAIN cells = Cells
  /\ InPlace(stack)
  /\ Standing(stack, cells, constraints)
=============================================================================
