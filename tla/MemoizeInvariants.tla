-------------------------- MODULE MemoizeInvariants -------------------------
(***************************************************************************)
(* The properties of the memoization runtime that speak of its own state,  *)
(* and the inductive invariants that the proofs of MemoizeProofs use.      *)
(***************************************************************************)
EXTENDS Memoize

(* What an eviction has left, until the next call or edit: no entry older  *)
(* than the max_age it was given, and so nothing when that is 0.           *)
EvictedByAge ==
  last.op = "evict" /\ ~Running =>
    \A f \in Funs : \A e \in caches[f] : e.age \in 1 .. last.maxAge

(* The shape of the state: recorders attached belong to running calls, the *)
(* accelerators array is no longer than the ids handed out, entries are    *)
(* not older than the evictions allow (evict of cache.mbt: those that were *)
(* not hit in as many evictions as max_age go, and 0 clears the caches).   *)
TypeOK ==
  /\ value \in States
  /\ slot \in Seq(1 .. Len(stack))
  /\ view \in Nat /\ nextId \in Nat /\ view < nextId
  /\ Len(accelerators) <= nextId
  /\ \A i \in DOMAIN accelerators : DOMAIN accelerators[i] \subseteq Reads
  /\ DOMAIN caches = Funs
  /\ \A f \in Funs : \A e \in caches[f] :
       e.key \in Args /\ e.age \in 0 .. MaxAge /\ CallsOf(e.path) \subseteq Reads
  /\ EvictedByAge
  /\ edits \in 0 .. MaxEdits
  /\ wasHit \in BOOLEAN /\ panicked \in BOOLEAN

(* s names the recorded calls among the first n of frames, the innermost   *)
(* first.                                                                  *)
IsChain(s, frames, n) ==
  /\ s \in Seq(Range(s))
  /\ Range(s) = {d \in 1 .. n : frames[d].mode = "recorded"}
  /\ \A i, j \in DOMAIN s : i < j => s[i] > s[j]

(* The recorders attached are exactly those of the calls whose bodies are  *)
(* running, innermost first, and none is left behind when they are over:   *)
(* attach and detach of tracked.mbt nest like the calls do.                *)
RecorderChain == ~panicked => IsChain(slot, stack, Len(stack))

(* What a running call has recorded, every enclosing recorded call has     *)
(* recorded too: its calls and answers, and its writes as the tail of the  *)
(* enclosing ones (MergedSink chaining of Tracked::attach).                *)
EnclosingRecords ==
  \A d, e \in Range(slot) : d < e =>
    /\ Range(stack[e].con.immutable) \subseteq Range(stack[d].con.immutable)
    /\ IsSuffix(stack[e].con.mutable, stack[d].con.mutable)

(* A hit is taken only when every recorded call, replayed on the tracked   *)
(* value as it is at the lookup, gives the recorded answer.                *)
HitsReplay ==
  last.op = "call" /\ last.hit =>
    \A q \in Range(last.path) : Result(q.call, last.before) = q.ret

(* An accelerator never answers for a state of the value that is gone: the *)
(* instances a lookup may use remember what the value would answer now.    *)
AnswersCurrent ==
  \A id \in {stack[d].id : d \in DOMAIN stack} \cup (IF Rewrap = "call" THEN {} ELSE {view}) :
    \A c \in Reads :
      HasAnswer(accelerators, id, c) => Answer(accelerators, id, c) = Result(c, value)

(* last_was_hit() tells of the outermost call, whatever the calls nested   *)
(* in it did: register_miss runs after the insertion.                      *)
HitFlagExact ==
  last.op = "call" /\ ~Running /\ <<last.fun, last.key>> \notin Bypassed =>
    wasHit = last.hit

(* The entries of one cache can be told apart by the world: at most one    *)
(* matches, whatever the tracked value is.                                 *)
OneEntryMatches ==
  \A f \in Funs : \A e, g \in caches[f] :
    e # g /\ e.key = g.key => Diverge(e.path, g.path)

(* Deterministic functions never end in a panic of the runtime: neither    *)
(* the insertion nor the recorder takes them for impure.                   *)
NeverPanics == ~panicked

(* A panic of the runtime is about a call that has written: a function     *)
(* that only reads, through nested calls that hit or miss, is never taken  *)
(* for a non-deterministic one (memoize and CallSequence::insert).         *)
OnlyWritersBlamed ==
  panicked => \E d \in DOMAIN stack : stack[d].con.mutable # <<>>

(* The entry a nested call hits on hands its recorded calls to every       *)
(* recorder around it, as its body would have (Tracked::attach of          *)
(* tracked.mbt).                                                           *)
NestedHitRecorded ==
  BodyCall /\ ~panicked' /\ Len(stack') = Len(stack) =>
    \E e \in Hits(NextOp.fun, NextOp.key, IF NextOp.reborrow THEN nextId ELSE Top.id) :
      \A d \in Range(slot) : Range(e.path) \subseteq Range(stack'[d].con.immutable)

NestedReadsRecorded == [][NestedHitRecorded]_vars

-----------------------------------------------------------------------------
(* The inductive invariant. *)

FrameFields == {"fun", "key", "id", "mode", "obs", "con", "prev", "before"}
EntryFields == {"key", "path", "value", "mutable", "age"}

(* The running calls; those that are not recorded leave their constraint   *)
(* empty.                                                                  *)
Shaped(frames) ==
  /\ frames \in Seq(Range(frames))
  /\ \A d \in DOMAIN frames :
       /\ DOMAIN frames[d] = FrameFields
       /\ frames[d].fun \in Funs
       /\ frames[d].mode = "bypassed" <=> ~Memoized(frames[d].fun, frames[d].key)
       /\ frames[d].mode = "recorded" => frames[d].fun \notin Pure
       /\ IsConstraint(frames[d].con)
       /\ frames[d].mode # "recorded" => frames[d].con = EmptyConstraint

(* What detach will restore: prev of a recorder is the chain around it *)
DetachRestores(frames) ==
  \A d \in DOMAIN frames :
    frames[d].mode = "recorded" => IsChain(frames[d].prev, frames, d - 1)

(* EnclosingRecords, of the recorded calls rather than the attached ones *)
Enclosed(frames) ==
  \A d, e \in DOMAIN frames :
    d < e /\ frames[d].mode = "recorded" /\ frames[e].mode = "recorded" =>
      /\ Range(frames[e].con.immutable) \subseteq Range(frames[d].con.immutable)
      /\ IsSuffix(frames[e].con.mutable, frames[d].con.mutable)

FramesInv(frames) == Shaped(frames) /\ DetachRestores(frames) /\ Enclosed(frames)

(* Even when a panic has ended the program *)
SlotNamesRecorded ==
  \A d \in Range(slot) : d \in DOMAIN stack /\ stack[d].mode = "recorded"

EntriesShaped(entries) ==
  /\ IsFiniteSet(entries)
  /\ \A e \in entries :
       /\ DOMAIN e = EntryFields
       /\ IsPairs(e.path)
       /\ e.mutable \in Seq(Range(e.mutable))

CachesShaped ==
  /\ DOMAIN caches = Funs
  /\ \A f \in Funs : EntriesShaped(caches[f])

IInv ==
  /\ FramesInv(stack) /\ SlotNamesRecorded /\ RecorderChain
  /\ CachesShaped /\ OneEntryMatches

-----------------------------------------------------------------------------
(* What is written and read.  The calls recorded are calls there are, and  *)
(* an answer that may still be used is what the value would answer now.    *)

Known(con) == CallsOf(con.immutable) \subseteq Reads /\ con.mutable \in Seq(Writes)

FramesKnown(frames) ==
  \A d \in DOMAIN frames : Known(frames[d].con) /\ frames[d].before \in States

EntriesKnown(entries) ==
  \A e \in entries : CallsOf(e.path) \subseteq Reads /\ e.mutable \in Seq(Writes)

VInv ==
  /\ value \in States
  /\ FramesKnown(stack)
  /\ \A f \in Funs : EntriesKnown(caches[f])

(* The instances handed out: those in use and those answers are kept for *)
NInv ==
  /\ view \in Nat /\ nextId \in Nat /\ view < nextId
  /\ \A d \in DOMAIN stack : stack[d].id \in view .. nextId - 1
  /\ accelerators \in Seq(Range(accelerators)) /\ Len(accelerators) <= nextId
  /\ \A i \in DOMAIN accelerators : DOMAIN accelerators[i] \subseteq Reads

SInv ==
  /\ slot \in Seq(1 .. Len(stack))
  /\ edits \in 0 .. MaxEdits /\ wasHit \in BOOLEAN /\ panicked \in BOOLEAN

(* The cache keys are arguments there are, and no entry is past eviction *)
KInv ==
  /\ \A d \in DOMAIN stack : stack[d].key \in Args
  /\ \A f \in Funs : \A e \in caches[f] : e.key \in Args /\ e.age \in 0 .. MaxAge

(* The answers of the instance id, and what the value answers *)
Current(id) ==
  \A c \in Reads :
    HasAnswer(accelerators, id, c) => Answer(accelerators, id, c) = Result(c, value)

(* The instances from view on are those of the current value.  Top-level   *)
(* calls that wrap the value anew leave nothing behind that is used.       *)
AInv ==
  IF Original THEN accelerators = <<>>
  ELSE Running \/ Rewrap = "edit" => \A id \in Nat : id >= view => Current(id)

(* A finite part of AInv, all there is to see *)
AnswersFromView ==
  Original \/ (Running \/ Rewrap = "edit" => \A id \in view .. nextId : Current(id))
=============================================================================
