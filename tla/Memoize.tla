------------------------------ MODULE Memoize -------------------------------
(***************************************************************************)
(* The memoization runtime of src/lib: memoize, memoize_tracked_mut and    *)
(* memoize_pure over one tracked value, with the caches, the recorder      *)
(* chain, the accelerators and the eviction they work with.  Memoized      *)
(* functions are deterministic programs: what a function does next depends *)
(* on its argument and on what it has observed so far.  They read and      *)
(* write the tracked value and call each other.                            *)
(*                                                                         *)
(* A memoized call is two steps: lookup (a hit replays the recorded        *)
(* mutable calls and returns; a miss attaches a recorder) and, after the   *)
(* steps of the function's body, insertion.  Between top-level calls the   *)
(* world may edit the tracked value and evict.                             *)
(***************************************************************************)
EXTENDS DecisionPaths, Constraint, Accelerate, SequencesExt

CONSTANTS
  Funs,            \* memoized functions, each with a cache of its own
  Args,            \* the untracked arguments, which are the cache key
  Reads,           \* immutable tracked calls
  Writes,          \* mutable tracked calls
  States,          \* what the tracked value can be
  Worlds,          \* the states it starts in and is edited to
  Body(_, _, _),   \* function, argument, observations |-> next operation
  Result(_, _),    \* immutable call, state |-> its return value
  Effect(_, _),    \* mutable call, state |-> the state after it
  Bypassed,        \* the calls <<function, argument>> with enabled = false
  Pure,            \* functions without tracked parameters: memoize_pure
  Lenient,         \* functions memoized by a variant that drops MissingCall
  Rewrap,          \* when a fresh Tracked is made: "edit", "call" or "never"
  Original,        \* lookups as in comemo's TrackedMut (refs/comemo/src)
  MaxAge,          \* bound: largest max_age passed to evict
  MaxIds,          \* bound: Tracked instances made before a top-level call
  MaxEdits         \* bound: edits of the tracked value

ASSUME WorldsAssumption == Worlds \subseteq States
ASSUME KindsAssumption == Pure \subseteq Funs /\ Lenient \subseteq Funs /\ Original \in BOOLEAN
ASSUME RewrapAssumption == Rewrap \in {"edit", "call", "never"}
ASSUME BoundsAssumption == MaxAge \in Nat /\ MaxIds \in Nat /\ MaxEdits \in Nat

VARIABLES
  value,         \* the tracked value all views share (Tracked.value)
  slot,          \* the recorders attached, innermost first: depths of stack
  view,          \* the id of the Tracked instance the top level passes on
  nextId,        \* next_id of accelerate.mbt
  accelerators,  \* answers remembered for each instance
  caches,        \* function |-> entries of its call tree
  stack,         \* the memoized calls whose bodies are running, outermost first
  edits,         \* edits so far
  wasHit,        \* last_was_hit_flag of testing.mbt
  panicked,      \* a panic() ended the program
  last           \* the last top-level call that completed (history)

vars == <<value, slot, view, nextId, accelerators, caches, stack, edits,
          wasHit, panicked, last>>

Unit == "unit"

Top == Last(stack)

Running == stack # <<>>

(* What the body on top of the stack does next *)
NextOp == Body(Top.fun, Top.key, Top.obs)

Init ==
  /\ value \in Worlds
  /\ slot = <<>>
  /\ view = 0 /\ nextId = 1
  /\ accelerators = <<>>
  /\ caches = [f \in Funs |-> {}]
  /\ stack = <<>>
  /\ edits = 0
  /\ wasHit = FALSE
  /\ panicked = FALSE
  /\ last = [op |-> "none"]

-----------------------------------------------------------------------------
(* The recorder chain.  attach puts the new recorder in front of the one   *)
(* it finds and detach restores that one, so a recorded call reaches every *)
(* recorder of slot.                                                       *)

Records(d) == d \in Range(slot)

(* A faulty RecordRead: the chain to the enclosing recorders is broken *)
RecordReadInnermost(frames, call, ret) ==
  [d \in DOMAIN frames |->
     IF slot # <<>> /\ d = Head(slot)
       THEN [frames[d] EXCEPT !.con = RecordImmutable(@, call, ret)] ELSE frames[d]]

RecordRead(frames, call, ret) ==
  [d \in DOMAIN frames |->
     IF Records(d) THEN [frames[d] EXCEPT !.con = RecordImmutable(@, call, ret)]
     ELSE frames[d]]

RecordReads(frames, pairs) ==
  [d \in DOMAIN frames |->
     IF Records(d) THEN [frames[d] EXCEPT !.con = RecordAll(@, pairs)] ELSE frames[d]]

(* A faulty RecordWrites, broken in the same way *)
RecordWritesInnermost(frames, calls) ==
  [d \in DOMAIN frames |->
     IF slot # <<>> /\ d = Head(slot)
       THEN [frames[d] EXCEPT !.con = RecordMutable(@, calls)] ELSE frames[d]]

RecordWrites(frames, calls) ==
  [d \in DOMAIN frames |->
     IF Records(d) THEN [frames[d] EXCEPT !.con = RecordMutable(@, calls)]
     ELSE frames[d]]

(* A completed call hands its value to the body that made it, or to the    *)
(* top level.                                                              *)
Deliver(frames, val) ==
  IF frames = <<>> THEN <<>>
  ELSE [frames EXCEPT ![Len(frames)].obs = Append(@, val)]

Complete(frames, fun, key, before, val, hit, path) ==
  /\ stack' = Deliver(frames, val)
  /\ last' = IF frames = <<>>
               THEN [op |-> "call", fun |-> fun, key |-> key, before |-> before,
                     value |-> val, after |-> value', hit |-> hit, path |-> path]
               ELSE last

-----------------------------------------------------------------------------
(* Lookup.  Validating a call asks the accelerator of the instance first   *)
(* and the tracked value only when it has no answer.  The TrackedMut of    *)
(* the original has no accelerator, and tells the recorders of every call  *)
(* it validates.                                                           *)

Validate(id, call) ==
  IF ~Original /\ HasAnswer(accelerators, id, call) THEN Answer(accelerators, id, call)
  ELSE Result(call, value)

(* What the calls that the entries of fun ask are validated with *)
Oracle(fun, id) ==
  [c \in UNION {CallsOf(e.path) : e \in caches[fun]} |-> Validate(id, c)]

(* The nodes that the walk from the root of key's tree asks *)
Asked(fun, key, id) ==
  {x \in Questions(caches[fun], key) : \A q \in Range(x.at) : Oracle(fun, id)[q.call] = q.ret}

(* The calls it replays, in order, with the answers they get now *)
Walk(fun, key, id) ==
  LET asked == Asked(fun, key, id)
      Ask(n) == (CHOOSE x \in asked : Len(x.at) = n - 1).call
  IN [n \in {Len(x.at) + 1 : x \in asked} |->
        [call |-> Ask(n), ret |-> Validate(id, Ask(n))]]

Remember(fun, key, id) ==
  accelerators' =
    IF Original THEN accelerators
    ELSE StoreAnswers(accelerators, id,
           [c \in {x.call : x \in Asked(fun, key, id)} |-> Validate(id, c)])

(* A faulty Told: the recorders do not hear of the call validated last *)
ToldAllButLast(fun, key, id) ==
  LET walk == Walk(fun, key, id)
  IN IF ~Original \/ walk = <<>> THEN stack ELSE RecordReads(stack, Front(walk))

(* The running calls once the lookup has told their recorders *)
Told(fun, key, id) ==
  IF Original THEN RecordReads(stack, Walk(fun, key, id)) ELSE stack

(* A recorder has another return hash for a call it is told of *)
Contradicted(fun, key, id) ==
  Original /\ \E q \in Range(Walk(fun, key, id)), d \in Range(slot) :
                Differs(stack[d].con, q.call, q.ret)

Hits(fun, key, id) == Matching(caches[fun], key, Oracle(fun, id))

(* A faulty Replay: the last recorded call first *)
ReplayBackwards(calls, state) == FoldLeft(LAMBDA s, c : Effect(c, s), state, Reverse(calls))

(* replay_mut of each recorded mutable call, in order *)
Replay(calls, state) ==
  LET after[n \in 0 .. Len(calls)] ==
        IF n = 0 THEN state ELSE Effect(calls[n], after[n - 1])
  IN after[Len(calls)]

Memoized(fun, key) == <<fun, key>> \notin Bypassed

Hit(fun, key, id) ==
  /\ Memoized(fun, key) /\ fun \notin Pure
  /\ ~Contradicted(fun, key, id)
  /\ \E e \in Hits(fun, key, id) :
       /\ caches' = [caches EXCEPT ![fun] = (@ \ {e}) \cup {[e EXCEPT !.age = 0]}]
       /\ value' = Replay(e.mutable, value)
       /\ Complete(RecordWrites(Told(fun, key, id), e.mutable),
                   fun, key, value, e.value, TRUE, e.path)
  /\ wasHit' = TRUE
  /\ Remember(fun, key, id)
  /\ UNCHANGED <<slot, edits, panicked>>

Frame(fun, key, id, mode) ==
  [fun |-> fun, key |-> key, id |-> id, mode |-> mode, obs |-> <<>>,
   con |-> EmptyConstraint, prev |-> slot, before |-> value]

Miss(fun, key, id) ==
  /\ Memoized(fun, key) /\ fun \notin Pure
  /\ ~Contradicted(fun, key, id)
  /\ Hits(fun, key, id) = {}
  /\ Remember(fun, key, id)
  /\ stack' = Append(Told(fun, key, id), Frame(fun, key, id, "recorded"))
  /\ slot' = <<Len(stack) + 1>> \o slot
  /\ UNCHANGED <<value, caches, edits, wasHit, panicked, last>>

(* A recorder told of a validated call takes the function around for       *)
(* impure: panic()                                                         *)
LookupPanic(fun, key, id) ==
  /\ Memoized(fun, key) /\ fun \notin Pure
  /\ Contradicted(fun, key, id)
  /\ panicked' = TRUE
  /\ UNCHANGED <<value, slot, accelerators, caches, stack, edits, wasHit, last>>

(* lookup_pure and get_pure: a leaf right under the key, nothing to replay *)
PureHit(fun, key) ==
  /\ Memoized(fun, key) /\ fun \in Pure
  /\ \E e \in OfKey(caches[fun], key) :
       /\ e.path = <<>>
       /\ caches' = [caches EXCEPT ![fun] = (@ \ {e}) \cup {[e EXCEPT !.age = 0]}]
       /\ value' = value
       /\ Complete(stack, fun, key, value, e.value, TRUE, <<>>)
  /\ wasHit' = TRUE
  /\ UNCHANGED <<slot, accelerators, edits, panicked>>

(* A pure function attaches no recorder of its own *)
PureMiss(fun, key, id) ==
  /\ Memoized(fun, key) /\ fun \in Pure
  /\ OfKey(caches[fun], key) = {}
  /\ stack' = Append(stack, Frame(fun, key, id, "pure"))
  /\ UNCHANGED <<value, slot, accelerators, caches, edits, wasHit, panicked, last>>

(* enabled = false: the body runs with no lookup, recorder or insertion *)
Bypass(fun, key, id) ==
  /\ ~Memoized(fun, key)
  /\ stack' = Append(stack, Frame(fun, key, id, "bypassed"))
  /\ wasHit' = FALSE
  /\ UNCHANGED <<value, slot, accelerators, caches, edits, panicked, last>>

Call(fun, key, id) ==
  \/ Hit(fun, key, id) \/ Miss(fun, key, id) \/ LookupPanic(fun, key, id)
  \/ PureHit(fun, key) \/ PureMiss(fun, key, id)
  \/ Bypass(fun, key, id)

-----------------------------------------------------------------------------
(* The body of the innermost call.                                         *)

Seen == Result(NextOp.call, value)

Impure == \E d \in Range(slot) : Differs(stack[d].con, NextOp.call, Seen)

BodyRead ==
  /\ Running /\ ~panicked /\ NextOp.op = "read" /\ ~Impure
  /\ stack' = Deliver(RecordRead(stack, NextOp.call, Seen), Seen)
  /\ UNCHANGED <<value, slot, view, nextId, accelerators, caches, edits, wasHit,
                 panicked, last>>

(* The recorder finds another return hash for a call it has: panic() *)
ReadPanic ==
  /\ Running /\ ~panicked /\ NextOp.op = "read" /\ Impure
  /\ panicked' = TRUE
  /\ UNCHANGED <<value, slot, view, nextId, accelerators, caches, stack, edits,
                 wasHit, last>>

BodyWrite ==
  /\ Running /\ ~panicked /\ NextOp.op = "write"
  /\ value' = Effect(NextOp.call, value)
  /\ stack' = Deliver(RecordWrites(stack, <<NextOp.call>>), Unit)
  /\ UNCHANGED <<slot, view, nextId, accelerators, caches, edits, wasHit, panicked, last>>

(* A memoized call made by the body, on the view it was given or on a      *)
(* fresh one that shares its value and recorder (track_mut, downgrade,     *)
(* reborrow, reborrow_mut).                                                *)
BodyCall ==
  /\ Running /\ ~panicked /\ NextOp.op = "call"
  /\ IF NextOp.reborrow
       THEN /\ nextId' = nextId + 1
            /\ Call(NextOp.fun, NextOp.key, nextId)
       ELSE /\ nextId' = nextId
            /\ Call(NextOp.fun, NextOp.key, Top.id)
  /\ UNCHANGED view

BypassReturn ==
  /\ Running /\ ~panicked /\ NextOp.op = "return" /\ Top.mode = "bypassed"
  /\ value' = value
  /\ Complete(Front(stack), Top.fun, Top.key, Top.before, NextOp.value, FALSE, <<>>)
  /\ UNCHANGED <<slot, view, nextId, accelerators, caches, edits, wasHit, panicked>>

(* The body is done: detach, then insert under the constraint it left *)
Tree == caches[Top.fun]
Torn == LacksCall(Tree, Top.key, Top.con.immutable)

Cleared == <<>>                           \* faulty Detached: the chain is dropped
Detached == IF Top.mode = "recorded" THEN Top.prev ELSE slot

NewEntry(path) ==
  [key |-> Top.key, path |-> path, value |-> NextOp.value,
   mutable |-> Top.con.mutable, age |-> 0]

(* A faulty Inserted: the entry goes in however it fits the tree *)
InsertedUnchecked ==
  [caches EXCEPT ![Top.fun] = @ \cup {NewEntry(Top.con.immutable)}]

(* The caches after Cache::insert; an entry that does not fit is not added *)
Inserted ==
  IF AlreadyThere(Tree, Top.key, Top.con.immutable) \/ Torn THEN caches
  ELSE [caches EXCEPT ![Top.fun] =
          @ \cup {NewEntry(NewPath(Tree, Top.key, Top.con.immutable))}]

FlagKept == wasHit' = wasHit              \* faulty RegisterMiss: left out
RegisterMiss == wasHit' = FALSE

Close ==
  /\ slot' = Detached
  /\ value' = value
  /\ caches' = Inserted
  /\ RegisterMiss
  /\ Complete(Front(stack), Top.fun, Top.key, Top.before, NextOp.value, FALSE, <<>>)
  /\ UNCHANGED <<view, nextId, accelerators, edits, panicked>>

(* The insertion gives Ok or AlreadyExists *)
InsertReturn ==
  /\ Running /\ ~panicked /\ NextOp.op = "return" /\ Top.mode # "bypassed"
  /\ ~Torn
  /\ Close

(* MissingCall in memoize_tracked_mut: the error is dropped and nothing is *)
(* cached.                                                                 *)
InsertSwallow ==
  /\ Running /\ ~panicked /\ NextOp.op = "return" /\ Top.mode # "bypassed"
  /\ Torn /\ Top.fun \in Lenient
  /\ Close

(* MissingCall in memoize: panic() *)
InsertPanic ==
  /\ Running /\ ~panicked /\ NextOp.op = "return" /\ Top.mode # "bypassed"
  /\ Torn /\ Top.fun \notin Lenient
  /\ slot' = Detached
  /\ panicked' = TRUE
  /\ UNCHANGED <<value, view, nextId, accelerators, caches, stack, edits, wasHit, last>>

-----------------------------------------------------------------------------
(* The top level.                                                          *)

TopCall ==
  /\ ~Running /\ ~panicked /\ nextId <= MaxIds
  /\ IF Rewrap = "call"
       THEN view' = nextId /\ nextId' = nextId + 1
       ELSE UNCHANGED <<view, nextId>>
  /\ \E f \in Funs, k \in Args : Call(f, k, view')

(* A faulty Edit: the fresh Tracked gets the id of the old one *)
EditSameId ==
  /\ ~Running /\ ~panicked /\ edits < MaxEdits
  /\ value' \in Worlds \ {value}
  /\ edits' = edits + 1
  /\ last' = [op |-> "none"]
  /\ UNCHANGED <<slot, view, nextId, accelerators, caches, stack, wasHit, panicked>>

(* Code outside any memoized function changes the tracked value, and wraps *)
(* it anew if that is its discipline.                                      *)
Edit ==
  /\ ~Running /\ ~panicked /\ edits < MaxEdits
  /\ value' \in Worlds \ {value}
  /\ edits' = edits + 1
  /\ IF Rewrap = "edit"
       THEN nextId < MaxIds /\ view' = nextId /\ nextId' = nextId + 1
       ELSE UNCHANGED <<view, nextId>>
  /\ last' = [op |-> "none"]
  /\ UNCHANGED <<slot, accelerators, caches, stack, wasHit, panicked>>

(* A faulty Evict: entries that were hit since the last one are spared *)
EvictSparesNew(maxAge) ==
  /\ ~Running /\ ~panicked
  /\ caches' = [f \in Funs |->
       {[e EXCEPT !.age = @ + 1] : e \in {x \in caches[f] : x.age + 1 <= maxAge \/ x.age = 0}}]
  /\ last' = [op |-> "evict", maxAge |-> maxAge]
  /\ UNCHANGED <<value, slot, view, nextId, accelerators, stack, edits, wasHit, panicked>>

(* evict(max_age): every entry ages by one, those beyond max_age go *)
Evict(maxAge) ==
  /\ ~Running /\ ~panicked
  /\ caches' = [f \in Funs |->
       {[e EXCEPT !.age = @ + 1] : e \in {x \in caches[f] : x.age + 1 <= maxAge}}]
  /\ last' = [op |-> "evict", maxAge |-> maxAge]
  /\ UNCHANGED <<value, slot, view, nextId, accelerators, stack, edits, wasHit, panicked>>

(* evict_accelerators(), a call of its own: evict leaves the answers alone *)
EvictAnswers ==
  /\ ~Running /\ ~panicked
  /\ accelerators' = EvictAccelerators(accelerators)
  /\ last' = [op |-> "none"]
  /\ UNCHANGED <<value, slot, view, nextId, caches, stack, edits, wasHit, panicked>>

Next ==
  \/ TopCall \/ Edit \/ EvictAnswers
  \/ \E m \in 0 .. MaxAge : Evict(m)
  \/ BodyRead \/ ReadPanic \/ BodyWrite \/ BodyCall
  \/ BypassReturn \/ InsertReturn \/ InsertSwallow \/ InsertPanic

Spec == Init /\ [][Next]_vars
=============================================================================
