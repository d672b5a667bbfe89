# comemoon: models, model checking and proofs

comemoon is a MoonBit port of comemo: memoization that validates a cached
result by replaying the calls the computation made on tracked data. This
directory models the runtime in TLA+, checks it with TLC and proves, with TLAPS,
the invariants of its data structures and of the runtime, and under which
conditions memoization cannot be seen. The source is under `src/`;
`PROJECT.json` maps every definition to the lines it stands for.

## 1. Inventory

The runtime is single threaded and keeps nothing on disk. Nothing runs
concurrently; what is hard is the order of nested calls, edits, evictions and
replays, and data structures whose bookkeeping is done by hand.

| Part | State | Operations | Used by |
|---|---|---|---|
| Slab (`lib/tree.mbt:340-379`) | `data`, `free` | new, insert, remove, contains, len | call tree |
| Call tree (`lib/tree.mbt:12-332`) | two slabs, `start`, `edges` | insert, get, get_pure, retain, link | caches |
| Call sequence (`lib/constraint.mbt:12-98`) | `vec`, `map`, `cursor` | insert, next, extract | constraint, tree insertion |
| Constraint (`lib/constraint.mbt:111-184`) | a sequence and a list of mutable calls | record, take | memoize |
| Tracked, TrackedMut (`lib/tracked.mbt`) | shared value and recorder, an id | attach, detach, call, call_mut, validate, downgrade, reborrow, track_mut | user code, memoize |
| Accelerators (`lib/accelerate.mbt`) | `next_id`, a map for each id | id, get, insert, evict | validate |
| Caches (`lib/cache.mbt`) | a tree of entries with ages, the list of evictors | lookup, lookup_pure, insert, evict | memoize |
| Memoize (`lib/memoize.mbt`) | none of its own | memoize, memoize_pure, memoize2 to 6, memoize_tracked_mut | user code |
| Hit flag (`lib/testing.mbt`) | one flag | register_hit, register_miss, last_was_hit, reset_oracle | tests |
| Hashing (`lib/hash.mbt`, `lib/murmur3_*.mbt`) | none | encodings and murmur3 | all keys |
| Generator (`gen/gen.py`) | none | reads `user_tracked.mbt`, writes `comemo_gen.mbt` | build |
| Original comemo (`refs/comemo/`) | | the Rust sources the port mirrors | reference |

How they interact: `memoize` hashes the plain arguments, asks its cache, which
walks its tree and, at each inner node, calls back into `Tracked::validate`,
which asks the accelerator of that instance or else the value. On a hit the
entry's mutable calls are replayed. On a miss a recorder (a closure over a fresh
constraint) is attached in front of the one found, the function runs (and may
call memoized functions, the same one included), the recorder found is put
back, and the constraint is inserted. All views of one tracked value share its
`Ref`s; each has its own id. With several tracked parameters one recorder hears
all of them, and the calls it gets say which parameter they are for.

What makes each part correct:

- Slab: the free list names exactly the empty slots, each once.
- Call tree: roots and edges lead to live nodes; counters are exact; every
  operation does to the set of stored paths what it would in one step; loops end.
- Call sequence: a queue without holes, whichever way calls are taken out.
- Recorders: what a running call records, the calls around it record too;
  attaching and detaching nest; a finished constraint is not written again.
- Accelerators: an answer is the value's present answer.
- Encodings: different calls have different bytes.
- Memoize: a call returns, and leaves behind, what running the function would.

## 2. Modules

| Module | Models | Notes |
|---|---|---|
| `Slab` | the slab as records and operators | no variables; `FreeListExact` |
| `CallTree` | the tree, an action for each loop iteration | properties at its end |
| `CallTreeInvariant` | | the inductive invariant `IInv` |
| `DecisionPaths` | what a tree stands for: entries with paths | used by five modules |
| `DecisionTree` | | abstract: insert, get and retain as single steps |
| `CallTreeImplements` | | the refinement mapping; the inductive invariant `RInv` it rests on |
| `CallSequence`, `PendingCalls` | array, map and cursor; the queue they stand for | refinement inside |
| `Encodings` | `write_rust` of strings, characters, integers, booleans and calls; the generated enum | pure operators |
| `EncodedCalls` | a call sequence whose calls are those of a generated enum | `CallSequence` with the encodings as its hashes |
| `Constraint`, `Accelerate` | pure operators of those files | used by `Memoize` |
| `Memoize` | memoize, memoize_pure and memoize_tracked_mut over one value, with caches, recorders, accelerators, eviction | caches are sets of `DecisionPaths` entries |
| `MemoizeSeveral` | memoize2 to memoize6, in both wirings | |
| `DirectExecution` | | abstract: run every body from scratch |
| `MemoizeInvariants` | | the properties of the runtime's own state, and the inductive invariants |
| `SeveralInvariants` | | the same for several parameters |
| `MemoizeProperties`, `SeveralProperties` | | what memoization must keep, against `DirectExecution` |
| `CallTreeProofs`, `CallTreeRefinement`, `CallSequenceProofs` | | proofs about the data structures |
| `DecisionPathTheorems` | | lemmas about sequences, constraints and paths |
| `MemoizeProofs`, `MemoizeAnswers`, `MemoizeSoundness` | | proofs about the runtime, each on top of the one before |
| `SeveralProofs` | | proofs about the recorders of several parameters |
| `MC*` | | instances for TLC |

**CallTree.** `insert`, `get` and `retain` are loops; `pc` names the loop that
runs and only its actions are enabled, since methods run to completion. `walk`
is insert while `predecessor` is `None` and there is a cursor, `append` the
rest of it; `retain` scans leaves and `unlink` climbs from a dropped one.
The caller's predicate is a set of values to keep and its oracle a function
from calls to return hashes. `get_pure` is `get` with a constant oracle here.
The branch of `CallTree::insert` at lines 209-211 has no action because it is
unreachable: the loop only breaks when there is a predecessor or no cursor.

**CallTree to DecisionTree.** An entry is read off a leaf by climbing to its
root. An insertion takes effect when its leaf is linked (half-built branches
have no leaf and so are not seen), a get when it returns, and a retain when it is
called (entries not kept are hidden from then on). `DecisionTree` says what an
insertion means without nodes: which question a sequence gets to and has no
answer for (`LacksCall`), whether it answers its way to an entry
(`AlreadyThere`), and which path it gets otherwise (`NewPath`: shared questions
in the tree's order, the rest in the order they were made).

**Encodings.** A call is the position of its method and its arguments, a string a
sequence of code points. `CharBytes` has the forms of one to three bytes
that the code has, and drops what does not fit the third. murmur3 over the bytes is taken as
injective, so the bytes stand for the hash; `EncodedCalls` gives them to the
call sequence as its `CallHash`, for any enum whose methods take the types modelled.
`RustCallBytes` is what the comments of `hash.mbt` say the bytes are, those of Rust's `Hash for
str`, which has a form of four bytes (an external definition: no code under `lib` does it). The
two agree on characters up to U+FFFF; run `astral` is about the others. (The comments also
speak of SipHash; the code hashes with murmur3.)

**Memoize.** The runtime uses each tree through insert, get and retain only, so a
cache here is the set of entries the tree implements, with the operators of
`DecisionPaths` that `DecisionTree` is written with. A memoized function is a
deterministic program, `Body(function, argument, observations)`, which yields
its next operation: a read, a write, a memoized call or its return. `stack`
holds the running calls with their constraints; `slot` is the recorder in the
shared `Ref`, as the chain of stack depths a recorded call reaches. Actions:
`TopCall` and `BodyCall` do the whole of memoize up to the body (`Hit`, `Miss`,
`PureHit`, `PureMiss` or `Bypass`); `BodyRead`, `BodyWrite` and `ReadPanic` are
`call` and `call_mut`; `InsertReturn`, `InsertSwallow`, `InsertPanic` and
`BypassReturn` end a call; `Edit` is code outside any memoized function that
writes the value, `Evict` is `evict`, `EvictAnswers` is `evict_accelerators`. A
lookup is one step: the walk runs the user's oracle and nothing else, and an oracle
reads. Replaying a mutable call is `call_mut` through the same view, as in the
tests, and so is recorded by the calls around. Mutable calls return nothing, as the
generator has it.

`DirectExecution` runs bodies on a machine of its own, one operation of the
innermost call at a time (`Move`), and counts the steps, so that nothing is said
of a function that does not end.

Constants choose the program:

| Constant | Says |
|---|---|
| `Body`, `Reads`, `Writes`, `Result`, `Effect` | the memoized functions, the immutable and mutable calls there are, and what those give and do |
| `Steps` | the lengths of direct runs considered; the theorems take them all, the runs the one number by which every body of the instance is over (a run that is over stays so) |
| `Rewrap` | how the user makes `Tracked` instances: one for each state of the value, one for each top-level call, or one for good (as the demo and the tests do); the properties depend on it |
| `Pure` | functions memoized with memoize_pure: no recorder of their own, entries without questions |
| `Lenient` | functions memoized with memoize_tracked_mut, which drops the error of an insertion where memoize panics |
| `Bypassed` | calls with `enabled = false` |
| `Original` | the lookup of the original comemo's `TrackedMut` instead of the port's: no accelerator, and every call it validates is told to the recorders (`Told`), which may find it contradicts what they have (`LookupPanic`) |

**MemoizeSeveral.** memoize2 to memoize6 are one program text with more or fewer
parameters; a call here has a tuple of cells. What they do depends on closures
that come from outside, of which the repository has two forms, and the constant
`Merged` chooses:

- `FALSE`, as in `g5_shared.mbt`: all cells have the call type of the bundle;
  the code that makes a call names the parameter, and the recorder is attached to each cell as it is.
- `TRUE`, as in `g_eval` of `gen_test.mbt` and the wrapper of `gen.py:278-330`:
  each cell has its own call type; a closure attached to it wraps the call and passes on the hash it was given.

A chain is kept for each cell (`slots`), a link of it naming a constraint and a
parameter. `take` hands the array of mutable calls itself to the cache entry, so
constraints have an identity and stay in `constraints` for good. Insertion takes pairs
out of the sequence even when it fails (`Taken`). Accelerators are left out: views are made
for every call. memoize2 to memoize6 drop every insertion error.

## 3. Runs

| Run | Instance | Shows |
|---|---|---|
| `tree` | 1 key, 2 calls, 2 returns, 2 values, sequences up to 2, 3 leaves, fair | `TypeOK`, `Consistent`, `ChildrenCounted`, `RInv`, `OperationsEnd`, `ImplementsDecisionTree` |
| `call_sequence` | 4 calls of a generated enum, 2 returns, strings of characters up to U+FFFF | `TypeOK`, `LooksUpTheSame`, `ImplementsPendingCalls` |
| `flat` | functions f, g without nesting; 4 worlds, 2 edits | `TypeOK`, `EntriesSound`, `NeverPanics`, `HitsReplay`, `AnswersCurrent`, `Transparent` |
| `nested` | outer calls inner, inner calls itself; 1 edit | `EntriesSound`, `NeverPanics`, `RecorderChain`, `EnclosingRecords`, `HitFlagExact`, `NestedReadsRecorded`, `Transparent` |
| `calc` | callees read what callers do not; a lenient, a pure recursive, a bypassed and a writing function; 2 edits, a fresh `Tracked` for each call | `RecorderChain`, `HitFlagExact`, `HitsReplay`, `EnclosingRecords`, `OneEntryMatches` |
| `original` | the functions of `calc`, the lookup of the original, one `TrackedMut` for good | `IInv`, `EntriesSound`, `OnlyWritersBlamed`, `NestedReadsRecorded`, `Transparent` |
| `several` | two cells; nested, bypassed and writing functions of two parameters, the cells in either order; 1 edit | `ChainsNest`, `HitFlagExact`, `NoCallMissing`, `OnlyWritersBlamed`, `IInv`, `AnswersStand`, `FinishedUntouched`, `Transparent` |
| `reads_lost`, `stale_answer`, `aliased`, `merged`, `astral` | | violations, section 6 |

Why the bounds are enough. In the tree, the hard cases are a branch shared by
two leaves, a branch dropped while another with the same prefix stays, a slot
freed and reused by another node, and an insertion that fails after
part of its walk. Two calls and two returns give every shape of a two-level tree,
three leaves a branch with a sibling at each level, two values retains that keep a part of a
branch. A third level adds no case: the steps are local to a node, its
parent and one edge, and the proofs cover any depth. Several keys are several roots in the same
slabs; that they do not disturb each other is what the theorems of section 5 say for any set of
keys, and is not checked on an instance.

Four calls let the sequence have holes before, at and after the cursor. They are
calls of an enum with methods of two strings, a string and an integer, an
integer and a boolean, and a character and a string. Against them
`LooksUpTheSame` looks up some 600 calls whose strings have up to two characters
at the boundaries of the encoding's three forms, whose integers have every sign and
the lengths of one to four bytes, and whose characters, where they are no part of a string, are any.
`astral` is the same instance with characters beyond U+FFFF in strings, one of them
with the low bits of U+0800.

With two edits a value leaves a state and returns to it, so that an entry is passed
over and matches later; `MaxAge` 1 gives an eviction that keeps an entry, one that drops it
for its age and one that clears the caches; three or four ids give every instance a predecessor. In
`several`, `MaxRuns` counts the constraints made before a top-level call:
three give two entries that were cached in turn and a call that finds them.

Deadlock is not checked in `call_sequence`, `astral`, `calc`, `original`, `several`, `aliased` and `merged`:
a panic may end the program there, and `calc` and `several` also stop when their ids or
constraints are used up. In all others TLC checks that the system can always go on.

What the bodies leave out on purpose: `flat` and `nested` have no function that
reads a cell it has written before (a read is recorded with its answer *after* the
write and validated *before* it), and in `nested` a caller reads whatever its
callees depend on before it calls them. Under these two disciplines memoization
is shown to be invisible; without the first `stale_answer`, and without the second
`reads_lost`, show that it is not. `calc` has no such
discipline, and checks what still holds without it. `original` has the same functions, and
with the original's lookup they are memoized invisibly: the second discipline is the port's own.
In `several`, nested calls read what the caller has read, and each passes its parameters on in place.

## 4. Fairness

Only `tree` assumes fairness: `WF(Step)`, that is, a method of the tree
that has been called keeps running. One thread runs it, it neither blocks nor
yields, so nothing else can take its place. That somebody calls (`Request`) is
not assumed.

## 5. Proofs

`CallTreeProofs` starts with six lemmas for slabs of any size and content: insertion and
removal keep the free list exact, the index handed out was empty, and the
other slots keep what they hold. Then, for any sets of keys, calls, returns and values and any bounds:

| Theorem | States |
|---|---|
| `Invariance` | `Spec => []IInv` |
| `TypeCorrectness` | `Spec => []TypeOK` |
| `Consistency` | `Spec => []Consistent`: what `assert_consistency` of the tests asserts |
| `CountsExact` | `Spec => []ChildrenCounted` |

Assumptions: `None` is none of the things it is an option of
(`NoneAssumption`) and the bounds are natural numbers (`BoundsAssumption`). The
second is not needed for the tree itself: it types `taken`.

The argument. `Consistent` and `ChildrenCounted` are not inductive: they speak of
moments when no loop is changing the tree, and the loops break them on the way.
During insert, the newest inner node has no child yet; during retain, edges lead
to nodes removed already. `IInv` says what holds *during* the loops:

- the leaf that is being unlinked counts as gone from the moment the climb
  starts (`Unlinking`), and the node the climb has reached still counts the
  child just removed (`Phantom`);
- a live node with a parent hangs on an edge of a live parent (`Hanging`), edges
  to live nodes point back (`EdgesPointBack`), no two lead to one (`OneEdgeEach`):
  so the parent that loses its only counted child has no other edge, and removing
  it leaves no live node hanging on it;
- a slot may only be reused when no edge names it: `NothingDangles` holds
  outside retain, and retain inserts nothing;
- counters equal the edges to live nodes plus the phantom, and only the node
  insert has just added may be at zero (`Counted`).

There is a lemma for each action (`AppendCallKeeps`, `UnlinkParentKeeps` and so
on); those that leave the tree alone go through `Untouched`. TLC checks `IInv`
in `tree`, as a part of `RInv`.

`CallTreeRefinement`, under the same two assumptions:

| Theorem | States |
|---|---|
| `RefinementInvariant` | `Spec => []RInv` |
| `TreeImplements` | `Spec => ImplementsDecisionTree` |

The mapping reads an entry off a leaf by climbing to the root. `Trails` is that
climb for all nodes of a forest at once, a recursive function, and nothing about it can be
had by induction over paths. So the invariant says of the tree what an induction would have shown:
every node's trail is its parent's and one pair more, is a sequence, and does not
ask what its node asks (`Trailed`); a climb ends at the root of exactly one key (`Rooted`).
Neither follows from `IInv`, which allows a cycle of nodes. When the tree changes, the trails of
the new forest are given outright from those of the old one (`GrownTrails` where a node is
added, `PartTrails` where nodes are taken away), and `TrailsAre` says a forest has one set of trails only.

The loops are then walks in a forest, and what each has found so far is in `RInv`:

- `Walking`: insert stands at a node whose trail the sequence answers, and has
  taken the answers to that trail and no others;
- `Appending`: the branch made so far is the shared part `DecisionTree` names, followed by
  what has been taken of the rest, in its order: when the leaf is linked, this is `NewPath`;
- `Getting`: the oracle answers the trail of the node get stands at; once get has stopped
  at no node, no entry matches;
- `Sweeping`: leaves behind the scan are to be kept, so that when the scan is over the
  entries that are hidden and those removed are the same.

That a walk's outcome is right takes three facts about forests in which
every inner node has a child, and so a leaf below it (`LeafBelow`: the longest
trail through it, of the finitely many there are, ends at one). Where
a sequence or oracle answers a leaf's whole trail, the walk meets no other leaf (`OneWayDown`); where it
stops at an inner node with no answer, all entries below part there (`StuckAt`,
`QuestionsAre`); where no edge has the answer it got, no entry matches (`NoLeaf`,
`WalkStops`). While insert appends, its newest node has no child; what these facts gave
before is then kept in `Appending`. There is one lemma for each action, which shows that it keeps
`RInv` and maps to a step of `DecisionTree` or a stutter: linking a leaf to `Insert`, ending a walk at a leaf or
at a missing answer to a failed one, the last step of get to `Get`, the call of retain to `Retain`,
all else, pruning in particular, to a stutter (`SameEntries`).

`CallSequenceProofs`, for any calls with distinct hashes (`HashAssumption`; `None` is not a pair):
`TypeCorrect`, `Spec => []TypeOK`, and `QueueImplemented`, `Spec =>
ImplementsPendingCalls`. `TypeOK` is inductive once `vec` is known to be a sequence of slots. The step
that needs an argument is `TakeNext`: the slot taken is the *first* full one from
the cursor on, so the ones the cursor passes are empty. For the refinement, the
queue is `vec` without its holes; there is a lemma for each operation, and they rest on two
facts: a call has one pair in the queue at most, where the map leads
(`QueuedOnce`), and emptying a slot takes that pair out and nothing else (`QueueTaken`).

`FoundByBytes`, `Spec => []LooksUpTheSame`, is for any generated enum
(`SignatureAssumption`, `EncodedAssumption`), any number of methods and parameters, and texts of any length
whose characters are up to U+FFFF (`BasicPlane`). What a reader of the bytes can tell is stated with
`At(w, p, u)`: behind its first `p` bytes, `w` starts with `u`. Two characters whose bytes start alike
have the 16 bits of the third form in common (`CharRead`), which up to U+FFFF makes them one
(`SameBasicChar`), and none starts with the byte that ends a text, so two texts at one
place are the same, character by character, and end together (`TextRead`). Integers and
characters on their own have fixed lengths, and their bytes decide them (`FourBytes`), so two calls with one encoding have the
same method and, argument by argument, the same arguments (`CallRead`, `SameInBasicPlane`). That the hashes the map knows are
those of calls (`HashesKnown`) is inductive. Without `BasicPlane` the statement is false: `astral`.

`DecisionPathTheorems`, about any set of entries that part at questions they
answer differently: a walk has one question to ask at a time (`OneWay`); an
insertion that lacks no answer gives a path with the pairs of the sequence that
parts from all others (`InsertionFits`) and asks in their order and then in its
own (`InsertionOrder`). Also what recording a list of pairs does to a constraint (`RecordWalk`).

### The runtime

The theorems hold for every set of functions and calls, every program and every
history of calls, edits and evictions, under the conditions on the program that
they name. All conditions are about the constants; none restricts what the runtime does.

| Condition | Says | Satisfied by |
|---|---|---|
| `CallsKnown` | nested calls are to memoized functions | all runs |
| `OperationsKnown` | bodies read, write, call or return, with calls there are | all runs |
| `KeysKnown` | nested calls use the keys there are | `flat`, `nested` (in `calc` and `original`, `sum` is called with key 1, which `Args` leaves out) |
| `Uniform` | what a mutable call does to an answer depends on that answer alone | all runs |
| `ReadsFirst` | a memoized function that reads what it changes has read it before it changed it: the first answer it gets to a call is the one from when it began | all but `stale_answer` |
| `Neutral` | a mutable call changes no answer of an immutable one: what is written, as a log, is not read. Implies the two above (`NeutralReads`) | `flat`, `nested` |
| `ChangesSeen` | the lookup is the original's, or mutable calls are neutral and a changed value is wrapped in a new `Tracked` | `flat`, `nested`, `original` |
| `PureBodies` | functions under memoize_pure make no tracked calls and call only such functions | all runs |
| `HitsTold` | the lookup is the original's, or nested calls are to pure or bypassed functions only | `flat`, `original` |

| Theorem | Under | States |
|---|---|---|
| `Invariant` | `CallsKnown` | `Spec => []IInv` |
| `RecordersNest`, `EnclosingHaveRecorded`, `AtMostOneMatches`, `FlagOfOutermost` | `CallsKnown` | `RecorderChain`, `EnclosingRecords`, `OneEntryMatches`, `HitFlagExact` |
| `TypesCorrect` | `OperationsKnown`, `CallsKnown`, `KeysKnown` | `TypeOK` |
| `AnswersAreCurrent`, `HitsAreTrue` | `OperationsKnown`, `CallsKnown`, `ChangesSeen` | `AnswersCurrent`, `HitsReplay` |
| `HitsAreRecorded` | `CallsKnown`, `HitsTold` | `NestedReadsRecorded` |
| `OnlyWritersAreBlamed` | the soundness conditions | `Spec /\ NestedReadsRecorded => []OnlyWritersBlamed` |
| `NoPanic` | the same with `Neutral` | `Spec /\ NestedReadsRecorded => []NeverPanics` |
| `EntriesAreSound`, `Invisible` | the soundness conditions, `Steps = Nat` | `Spec /\ NestedReadsRecorded =>` `[]EntriesSound`, `Transparent` |
| `Soundness` | the soundness conditions, `Steps = Nat`, `HitsTold` | `Spec => []OnlyWritersBlamed /\ []EntriesSound /\ Transparent` |
| `Calm` | the same with `Neutral` | `Spec => []NeverPanics` |

The soundness conditions are `OperationsKnown`, `CallsKnown`, `Uniform`, `ReadsFirst`, `PureBodies`
and `ChangesSeen`. `flat` and `original` satisfy them and `HitsTold`, so `Soundness` is about them.
`nested` satisfies them and, as the run checks, `NestedReadsRecorded`, though not `HitsTold`.
TLC evaluates `Uniform`, and `ReadsFirst` for the arguments and run lengths of the configuration, before each
run (`ProgramsAssumption` of `MCMemoize`); the function of `stale_answer` is exempt, as it writes the log and
reads it afterwards.

**`IInv`.** `RecorderChain` is not inductive by itself: what detach puts back
must be the chain around the call that ends (`DetachRestores`). `EnclosingRecords`
must be said of all recorded calls, not only of those attached (`Enclosed`).
`OneEntryMatches` carries over an insertion by `InsertionFits`, which is why an
insertion that lacks an answer must leave the tree as it is. TLC checks `IInv` in `original`, through panics.

**Types.** `TypeOK` says of evictions that, until the next call or edit completes, no entry is older
than the `max_age` given, so that none is left when it is 0 (`EvictedByAge`). `EvictedStep` shows this part
inductive: an entry's age grows before it is compared, and whatever else changes the caches is
part of a call that runs or has just completed.

**Answers.** A remembered answer is trusted for as long as the instance lives, so the
invariant (`AInv`) speaks of all instances from the current view on, those not
made yet included: none of them has an answer that the value would not give now. A step
that changes what the value answers moves the view past every instance that has
answers; where it does not, `stale_answer` shows what follows.

**Soundness.** A constraint is a claim about every state, not only about the one it was
recorded in. The invariant `RInv` says of each running call that is recorded:

- `Retraced`: in any state that answers the recorded calls as recorded, a run of the call from
  scratch gets to where the call is now, having made no other calls, and does to the state what the recorded
  writes do. The calls nested in it at the moment are part of where it is: a run of theirs, put on top of the calls
  around it, moves as it does by itself (`MoveUnder`, `ReachesUnder`).
- `InOrder`: a run asks each recorded call once the ones recorded before it have been answered as
  recorded, whatever state it runs in. So two constraints of one call part only at a
  call that both ask, and an insertion meets no question without an answer (`NotTorn`).
- `Recalled`: the value the call began with gives the recorded answers, and the recorded writes lead
  from it to the present one. The present value may answer otherwise once the call has written.
- `OutermostTrue`: the outermost call, in particular, is where a run gets from the state it was called in.

and of each entry that it `Stands` for a run and is `InOrder`. Every step of the
runtime is then one `Progress` of the runs its calls stand for: a read, a write
or a new call is one move of theirs, a hit is as many as the entry's run took
(`HitLeads`), and `Progressed` carries the claims over it. The recorders must
hear the whole path of an entry that is hit. This is where the port differs from
the original, and where the proof needs `NestedReadsRecorded`: in the port the path of a nested hit is
recorded only if the caller has asked the same before, as in `nested`; where it has not, `reads_lost` and
section 6 show the three properties fail. A recorded return then gives a true entry (`EntryOfReturn`, `InsertTrue`).

That the recorded answers are those of one state, the one the call began in, is where `ReadsFirst` is
needed: a function that writes and then reads for the first time what it wrote records an answer that no state
from which it begins gives (`RecalledOn`). `Uniform` is needed to hold another state to account: if it answers the recorded
calls alike, so does what the recorded writes make of it (`AnswersAfter`, `SameAnswers`). With `Recalled`
a recorder that finds two answers for a call has heard a write between them (`Blames`), which is
`OnlyWritersBlamed`: `flip` of `original` reads `x`, changes it and reads it again, and
ends the program so. A panic leaves the calls, the value and the caches as they are, so `RInv` outlives it.

`Invisible` is a simulation: while a call runs, the tracked value *outside* is the one it began
with, so every step inside maps to a stutter, and a return or a top-level hit to one
call of `DirectExecution` (`VisibleStep`).

### Several tracked parameters

`SeveralProofs`, for any functions of one to six parameters. `Arity`, a constant of the
proofs and not of the program, says how many each has.

| Condition | Says | Satisfied by |
|---|---|---|
| `Wired` | every call gets distinct cells, one for each parameter; a body names parameters it has and passes on some of them, each once, to memoized functions | `several`, `merged`; not `aliased` |
| `PassedInPlace` | recorded calls are hashed with their parameter, and parameters are passed on in place | `several` |

| Theorem | Under | States |
|---|---|---|
| `Invariant` | `Wired` | `Spec => []IInv` |
| `Nested`, `FlagOfOutermost` | `Wired` | `ChainsNest`, `HitFlagExact` |
| `Finished` | `Wired` | `FinishedUntouched`: no step writes a constraint whose call is over |
| `RecordedStands`, `Blamed` | `Wired`, `PassedInPlace` | `AnswersStand`, `OnlyWritersBlamed` |

That the cells are distinct is needed: `aliased` is the counterexample. `IInv` says of
each cell that its chain is that of all running calls that have it (`Attached`), and of each
running call that what its attach found is the chain of the calls around it
(`DetachRestores`): so detach takes away the links of one call and no others
(`ChainBeside`), in whatever order the parameters are restored. `FinishedUntouched`
needs more than chains: an entry shares its array with a constraint that
no running call owns (`EntriesFinished`), and what a hit replays is on parameters that
the function has (`WritesOn`), whose chains lead to running calls only. That is why
the writes of running calls are in the invariant too (`RunningWrites`).

`OnlyWritersBlamed` rests on `AnswersStand`: a recorded answer is the one the cell gives now, unless
the recorder has heard a write on that parameter. With parameters passed on in
place, a cell is the same parameter of all calls that run (`Everywhere`), so a write,
also one of a nested call or a replay, reaches every recorder that has read the
cell, under the name it was read by (`WriteStands`).

Not proved, only checked by TLC:

- `OperationsEnd`: liveness.
- Soundness of functions that read what they have written (`ReadsFirst` fails): the
  recorded answer is then one no later call can validate, and `stale_answer` shows what the port makes of it.
- Of `MemoizeSeveral`: `NoCallMissing` and `Transparent`, which need the argument of
  `MemoizeSoundness` over again for tuples of values.

## 6. What the violations show

- `reads_lost`: a nested call that **hits** does not pass its recorded reads to
  the enclosing recorder; `tracked.mbt:50-54` says nested calls do, and the original's
  lookup does (`refs/comemo/src/input.rs:93-99`). The enclosing entry then depends
  on less than its value does: after an edit only the nested call read, it can hit
  with the old value; and one deterministic function can leave two constraints
  that disagree, on which `memoize` panics as if the user's function
  were impure (`memoize.mbt:106`).
- `stale_answer`: on a single `TrackedMut`, an accelerator answer survives the
  replay that makes it wrong, and a later lookup hits on it, against
  `README.md:86-87`.
- `aliased`: with one `Tracked` for two parameters, detaching in the order of attaching
  leaves a recorder behind, and the next call on that value writes into
  a finished constraint, against `tracked.mbt:59-62`.
- `astral`: `find("\u{10800}A", "\u{0800}")` is recorded, and `find("\u{0800}A", "\u{0800}")` is found: the
  last branch of `bytes_of_string_without_term` (`hash.mbt:186-190`) keeps 16 bits of a character, so the
  bytes are not the "utf8 bytes" of `hash.mbt:104` and `:173`, nor "byte-identical to Rust comemo"
  (`hash.mbt:1`), and one call is taken for another.
- `merged`: a merged call is recorded under the hash it had before it was merged, and
  looked for under the merged one. The second insertion under a key always fails,
  silently (`memoize.mbt:225`): once its data has changed, a function is computed anew on every call.

Not a run of its own: `README.md:107` says that `evict` resets the validation accelerators.
It does not (`cache.mbt:37-41`); `EvictAnswers` is a separate action that no code
of the library takes.

## 7. Not modelled

- **murmur3**: mixing of 64-bit words, beyond exhaustive checking. 64-bit integers as
  call arguments have no operator in `Encodings`.
- **Caches made while others run** (`Cache::new` registers an evictor that is
  never removed), two functions that share one cache, `evict` called by a
  memoized function, and `reset_oracle`.
- **Insertions in the `Merged` wiring that the first failure hides**: two parameters
  whose calls are encoded alike.
- **The memoize2 wrapper of the generator as written**: it is emitted after the output file
  is closed (`gen.py:259`), and its oracle and replay are stubs. Its attach is modelled.
- **Demo output, assertions of the tests, packaging, notes**: no state of this runtime.
- **`refs/typst`**: nearly all of the repository's lines are typst's sources, vendored
  for reference. The port neither builds nor calls them, so the share of all lines
  that the models cover stays below one percent; of `lib`'s runtime files (tree,
  constraint, accelerate, cache, memoize, tracked, testing) they cover most.

## 8. Plan

Done: slab, tree, sequence, encodings, the runtime over one and several tracked
values; proofs of all of them, but for the soundness of the runtime over several values.

1. `NoCallMissing` and `Transparent` of `MemoizeSeveral`, along `RInv` of `MemoizeSoundness`.
2. Parameters passed on in another order (`several`), which needs bodies with swapped tags:
   without `PassedInPlace` the recorders are still attached as they should be, but what they record is wrong.
