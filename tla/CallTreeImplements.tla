------------------------- MODULE CallTreeImplements -------------------------
(***************************************************************************)
(* The call tree implements DecisionTree.  An entry is read off a leaf by  *)
(* climbing to its root.  An insertion takes effect when its leaf is       *)
(* linked, a get when it returns and a retain when it is called.           *)
(***************************************************************************)
EXTENDS CallTreeInvariant, DecisionPaths

-----------------------------------------------------------------------------
(* A forest: its nodes, those of them that are inner, and what each node   *)
(* hangs on, under which label, and asks.                                  *)

Above(f, n, trails) ==
  IF f.up[n] = None THEN [root |-> n, path |-> <<>>]
  ELSE [root |-> trails[f.up[n]].root,
        path |-> Append(trails[f.up[n]].path,
                        [call |-> f.ask[f.up[n]], ret |-> f.label[n]])]

(* Node |-> the root it is under and the pairs on the way to it from there *)
Trails(f) ==
  LET trails[n \in f.nodes] == Above(f, n, trails) IN trails

-----------------------------------------------------------------------------
(* The forest of the nodes that live, and the entries at its leaves.       *)

(* The label of the edge from a node to the child c *)
Label(p, c) ==
  (CHOOSE e \in DOMAIN edges : e[1] = p /\ edges[e] = c)[2]

Nested == {n \in NodeNames : LiveNode(n)}

Forest ==
  [nodes |-> Nested,
   inner |-> LiveInner,
   up    |-> [n \in Nested |-> ParentOf(n)],
   label |-> [n \in Nested |-> IF ParentOf(n) = None THEN None ELSE Label(ParentOf(n), n)],
   ask   |-> [i \in LiveInner |-> Slot(inner, i).call]]

KeyOf(root) == CHOOSE k \in Keys : start[k] = root

EntryAt(l, trail) ==
  [key |-> KeyOf(trail.root), path |-> trail.path, value |-> Slot(leaves, l).value]

(* The leaves that retain, if it is running, will leave *)
LeavesKept ==
  {l \in 0 .. Len(leaves.data) - 1 :
     /\ SlabContains(leaves, l)
     /\ Retaining => Slot(leaves, l).value \in args.keep}

(* The forest is bound by a quantifier, so that TLC computes it just once *)
Entries ==
  UNION {{EntryAt(l, Trails(forest)[NodeLeaf(l)]) : l \in LeavesKept} : forest \in {Forest}}

Call ==
  IF pc = "done" THEN [args |-> args, result |-> result]
  ELSE IF Retaining THEN [args |-> args, result |-> "Unit"]
  ELSE None

Abstract == INSTANCE DecisionTree WITH entries <- Entries, call <- Call

(* Every insert, get and retain of the slab-and-edges tree has the effect  *)
(* and the result of the corresponding single step on a set of entries:    *)
(* tree.mbt's loops, link bookkeeping and bottom-up pruning are invisible. *)
ImplementsDecisionTree == Abstract!Spec

-----------------------------------------------------------------------------
(* What the implementation rests on besides IInv: every node has a way up  *)
(* to a root, and a loop has covered a way down.                           *)

TrailOf(n) == Trails(Forest)[n]

(* The climb from a node ends, and no call is asked twice on the way *)
Trailed ==
  \A forest \in {Forest} :
    LET trails == Trails(forest) IN
    /\ \A n \in Nested :
         trails[n] = Above(forest, n, trails) /\ trails[n].path \in Seq(Pairs)
    /\ \A i \in LiveInner : Slot(inner, i).call \notin CallsOf(trails[i].path)

(* Each tree has a key, and no two keys the same tree *)
Rooted ==
  /\ \A j, k \in Keys : start[j] # None /\ start[j] = start[k] => j = k
  /\ \A n \in Nested : ParentOf(n) = None => \E k \in Keys : start[k] = n

(* insert is at a node whose path the sequence answers, and has taken just *)
(* the answers to it.                                                      *)
Walking ==
  /\ pc \notin {"walk", "append"} => taken = {}
  /\ pc = "walk" =>
       LET at == TrailOf(cursor) IN
       /\ at.root = start[args.key]
       /\ Follows(at.path, args.seq)
       /\ taken = {i \in DOMAIN args.seq : args.seq[i] \in Range(at.path)}

(* get is at a node whose path the oracle answers; at none, nothing matches *)
Getting ==
  pc = "get" =>
    IF cursor = None THEN Matching(Entries, args.key, args.oracle) = {}
    ELSE LET at == TrailOf(cursor) IN
         /\ at.root = start[args.key]
         /\ \A q \in Range(at.path) : args.oracle[q.call] = q.ret

(* The path insert is making, up to where the next node will hang *)
Made ==
  IF pred = None THEN <<>>
  ELSE Append(TrailOf(pred[1]).path, [call |-> Slot(inner, pred[1]).call, ret |-> pred[2]])

(* The part of the new path that other entries share *)
Shared ==
  IF OfKey(Entries, args.key) = {} THEN <<>>
  ELSE CHOOSE p \in Divergences(Entries, args.key, args.seq) : TRUE

(* insert has made the shared part and what it has taken of the rest, in   *)
(* its order.                                                              *)
Appending ==
  pc = "append" =>
    /\ ~AlreadyThere(Entries, args.key, args.seq)
    /\ ~LacksCall(Entries, args.key, args.seq)
    /\ pred # None => TrailOf(pred[1]).root = start[args.key]
    /\ pred = None <=> start[args.key] = None
    /\ pred = None => OfKey(Entries, args.key) = {}
    /\ Shared \in Seq(Pairs) /\ Range(Shared) \subseteq Range(args.seq)
    /\ \A i \in Pending, j \in DOMAIN args.seq :
         /\ args.seq[i] \notin Range(Shared)
         /\ j > i => j \in Pending \/ args.seq[j] \in Range(Shared)
    /\ Made = Shared \o Without(args.seq, Range(Shared) \cup {args.seq[i] : i \in Pending})

(* The scan has kept what it is behind *)
Sweeping ==
  /\ ~Retaining => idx = 0
  /\ Retaining => \A l \in 0 .. idx - 1 :
       SlabContains(leaves, l) => Slot(leaves, l).value \in args.keep
  /\ pc = "unlink" => Slot(leaves, idx).value \notin args.keep

(* The inductive invariant, together with what shows in the entries: the   *)
(* loops of tree.mbt never lose their way in the tree they change.         *)
RInv ==
  /\ IInv
  /\ Trailed /\ Rooted
  /\ Walking /\ Getting /\ Appending /\ Sweeping
=============================================================================
