------------------------------ MODULE CallTree ------------------------------
(***************************************************************************)
(* The call tree of src/lib/tree.mbt: one decision tree per key hash.  An  *)
(* inner node asks a tracked call, its outgoing edges are labelled with    *)
(* return hashes, a leaf holds the memoized value.  Nodes live in two      *)
(* slabs; a node is named by an integer, an inner node by its index and a  *)
(* leaf by -(index) - 1.                                                   *)
(*                                                                         *)
(* insert, get and retain are loops.  Each iteration is an action, pc says *)
(* which loop runs, and only that loop can step: the runtime is single     *)
(* threaded and these methods run to completion.                           *)
(***************************************************************************)
EXTENDS Slab, FiniteSets

CONSTANTS
  Keys,       \* key hashes
  Calls,      \* tracked calls
  Rets,       \* return hashes
  Values,     \* memoized values
  MaxCalls,   \* bound: length of an inserted call sequence
  MaxLeaves   \* bound: live leaves

VARIABLES
  inner,      \* slab of inner nodes
  leaves,     \* slab of leaf nodes
  start,      \* key |-> root node or None
  edges,      \* <<inner id, ret>> |-> node, a partial function
  pc,         \* the loop that is running
  args,       \* the arguments of the operation that is running
  taken,      \* indices of args.seq already consumed by next or extract
  cursor,     \* the node the loop is at (retain: the parent it climbs to)
  pred,       \* insert: where the next node hangs, <<inner id, ret>> or None
  idx,        \* retain: the leaf slot it is at
  result      \* what the operation returned

treeVars == <<inner, leaves, start, edges>>
loopVars == <<taken, cursor, pred, idx>>
vars == <<inner, leaves, start, edges, pc, args, taken, cursor, pred, idx, result>>

-----------------------------------------------------------------------------

Pairs == [call : Calls, ret : Rets]

(* A finished CallSequence: calls in order of first occurrence, no call twice *)
CallSequences ==
  {s \in UNION {[1 .. n -> Pairs] : n \in 0 .. MaxCalls} :
     \A i, j \in DOMAIN s : s[i].call = s[j].call => i = j}

Oracles == [Calls -> Rets]

InsertArgs == [op : {"insert"}, key : Keys, seq : CallSequences, value : Values]
GetArgs    == [op : {"get"}, key : Keys, oracle : Oracles]
RetainArgs == [op : {"retain"}, keep : SUBSET Values]

InnerNode == [call : Calls, children : Nat, parent : Nat \cup {None}]
LeafNode  == [value : Values, parent : Nat \cup {None}]

ASSUME NoneAssumption ==
  /\ None \notin Int
  /\ None \notin Values
  /\ None \notin InnerNode
  /\ None \notin LeafNode
  /\ None \notin Nat \X Rets
ASSUME BoundsAssumption == MaxCalls \in Nat /\ MaxLeaves \in Nat

NodeLeaf(i) == -i - 1
IsLeaf(n)   == n < 0
LeafId(n)   == -n - 1

ExistsNode(n) ==
  IF IsLeaf(n) THEN SlabContains(leaves, LeafId(n)) ELSE SlabContains(inner, n)

(* CallSequence::extract(c): the pairs it may still find *)
Extractable(c) == {i \in DOMAIN args.seq \ taken : args.seq[i].call = c}

(* CallSequence::next: the first pair not consumed yet *)
Pending == DOMAIN args.seq \ taken
IsLast(i) == i \in Pending /\ \A j \in Pending : i >= j   \* faulty: newest first
IsNext(i) == i \in Pending /\ \A j \in Pending : i <= j

-----------------------------------------------------------------------------

Init ==
  /\ inner = EmptySlab /\ leaves = EmptySlab
  /\ start = [k \in Keys |-> None]
  /\ edges = <<>>
  /\ pc = "idle" /\ args = None /\ result = None
  /\ taken = {} /\ cursor = None /\ pred = None /\ idx = 0

(* The operation is over and returns r *)
Finish(r) ==
  /\ pc' = "done" /\ result' = r
  /\ taken' = {} /\ cursor' = None /\ pred' = None /\ idx' = 0
  /\ UNCHANGED args

Return ==
  /\ pc = "done"
  /\ pc' = "idle" /\ args' = None /\ result' = None
  /\ UNCHANGED <<treeVars, loopVars>>

-----------------------------------------------------------------------------
(* CallTree::link, applied after a node was put in a slab: base is the     *)
(* inner slab that holds it.                                               *)

OneMore(node)  == [node EXCEPT !.children = @ + 1]
StillCounted(node) == node                \* faulty OneFewer: the child stays counted
OneFewer(node) == [node EXCEPT !.children = @ - 1]

HangOn(to) ==
  /\ start' = IF cursor = None THEN [start EXCEPT ![args.key] = to] ELSE start
  /\ edges' = IF pred = None THEN edges
              ELSE [p \in DOMAIN edges \cup {pred} |-> IF p = pred THEN to ELSE edges[p]]

CountChild(base) ==
  inner' = IF pred = None THEN base
           ELSE SlabUpdate(base, pred[1], OneMore(Slot(base, pred[1])))

Link(base, to) == HangOn(to) /\ CountChild(base)

-----------------------------------------------------------------------------
(* CallTree::insert.  In pc "walk" no predecessor is set: the sequence is  *)
(* matched against the tree.  In pc "append" new nodes are added, at the   *)
(* root when there was none and below pred otherwise.                      *)

InsertCall(k, s, v) ==
  /\ pc = "idle"
  /\ SlabLen(leaves) < MaxLeaves
  /\ args' = [op |-> "insert", key |-> k, seq |-> s, value |-> v]
  /\ cursor' = start[k]
  /\ pc' = IF start[k] = None THEN "append" ELSE "walk"
  /\ UNCHANGED <<treeVars, taken, pred, idx, result>>

WalkAlreadyExists ==
  /\ pc = "walk" /\ IsLeaf(cursor)
  /\ Finish("AlreadyExists")
  /\ UNCHANGED treeVars

WalkMissingCall ==
  /\ pc = "walk" /\ ~IsLeaf(cursor)
  /\ SlabContains(inner, cursor) => Extractable(Slot(inner, cursor).call) = {}
  /\ Finish("MissingCall")
  /\ UNCHANGED treeVars

WalkExtract ==
  /\ pc = "walk" /\ ~IsLeaf(cursor)
  /\ SlabContains(inner, cursor)
  /\ \E i \in Extractable(Slot(inner, cursor).call) :
       LET pair == <<cursor, args.seq[i].ret>> IN
       /\ taken' = taken \cup {i}
       /\ IF pair \in DOMAIN edges
            THEN cursor' = edges[pair] /\ UNCHANGED <<pc, pred>>
            ELSE pred' = pair /\ pc' = "append" /\ UNCHANGED cursor
  /\ UNCHANGED <<treeVars, args, idx, result>>

NoParent == None                          \* faulty PredNode: parents are not set
PredNode == IF pred = None THEN None ELSE pred[1]

NewNode(c) == [call |-> c, children |-> 0, parent |-> PredNode]

AppendCall ==
  /\ pc = "append"
  /\ \E i \in DOMAIN args.seq :
       /\ IsNext(i)
       /\ Link(SlabInsert(inner, NewNode(args.seq[i].call)), SlabNextId(inner))
       /\ pred' = <<SlabNextId(inner), args.seq[i].ret>>
       /\ cursor' = SlabNextId(inner)
       /\ taken' = taken \cup {i}
  /\ UNCHANGED <<leaves, pc, args, idx, result>>

AppendLeaf ==
  /\ pc = "append" /\ Pending = {}
  /\ Link(inner, NodeLeaf(SlabNextId(leaves)))
  /\ leaves' = SlabInsert(leaves, [value |-> args.value, parent |-> PredNode])
  /\ Finish("Ok")

-----------------------------------------------------------------------------
(* CallTree::get.                                                          *)

GetCall(k, o) ==
  /\ pc = "idle"
  /\ args' = [op |-> "get", key |-> k, oracle |-> o]
  /\ cursor' = start[k]
  /\ pc' = "get"
  /\ UNCHANGED <<treeVars, taken, pred, idx, result>>

GetInner ==
  /\ pc = "get" /\ cursor # None /\ ~IsLeaf(cursor)
  /\ SlabContains(inner, cursor)
  /\ LET pair == <<cursor, args.oracle[Slot(inner, cursor).call]>>
     IN cursor' = IF pair \in DOMAIN edges THEN edges[pair] ELSE None
  /\ UNCHANGED <<treeVars, pc, args, taken, pred, idx, result>>

GetLeaf ==
  /\ pc = "get" /\ cursor # None /\ IsLeaf(cursor)
  /\ SlabContains(leaves, LeafId(cursor))
  /\ Finish(Slot(leaves, LeafId(cursor)).value)
  /\ UNCHANGED treeVars

GetNothing ==
  /\ pc = "get"
  /\ cursor # None => ~ExistsNode(cursor)
  /\ Finish(None)
  /\ UNCHANGED treeVars

-----------------------------------------------------------------------------
(* CallTree::retain: scan the leaves, unlink each dropped one from the     *)
(* bottom up, then prune what points to removed nodes.                     *)

RetainCall(keep) ==
  /\ pc = "idle"
  /\ args' = [op |-> "retain", keep |-> keep]
  /\ pc' = "retain"
  /\ UNCHANGED <<treeVars, loopVars, result>>

Dropped(i) == SlabContains(leaves, i) /\ Slot(leaves, i).value \notin args.keep

(* A faulty RetainKeep: the scan does not move on from a leaf it keeps *)
RetainStay ==
  /\ pc = "retain" /\ idx < Len(leaves.data) /\ ~Dropped(idx)
  /\ UNCHANGED vars

RetainKeep ==
  /\ pc = "retain" /\ idx < Len(leaves.data) /\ ~Dropped(idx)
  /\ idx' = idx + 1
  /\ UNCHANGED <<treeVars, pc, args, taken, cursor, pred, result>>

RetainDrop ==
  /\ pc = "retain" /\ idx < Len(leaves.data) /\ Dropped(idx)
  /\ cursor' = Slot(leaves, idx).parent
  /\ pc' = "unlink"
  /\ UNCHANGED <<treeVars, args, taken, pred, idx, result>>

(* The only child of its parent: the parent goes too *)
UnlinkParent ==
  /\ pc = "unlink" /\ cursor # None
  /\ Slot(inner, cursor).children <= 1
  /\ inner' = SlabRemove(inner, cursor)
  /\ cursor' = Slot(inner, cursor).parent
  /\ UNCHANGED <<leaves, start, edges, pc, args, taken, pred, idx, result>>

(* A parent with other children, or no parent: the climb ends *)
UnlinkLeaf ==
  /\ pc = "unlink"
  /\ \/ cursor = None /\ inner' = inner
     \/ /\ cursor # None
        /\ Slot(inner, cursor).children > 1
        /\ inner' = SlabUpdate(inner, cursor, OneFewer(Slot(inner, cursor)))
  /\ leaves' = SlabRemove(leaves, idx)
  /\ idx' = idx + 1
  /\ cursor' = None
  /\ pc' = "retain"
  /\ UNCHANGED <<start, edges, args, taken, pred, result>>

(* A faulty RetainPrune: the roots are pruned, the edges are forgotten *)
PruneRootsOnly ==
  /\ pc = "retain" /\ idx >= Len(leaves.data)
  /\ start' = [k \in Keys |->
                 IF start[k] # None /\ ExistsNode(start[k]) THEN start[k] ELSE None]
  /\ Finish("Unit")
  /\ UNCHANGED <<inner, leaves, edges>>

RetainPrune ==
  /\ pc = "retain" /\ idx >= Len(leaves.data)
  /\ edges' = [p \in {q \in DOMAIN edges : ExistsNode(edges[q])} |-> edges[p]]
  /\ start' = [k \in Keys |->
                 IF start[k] # None /\ ExistsNode(start[k]) THEN start[k] ELSE None]
  /\ Finish("Unit")
  /\ UNCHANGED <<inner, leaves>>

-----------------------------------------------------------------------------

Request ==
  \/ \E k \in Keys, s \in CallSequences, v \in Values : InsertCall(k, s, v)
  \/ \E k \in Keys, o \in Oracles : GetCall(k, o)
  \/ \E keep \in SUBSET Values : RetainCall(keep)

Insert == WalkAlreadyExists \/ WalkMissingCall \/ WalkExtract \/ AppendCall \/ AppendLeaf
Get    == GetInner \/ GetLeaf \/ GetNothing
Retain == RetainKeep \/ RetainDrop \/ UnlinkParent \/ UnlinkLeaf \/ RetainPrune

Step == Insert \/ Get \/ Retain \/ Return

Next == Request \/ Step

Spec == Init /\ [][Next]_vars

(* A method that was called runs: nothing else can take the thread *)
FairSpec == Spec /\ WF_vars(Step)

-----------------------------------------------------------------------------
(***************************************************************************)
(* Properties.                                                             *)
(***************************************************************************)

(* The shape of the state, and slabs whose free list is exact: an index is *)
(* handed out again only after it was removed (tree.mbt Slab).             *)
TypeOK ==
  /\ SlabOK(inner, InnerNode) /\ SlabOK(leaves, LeafNode)
  /\ start \in [Keys -> Int \cup {None}]
  /\ DOMAIN edges \subseteq Nat \X Rets
  /\ edges \in [DOMAIN edges -> Int]
  /\ pc \in {"idle", "walk", "append", "get", "retain", "unlink", "done"}
  /\ taken \subseteq 1 .. MaxCalls
  /\ cursor \in Int \cup {None}
  /\ pred \in (Nat \X Rets) \cup {None}
  /\ idx \in Nat

(* No loop is changing the tree *)
Quiet == pc \in {"idle", "walk", "get", "done"}

LiveInner == {i \in 0 .. Len(inner.data) - 1 : SlabContains(inner, i)}

EdgesFrom(id) == {p \in DOMAIN edges : p[1] = id}

(* assert_consistency of tree.mbt, between any two operations: the roots   *)
(* and both ends of every edge are live nodes, whatever was inserted,      *)
(* failed to insert, was retained or dropped, and however slots were       *)
(* reused.                                                                 *)
Consistent ==
  Quiet =>
    /\ \A k \in Keys : start[k] # None => ExistsNode(start[k])
    /\ \A p \in DOMAIN edges : SlabContains(inner, p[1]) /\ ExistsNode(edges[p])

(* Nothing leaks and nothing is shared: an inner node lives exactly as     *)
(* long as it has an edge to a child, its counter says how many it has, so *)
(* that retain prunes it with its last one, and no two edges lead to one   *)
(* node.  A failed insertion leaves no half-built path behind.             *)
ChildrenCounted ==
  Quiet =>
    /\ \A id \in LiveInner :
         /\ EdgesFrom(id) # {}
         /\ Slot(inner, id).children = Cardinality(EdgesFrom(id))
    /\ \A p, q \in DOMAIN edges : edges[p] = edges[q] => p = q

(* Every loop of insert, get and retain ends: the walk over the tree and   *)
(* the climb to the root cannot run in a cycle.                            *)
OperationsEnd == pc # "idle" ~> pc = "idle"
=============================================================================
