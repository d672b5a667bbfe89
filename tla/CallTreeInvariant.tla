-------------------------- MODULE CallTreeInvariant -------------------------
(***************************************************************************)
(* The inductive invariant of the call tree: what holds between any two    *)
(* steps of its loops.  While retain removes a branch its leaf still sits  *)
(* in its slot, and the node the climb is at still counts the child it has *)
(* just lost; the definitions below take the branch as gone already.       *)
(***************************************************************************)
EXTENDS CallTree

Unlinking(n) == pc = "unlink" /\ n = NodeLeaf(idx)

LiveNode(n) == ExistsNode(n) /\ ~Unlinking(n)

ParentOf(n) ==
  IF IsLeaf(n) THEN Slot(leaves, LeafId(n)).parent ELSE Slot(inner, n).parent

Retaining == pc \in {"retain", "unlink"}

NodeNames == (-Len(leaves.data)) .. (Len(inner.data) - 1)

(* The edges from a node to nodes that live *)
OutEdges(id) == {p \in DOMAIN edges : p[1] = id /\ LiveNode(edges[p])}

(* The child the counter of id has on top of those edges *)
Phantom(id) == IF pc = "unlink" /\ cursor = id THEN 1 ELSE 0

-----------------------------------------------------------------------------

(* An edge leads from the parent of the node it leads to *)
EdgesPointBack ==
  \A p \in DOMAIN edges : LiveNode(edges[p]) => ParentOf(edges[p]) = p[1]

(* No two edges lead to one node *)
OneEdgeEach ==
  \A p, q \in DOMAIN edges : LiveNode(edges[p]) /\ edges[p] = edges[q] => p = q

(* A node with a parent hangs on an edge of it, and the parent lives *)
Hanging ==
  \A n \in NodeNames : LiveNode(n) /\ ParentOf(n) # None =>
    /\ SlabContains(inner, ParentOf(n))
    /\ \E p \in DOMAIN edges : p[1] = ParentOf(n) /\ edges[p] = n

RootsHaveNoParent ==
  \A k \in Keys : start[k] # None /\ LiveNode(start[k]) => ParentOf(start[k]) = None

(* Only retain leaves anything dangling, until it prunes *)
NothingDangles ==
  ~Retaining =>
    /\ \A k \in Keys : start[k] # None => LiveNode(start[k])
    /\ \A p \in DOMAIN edges : SlabContains(inner, p[1]) /\ LiveNode(edges[p])

(* The counters are right, and only the node insert has just added may     *)
(* still be without a child.                                               *)
Counted ==
  /\ IsFiniteSet(DOMAIN edges)
  /\ \A id \in LiveInner :
       /\ Slot(inner, id).children = Cardinality(OutEdges(id)) + Phantom(id)
       /\ \/ Slot(inner, id).children > 0
          \/ pc = "append" /\ pred # None /\ id = pred[1]

(* What each loop knows of its variables *)
LoopOK ==
  /\ pc \in {"idle", "done", "retain"} => cursor = None
  /\ pc # "append" => pred = None
  /\ pc \in {"walk", "append"} => args \in InsertArgs
  /\ pc = "get" => args \in GetArgs
  /\ pc = "walk" => cursor # None
  /\ pc \in {"walk", "get"} => cursor = None \/ LiveNode(cursor)
  /\ pc = "append" =>
       IF pred = None
         THEN cursor = None /\ start[args.key] = None
         ELSE cursor # None /\ SlabContains(inner, pred[1]) /\ pred \notin DOMAIN edges
  /\ pc = "unlink" =>
       SlabContains(leaves, idx) /\ (cursor # None => SlabContains(inner, cursor))

TreeOK ==
  /\ EdgesPointBack /\ OneEdgeEach /\ Hanging /\ RootsHaveNoParent
  /\ NothingDangles /\ Counted

(* The inductive invariant: between any two steps of insert, get and       *)
(* retain of tree.mbt the slabs, the links and the counters agree.         *)
IInv == TypeOK /\ LoopOK /\ TreeOK
=============================================================================
