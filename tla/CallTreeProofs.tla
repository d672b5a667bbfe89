--------------------------- MODULE CallTreeProofs ---------------------------
(***************************************************************************)
(* The call tree keeps its invariant, for any number of keys, calls and    *)
(* values: the proofs of IInv's initiality and of its preservation, one    *)
(* lemma per action that changes the tree, and what follows from it.       *)
(***************************************************************************)
EXTENDS CallTreeInvariant, FiniteSetTheorems, TLAPS

-----------------------------------------------------------------------------
(* What the operations of a slab return, change and preserve, as long as   *)
(* its free list is exact.  The tree's proofs use the slabs through these  *)
(* lemmas only.                                                            *)

(* A live slot holds an element of T, at a natural index. *)
LEMMA SlabSlotType ==
  ASSUME NEW T, NEW s, SlabOK(s, T), NEW i \in Int, SlabContains(s, i)
  PROVE  i \in Nat /\ Slot(s, i) \in T
BY DEF SlabOK, SlabType, SlabContains, Slot

(* A new slab is empty. *)
LEMMA SlabEmpty ==
  ASSUME NEW T
  PROVE  SlabOK(EmptySlab, T) /\ \A i \in Int : ~SlabContains(EmptySlab, i)
BY DEF SlabOK, SlabType, FreeListExact, SlabContains, Slot, EmptySlab

(* The index an insertion hands out was free: Slab::insert never           *)
(* overwrites a live slot.                                                 *)
LEMMA SlabFresh ==
  ASSUME NEW T, NEW s, SlabOK(s, T)
  PROVE  SlabNextId(s) \in Nat /\ ~SlabContains(s, SlabNextId(s))
<1>1. CASE s.free = <<>>
  BY <1>1 DEF SlabOK, SlabType, SlabNextId, SlabContains
<1>2. CASE s.free # <<>>
  <2>1. Len(s.free) \in DOMAIN s.free /\ Len(s.free) \in Nat
    BY <1>2 DEF SlabOK, SlabType
  <2>2. QED
    BY <1>2, <2>1 DEF SlabOK, SlabType, SlabNextId, SlabContains, FreeListExact
<1>3. QED BY <1>1, <1>2

(* Insertion makes exactly that index live, stores the value there, leaves *)
(* every other slot alone and keeps the free list exact.                   *)
LEMMA SlabInsertion ==
  ASSUME NEW T, None \notin T, NEW s, SlabOK(s, T), NEW v \in T
  PROVE  /\ SlabOK(SlabInsert(s, v), T)
         /\ \A i \in Int : SlabContains(SlabInsert(s, v), i)
                             <=> (i = SlabNextId(s) \/ SlabContains(s, i))
         /\ Slot(SlabInsert(s, v), SlabNextId(s)) = v
         /\ \A i \in Int : SlabContains(s, i) => Slot(SlabInsert(s, v), i) = Slot(s, i)
<1> DEFINE t == SlabInsert(s, v)
           n == SlabNextId(s)
<1>0. s.data \in Seq(T \cup {None}) /\ s.free \in Seq(Nat)
  BY DEF SlabOK, SlabType
<1>1. CASE s.free = <<>>
  <2>1. t = [data |-> Append(s.data, v), free |-> <<>>] /\ n = Len(s.data)
    BY <1>1 DEF SlabInsert, SlabNextId
  <2>2. /\ t.data \in Seq(T \cup {None}) /\ t.free = <<>>
        /\ Len(t.data) = Len(s.data) + 1
        /\ t.data[n + 1] = v
        /\ \A i \in 1 .. Len(s.data) : t.data[i] = s.data[i]
    BY <1>0, <2>1
  <2>3. \A id \in 0 .. Len(s.data) - 1 : s.data[id + 1] # None
    BY <1>0, <1>1 DEF SlabOK, FreeListExact, Slot
  <2>4. t \in SlabType(T)
    BY <2>1, <2>2 DEF SlabType
  <2>5. FreeListExact(t)
    BY <1>0, <2>1, <2>2, <2>3 DEF FreeListExact, Slot
  <2>6. QED
    BY <1>0, <2>1, <2>2, <2>4, <2>5 DEF SlabOK, SlabContains, Slot
<1>2. CASE s.free # <<>>
  <2> DEFINE m == Len(s.free)
  <2>1. m \in Nat /\ m \in DOMAIN s.free /\ n = s.free[m]
    BY <1>0, <1>2 DEF SlabNextId
  <2>2. n \in 0 .. Len(s.data) - 1 /\ s.data[n + 1] = None
    BY <2>1 DEF SlabOK, FreeListExact, Slot
  <2>3. t = [data |-> [s.data EXCEPT ![n + 1] = v], free |-> SubSeq(s.free, 1, m - 1)]
    BY <1>2 DEF SlabInsert
  <2>4. /\ t.data \in Seq(T \cup {None}) /\ Len(t.data) = Len(s.data)
        /\ t.data[n + 1] = v
        /\ \A i \in 1 .. Len(s.data) : i # n + 1 => t.data[i] = s.data[i]
    BY <1>0, <2>2, <2>3
  <2>5. /\ t.free \in Seq(Nat) /\ DOMAIN t.free = 1 .. m - 1
        /\ \A i \in 1 .. m - 1 : t.free[i] = s.free[i]
    BY <1>0, <2>1, <2>3, SMTT(20)
  <2>6. t \in SlabType(T)
    BY <2>3, <2>4, <2>5 DEF SlabType
  <2>7. DOMAIN s.free = 1 .. m
    BY <1>0
  <2>8. ASSUME NEW i \in DOMAIN t.free
        PROVE  t.free[i] \in 0 .. Len(t.data) - 1 /\ t.data[t.free[i] + 1] = None
    <3> HIDE DEF t, n, m
    <3>1. i \in 1 .. m - 1 /\ i \in DOMAIN s.free /\ t.free[i] = s.free[i]
      BY <2>1, <2>5, <2>7, <2>8
    <3>2. s.free[i] \in 0 .. Len(s.data) - 1 /\ s.data[s.free[i] + 1] = None
      BY <3>1 DEF SlabOK, FreeListExact, Slot
    <3>3. s.free[i] # n
      BY <2>1, <2>7, <3>1 DEF SlabOK, FreeListExact
    <3>4. PICK a \in Int : a = s.free[i]
      BY <3>2
    <3>5. a \in 0 .. Len(s.data) - 1 /\ s.data[a + 1] = None /\ a # n
      BY <3>2, <3>3, <3>4
    <3>6. Len(s.data) \in Nat /\ n \in Int
      BY <1>0, <2>2
    <3>7. a + 1 \in 1 .. Len(s.data) /\ a + 1 # n + 1
      BY <3>5, <3>6
    <3>8. QED
      BY <2>4, <3>1, <3>4, <3>5, <3>7
  <2>9. \A i, j \in DOMAIN t.free : t.free[i] = t.free[j] => i = j
    <3> HIDE DEF t, n, m
    <3>1. \A i \in 1 .. m - 1 : i \in DOMAIN s.free
      BY <2>1, <2>7
    <3>2. \A i, j \in DOMAIN s.free : s.free[i] = s.free[j] => i = j
      BY DEF SlabOK, FreeListExact
    <3>3. QED
      BY <2>5, <3>1, <3>2
  <2>10. ASSUME NEW id \in 0 .. Len(t.data) - 1, t.data[id + 1] = None
         PROVE  \E i \in DOMAIN t.free : t.free[i] = id
    <3>1. id # n
      BY <2>4, <2>10
    <3>2. s.data[id + 1] = None
      BY <1>0, <2>4, <2>10, <3>1
    <3>3. PICK i \in DOMAIN s.free : s.free[i] = id
      BY <2>4, <3>2 DEF SlabOK, FreeListExact, Slot
    <3>4. i # m
      BY <2>1, <3>1, <3>3
    <3> HIDE DEF t, n, m
    <3>5. i \in 1 .. m - 1
      BY <2>1, <2>7, <3>3, <3>4
    <3>6. i \in DOMAIN t.free /\ t.free[i] = id
      BY <2>5, <3>3, <3>5
    <3>7. QED
      BY <3>6
  <2>11. FreeListExact(t)
    BY <2>8, <2>9, <2>10 DEF FreeListExact, Slot
  <2>12. SlabOK(t, T)
    BY <2>6, <2>11 DEF SlabOK
  <2>13. /\ Slot(t, n) = v
         /\ \A i \in 0 .. Len(s.data) - 1 : i # n => Slot(t, i) = Slot(s, i)
    <3> HIDE DEF t, n, m
    <3>1. QED BY <1>0, <2>2, <2>4, SMTT(20) DEF Slot
  <2>14. \A i \in Int : SlabContains(t, i) <=> (i = n \/ SlabContains(s, i))
    <3> HIDE DEF t, n, m
    <3>1. QED BY <1>0, <2>2, <2>4, <2>13 DEF SlabContains
  <2>15. \A i \in Int : SlabContains(s, i) => Slot(t, i) = Slot(s, i)
    <3> HIDE DEF t, n, m
    <3>1. QED BY <1>0, <2>2, <2>13 DEF SlabContains, Slot
  <2>16. QED
    BY <2>12, <2>13, <2>14, <2>15
<1>3. QED BY <1>1, <1>2

(* Removing a live index frees exactly that one. *)
LEMMA SlabRemoval ==
  ASSUME NEW T, NEW s, SlabOK(s, T), NEW n \in Int, SlabContains(s, n)
  PROVE  /\ SlabOK(SlabRemove(s, n), T)
         /\ \A i \in Int : SlabContains(SlabRemove(s, n), i)
                             <=> (i # n /\ SlabContains(s, i))
         /\ \A i \in Int : i # n => Slot(SlabRemove(s, n), i) = Slot(s, i)
         /\ Len(SlabRemove(s, n).data) = Len(s.data)
<1> DEFINE t == SlabRemove(s, n)
           m == Len(s.free)
<1>0. /\ s.data \in Seq(T \cup {None}) /\ s.free \in Seq(Nat)
      /\ n \in 0 .. Len(s.data) - 1 /\ s.data[n + 1] # None
  BY DEF SlabOK, SlabType, SlabContains, Slot
<1>1. t = [data |-> [s.data EXCEPT ![n + 1] = None], free |-> Append(s.free, n)]
  BY DEF SlabRemove
<1>2. /\ t.data \in Seq(T \cup {None}) /\ Len(t.data) = Len(s.data)
      /\ t.data[n + 1] = None
      /\ \A i \in Int : i # n + 1 => t.data[i] = s.data[i]
  BY <1>0, <1>1
<1>3. /\ m \in Nat /\ DOMAIN s.free = 1 .. m
      /\ t.free \in Seq(Nat) /\ DOMAIN t.free = 1 .. m + 1
      /\ \A i \in 1 .. m : t.free[i] = s.free[i]
      /\ t.free[m + 1] = n
  BY <1>0, <1>1
<1>4. t \in SlabType(T)
  BY <1>1, <1>2, <1>3 DEF SlabType
<1>5. \A i \in 1 .. m : s.free[i] \in 0 .. Len(s.data) - 1 /\ s.data[s.free[i] + 1] = None
  BY <1>3 DEF SlabOK, FreeListExact, Slot
<1>6. ASSUME NEW i \in DOMAIN t.free
      PROVE  t.free[i] \in 0 .. Len(t.data) - 1 /\ t.data[t.free[i] + 1] = None
  <2> HIDE DEF t, m
  <2>1. CASE i = m + 1
    BY <1>0, <1>2, <1>3, <2>1
  <2>2. CASE i # m + 1
    <3>1. i \in 1 .. m
      BY <1>3, <1>6, <2>2
    <3>2. t.free[i] = s.free[i] /\ s.free[i] \in 0 .. Len(s.data) - 1
          /\ s.data[s.free[i] + 1] = None
      BY <1>3, <1>5, <3>1
    <3>3. CASE s.free[i] = n
      BY <1>0, <1>2, <3>2, <3>3
    <3>4. CASE s.free[i] # n
      <4>1. s.free[i] + 1 \in Int /\ s.free[i] + 1 # n + 1
        <5>1. PICK a \in Int : a = s.free[i]
          BY <3>2
        <5>2. n \in Int /\ a # n
          BY <3>4, <5>1
        <5>3. a + 1 # n + 1
          BY <5>1, <5>2
        <5>4. QED BY <5>1, <5>3
      <4>2. QED BY <1>2, <3>2, <4>1
    <3>5. QED BY <3>3, <3>4
  <2>3. QED BY <2>1, <2>2
<1>7. ASSUME NEW i \in DOMAIN t.free, NEW j \in DOMAIN t.free, t.free[i] = t.free[j]
      PROVE  i = j
  <2> HIDE DEF t, m
  <2>1. \A k \in 1 .. m : t.free[k] # n
    BY <1>0, <1>3, <1>5
  <2>2. \A k, l \in 1 .. m : s.free[k] = s.free[l] => k = l
    BY <1>3 DEF SlabOK, FreeListExact
  <2>3. QED
    BY <1>3, <1>7, <2>1, <2>2
<1>8. ASSUME NEW id \in 0 .. Len(t.data) - 1, t.data[id + 1] = None
      PROVE  \E i \in DOMAIN t.free : t.free[i] = id
  <2> HIDE DEF t, m
  <2>1. CASE id = n
    BY <1>3, <2>1
  <2>2. CASE id # n
    <3>1. s.data[id + 1] = None
      BY <1>0, <1>2, <1>8, <2>2
    <3>2. PICK i \in DOMAIN s.free : s.free[i] = id
      BY <1>2, <3>1 DEF SlabOK, FreeListExact, Slot
    <3>3. i \in 1 .. m /\ i \in DOMAIN t.free /\ t.free[i] = s.free[i]
      BY <1>3, <3>2
    <3>4. QED
      BY <3>2, <3>3
  <2>3. QED BY <2>1, <2>2
<1>9. FreeListExact(t)
  BY <1>6, <1>7, <1>8 DEF FreeListExact, Slot
<1>10. SlabOK(t, T) /\ Len(t.data) = Len(s.data)
  BY <1>2, <1>4, <1>9 DEF SlabOK
<1>11. ASSUME NEW i \in Int, i # n
       PROVE  Slot(t, i) = Slot(s, i)
  <2> HIDE DEF t
  <2>1. i + 1 \in Int /\ i + 1 # n + 1
    BY <1>0, <1>11
  <2>2. QED BY <1>2, <2>1 DEF Slot
<1>12. \A i \in Int : SlabContains(t, i) <=> (i # n /\ SlabContains(s, i))
  <2> HIDE DEF t
  <2>1. Slot(t, n) = None
    BY <1>2 DEF Slot
  <2>2. QED BY <1>0, <1>2, <1>11, <2>1 DEF SlabContains
<1>13. QED
  BY <1>10, <1>11, <1>12

(* Writing to the node in a live slot frees and fills nothing. *)
LEMMA SlabUpdating ==
  ASSUME NEW T, None \notin T, NEW s, SlabOK(s, T),
         NEW n \in Int, SlabContains(s, n), NEW v \in T
  PROVE  /\ SlabOK(SlabUpdate(s, n, v), T)
         /\ \A i \in Int : SlabContains(SlabUpdate(s, n, v), i) <=> SlabContains(s, i)
         /\ Slot(SlabUpdate(s, n, v), n) = v
         /\ \A i \in Int : i # n => Slot(SlabUpdate(s, n, v), i) = Slot(s, i)
<1> DEFINE t == SlabUpdate(s, n, v)
<1>0. /\ s.data \in Seq(T \cup {None}) /\ s.free \in Seq(Nat)
      /\ n \in 0 .. Len(s.data) - 1 /\ s.data[n + 1] # None
  BY DEF SlabOK, SlabType, SlabContains, Slot
<1>1. t = [data |-> [s.data EXCEPT ![n + 1] = v], free |-> s.free]
  BY DEF SlabUpdate
<1>2. /\ t.data \in Seq(T \cup {None}) /\ Len(t.data) = Len(s.data)
      /\ t.data[n + 1] = v
      /\ \A i \in Int : i # n + 1 => t.data[i] = s.data[i]
  BY <1>0, <1>1
<1>3. t \in SlabType(T)
  BY <1>0, <1>1, <1>2 DEF SlabType
<1>4. \A i \in DOMAIN s.free :
        s.free[i] \in 0 .. Len(s.data) - 1 /\ s.data[s.free[i] + 1] = None
  BY DEF SlabOK, FreeListExact, Slot
<1>5. /\ Slot(t, n) = v
      /\ \A i \in Int : i # n => Slot(t, i) = Slot(s, i)
  <2> HIDE DEF t
  <2>1. Slot(t, n) = v
    BY <1>2 DEF Slot
  <2>2. ASSUME NEW i \in Int, i # n
        PROVE  Slot(t, i) = Slot(s, i)
    <3>1. i + 1 \in Int /\ i + 1 # n + 1
      BY <1>0, <2>2
    <3>2. QED BY <1>2, <3>1 DEF Slot
  <2>3. QED BY <2>1, <2>2
<1>6. v # None
  OBVIOUS
<1>7. \A i \in 0 .. Len(s.data) - 1 : Slot(t, i) = None <=> Slot(s, i) = None
  <2> HIDE DEF t
  <2>1. Slot(s, n) # None
    BY <1>0 DEF Slot
  <2>2. QED BY <1>5, <1>6, <2>1
<1>8. FreeListExact(t)
  <2>1. t.free = s.free
    BY <1>1
  <2> HIDE DEF t
  <2>2. QED BY <1>2, <1>7, <2>1 DEF SlabOK, FreeListExact
<1>9. \A i \in Int : SlabContains(t, i) <=> SlabContains(s, i)
  <2> HIDE DEF t
  <2>1. QED BY <1>2, <1>7 DEF SlabContains
<1>10. QED
  BY <1>3, <1>5, <1>8, <1>9 DEF SlabOK

-----------------------------------------------------------------------------
(* Names and types. *)

(* A live node's name lies in the range that Hanging speaks of. *)
LEMMA NodeName ==
  ASSUME TypeOK, NEW n \in Int, ExistsNode(n)
  PROVE  n \in NodeNames
BY DEF TypeOK, ExistsNode, NodeNames, SlabContains, IsLeaf, LeafId, SlabOK, SlabType

(* The ends of an edge are a natural number and a node name. *)
LEMMA EdgeTypes ==
  ASSUME TypeOK, NEW p \in DOMAIN edges
  PROVE  p \in Nat \X Rets /\ p[1] \in Nat /\ edges[p] \in Int
BY DEF TypeOK

(* A live inner node and a live leaf are records of their types. *)
LEMMA InnerType ==
  ASSUME TypeOK, NEW i \in Int, SlabContains(inner, i)
  PROVE  /\ i \in Nat /\ i \in LiveInner
         /\ Slot(inner, i) \in InnerNode
         /\ Slot(inner, i).children \in Nat
         /\ Slot(inner, i).parent \in Nat \cup {None}
<1>1. i \in Nat /\ Slot(inner, i) \in InnerNode
  BY SlabSlotType DEF TypeOK
<1>2. QED
  BY <1>1 DEF InnerNode, LiveInner, SlabContains

(* A live leaf is a record of its type.                                    *)
LEMMA LeafType ==
  ASSUME TypeOK, NEW i \in Int, SlabContains(leaves, i)
  PROVE  /\ i \in Nat
         /\ Slot(leaves, i) \in LeafNode
         /\ Slot(leaves, i).parent \in Nat \cup {None}
<1>1. i \in Nat /\ Slot(leaves, i) \in LeafNode
  BY SlabSlotType DEF TypeOK
<1>2. QED
  BY <1>1 DEF LeafNode

(* The parent of a live node is an inner node's name or None. *)
LEMMA ParentType ==
  ASSUME TypeOK, NEW n \in Int, ExistsNode(n)
  PROVE  ParentOf(n) \in Nat \cup {None}
<1>1. CASE n < 0
  <2>1. SlabContains(leaves, LeafId(n)) /\ LeafId(n) \in Int
    BY <1>1 DEF ExistsNode, IsLeaf, LeafId
  <2>2. QED
    BY <1>1, <2>1, LeafType DEF ParentOf, IsLeaf
<1>2. CASE ~(n < 0)
  <2>1. SlabContains(inner, n)
    BY <1>2 DEF ExistsNode, IsLeaf
  <2>2. QED
    BY <1>2, <2>1, InnerType DEF ParentOf, IsLeaf
<1>3. QED BY <1>1, <1>2

(* Hanging, for any name of a live node. *)
LEMMA Hung ==
  ASSUME TypeOK, Hanging, NEW n \in Int, LiveNode(n), ParentOf(n) # None
  PROVE  /\ SlabContains(inner, ParentOf(n))
         /\ \E p \in DOMAIN edges : p[1] = ParentOf(n) /\ edges[p] = n
<1>1. n \in NodeNames
  BY NodeName DEF LiveNode
<1>2. QED
  BY <1>1 DEF Hanging

(* Initially there is no tree. *)
LEMMA InitIInv == ASSUME Init PROVE IInv
<1> USE DEF Init
<1>1. TypeOK
  BY SlabEmpty DEF TypeOK
<1>2. \A i \in Int : ~SlabContains(inner, i) /\ ~SlabContains(leaves, i)
  BY SlabEmpty
<1>3. \A n \in Int : ~LiveNode(n)
  BY <1>2 DEF LiveNode, ExistsNode, LeafId
<1>4. NodeNames \subseteq Int /\ LiveInner = {} /\ DOMAIN edges = {}
  BY <1>2 DEF NodeNames, LiveInner, EmptySlab
<1>5. LoopOK
  BY DEF LoopOK
<1>6. EdgesPointBack /\ OneEdgeEach /\ Hanging /\ RootsHaveNoParent
  BY <1>3, <1>4 DEF EdgesPointBack, OneEdgeEach, Hanging, RootsHaveNoParent
<1>7. NothingDangles
  BY <1>4 DEF NothingDangles
<1>8. Counted
  BY <1>4, FS_EmptySet DEF Counted
<1>9. QED
  BY <1>1, <1>5, <1>6, <1>7, <1>8 DEF IInv, TreeOK

-----------------------------------------------------------------------------
(* Steps that leave the tree as it is. *)

(* Nothing about the tree changes as long as no branch is being unlinked. *)
LEMMA Untouched ==
  ASSUME IInv, TypeOK', UNCHANGED treeVars,
         pc \notin {"append", "unlink"}, pc' # "unlink",
         pc = "retain" => pc' = "retain"
  PROVE  TreeOK' /\ \A n : LiveNode(n)' <=> LiveNode(n)
<1> USE DEF IInv, TreeOK, treeVars
<1>1. \A n : ExistsNode(n)' <=> ExistsNode(n)
  BY DEF ExistsNode
<1>2. \A n : LiveNode(n)' <=> LiveNode(n)
  BY <1>1 DEF LiveNode, Unlinking
<1>3. \A n : ParentOf(n)' = ParentOf(n)
  BY DEF ParentOf
<1>4. EdgesPointBack'
  BY <1>2, <1>3 DEF EdgesPointBack
<1>5. OneEdgeEach'
  BY <1>2 DEF OneEdgeEach
<1>6. Hanging'
  BY <1>2, <1>3 DEF Hanging, NodeNames
<1>7. RootsHaveNoParent'
  BY <1>2, <1>3 DEF RootsHaveNoParent
<1>8. NothingDangles'
  BY <1>2 DEF NothingDangles, Retaining
<1>9. Counted'
  <2>1. LiveInner' = LiveInner
    BY DEF LiveInner
  <2>2. \A i : OutEdges(i)' = OutEdges(i)
    BY <1>2 DEF OutEdges
  <2>3. \A i : Phantom(i)' = Phantom(i)
    BY DEF Phantom
  <2>4. QED
    BY <2>1, <2>2, <2>3 DEF Counted
<1>10. QED
  BY <1>2, <1>4, <1>5, <1>6, <1>7, <1>8, <1>9

(* The end of an operation that changed nothing. *)
LEMMA FinishKeeps ==
  ASSUME IInv, pc \in {"walk", "get"}, NEW r, Finish(r), UNCHANGED treeVars
  PROVE  IInv'
<1>1. TypeOK'
  BY DEF IInv, TypeOK, Finish, treeVars
<1>2. TreeOK'
  BY <1>1, Untouched DEF Finish
<1>3. LoopOK'
  BY DEF LoopOK, Finish
<1>4. QED
  BY <1>1, <1>2, <1>3 DEF IInv

(* A call starts: no loop was running, so nothing dangles. *)
LEMMA InsertCallKeeps ==
  ASSUME IInv, NEW k \in Keys, NEW s \in CallSequences, NEW v \in Values,
         InsertCall(k, s, v)
  PROVE  IInv'
<1> USE DEF InsertCall
<1>1. TypeOK'
  BY DEF IInv, TypeOK, treeVars
<1>2. TreeOK' /\ \A n : LiveNode(n)' <=> LiveNode(n)
  BY <1>1, Untouched
<1>3. start[k] # None => LiveNode(start[k])
  BY DEF IInv, TreeOK, NothingDangles, Retaining
<1>4. args' \in InsertArgs
  BY DEF InsertArgs
<1>5. args'.key = k
  OBVIOUS
<1>6. LoopOK'
  BY <1>2, <1>3, <1>4, <1>5 DEF IInv, LoopOK, treeVars
<1>7. QED
  BY <1>1, <1>2, <1>6 DEF IInv

(* A call of get keeps the invariant: it only sets the loop's variables.   *)
LEMMA GetCallKeeps ==
  ASSUME IInv, NEW k \in Keys, NEW o \in Oracles, GetCall(k, o)
  PROVE  IInv'
<1> USE DEF GetCall
<1>1. TypeOK'
  BY DEF IInv, TypeOK, treeVars
<1>2. TreeOK' /\ \A n : LiveNode(n)' <=> LiveNode(n)
  BY <1>1, Untouched
<1>3. start[k] # None => LiveNode(start[k])
  BY DEF IInv, TreeOK, NothingDangles, Retaining
<1>4. args' \in GetArgs
  BY DEF GetArgs
<1>5. LoopOK'
  BY <1>2, <1>3, <1>4 DEF IInv, LoopOK
<1>6. QED
  BY <1>1, <1>2, <1>5 DEF IInv

(* A call of retain keeps the invariant: its scan starts on a whole tree.  *)
LEMMA RetainCallKeeps ==
  ASSUME IInv, NEW keep \in SUBSET Values, RetainCall(keep)
  PROVE  IInv'
<1> USE DEF RetainCall
<1>1. TypeOK'
  BY DEF IInv, TypeOK, treeVars, loopVars
<1>2. TreeOK'
  BY <1>1, Untouched
<1>3. LoopOK'
  BY DEF IInv, LoopOK, loopVars
<1>4. QED
  BY <1>1, <1>2, <1>3 DEF IInv

(* The return to the caller keeps the invariant.                           *)
LEMMA ReturnKeeps ==
  ASSUME IInv, Return
  PROVE  IInv'
<1> USE DEF Return
<1>1. TypeOK'
  BY DEF IInv, TypeOK, treeVars, loopVars
<1>2. TreeOK'
  BY <1>1, Untouched
<1>3. LoopOK'
  BY DEF IInv, LoopOK, loopVars
<1>4. QED
  BY <1>1, <1>2, <1>3 DEF IInv

(* The scan of retain keeps the invariant when it passes a kept leaf.      *)
LEMMA RetainKeepKeeps ==
  ASSUME IInv, RetainKeep
  PROVE  IInv'
<1> USE DEF RetainKeep
<1>1. TypeOK'
  BY DEF IInv, TypeOK, treeVars
<1>2. TreeOK'
  BY <1>1, Untouched
<1>3. LoopOK'
  BY DEF IInv, LoopOK
<1>4. QED
  BY <1>1, <1>2, <1>3 DEF IInv

(* The walk stays on live nodes, and leaves them where an edge is missing. *)
LEMMA WalkExtractKeeps ==
  ASSUME IInv, WalkExtract
  PROVE  IInv'
<1>1. /\ pc = "walk" /\ ~IsLeaf(cursor) /\ SlabContains(inner, cursor)
      /\ UNCHANGED <<treeVars, args, idx, result>>
  BY DEF WalkExtract
<1> DEFINE pair(i) == <<cursor, args.seq[i].ret>>
<1>2. PICK i \in Extractable(Slot(inner, cursor).call) :
        /\ taken' = taken \cup {i}
        /\ IF pair(i) \in DOMAIN edges
             THEN cursor' = edges[pair(i)] /\ UNCHANGED <<pc, pred>>
             ELSE pred' = pair(i) /\ pc' = "append" /\ UNCHANGED cursor
  BY DEF WalkExtract
<1>3. args.seq \in CallSequences /\ i \in DOMAIN args.seq
  BY <1>1 DEF IInv, LoopOK, InsertArgs, Extractable
<1>4. i \in 1 .. MaxCalls /\ args.seq[i].ret \in Rets
  BY <1>3, BoundsAssumption DEF CallSequences, Pairs
<1>5. cursor \in Nat
  BY <1>1, NoneAssumption DEF IInv, TypeOK, LoopOK, IsLeaf
<1>6. TypeOK'
  BY <1>1, <1>2, <1>4, <1>5 DEF IInv, TypeOK, treeVars
<1>7. TreeOK' /\ \A n : LiveNode(n)' <=> LiveNode(n)
  <2>1. pc' \in {"walk", "append"}
    BY <1>1, <1>2
  <2>2. QED
    BY <1>1, <1>6, <2>1, Untouched
<1>8. LoopOK'
  <2>1. CASE pair(i) \in DOMAIN edges
    <3>1. LiveNode(edges[pair(i)]) /\ edges[pair(i)] # None
      BY <1>1, <2>1, EdgeTypes, NoneAssumption
         DEF IInv, TreeOK, NothingDangles, Retaining
    <3>2. cursor' # None /\ LiveNode(cursor)'
      BY <1>2, <1>7, <2>1, <3>1
    <3>3. QED
      BY <1>1, <1>2, <2>1, <3>2 DEF IInv, LoopOK
  <2>2. CASE pair(i) \notin DOMAIN edges
    <3>1. pred' = pair(i) /\ pred' # None /\ cursor' # None
      BY <1>2, <1>4, <1>5, <2>2, NoneAssumption
    <3>2. QED
      BY <1>1, <1>2, <2>2, <3>1 DEF IInv, LoopOK, treeVars
  <2>3. QED BY <2>1, <2>2
<1>9. QED
  BY <1>6, <1>7, <1>8 DEF IInv

(* A step of get's walk keeps the invariant: it ends on a live node.       *)
LEMMA GetInnerKeeps ==
  ASSUME IInv, GetInner
  PROVE  IInv'
<1> USE DEF GetInner
<1> DEFINE pair == <<cursor, args.oracle[Slot(inner, cursor).call]>>
<1>1. cursor' = IF pair \in DOMAIN edges THEN edges[pair] ELSE None
  OBVIOUS
<1>2. pair \in DOMAIN edges => edges[pair] \in Int /\ LiveNode(edges[pair])
  BY EdgeTypes DEF IInv, TreeOK, NothingDangles, Retaining
<1> HIDE DEF pair
<1>3. TypeOK'
  BY <1>1, <1>2 DEF IInv, TypeOK, treeVars
<1>4. TreeOK' /\ \A n : LiveNode(n)' <=> LiveNode(n)
  BY <1>3, Untouched
<1>5. LoopOK'
  BY <1>1, <1>2, <1>4 DEF IInv, LoopOK
<1>6. QED
  BY <1>3, <1>4, <1>5 DEF IInv

-----------------------------------------------------------------------------
(* Insertion: a node is added below pred, or as a root. *)

(* A live inner node is a live node with a natural name. *)
LEMMA InnerNames ==
  ASSUME NEW i \in Int
  PROVE  SlabContains(inner, i) <=> i >= 0 /\ ExistsNode(i)
BY DEF ExistsNode, SlabContains, IsLeaf

(* The effect of CallTree::link on the tree, whatever node it links: a     *)
(* fresh node hangs on one new edge, whose source counts it.               *)
LEMMA NodeAdded ==
  ASSUME IInv, TypeOK', pc = "append", pc' \in {"append", "done"},
         NEW to \in Int, ~ExistsNode(to),
         \A n \in Int : ExistsNode(n)' <=> (n = to \/ ExistsNode(n)),
         \A n \in Int : ExistsNode(n) => ParentOf(n)' = ParentOf(n),
         ParentOf(to)' = PredNode,
         HangOn(to),
         \A i \in LiveInner : Slot(inner, i)'.children =
             Slot(inner, i).children + (IF i = PredNode THEN 1 ELSE 0),
         to >= 0 => /\ Slot(inner, to)'.children = 0
                    /\ pc' = "append" /\ pred' # None /\ pred'[1] = to
  PROVE  TreeOK'
<1> USE DEF IInv, TreeOK
<1>1. \A n \in Int : /\ LiveNode(n) <=> ExistsNode(n)
                     /\ LiveNode(n)' <=> (n = to \/ LiveNode(n))
  BY DEF LiveNode, Unlinking
<1>2. \A i \in Int : SlabContains(inner, i)' <=> i >= 0 /\ (i = to \/ SlabContains(inner, i))
  <2>1. \A i \in Int : SlabContains(inner, i)' <=> i >= 0 /\ ExistsNode(i)'
    BY DEF ExistsNode, SlabContains, IsLeaf
  <2>2. QED BY <2>1, InnerNames
<1>3. /\ pred # None => /\ SlabContains(inner, pred[1]) /\ pred \notin DOMAIN edges
                        /\ cursor # None /\ pred[1] \in Nat /\ PredNode = pred[1]
                        /\ pred[1] # to
      /\ pred = None => cursor = None /\ PredNode = None
  BY InnerNames DEF LoopOK, TypeOK, PredNode
<1>4. ASSUME NEW p \in DOMAIN edges
      PROVE  /\ p \in DOMAIN edges' /\ edges'[p] = edges[p]
             /\ edges[p] \in Int /\ LiveNode(edges[p]) /\ edges[p] # to
             /\ p[1] \in Nat /\ SlabContains(inner, p[1]) /\ p[1] # to
  <2>1. edges[p] \in Int /\ p[1] \in Nat
    BY EdgeTypes
  <2>2. SlabContains(inner, p[1]) /\ LiveNode(edges[p])
    BY DEF NothingDangles, Retaining
  <2>3. p \in DOMAIN edges' /\ edges'[p] = edges[p]
    BY <1>3 DEF HangOn
  <2>4. QED
    BY <1>1, <2>1, <2>2, <2>3, InnerNames
<1>5. ASSUME NEW p \in DOMAIN edges', p \notin DOMAIN edges
      PROVE  pred # None /\ p = pred /\ edges'[p] = to /\ p[1] = PredNode
  BY <1>3, <1>5 DEF HangOn
<1>6. pred # None => pred \in DOMAIN edges' /\ edges'[pred] = to
  BY DEF HangOn
<1>7. EdgesPointBack'
  <2> SUFFICES ASSUME NEW p \in DOMAIN edges', LiveNode(edges[p])'
               PROVE  ParentOf(edges[p])' = p[1]
    BY DEF EdgesPointBack
  <2>1. CASE p \in DOMAIN edges
    BY <1>1, <1>4, <2>1 DEF EdgesPointBack
  <2>2. CASE p \notin DOMAIN edges
    BY <1>5, <2>2
  <2>3. QED BY <2>1, <2>2
<1>8. OneEdgeEach'
  BY <1>4, <1>5 DEF OneEdgeEach
<1>9. Hanging'
  <2>0. NodeNames' \subseteq Int
    BY DEF NodeNames, TypeOK, SlabOK, SlabType
  <2> SUFFICES ASSUME NEW n \in Int, LiveNode(n)', ParentOf(n)' # None
               PROVE  /\ SlabContains(inner, ParentOf(n))'
                      /\ \E p \in DOMAIN edges' : p[1] = ParentOf(n)' /\ edges'[p] = n
    BY <2>0 DEF Hanging
  <2>1. CASE n = to
    <3>1. pred # None /\ ParentOf(n)' = pred[1]
      BY <1>3, <2>1
    <3>2. SlabContains(inner', pred[1])
      BY <1>2, <1>3, <3>1
    <3>3. QED
      BY <1>6, <2>1, <3>1, <3>2
  <2>2. CASE n # to
    <3>1. LiveNode(n) /\ ParentOf(n)' = ParentOf(n)
      BY <1>1, <2>2
    <3>2. PICK p \in DOMAIN edges : p[1] = ParentOf(n) /\ edges[p] = n
      BY <3>1, Hung
    <3>3. SlabContains(inner', p[1])
      BY <1>2, <1>4
    <3>4. QED
      BY <1>4, <3>1, <3>2, <3>3
  <2>3. QED BY <2>1, <2>2
<1>10. \A k \in Keys : start'[k] # None =>
         \/ start[k] = start'[k] /\ LiveNode(start[k]) /\ start[k] \in Int
         \/ cursor = None /\ start'[k] = to
  BY DEF NothingDangles, Retaining, TypeOK, HangOn
<1>11. RootsHaveNoParent'
  BY <1>1, <1>3, <1>10 DEF RootsHaveNoParent
<1>12. NothingDangles'
  <2>1. \A k \in Keys : start'[k] # None => LiveNode(start[k])'
    BY <1>1, <1>10
  <2>2. \A p \in DOMAIN edges' : SlabContains(inner', p[1]) /\ LiveNode(edges[p])'
    BY <1>1, <1>2, <1>3, <1>4, <1>5
  <2>3. QED
    BY <2>1, <2>2 DEF NothingDangles
<1>13. Counted'
  <2>1. IsFiniteSet(DOMAIN edges')
    <3>1. DOMAIN edges' = DOMAIN edges \/ DOMAIN edges' = DOMAIN edges \cup {pred}
      BY DEF HangOn
    <3>2. QED
      BY <3>1, FS_AddElement DEF Counted
  <2> \A i : IsFiniteSet(OutEdges(i)) /\ Cardinality(OutEdges(i)) \in Nat
    BY FS_Subset, FS_CardinalityType DEF Counted, OutEdges
  <2>2. ASSUME NEW i \in LiveInner'
        PROVE  /\ Slot(inner, i)'.children = Cardinality(OutEdges(i)')
               /\ Cardinality(OutEdges(i)') \in Nat
               /\ \/ Slot(inner, i)'.children > 0
                  \/ pc' = "append" /\ pred' # None /\ i = pred'[1]
    <3>1. i \in Nat /\ (i = to \/ i \in LiveInner)
      BY <1>2 DEF LiveInner, SlabContains
    <3>2. CASE i = to
      <4>1. OutEdges(i)' = {}
        BY <1>3, <1>4, <1>5, <3>2 DEF OutEdges
      <4>2. QED
        BY <3>1, <3>2, <4>1, FS_EmptySet
    <3>3. CASE i # to /\ i # PredNode
      <4>1. i \in LiveInner
        BY <3>1, <3>3
      <4>2. OutEdges(i)' = OutEdges(i)
        BY <1>1, <1>4, <1>5, <3>3 DEF OutEdges
      <4>3. Slot(inner, i).children = Cardinality(OutEdges(i)) + 0
            /\ Slot(inner, i).children > 0
        BY <1>3, <3>3, <4>1 DEF Counted, Phantom
      <4>4. Slot(inner, i)'.children = Slot(inner, i).children + 0
        BY <3>3, <4>1
      <4>5. Slot(inner, i).children \in Nat
        BY <4>1, InnerType DEF LiveInner
      <4>6. QED
        BY <4>2, <4>3, <4>4, <4>5
    <3>4. CASE i # to /\ i = PredNode
      <4>1. i \in LiveInner /\ pred # None /\ i = pred[1]
        BY <1>3, <3>1, <3>4, NoneAssumption
      <4>2. OutEdges(i)' = OutEdges(i) \cup {pred} /\ pred \notin OutEdges(i)
        BY <1>1, <1>3, <1>4, <1>5, <1>6, <4>1 DEF OutEdges
      <4>4. Cardinality(OutEdges(i)') = Cardinality(OutEdges(i)) + 1
        BY <4>2, FS_AddElement
      <4>5. Slot(inner, i).children = Cardinality(OutEdges(i)) + 0
        BY <4>1 DEF Counted, Phantom
      <4>6. Slot(inner, i)'.children = Slot(inner, i).children + 1
        BY <3>4, <4>1
      <4>7. Slot(inner, i).children \in Nat
        BY <4>1, InnerType DEF LiveInner
      <4>8. QED
        BY <4>4, <4>5, <4>6, <4>7
    <3>5. QED BY <3>2, <3>3, <3>4
  <2>3. \A i \in LiveInner' : Phantom(i)' = 0
    BY DEF Phantom
  <2>4. \A i \in LiveInner' : Slot(inner, i)'.children = Cardinality(OutEdges(i)') + 0
    BY <2>2
  <2>5. QED
    BY <2>1, <2>2, <2>3, <2>4 DEF Counted
<1>14. QED
  BY <1>7, <1>8, <1>9, <1>11, <1>12, <1>13

(* The counting half of link: the slab of inner nodes stays sound and only *)
(* pred's counter moves.                                                   *)
LEMMA LinkCounts ==
  ASSUME NEW base, SlabOK(base, InnerNode), CountChild(base),
         pred # None => pred[1] \in Int /\ SlabContains(base, pred[1]),
         NEW i \in Int, SlabContains(base, i)
  PROVE  /\ SlabOK(inner', InnerNode)
         /\ \A j \in Int : SlabContains(inner', j) <=> SlabContains(base, j)
         /\ Slot(inner', i).parent = Slot(base, i).parent
         /\ Slot(inner', i).call = Slot(base, i).call
         /\ Slot(inner', i).children =
              Slot(base, i).children + (IF i = PredNode THEN 1 ELSE 0)
<1> None \notin InnerNode
  BY NoneAssumption
<1>1. Slot(base, i) \in InnerNode /\ Slot(base, i).children \in Nat
  BY SlabSlotType DEF InnerNode
<1>2. CASE pred = None
  <2>1. inner' = base /\ i # PredNode
    BY <1>2, NoneAssumption DEF CountChild, PredNode
  <2>2. QED
    BY <1>1, <2>1
<1>3. CASE pred # None
  <2>1. PredNode = pred[1]
        /\ inner' = SlabUpdate(base, pred[1], OneMore(Slot(base, pred[1])))
    BY <1>3 DEF CountChild, PredNode
  <2>2. Slot(base, pred[1]) \in InnerNode
    BY <1>3, SlabSlotType
  <2>3. /\ OneMore(Slot(base, pred[1])) \in InnerNode
        /\ OneMore(Slot(base, pred[1])).parent = Slot(base, pred[1]).parent
        /\ OneMore(Slot(base, pred[1])).call = Slot(base, pred[1]).call
        /\ OneMore(Slot(base, pred[1])).children = Slot(base, pred[1]).children + 1
    BY <2>2 DEF OneMore, InnerNode
  <2>4. /\ SlabOK(inner', InnerNode)
        /\ \A j \in Int : SlabContains(inner', j) <=> SlabContains(base, j)
        /\ Slot(inner', pred[1]) = OneMore(Slot(base, pred[1]))
        /\ \A j \in Int : j # pred[1] => Slot(inner', j) = Slot(base, j)
    BY <1>3, <2>1, <2>3, SlabUpdating
  <2>5. QED
    BY <1>1, <2>1, <2>3, <2>4
<1>4. QED BY <1>2, <1>3

(* Node x was added where insert's next node hangs *)
Added(x) ==
  /\ x \in Int /\ ~ExistsNode(x) /\ HangOn(x)
  /\ \A n \in Int : ExistsNode(n)' <=> (n = x \/ ExistsNode(n))
  /\ \A n \in Int : ExistsNode(n) => ParentOf(n)' = ParentOf(n)
  /\ ParentOf(x)' = PredNode
  /\ \A j \in LiveInner :
       /\ Slot(inner, j)'.call = Slot(inner, j).call
       /\ Slot(inner, j)'.children = Slot(inner, j).children + (IF j = PredNode THEN 1 ELSE 0)

(* A new inner node asks the next call of the sequence *)
LEMMA CallAdded ==
  ASSUME IInv, AppendCall
  PROVE  \E i \in DOMAIN args.seq, id \in Nat :
           /\ IsNext(i) /\ i \in 1 .. MaxCalls /\ args.seq[i].ret \in Rets
           /\ pred' = <<id, args.seq[i].ret>> /\ cursor' = id /\ taken' = taken \cup {i}
           /\ Added(id) /\ SlabOK(inner', InnerNode)
           /\ SlabContains(inner', id) /\ ~SlabContains(inner, id)
           /\ Slot(inner', id).call = args.seq[i].call /\ Slot(inner', id).children = 0
<1> None \notin InnerNode
  BY NoneAssumption
<1> DEFINE call(i) == NewNode(args.seq[i].call)
<1>1. PICK i \in DOMAIN args.seq :
        /\ IsNext(i)
        /\ Link(SlabInsert(inner, call(i)), SlabNextId(inner))
        /\ pred' = <<SlabNextId(inner), args.seq[i].ret>>
        /\ cursor' = SlabNextId(inner)
        /\ taken' = taken \cup {i}
  BY DEF AppendCall
<1>2. pc = "append" /\ UNCHANGED <<leaves, pc, args, idx, result>>
  BY DEF AppendCall
<1>3. args \in InsertArgs /\ args.seq \in CallSequences
  BY <1>2 DEF IInv, LoopOK, InsertArgs
<1>4. i \in 1 .. MaxCalls /\ args.seq[i].ret \in Rets /\ args.seq[i].call \in Calls
  BY <1>3, BoundsAssumption DEF CallSequences, Pairs
<1>5. /\ pred # None => /\ SlabContains(inner, pred[1]) /\ pred \notin DOMAIN edges
                        /\ cursor # None /\ pred[1] \in Nat /\ PredNode = pred[1]
      /\ pred = None => cursor = None /\ PredNode = None
  BY <1>2 DEF IInv, LoopOK, TypeOK, PredNode
<1>6. call(i) \in InnerNode /\ call(i).children = 0 /\ call(i).parent = PredNode
      /\ call(i).call = args.seq[i].call
  BY <1>4, <1>5 DEF NewNode, InnerNode
<1> HIDE DEF call
<1>7. PICK id \in Nat : id = SlabNextId(inner) /\ ~SlabContains(inner, id)
  BY SlabFresh DEF IInv, TypeOK
<1>8. PICK base : base = SlabInsert(inner, call(i))
  OBVIOUS
<1>9. /\ SlabOK(base, InnerNode)
      /\ \A j \in Int : SlabContains(base, j) <=> (j = id \/ SlabContains(inner, j))
      /\ Slot(base, id) = call(i)
      /\ \A j \in Int : SlabContains(inner, j) => Slot(base, j) = Slot(inner, j)
  BY <1>6, <1>7, <1>8, SlabInsertion DEF IInv, TypeOK
<1>10. HangOn(id) /\ CountChild(base)
  BY <1>1, <1>7, <1>8 DEF Link
<1>11. pred # None => pred[1] \in Int /\ SlabContains(base, pred[1])
  BY <1>5, <1>9
<1>12. /\ SlabOK(inner', InnerNode)
       /\ \A j \in Int : SlabContains(inner', j) <=> (j = id \/ SlabContains(inner, j))
       /\ \A j \in Int : SlabContains(inner, j) =>
            /\ Slot(inner', j).parent = Slot(inner, j).parent
            /\ Slot(inner', j).call = Slot(inner, j).call
            /\ Slot(inner', j).children =
                 Slot(inner, j).children + (IF j = PredNode THEN 1 ELSE 0)
       /\ Slot(inner', id).parent = PredNode
       /\ Slot(inner', id).children = 0
       /\ Slot(inner', id).call = args.seq[i].call
  <2>1. SlabContains(base, id) /\ id # PredNode
    BY <1>5, <1>7, <1>9, NoneAssumption
  <2>2. /\ SlabOK(inner', InnerNode)
        /\ \A j \in Int : SlabContains(inner', j) <=> SlabContains(base, j)
        /\ Slot(inner', id).parent = Slot(base, id).parent
        /\ Slot(inner', id).call = Slot(base, id).call
        /\ Slot(inner', id).children = Slot(base, id).children + 0
    BY <1>9, <1>10, <1>11, <2>1, LinkCounts
  <2>3. \A j \in Int : SlabContains(inner, j) =>
            /\ Slot(inner', j).parent = Slot(inner, j).parent
            /\ Slot(inner', j).call = Slot(inner, j).call
            /\ Slot(inner', j).children =
                 Slot(inner, j).children + (IF j = PredNode THEN 1 ELSE 0)
    BY <1>9, <1>10, <1>11, LinkCounts
  <2>4. QED
    BY <1>6, <1>9, <2>2, <2>3
<1>15. \A n \in Int : ExistsNode(n)' <=> (n = id \/ ExistsNode(n))
  <2>1. \A n \in Int : n < 0 => n # id
    BY <1>7
  <2>2. \A n \in Int : SlabContains(leaves, LeafId(n))' <=> SlabContains(leaves, LeafId(n))
    BY <1>2
  <2>3. QED
    BY <1>12, <2>1, <2>2 DEF ExistsNode, IsLeaf
<1>16. ASSUME NEW n \in Int, ExistsNode(n)
       PROVE  ParentOf(n)' = ParentOf(n)
  <2>1. CASE n < 0
    BY <1>2, <2>1 DEF ParentOf, IsLeaf
  <2>2. CASE ~(n < 0)
    BY <1>12, <1>16, <2>2 DEF ParentOf, ExistsNode, IsLeaf
  <2>3. QED BY <2>1, <2>2
<1>17. ParentOf(id)' = PredNode
  BY <1>7, <1>12 DEF ParentOf, IsLeaf
<1>18. ~ExistsNode(id)
  BY <1>7 DEF ExistsNode, IsLeaf
<1>19. \A j \in LiveInner :
         /\ Slot(inner, j)'.call = Slot(inner, j).call
         /\ Slot(inner, j)'.children = Slot(inner, j).children + (IF j = PredNode THEN 1 ELSE 0)
  BY <1>12 DEF LiveInner
<1>20. Added(id)
  BY <1>10, <1>15, <1>16, <1>17, <1>18, <1>19 DEF Added
<1>21. SlabContains(inner', id)
  BY <1>12
<1>22. QED
  BY <1>1, <1>4, <1>7, <1>12, <1>20, <1>21

(* A new inner node of insert keeps the invariant.                         *)
LEMMA AppendCallKeeps ==
  ASSUME IInv, AppendCall
  PROVE  IInv'
<1>1. PICK i \in DOMAIN args.seq, id \in Nat :
        /\ i \in 1 .. MaxCalls /\ args.seq[i].ret \in Rets
        /\ pred' = <<id, args.seq[i].ret>> /\ cursor' = id /\ taken' = taken \cup {i}
        /\ Added(id) /\ SlabOK(inner', InnerNode)
        /\ SlabContains(inner', id) /\ ~SlabContains(inner, id)
        /\ Slot(inner', id).children = 0
  BY CallAdded
<1>2. pc = "append" /\ UNCHANGED <<leaves, pc, args, idx, result>>
  BY DEF AppendCall
<1>3. args \in InsertArgs
  BY <1>2 DEF IInv, LoopOK
<1>5. pred # None => SlabContains(inner, pred[1])
  BY <1>2 DEF IInv, LoopOK
<1>10. HangOn(id)
  BY <1>1 DEF Added
<1>14. TypeOK'
  <2>1. start' \in [Keys -> Int \cup {None}]
    <3>1. id \in Int \cup {None} /\ start \in [Keys -> Int \cup {None}]
      BY DEF IInv, TypeOK
    <3>2. QED
      BY <1>10, <3>1 DEF HangOn
  <2>2. DOMAIN edges' \subseteq Nat \X Rets /\ edges' \in [DOMAIN edges' -> Int]
    <3>1. pred # None => pred \in Nat \X Rets
      BY DEF IInv, TypeOK
    <3>2. QED
      BY <1>10, <3>1 DEF IInv, TypeOK, HangOn
  <2>3. taken' \subseteq 1 .. MaxCalls /\ cursor' \in Int /\ pred' \in Nat \X Rets
    BY <1>1 DEF IInv, TypeOK
  <2>4. QED
    BY <1>1, <1>2, <2>1, <2>2, <2>3 DEF IInv, TypeOK
<1>20. pred'[1] = id /\ pred' # None
  BY <1>1, NoneAssumption
<1>21. TreeOK'
  <2>1. pc = "append" /\ pc' \in {"append", "done"}
    BY <1>2
  <2>2. id >= 0 => /\ Slot(inner, id)'.children = 0
                   /\ pc' = "append" /\ pred' # None /\ pred'[1] = id
    BY <1>1, <1>2, <1>20
  <2>3. QED
    BY <1>1, <1>14, <2>1, <2>2, NodeAdded DEF Added
<1>22. LoopOK'
  <2>1. cursor' # None
    BY <1>1, NoneAssumption
  <2>2. SlabContains(inner, pred[1])'
    BY <1>1, <1>20
  <2>3. pred' \notin DOMAIN edges'
    <3>1. \A p \in DOMAIN edges : SlabContains(inner, p[1]) /\ p[1] \in Nat
      BY <1>2, EdgeTypes DEF IInv, TreeOK, NothingDangles, Retaining
    <3>2. pred # None => pred[1] # id
      BY <1>1, <1>5
    <3>3. \A p \in DOMAIN edges' : p[1] # id
      BY <1>1, <1>10, <3>1, <3>2 DEF HangOn
    <3>4. QED
      BY <1>20, <3>3
  <2>4. QED
    BY <1>2, <1>3, <1>20, <2>1, <2>2, <2>3 DEF LoopOK
<1>23. QED
  BY <1>14, <1>21, <1>22 DEF IInv

(* The leaf that ends an insertion holds its value *)
LEMMA LeafAdded ==
  ASSUME IInv, AppendLeaf
  PROVE  \E l \in Nat :
           LET id == -l - 1 IN
           /\ Added(id) /\ id < 0
           /\ SlabOK(inner', InnerNode) /\ SlabOK(leaves', LeafNode)
           /\ \A j \in Int : SlabContains(leaves', j) <=> (j = l \/ SlabContains(leaves, j))
           /\ Slot(leaves', l).value = args.value /\ ~SlabContains(leaves, l)
           /\ \A j \in Int : SlabContains(leaves, j) => Slot(leaves', j) = Slot(leaves, j)
           /\ \A j \in Int : SlabContains(inner', j) <=> SlabContains(inner, j)
<1> None \notin LeafNode
  BY NoneAssumption
<1> DEFINE leaf == [value |-> args.value, parent |-> PredNode]
<1>1. /\ pc = "append"
      /\ Link(inner, NodeLeaf(SlabNextId(leaves)))
      /\ leaves' = SlabInsert(leaves, leaf)
      /\ Finish("Ok")
  BY DEF AppendLeaf
<1>2. /\ pred # None => /\ SlabContains(inner, pred[1]) /\ pred[1] \in Nat
                        /\ PredNode = pred[1]
      /\ pred = None => PredNode = None
  BY <1>1 DEF IInv, LoopOK, TypeOK, PredNode
<1>3. leaf \in LeafNode /\ leaf.parent = PredNode /\ leaf.value = args.value
  BY <1>1, <1>2 DEF IInv, LoopOK, InsertArgs, LeafNode
<1> HIDE DEF leaf
<1>4. PICK l \in Nat : l = SlabNextId(leaves) /\ ~SlabContains(leaves, l)
  BY SlabFresh DEF IInv, TypeOK
<1>5. PICK id \in Int : id = -l - 1
  OBVIOUS
<1>6. id < 0 /\ LeafId(id) = l /\ id = NodeLeaf(SlabNextId(leaves))
  BY <1>4, <1>5 DEF LeafId, NodeLeaf
<1>7. HangOn(id) /\ CountChild(inner)
  BY <1>1, <1>6 DEF Link
<1>8. /\ SlabOK(leaves', LeafNode)
      /\ \A j \in Int : SlabContains(leaves', j) <=> (j = l \/ SlabContains(leaves, j))
      /\ Slot(leaves', l) = leaf
      /\ \A j \in Int : SlabContains(leaves, j) => Slot(leaves', j) = Slot(leaves, j)
  BY <1>1, <1>3, <1>4, SlabInsertion DEF IInv, TypeOK
<1>9. /\ SlabOK(inner', InnerNode)
      /\ \A j \in Int : SlabContains(inner', j) <=> SlabContains(inner, j)
      /\ \A j \in Int : SlabContains(inner, j) =>
           /\ Slot(inner', j).parent = Slot(inner, j).parent
           /\ Slot(inner', j).call = Slot(inner, j).call
           /\ Slot(inner', j).children =
                Slot(inner, j).children + (IF j = PredNode THEN 1 ELSE 0)
  <2>1. CASE pred = None
    <3>1. inner' = inner
      BY <1>7, <2>1 DEF CountChild
    <3>2. \A j \in Int : j # PredNode
      BY <1>2, <2>1, NoneAssumption
    <3>3. QED
      BY <3>1, <3>2, InnerType DEF IInv, TypeOK
  <2>2. CASE pred # None
    <3>1. pred[1] \in Int /\ SlabContains(inner, pred[1])
      BY <1>2, <2>2
    <3>2. QED
      BY <1>7, <3>1, LinkCounts DEF IInv, TypeOK
  <2>3. QED BY <2>1, <2>2
<1>11. ~ExistsNode(id)
  BY <1>4, <1>6 DEF ExistsNode, IsLeaf
<1>12. \A n \in Int : ExistsNode(n)' <=> (n = id \/ ExistsNode(n))
  <2>1. \A n \in Int : LeafId(n) \in Int /\ (LeafId(n) = l <=> n = id)
    BY <1>5 DEF LeafId
  <2>2. QED
    BY <1>6, <1>8, <1>9, <2>1 DEF ExistsNode, IsLeaf
<1>13. ASSUME NEW n \in Int, ExistsNode(n)
       PROVE  ParentOf(n)' = ParentOf(n)
  <2>1. CASE n < 0
    <3>1. SlabContains(leaves, LeafId(n)) /\ LeafId(n) \in Int
      BY <1>13, <2>1 DEF ExistsNode, IsLeaf, LeafId
    <3>2. QED
      BY <1>8, <2>1, <3>1 DEF ParentOf, IsLeaf
  <2>2. CASE ~(n < 0)
    BY <1>9, <1>13, <2>2 DEF ParentOf, ExistsNode, IsLeaf
  <2>3. QED BY <2>1, <2>2
<1>14. ParentOf(id)' = PredNode
  BY <1>3, <1>6, <1>8 DEF ParentOf, IsLeaf
<1>15. \A j \in LiveInner :
         /\ Slot(inner, j)'.call = Slot(inner, j).call
         /\ Slot(inner, j)'.children = Slot(inner, j).children + (IF j = PredNode THEN 1 ELSE 0)
  BY <1>9 DEF LiveInner
<1>16. Added(id)
  BY <1>7, <1>11, <1>12, <1>13, <1>14, <1>15 DEF Added
<1>17. QED
  BY <1>3, <1>4, <1>5, <1>6, <1>8, <1>9, <1>16

(* The leaf that ends an insertion keeps the invariant.                    *)
LEMMA AppendLeafKeeps ==
  ASSUME IInv, AppendLeaf
  PROVE  IInv'
<1>1. pc = "append" /\ Finish("Ok")
  BY DEF AppendLeaf
<1>2. PICK id \in Int :
        /\ Added(id) /\ id < 0
        /\ SlabOK(inner', InnerNode) /\ SlabOK(leaves', LeafNode)
  BY LeafAdded
<1>7. HangOn(id)
  BY <1>2 DEF Added
<1>10. TypeOK'
  <2>1. start' \in [Keys -> Int \cup {None}]
    <3>1. id \in Int \cup {None} /\ start \in [Keys -> Int \cup {None}]
      BY DEF IInv, TypeOK
    <3>2. QED
      BY <1>7, <3>1 DEF HangOn
  <2>2. DOMAIN edges' \subseteq Nat \X Rets /\ edges' \in [DOMAIN edges' -> Int]
    <3>1. pred # None => pred \in Nat \X Rets
      BY DEF IInv, TypeOK
    <3>2. QED
      BY <1>7, <3>1 DEF IInv, TypeOK, HangOn
  <2>3. QED
    BY <1>1, <1>2, <2>1, <2>2 DEF IInv, TypeOK, Finish
<1>16. TreeOK'
  <2>1. pc = "append" /\ pc' \in {"append", "done"} /\ ~(id >= 0)
    BY <1>1, <1>2 DEF Finish
  <2>2. QED
    BY <1>2, <1>10, <2>1, NodeAdded DEF Added
<1>17. LoopOK'
  BY <1>1 DEF LoopOK, Finish
<1>18. QED
  BY <1>10, <1>16, <1>17 DEF IInv

-----------------------------------------------------------------------------
(* Removal: retain takes a branch off, leaf first.                         *)

(* A node x that has no live child is given up and the climb goes on to    *)
(* its parent, which now counts one child more than it has.                *)
LEMMA BranchLost ==
  ASSUME IInv, TypeOK', Retaining, pc' = "unlink",
         NEW x \in Int, LiveNode(x), cursor' = ParentOf(x),
         OutEdges(x) = {}, UNCHANGED <<start, edges>>,
         \A n \in Int : LiveNode(n)' <=> (n # x /\ LiveNode(n)),
         \A n \in Int : n # x /\ LiveNode(n) => ParentOf(n)' = ParentOf(n),
         \A i \in Int : SlabContains(inner, i)' <=> (i # x /\ SlabContains(inner, i)),
         \A i \in LiveInner : i # x =>
           Slot(inner, i)'.children = Slot(inner, i).children /\ Phantom(i) = 0
  PROVE  TreeOK' /\ (cursor' # None => SlabContains(inner, cursor)')
<1> USE DEF IInv, TreeOK
<1>1. \A p \in DOMAIN edges : edges[p] \in Int /\ p[1] \in Nat
  BY EdgeTypes
<1>2. \A n \in Int : LiveNode(n) /\ ParentOf(n) # None =>
        /\ SlabContains(inner, ParentOf(n)) /\ ParentOf(n) \in Nat
        /\ ParentOf(n) # x
  <2>1. SUFFICES ASSUME NEW n \in Int, LiveNode(n), ParentOf(n) # None
                 PROVE  /\ SlabContains(inner, ParentOf(n)) /\ ParentOf(n) \in Nat
                        /\ ParentOf(n) # x
    OBVIOUS
  <2>2. PICK p \in DOMAIN edges : p[1] = ParentOf(n) /\ edges[p] = n
    BY <2>1, Hung
  <2>3. p \in OutEdges(ParentOf(n))
    BY <2>1, <2>2 DEF OutEdges
  <2>4. QED
    BY <1>1, <2>1, <2>2, <2>3, Hung
<1>3. EdgesPointBack'
  BY <1>1 DEF EdgesPointBack
<1>4. OneEdgeEach'
  BY <1>1 DEF OneEdgeEach
<1>5. Hanging'
  <2>1. NodeNames' \subseteq Int
    BY DEF NodeNames, TypeOK, SlabOK, SlabType
  <2>2. SUFFICES ASSUME NEW n \in Int, LiveNode(n)', ParentOf(n)' # None
                 PROVE  /\ SlabContains(inner, ParentOf(n))'
                        /\ \E p \in DOMAIN edges' : p[1] = ParentOf(n)' /\ edges'[p] = n
    BY <2>1 DEF Hanging
  <2>3. LiveNode(n) /\ ParentOf(n)' = ParentOf(n)
    BY <2>2
  <2>4. PICK p \in DOMAIN edges : p[1] = ParentOf(n) /\ edges[p] = n
    BY <2>2, <2>3, Hung
  <2>5. SlabContains(inner', p[1])
    BY <1>1, <1>2, <2>2, <2>3, <2>4
  <2>6. QED
    BY <2>3, <2>4, <2>5
<1>6. RootsHaveNoParent'
  BY DEF RootsHaveNoParent, TypeOK
<1>7. NothingDangles'
  BY DEF NothingDangles, Retaining
<1>8. Counted'
  <2>1. \A i : IsFiniteSet(OutEdges(i)) /\ Cardinality(OutEdges(i)) \in Nat
    BY FS_Subset, FS_CardinalityType DEF Counted, OutEdges
  <2>2. ASSUME NEW i \in LiveInner'
        PROVE  /\ Slot(inner, i)'.children = Cardinality(OutEdges(i)') + Phantom(i)'
               /\ Slot(inner, i)'.children > 0
    <3>1. i \in Nat /\ i # x /\ i \in LiveInner
      BY DEF LiveInner, SlabContains
    <3>2. /\ Slot(inner, i)'.children = Cardinality(OutEdges(i)) + 0
          /\ Slot(inner, i)'.children > 0
      BY <3>1 DEF Counted, Retaining
    <3>3. CASE i = ParentOf(x)
      <4>1. ParentOf(x) # None
        BY <3>1, <3>3, NoneAssumption
      <4>2. PICK p \in DOMAIN edges : p[1] = i /\ edges[p] = x
        BY <3>3, <4>1, Hung
      <4>3. OutEdges(i)' = OutEdges(i) \ {p} /\ p \in OutEdges(i)
        BY <1>1, <4>2 DEF OutEdges, OneEdgeEach
      <4>4. Cardinality(OutEdges(i)') = Cardinality(OutEdges(i)) - 1
        BY <2>1, <4>3, FS_RemoveElement
      <4>5. Phantom(i)' = 1
        BY <3>3 DEF Phantom
      <4>6. QED
        BY <2>1, <3>2, <4>4, <4>5
    <3>4. CASE i # ParentOf(x)
      <4>1. OutEdges(i)' = OutEdges(i)
        <5>1. \A p \in DOMAIN edges : p[1] = i => edges[p] # x
          BY <3>4 DEF EdgesPointBack
        <5>2. QED
          BY <1>1, <5>1 DEF OutEdges
      <4>2. Phantom(i)' = 0
        BY <3>4 DEF Phantom
      <4>3. QED
        BY <3>2, <4>1, <4>2
    <3>5. QED BY <3>3, <3>4
  <2>3. QED
    BY <2>2 DEF Counted
<1>9. cursor' # None => SlabContains(inner, cursor)'
  BY <1>2
<1>10. QED
  BY <1>3, <1>4, <1>5, <1>6, <1>7, <1>8, <1>9

(* The start of a climb keeps the invariant: the leaf counts as gone.      *)
LEMMA RetainDropKeeps ==
  ASSUME IInv, RetainDrop
  PROVE  IInv'
<1>1. /\ pc = "retain" /\ pc' = "unlink" /\ idx \in Nat
      /\ SlabContains(leaves, idx)
      /\ cursor' = Slot(leaves, idx).parent
      /\ UNCHANGED <<inner, leaves, start, edges, args, taken, pred, idx, result>>
  BY DEF RetainDrop, Dropped, treeVars, IInv, TypeOK
<1>2. PICK x \in Int : x = -idx - 1
  BY <1>1
<1>3. x < 0 /\ LeafId(x) = idx /\ x = NodeLeaf(idx)
  BY <1>1, <1>2 DEF LeafId, NodeLeaf
<1>4. cursor' = ParentOf(x)
  BY <1>1, <1>3 DEF ParentOf, IsLeaf
<1>5. LiveNode(x)
  BY <1>1, <1>3 DEF LiveNode, ExistsNode, Unlinking, IsLeaf
<1>6. TypeOK'
  <2>1. cursor' \in Int \cup {None}
    BY <1>4, <1>5, ParentType DEF IInv, LiveNode
  <2>2. QED
    BY <1>1, <2>1 DEF IInv, TypeOK
<1>7. \A n \in Int : LiveNode(n)' <=> (n # x /\ LiveNode(n))
  BY <1>1, <1>3 DEF LiveNode, ExistsNode, Unlinking
<1>8. \A n \in Int : ParentOf(n)' = ParentOf(n)
  BY <1>1 DEF ParentOf
<1>9. \A i \in Int : SlabContains(inner, i)' <=> (i # x /\ SlabContains(inner, i))
  BY <1>1, <1>3 DEF SlabContains
<1>10. OutEdges(x) = {}
  BY <1>3, EdgeTypes DEF IInv, OutEdges
<1>11. \A i \in LiveInner : Slot(inner, i)'.children = Slot(inner, i).children
                             /\ Phantom(i) = 0
  BY <1>1 DEF Phantom
<1>12. TreeOK' /\ (cursor' # None => SlabContains(inner, cursor)')
  <2>1. Retaining /\ UNCHANGED <<start, edges>>
    BY <1>1 DEF Retaining
  <2>2. QED
    BY <1>1, <1>4, <1>5, <1>6, <1>7, <1>8, <1>9, <1>10, <1>11, <2>1, BranchLost
<1>13. LoopOK'
  BY <1>1, <1>12 DEF IInv, LoopOK
<1>14. QED
  BY <1>6, <1>12, <1>13 DEF IInv

(* A parent that counts no other child has none: nothing hangs on it. *)
LEMMA UnlinkParentKeeps ==
  ASSUME IInv, UnlinkParent
  PROVE  IInv'
<1>1. /\ pc = "unlink" /\ pc' = "unlink" /\ cursor # None
      /\ Slot(inner, cursor).children <= 1
      /\ inner' = SlabRemove(inner, cursor)
      /\ cursor' = Slot(inner, cursor).parent
      /\ UNCHANGED <<leaves, start, edges, args, taken, pred, idx, result>>
  BY DEF UnlinkParent
<1>2. PICK x \in Int : x = cursor /\ x \in Nat /\ SlabContains(inner, x)
  BY <1>1, InnerType DEF IInv, LoopOK, TypeOK
<1>3. /\ SlabOK(inner', InnerNode)
      /\ \A i \in Int : SlabContains(inner', i) <=> (i # x /\ SlabContains(inner, i))
      /\ \A i \in Int : i # x => Slot(inner', i) = Slot(inner, i)
  BY <1>1, <1>2, SlabRemoval DEF IInv, TypeOK
<1>4. cursor' = ParentOf(x)
  BY <1>1, <1>2 DEF ParentOf, IsLeaf
<1>5. LiveNode(x) /\ idx \in Nat /\ SlabContains(leaves, idx)
  BY <1>1, <1>2 DEF LiveNode, ExistsNode, Unlinking, IsLeaf, NodeLeaf, IInv, LoopOK, TypeOK
<1>6. TypeOK'
  <2>1. cursor' \in Int \cup {None}
    BY <1>4, <1>5, ParentType DEF IInv, LiveNode
  <2>2. QED
    BY <1>1, <1>3, <2>1 DEF IInv, TypeOK
<1>7. OutEdges(x) = {}
  <2>1. IsFiniteSet(OutEdges(x))
    BY FS_Subset DEF IInv, TreeOK, Counted, OutEdges
  <2>2. Slot(inner, x).children = Cardinality(OutEdges(x)) + 1
    BY <1>1, <1>2, InnerType DEF IInv, TreeOK, Counted, Phantom
  <2>3. Cardinality(OutEdges(x)) = 0
    BY <1>1, <1>2, <2>1, <2>2, FS_CardinalityType
  <2>4. QED
    BY <2>1, <2>3, FS_EmptySet
<1>8. \A n \in Int : LiveNode(n)' <=> (n # x /\ LiveNode(n))
  <2>1. \A n \in Int : ExistsNode(n)' <=> (n # x /\ ExistsNode(n))
    BY <1>1, <1>2, <1>3 DEF ExistsNode, IsLeaf
  <2>2. QED
    BY <1>1, <2>1 DEF LiveNode, Unlinking
<1>9. \A n \in Int : n # x => ParentOf(n)' = ParentOf(n)
  BY <1>1, <1>3 DEF ParentOf
<1>10. \A i \in LiveInner : i # x =>
         Slot(inner, i)'.children = Slot(inner, i).children /\ Phantom(i) = 0
  BY <1>2, <1>3 DEF LiveInner, Phantom
<1>11. TreeOK' /\ (cursor' # None => SlabContains(inner, cursor)')
  <2>1. Retaining /\ UNCHANGED <<start, edges>>
    BY <1>1 DEF Retaining
  <2>2. QED
    BY <1>1, <1>3, <1>4, <1>5, <1>6, <1>7, <1>8, <1>9, <1>10, <2>1, BranchLost
<1>12. LoopOK'
  BY <1>1, <1>5, <1>11 DEF IInv, LoopOK
<1>13. QED
  BY <1>6, <1>11, <1>12 DEF IInv

(* The climb ends: the counter it stopped at drops by the child it lost,   *)
(* and the leaf, taken for gone since the climb began, goes.               *)
LEMMA UnlinkLeafKeeps ==
  ASSUME IInv, UnlinkLeaf
  PROVE  IInv'
<1> None \notin InnerNode
  BY NoneAssumption
<1>1. /\ pc = "unlink" /\ pc' = "retain" /\ idx \in Nat
      /\ SlabContains(leaves, idx)
      /\ leaves' = SlabRemove(leaves, idx)
      /\ idx' = idx + 1 /\ cursor' = None
      /\ UNCHANGED <<start, edges, args, taken, pred, result>>
  BY DEF UnlinkLeaf, IInv, LoopOK, TypeOK
<1>2. /\ SlabOK(leaves', LeafNode)
      /\ \A i \in Int : SlabContains(leaves', i) <=> (i # idx /\ SlabContains(leaves, i))
      /\ \A i \in Int : i # idx => Slot(leaves', i) = Slot(leaves, i)
  BY <1>1, SlabRemoval DEF IInv, TypeOK
<1>3. /\ SlabOK(inner', InnerNode)
      /\ \A i \in Int : SlabContains(inner', i) <=> SlabContains(inner, i)
      /\ \A i \in Int : SlabContains(inner, i) =>
           /\ Slot(inner', i).parent = Slot(inner, i).parent
           /\ Slot(inner', i).children = Slot(inner, i).children - Phantom(i)
           /\ Slot(inner', i).children > 0
  <2>1. \A i \in Int : SlabContains(inner, i) =>
          i \in LiveInner /\ Slot(inner, i).children \in Nat /\ Slot(inner, i).children > 0
    BY <1>1, InnerType DEF IInv, TreeOK, Counted
  <2>2. CASE cursor = None
    <3>1. inner' = inner
      BY <2>2 DEF UnlinkLeaf
    <3>2. \A i \in Int : Phantom(i) = 0
      BY <2>2, NoneAssumption DEF Phantom
    <3>3. QED
      BY <2>1, <3>1, <3>2 DEF IInv, TypeOK
  <2>3. CASE cursor # None
    <3>1. /\ cursor \in Int /\ SlabContains(inner, cursor)
          /\ Slot(inner, cursor) \in InnerNode
          /\ Slot(inner, cursor).children > 1
      BY <1>1, <2>3, InnerType DEF UnlinkLeaf, IInv, LoopOK, TypeOK
    <3>2. inner' = SlabUpdate(inner, cursor, OneFewer(Slot(inner, cursor)))
      BY <2>3 DEF UnlinkLeaf
    <3>3. /\ OneFewer(Slot(inner, cursor)) \in InnerNode
          /\ OneFewer(Slot(inner, cursor)).parent = Slot(inner, cursor).parent
          /\ OneFewer(Slot(inner, cursor)).children = Slot(inner, cursor).children - 1
          /\ Slot(inner, cursor).children \in Nat
      BY <3>1 DEF OneFewer, InnerNode
    <3>4. /\ SlabOK(inner', InnerNode)
          /\ \A i \in Int : SlabContains(inner', i) <=> SlabContains(inner, i)
          /\ Slot(inner', cursor) = OneFewer(Slot(inner, cursor))
          /\ \A i \in Int : i # cursor => Slot(inner', i) = Slot(inner, i)
      BY <3>1, <3>2, <3>3, SlabUpdating DEF IInv, TypeOK
    <3>5. \A i \in Int : Phantom(i) = IF i = cursor THEN 1 ELSE 0
      BY <1>1 DEF Phantom
    <3>6. QED
      BY <2>1, <3>1, <3>3, <3>4, <3>5
  <2>4. QED BY <2>2, <2>3
<1>4. TypeOK'
  BY <1>1, <1>2, <1>3 DEF IInv, TypeOK
<1>5. \A n \in Int : LiveNode(n)' <=> LiveNode(n)
  <2>1. \A n \in Int : LeafId(n) \in Int /\ (LeafId(n) = idx <=> n = NodeLeaf(idx))
    BY <1>1 DEF LeafId, NodeLeaf
  <2>2. NodeLeaf(idx) < 0
    BY <1>1 DEF NodeLeaf
  <2>3. \A n \in Int : ExistsNode(n)' <=> (ExistsNode(n) /\ n # NodeLeaf(idx))
    BY <1>2, <1>3, <2>1, <2>2 DEF ExistsNode, IsLeaf
  <2>4. QED
    BY <1>1, <2>3 DEF LiveNode, Unlinking
<1>6. ASSUME NEW n \in Int, LiveNode(n)
      PROVE  ParentOf(n)' = ParentOf(n)
  <2>1. ExistsNode(n) /\ n # NodeLeaf(idx)
    BY <1>1, <1>6 DEF LiveNode, Unlinking
  <2>2. CASE n < 0
    <3>1. LeafId(n) \in Int /\ LeafId(n) # idx
      BY <1>1, <2>1 DEF LeafId, NodeLeaf
    <3>2. QED
      BY <1>2, <2>2, <3>1 DEF ParentOf, IsLeaf
  <2>3. CASE ~(n < 0)
    BY <1>3, <2>1, <2>3 DEF ParentOf, ExistsNode, IsLeaf
  <2>4. QED BY <2>2, <2>3
<1>7. \A p \in DOMAIN edges : edges[p] \in Int
  BY EdgeTypes DEF IInv
<1>8. TreeOK'
  <2> USE DEF IInv, TreeOK
  <2>1. EdgesPointBack'
    BY <1>1, <1>5, <1>6, <1>7 DEF EdgesPointBack
  <2>2. OneEdgeEach'
    BY <1>1, <1>5, <1>7 DEF OneEdgeEach
  <2>3. Hanging'
    <3>1. NodeNames' \subseteq Int
      BY <1>4 DEF NodeNames, TypeOK, SlabOK, SlabType
    <3>2. SUFFICES ASSUME NEW n \in Int, LiveNode(n)', ParentOf(n)' # None
                   PROVE  /\ SlabContains(inner, ParentOf(n))'
                          /\ \E p \in DOMAIN edges' : p[1] = ParentOf(n)' /\ edges'[p] = n
      BY <3>1 DEF Hanging
    <3>3. LiveNode(n) /\ ParentOf(n)' = ParentOf(n)
      BY <1>5, <1>6, <3>2
    <3>4. ParentOf(n) \in Int /\ SlabContains(inner, ParentOf(n))
      BY <3>2, <3>3, Hung, ParentType DEF LiveNode
    <3>5. SlabContains(inner', ParentOf(n))
      BY <1>3, <3>4
    <3>6. QED
      BY <1>1, <3>2, <3>3, <3>5, Hung
  <2>4. RootsHaveNoParent'
    BY <1>1, <1>5, <1>6 DEF RootsHaveNoParent, TypeOK
  <2>5. NothingDangles'
    BY <1>1 DEF NothingDangles, Retaining
  <2>6. Counted'
    <3>1. \A i : OutEdges(i)' = OutEdges(i)
      BY <1>1, <1>5, <1>7 DEF OutEdges
    <3>2. \A i : Cardinality(OutEdges(i)) \in Nat
      BY FS_Subset, FS_CardinalityType DEF Counted, OutEdges
    <3>3. \A i : Phantom(i)' = 0 /\ Phantom(i) \in Nat
      BY <1>1 DEF Phantom
    <3>4. ASSUME NEW i \in LiveInner'
          PROVE  /\ Slot(inner, i)'.children = Cardinality(OutEdges(i)') + 0
                 /\ Slot(inner, i)'.children > 0
      <4>1. i \in Int /\ SlabContains(inner, i) /\ i \in LiveInner
        BY <1>3, InnerType DEF LiveInner, SlabContains
      <4>2. Slot(inner, i).children = Cardinality(OutEdges(i)) + Phantom(i)
        BY <4>1 DEF Counted
      <4>3. QED
        BY <1>3, <3>1, <3>2, <3>3, <4>1, <4>2
    <3>5. QED
      BY <1>1, <3>3, <3>4 DEF Counted
  <2>7. QED
    BY <2>1, <2>2, <2>3, <2>4, <2>5, <2>6
<1>9. LoopOK'
  BY <1>1 DEF IInv, LoopOK
<1>10. QED
  BY <1>4, <1>8, <1>9 DEF IInv

(* What is pruned is what led to removed nodes, so nothing dangles any     *)
(* more, and every edge that is left starts at a live node.                *)
LEMMA RetainPruneKeeps ==
  ASSUME IInv, RetainPrune
  PROVE  IInv'
<1>1. /\ pc = "retain" /\ Finish("Unit") /\ UNCHANGED <<inner, leaves>>
      /\ edges' = [p \in {q \in DOMAIN edges : ExistsNode(edges[q])} |-> edges[p]]
      /\ start' = [k \in Keys |->
                     IF start[k] # None /\ ExistsNode(start[k]) THEN start[k] ELSE None]
  BY DEF RetainPrune
<1>2. pc' = "done" /\ cursor = None
  BY <1>1 DEF Finish, IInv, LoopOK
<1>3. \A n \in Int : ExistsNode(n)' <=> ExistsNode(n)
  BY <1>1 DEF ExistsNode
<1>4. \A n \in Int : (LiveNode(n)' <=> LiveNode(n)) /\ (LiveNode(n) <=> ExistsNode(n))
  BY <1>1, <1>2, <1>3 DEF LiveNode, Unlinking
<1>5. \A n \in Int : ParentOf(n)' = ParentOf(n)
  BY <1>1 DEF ParentOf
<1>6. \A p \in DOMAIN edges : p \in Nat \X Rets /\ p[1] \in Nat /\ edges[p] \in Int
  BY EdgeTypes DEF IInv
<1>7. /\ DOMAIN edges' = {p \in DOMAIN edges : LiveNode(edges[p])}
      /\ \A p \in DOMAIN edges' : edges'[p] = edges[p]
  BY <1>1, <1>4, <1>6
<1>8. TypeOK'
  <2>1. start' \in [Keys -> Int \cup {None}]
    BY <1>1 DEF IInv, TypeOK
  <2>2. DOMAIN edges' \subseteq Nat \X Rets /\ edges' \in [DOMAIN edges' -> Int]
    BY <1>1, <1>6
  <2>3. QED
    BY <1>1, <2>1, <2>2 DEF IInv, TypeOK, Finish
<1>9. TreeOK'
  <2> USE DEF IInv, TreeOK
  <2>1. EdgesPointBack'
    BY <1>4, <1>5, <1>6, <1>7 DEF EdgesPointBack
  <2>2. OneEdgeEach'
    BY <1>6, <1>7 DEF OneEdgeEach
  <2>3. Hanging'
    <3>1. NodeNames' \subseteq Int
      BY <1>8 DEF NodeNames, TypeOK, SlabOK, SlabType
    <3>2. SUFFICES ASSUME NEW n \in Int, LiveNode(n)', ParentOf(n)' # None
                   PROVE  /\ SlabContains(inner, ParentOf(n))'
                          /\ \E p \in DOMAIN edges' : p[1] = ParentOf(n)' /\ edges'[p] = n
      BY <3>1 DEF Hanging
    <3>3. LiveNode(n) /\ ParentOf(n)' = ParentOf(n)
      BY <1>4, <1>5, <3>2
    <3>4. SlabContains(inner', ParentOf(n))
      BY <1>1, <3>2, <3>3, Hung
    <3>5. QED
      BY <1>7, <3>2, <3>3, <3>4, Hung
  <2>4. RootsHaveNoParent'
    BY <1>1, <1>4, <1>5 DEF RootsHaveNoParent, TypeOK
  <2>5. NothingDangles'
    <3>1. \A k \in Keys : start'[k] # None => LiveNode(start[k])'
      BY <1>1, <1>4 DEF TypeOK
    <3>2. ASSUME NEW p \in DOMAIN edges'
          PROVE  SlabContains(inner', p[1]) /\ LiveNode(edges[p])'
      <4>1. p \in DOMAIN edges /\ LiveNode(edges[p])
        BY <1>7
      <4>2. ParentOf(edges[p]) = p[1] /\ p[1] # None
        BY <1>6, <4>1, NoneAssumption DEF EdgesPointBack
      <4>3. SlabContains(inner, p[1])
        BY <1>6, <4>1, <4>2, Hung
      <4>4. QED
        BY <1>1, <1>4, <1>6, <1>7, <4>1, <4>3
    <3>3. QED
      BY <3>1, <3>2 DEF NothingDangles
  <2>6. Counted'
    <3>1. \A i : OutEdges(i)' = OutEdges(i)
      BY <1>4, <1>6, <1>7 DEF OutEdges
    <3>2. \A i : Phantom(i)' = 0 /\ Phantom(i) = 0
      BY <1>1, <1>2 DEF Phantom
    <3>3. IsFiniteSet(DOMAIN edges')
      BY <1>7, FS_Subset DEF Counted
    <3>4. QED
      BY <1>1, <3>1, <3>2, <3>3 DEF Counted, LiveInner
  <2>7. QED
    BY <2>1, <2>2, <2>3, <2>4, <2>5, <2>6
<1>10. LoopOK'
  BY <1>1 DEF LoopOK, Finish
<1>11. QED
  BY <1>8, <1>9, <1>10 DEF IInv

-----------------------------------------------------------------------------
(* All the steps together. *)

(* A step that changes nothing keeps the invariant.                        *)
LEMMA StutterKeeps ==
  ASSUME IInv, UNCHANGED vars
  PROVE  IInv'
<1> USE DEF vars, IInv
<1>1. TypeOK'
  BY DEF TypeOK
<1>2. \A n : (LiveNode(n)' <=> LiveNode(n)) /\ ParentOf(n)' = ParentOf(n)
  BY DEF LiveNode, ExistsNode, Unlinking, ParentOf
<1>3. LoopOK'
  BY <1>2 DEF LoopOK
<1>4. \A i : OutEdges(i)' = OutEdges(i) /\ Phantom(i)' = Phantom(i)
  BY <1>2 DEF OutEdges, Phantom
<1>5. TreeOK'
  BY <1>2, <1>4 DEF TreeOK, EdgesPointBack, OneEdgeEach, Hanging, NodeNames,
     RootsHaveNoParent, NothingDangles, Retaining, Counted, LiveInner
<1>6. QED
  BY <1>1, <1>3, <1>5

(* IInv is inductive: every iteration of every loop, and the prologue of   *)
(* every operation, keeps it.                                              *)
LEMMA NextKeeps ==
  ASSUME IInv, [Next]_vars
  PROVE  IInv'
<1>1. CASE UNCHANGED vars
  BY <1>1, StutterKeeps
<1>2. CASE Request
  BY <1>2, InsertCallKeeps, GetCallKeeps, RetainCallKeeps DEF Request
<1>3. CASE Insert
  <2>1. CASE WalkAlreadyExists
    BY <2>1, FinishKeeps DEF WalkAlreadyExists
  <2>2. CASE WalkMissingCall
    BY <2>2, FinishKeeps DEF WalkMissingCall
  <2>3. QED
    BY <1>3, <2>1, <2>2, WalkExtractKeeps, AppendCallKeeps, AppendLeafKeeps DEF Insert
<1>4. CASE Get
  <2>1. CASE GetLeaf
    BY <2>1, FinishKeeps DEF GetLeaf
  <2>2. CASE GetNothing
    BY <2>2, FinishKeeps DEF GetNothing
  <2>3. QED
    BY <1>4, <2>1, <2>2, GetInnerKeeps DEF Get
<1>5. CASE Retain
  BY <1>5, RetainKeepKeeps, RetainDropKeeps, UnlinkParentKeeps, UnlinkLeafKeeps,
     RetainPruneKeeps DEF Retain
<1>6. CASE Return
  BY <1>6, ReturnKeeps
<1>7. QED
  BY <1>1, <1>2, <1>3, <1>4, <1>5, <1>6 DEF Next, Step

(* The inductive invariant of the loops of tree.mbt holds throughout. *)
THEOREM Invariance == Spec => []IInv
<1>1. Init => IInv
  BY InitIInv
<1>2. IInv /\ [Next]_vars => IInv'
  BY NextKeeps
<1>3. QED
  BY <1>1, <1>2, PTL DEF Spec

(* The slabs' free lists stay exact and every variable keeps its type,     *)
(* however insert, get and retain are interleaved (tree.mbt Slab).         *)
THEOREM TypeCorrectness == Spec => []TypeOK
<1>1. IInv => TypeOK
  BY DEF IInv
<1>2. QED
  BY <1>1, Invariance, PTL

(* assert_consistency of tree.mbt holds between any two operations: the    *)
(* roots and both ends of every edge are live nodes.                       *)
THEOREM Consistency == Spec => []Consistent
<1>1. IInv => Consistent
  BY DEF IInv, TreeOK, NothingDangles, Consistent, Quiet, Retaining, LiveNode
<1>2. QED
  BY <1>1, Invariance, PTL

(* Between operations every inner node has a child, counts its children    *)
(* right, and no node has two parents: retain neither leaks a node nor     *)
(* frees one that is still in use.                                         *)
THEOREM CountsExact == Spec => []ChildrenCounted
<1>1. ASSUME IInv, Quiet
      PROVE  /\ \A id \in LiveInner :
                  /\ EdgesFrom(id) # {}
                  /\ Slot(inner, id).children = Cardinality(EdgesFrom(id))
             /\ \A p, q \in DOMAIN edges : edges[p] = edges[q] => p = q
  <2> USE DEF IInv, TreeOK
  <2>1. pc \notin {"append", "retain", "unlink"}
    BY <1>1 DEF Quiet
  <2>2. \A p \in DOMAIN edges : LiveNode(edges[p])
    BY <1>1, <2>1 DEF NothingDangles, Retaining
  <2>3. \A id : OutEdges(id) = EdgesFrom(id)
    BY <2>2 DEF OutEdges, EdgesFrom
  <2>4. \A id : Cardinality(EdgesFrom(id)) \in Nat
    BY <1>1, FS_Subset, FS_CardinalityType DEF Counted, EdgesFrom
  <2>5. ASSUME NEW id \in LiveInner
        PROVE  /\ EdgesFrom(id) # {}
               /\ Slot(inner, id).children = Cardinality(EdgesFrom(id))
    <3>1. /\ Slot(inner, id).children = Cardinality(EdgesFrom(id)) + 0
          /\ Slot(inner, id).children > 0
      BY <1>1, <2>1, <2>3 DEF Counted, Phantom
    <3>2. QED
      BY <2>4, <3>1, FS_EmptySet
  <2>6. QED
    BY <1>1, <2>2, <2>5 DEF OneEdgeEach
<1>2. IInv => ChildrenCounted
  BY <1>1 DEF ChildrenCounted
<1>3. QED
  BY <1>2, Invariance, PTL
=============================================================================
