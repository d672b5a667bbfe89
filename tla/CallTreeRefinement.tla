------------------------- MODULE CallTreeRefinement -------------------------
(***************************************************************************)
(* The call tree implements DecisionTree, for any number of keys, calls    *)
(* and values: whatever the loops of tree.mbt do to the nodes, what can be *)
(* read off the leaves changes as a set of entries does whose operations   *)
(* are single steps.                                                       *)
(***************************************************************************)
EXTENDS CallTreeImplements, CallTreeProofs, DecisionPathTheorems

-----------------------------------------------------------------------------
(* Forests. *)

(* Nodes hang on inner nodes, each under a label of its own *)
IsForest(f) ==
  /\ f.inner \subseteq f.nodes /\ None \notin f.nodes
  /\ \A n \in f.nodes : f.up[n] = None \/ f.up[n] \in f.inner
  /\ \A m, n \in f.nodes :
       f.up[m] # None /\ f.up[m] = f.up[n] /\ f.label[m] = f.label[n] => m = n

(* Every node has a way up to a root *)
HasTrails(f, t) ==
  \A n \in f.nodes : t[n] = Above(f, n, t) /\ t[n].path \in Seq(Pairs)

(* The edge that node n hangs on *)
Edge(f, n) == [call |-> f.ask[f.up[n]], ret |-> f.label[n]]

(* A sequence of pairs is a sequence of what is in it, indexed from 1 *)
LEMMA PairsSeq ==
  ASSUME NEW s, s \in Seq(Pairs)
  PROVE  /\ s \in Seq(Range(s)) /\ Len(s) \in Nat /\ DOMAIN s = 1 .. Len(s)
         /\ Range(s) \subseteq Pairs
         /\ IsPairs(s)
<1>1. Len(s) \in Nat /\ DOMAIN s = 1 .. Len(s) /\ s = [i \in 1 .. Len(s) |-> s[i]]
  OBVIOUS
<1>2. s \in Seq(Range(s))
  BY <1>1, FunctionIsSeq
<1>3. Range(s) \subseteq Pairs
  BY DEF Range
<1>4. \A q \in Pairs : q = [call |-> q.call, ret |-> q.ret]
  BY DEF Pairs
<1> QED BY <1>1, <1>2, <1>3, <1>4 DEF IsPairs

(* A node's trail is that of the node it hangs on and one pair more *)
LEMMA OneUp ==
  ASSUME NEW f, NEW t, IsForest(f), HasTrails(f, t), NEW n \in f.nodes
  PROVE  /\ Len(t[n].path) \in Nat
         /\ f.up[n] = None => t[n].root = n /\ t[n].path = <<>> /\ Len(t[n].path) = 0
         /\ f.up[n] # None =>
              /\ f.up[n] \in f.inner /\ f.up[n] \in f.nodes
              /\ t[n].root = t[f.up[n]].root
              /\ t[n].path = Append(t[f.up[n]].path, Edge(f, n))
              /\ Len(t[n].path) = Len(t[f.up[n]].path) + 1
              /\ t[n].path[Len(t[n].path)] = Edge(f, n)
              /\ Prefix(t[n].path, Len(t[n].path) - 1) = t[f.up[n]].path
<1>1. t[n] = Above(f, n, t) /\ t[n].path \in Seq(Pairs)
  BY DEF HasTrails
<1>2. Len(t[n].path) \in Nat
  BY <1>1, PairsSeq
<1>3. CASE f.up[n] = None
  <2>1. t[n] = [root |-> n, path |-> <<>>]
    BY <1>1, <1>3 DEF Above
  <2>2. t[n].root = n /\ t[n].path = <<>>
    BY <2>1
  <2> QED BY <1>3, <2>2
<1>4. CASE f.up[n] # None
  <2> DEFINE u == f.up[n]
             p == t[u].path
  <2>1. u \in f.inner /\ u \in f.nodes
    BY <1>4 DEF IsForest
  <2>2. p \in Seq(Pairs)
    BY <2>1 DEF HasTrails
  <2>3. t[n] = [root |-> t[u].root, path |-> Append(p, Edge(f, n))]
    BY <1>1, <1>4 DEF Above, Edge
  <2>4. t[n].root = t[u].root /\ t[n].path = Append(p, Edge(f, n))
    BY <2>3
  <2>5. p \in Seq(Range(p)) /\ Len(p) \in Nat
    BY <2>2, PairsSeq
  <2> DEFINE e == Edge(f, n)
             q == t[n].path
  <2> HIDE DEF e, p, u
  <2>6. /\ q \in Seq(Range(q)) /\ Len(q) = Len(p) + 1
        /\ \A i \in 1 .. Len(p) : q[i] = p[i]
        /\ q[Len(p) + 1] = e
    BY <2>4, <2>5, Appended DEF e, p, u
  <2>7. Prefix(q, Len(p)) = p
    <3>1. Prefix(q, Len(p)) = Prefix(p, Len(p))
      <4>1. Len(p) \in 0 .. Len(q) /\ Len(p) \in 0 .. Len(p)
        BY <2>5, <2>6
      <4> QED BY <2>5, <2>6, <4>1, SamePrefix
    <3>2. Prefix(p, Len(p)) = p
      <4>1. Len(p) \in 0 .. Len(p)
        BY <2>5
      <4>2. Prefix(p, Len(p)) = [i \in 1 .. Len(p) |-> p[i]]
        BY <2>5, <4>1, PrefixShape
      <4> QED BY <2>5, <4>2, Elements
    <3> QED BY <3>1, <3>2
  <2>8. Len(q) - 1 = Len(p)
    BY <2>5, <2>6
  <2> QED BY <1>2, <1>4, <2>1, <2>4, <2>6, <2>7, <2>8 DEF e, p, u
<1> QED BY <1>2, <1>3, <1>4

(* A claim about all nodes follows from what hangs on what *)
LEMMA Downwards ==
  ASSUME NEW f, NEW t, IsForest(f), HasTrails(f, t), NEW S,
         \A n \in f.nodes : (f.up[n] = None \/ f.up[n] \in S) => n \in S
  PROVE  f.nodes \subseteq S
<1> SUFFICES ASSUME NEW x \in f.nodes, x \notin S PROVE FALSE
  OBVIOUS
<1> DEFINE L == {i \in Nat : \E n \in f.nodes : n \notin S /\ Len(t[n].path) = i}
<1>1. Len(t[x].path) \in L
  BY OneUp
<1>2. PICK i \in L : \A j \in L : i <= j
  BY <1>1, LeastNat
<1>3. PICK n \in f.nodes : n \notin S /\ Len(t[n].path) = i
  BY <1>2
<1>4. f.up[n] # None /\ f.up[n] \notin S
  BY <1>3
<1>5. f.up[n] \in f.nodes /\ Len(t[n].path) = Len(t[f.up[n]].path) + 1
  BY <1>4, OneUp
<1>6. Len(t[f.up[n]].path) \in Nat
  BY <1>5, OneUp
<1>7. Len(t[f.up[n]].path) \in L
  BY <1>4, <1>5, <1>6
<1> HIDE DEF L
<1>8. i <= Len(t[f.up[n]].path)
  BY <1>2, <1>7
<1> QED BY <1>3, <1>5, <1>6, <1>8

(* Nothing else is where a node is *)
LEMMA SameNode ==
  ASSUME NEW f, NEW t, IsForest(f), HasTrails(f, t),
         NEW m \in f.nodes, NEW n \in f.nodes,
         t[m].root = t[n].root, t[m].path = t[n].path
  PROVE  m = n
<1> DEFINE S == {x \in f.nodes : \A y \in f.nodes :
                   t[x].root = t[y].root /\ t[x].path = t[y].path => x = y}
<1>1. ASSUME NEW x \in f.nodes, f.up[x] = None \/ f.up[x] \in S PROVE x \in S
  <2> SUFFICES ASSUME NEW y \in f.nodes, t[x].root = t[y].root, t[x].path = t[y].path
               PROVE  x = y
    OBVIOUS
  <2>1. CASE f.up[x] = None
    <3>1. t[x].root = x /\ Len(t[x].path) = 0
      BY <2>1, OneUp
    <3>2. f.up[y] = None
      <4>1. SUFFICES ASSUME f.up[y] # None PROVE FALSE
        OBVIOUS
      <4>2. Len(t[y].path) = Len(t[f.up[y]].path) + 1 /\ f.up[y] \in f.nodes
        BY <4>1, OneUp
      <4>3. Len(t[f.up[y]].path) \in Nat
        BY <4>2, OneUp
      <4> QED BY <3>1, <4>2, <4>3
    <3>3. t[y].root = y
      BY <3>2, OneUp
    <3> QED BY <3>1, <3>3
  <2>2. CASE f.up[x] # None
    <3>1. /\ f.up[x] \in f.nodes /\ t[x].root = t[f.up[x]].root
          /\ Len(t[x].path) = Len(t[f.up[x]].path) + 1
          /\ t[x].path[Len(t[x].path)] = Edge(f, x)
          /\ Prefix(t[x].path, Len(t[x].path) - 1) = t[f.up[x]].path
      BY <2>2, OneUp
    <3>2. Len(t[f.up[x]].path) \in Nat
      BY <3>1, OneUp
    <3>3. f.up[y] # None
      <4>1. SUFFICES ASSUME f.up[y] = None PROVE FALSE
        OBVIOUS
      <4>2. Len(t[y].path) = 0
        BY <4>1, OneUp
      <4> QED BY <3>1, <3>2, <4>2
    <3>4. /\ f.up[y] \in f.nodes /\ t[y].root = t[f.up[y]].root
          /\ t[y].path[Len(t[y].path)] = Edge(f, y)
          /\ Prefix(t[y].path, Len(t[y].path) - 1) = t[f.up[y]].path
      BY <3>3, OneUp
    <3>5. t[f.up[x]].root = t[f.up[y]].root /\ t[f.up[x]].path = t[f.up[y]].path
      BY <3>1, <3>4
    <3>6. f.up[x] = f.up[y]
      BY <1>1, <2>2, <3>4, <3>5
    <3>7. Edge(f, x) = Edge(f, y)
      BY <3>1, <3>4
    <3>8. f.label[x] = f.label[y]
      BY <3>7 DEF Edge
    <3> QED BY <2>2, <3>6, <3>8 DEF IsForest
  <2> QED BY <2>1, <2>2
<1> HIDE DEF S
<1>2. f.nodes \subseteq S
  BY <1>1, Downwards
<1> QED BY <1>2 DEF S

(* On the way to a node there is an inner node at every point, which has a *)
(* child on that way.                                                      *)
OnTheWay(f, t, n, j, a, c) ==
  /\ a \in f.inner /\ c \in f.nodes /\ f.up[c] = a
  /\ t[a].root = t[n].root /\ t[c].root = t[n].root
  /\ t[a].path = Prefix(t[n].path, j) /\ t[c].path = Prefix(t[n].path, j + 1)
  /\ t[n].path[j + 1] = Edge(f, c)

(* There is such a point for every element of the path *)
LEMMA WayThere ==
  ASSUME NEW f, NEW t, IsForest(f), HasTrails(f, t), NEW n \in f.nodes,
         NEW j \in 0 .. Len(t[n].path) - 1
  PROVE  \E a, c : OnTheWay(f, t, n, j, a, c)
<1> DEFINE S == {x \in f.nodes : \A i \in 0 .. Len(t[x].path) - 1 :
                   \E a, c : OnTheWay(f, t, x, i, a, c)}
<1>1. ASSUME NEW x \in f.nodes, f.up[x] = None \/ f.up[x] \in S PROVE x \in S
  <2> SUFFICES ASSUME NEW i \in 0 .. Len(t[x].path) - 1
               PROVE  \E a, c : OnTheWay(f, t, x, i, a, c)
    OBVIOUS
  <2>1. f.up[x] # None
    BY OneUp
  <2> DEFINE u == f.up[x]
             p == t[x].path
  <2>2. /\ u \in f.nodes /\ u \in f.inner /\ t[x].root = t[u].root
        /\ Len(p) = Len(t[u].path) + 1
        /\ p[Len(p)] = Edge(f, x)
        /\ Prefix(p, Len(p) - 1) = t[u].path
    BY <2>1, OneUp
  <2>3. Len(t[u].path) \in Nat /\ Len(p) \in Nat
    BY <2>2, OneUp
  <2>4. p \in Seq(Range(p))
    BY PairsSeq DEF HasTrails
  <2> HIDE DEF u, p
  <2>5. Len(p) - 1 \in 0 .. Len(p) /\ Len(p) - 1 = Len(t[u].path)
    BY <2>2, <2>3
  <2>6. CASE i = Len(p) - 1
    <3>1. i + 1 = Len(p)
      BY <2>3, <2>6
    <3>2. Prefix(p, i + 1) = p
      <4>1. Len(p) \in 0 .. Len(p)
        BY <2>3
      <4> QED BY <2>4, <3>1, <4>1, PrefixElements
    <3>3. OnTheWay(f, t, x, i, u, x)
      BY <2>2, <2>6, <3>1, <3>2 DEF OnTheWay, u, p
    <3> QED BY <3>3
  <2>7. CASE i < Len(p) - 1
    <3>1. i \in 0 .. Len(t[u].path) - 1 /\ i \in 0 .. Len(p) - 1 /\ i + 1 \in 0 .. Len(p) - 1
          /\ i + 1 \in 1 .. Len(p) - 1
      BY <2>3, <2>5, <2>7 DEF p
    <3>2. PICK a, c : OnTheWay(f, t, u, i, a, c)
      BY <1>1, <2>1, <3>1 DEF u
    <3>3. /\ Prefix(t[u].path, i) = Prefix(p, i)
          /\ Prefix(t[u].path, i + 1) = Prefix(p, i + 1)
          /\ t[u].path[i + 1] = p[i + 1]
      BY <2>2, <2>4, <2>5, <3>1, PrefixOfPrefix, PrefixElements
    <3>4. OnTheWay(f, t, x, i, a, c)
      BY <2>2, <3>2, <3>3 DEF OnTheWay, p
    <3> QED BY <3>4
  <2> QED BY <2>3, <2>6, <2>7 DEF p
<1> HIDE DEF S
<1>2. f.nodes \subseteq S
  BY <1>1, Downwards
<1> QED BY <1>2 DEF S

-----------------------------------------------------------------------------
(* Ways down that answers lead.                                            *)

(* A set of pairs that answers each call once *)
Answered(R) == \A p, q \in R : p.call = q.call => p = q

(* The answers R lead from a root one way down *)
LEMMA OneWayDown ==
  ASSUME NEW f, NEW t, IsForest(f), HasTrails(f, t), NEW R, Answered(R),
         NEW n \in f.nodes, Range(t[n].path) \subseteq R,
         NEW m \in f.nodes, Range(t[m].path) \subseteq R,
         t[n].root = t[m].root, Len(t[n].path) <= Len(t[m].path)
  PROVE  t[n].path = Prefix(t[m].path, Len(t[n].path))
<1> DEFINE S == {x \in f.nodes :
                   /\ Range(t[x].path) \subseteq R
                   /\ t[x].root = t[m].root
                   /\ Len(t[x].path) <= Len(t[m].path)
                   => t[x].path = Prefix(t[m].path, Len(t[x].path))}
<1>m. t[m].path \in Seq(Range(t[m].path)) /\ Len(t[m].path) \in Nat
  BY PairsSeq DEF HasTrails
<1>1. ASSUME NEW x \in f.nodes, f.up[x] = None \/ f.up[x] \in S PROVE x \in S
  <2> SUFFICES ASSUME Range(t[x].path) \subseteq R, t[x].root = t[m].root,
                      Len(t[x].path) <= Len(t[m].path)
               PROVE  t[x].path = Prefix(t[m].path, Len(t[x].path))
    OBVIOUS
  <2>1. CASE f.up[x] = None
    <3>1. t[x].path = <<>> /\ Len(t[x].path) = 0
      BY <2>1, OneUp
    <3>2. Prefix(t[m].path, 0) = <<>>
      BY <1>m DEF Prefix
    <3> QED BY <3>1, <3>2
  <2>2. CASE f.up[x] # None
    <3> DEFINE u == f.up[x]
               p == t[x].path
               q == t[m].path
    <3>1. /\ u \in f.nodes /\ u \in f.inner /\ t[x].root = t[u].root
          /\ Len(p) = Len(t[u].path) + 1
          /\ p[Len(p)] = Edge(f, x)
          /\ Prefix(p, Len(p) - 1) = t[u].path
      BY <2>2, OneUp
    <3>2. Len(t[u].path) \in Nat
      BY <3>1, OneUp
    <3>3. p \in Seq(Range(p)) /\ DOMAIN p = 1 .. Len(p) /\ DOMAIN q = 1 .. Len(q)
      BY PairsSeq DEF HasTrails
    <3> HIDE DEF u, p, q
    <3>4. Len(p) - 1 \in 0 .. Len(p) /\ Len(p) - 1 = Len(t[u].path) /\ Len(p) \in 1 .. Len(p)
      BY <3>1, <3>2
    <3>5. Range(t[u].path) \subseteq R
      <4>1. Range(Prefix(p, Len(p) - 1)) \subseteq Range(p)
        BY <3>3, <3>4, PrefixShape
      <4> QED BY <3>1, <4>1 DEF p
    <3>6. Len(p) <= Len(q) /\ Len(q) \in Nat /\ q \in Seq(Range(q)) /\ t[x].root = t[m].root
      BY <1>m DEF p, q
    <3>7. Len(t[u].path) \in 0 .. Len(q) - 1 /\ Len(t[u].path) <= Len(q)
          /\ Len(t[u].path) + 1 = Len(p)
      BY <3>1, <3>2, <3>4, <3>6
    <3>8. t[u].path = Prefix(q, Len(t[u].path))
      BY <1>1, <2>2, <3>1, <3>5, <3>6, <3>7 DEF u, q
    <3>9. PICK a, c : OnTheWay(f, t, m, Len(t[u].path), a, c)
      BY <3>7, WayThere DEF q
    <3>10. a = u
      <4>1. a \in f.nodes /\ t[a].root = t[u].root /\ t[a].path = t[u].path
        BY <3>1, <3>6, <3>8, <3>9 DEF OnTheWay, IsForest, q
      <4> QED BY <3>1, <4>1, SameNode
    <3>11. q[Len(p)] = Edge(f, c) /\ f.up[c] = u
      BY <3>7, <3>9, <3>10 DEF OnTheWay, q
    <3>12. q[Len(p)] \in R /\ p[Len(p)] \in R
      <4>1. Len(p) \in DOMAIN p /\ Len(p) \in DOMAIN q
        <5>1. Len(p) \in 1 .. Len(q)
          BY <3>4, <3>6
        <5>2. DOMAIN p = 1 .. Len(p) /\ DOMAIN q = 1 .. Len(q)
          BY PairsSeq DEF HasTrails, p, q
        <5> QED BY <3>4, <5>1, <5>2
      <4>2. p[Len(p)] \in Range(p) /\ q[Len(p)] \in Range(q)
        BY <4>1 DEF Range
      <4> QED BY <4>2 DEF p, q
    <3>13. q[Len(p)] = p[Len(p)]
      <4>1. q[Len(p)].call = p[Len(p)].call
        BY <3>1, <3>11 DEF Edge, u
      <4> QED BY <3>12, <4>1 DEF Answered
    <3>14. \A i \in 1 .. Len(p) : p[i] = q[i]
      <4>1. Len(p) - 1 \in 0 .. Len(q)
        BY <3>4, <3>7
      <4>2. \A i \in 1 .. Len(p) - 1 : Prefix(p, Len(p) - 1)[i] = p[i]
        BY <3>3, <3>4, PrefixElements
      <4>3. \A i \in 1 .. Len(p) - 1 : Prefix(q, Len(p) - 1)[i] = q[i]
        BY <3>4, <3>6, <4>1, PrefixElements
      <4>4. \A i \in 1 .. Len(p) - 1 : p[i] = q[i]
        BY <3>1, <3>4, <3>8, <4>2, <4>3
      <4> QED BY <3>4, <3>13, <4>4
    <3>15. Len(p) \in 0 .. Len(q) /\ Len(p) \in 0 .. Len(p)
      BY <3>4, <3>6
    <3>16. Prefix(p, Len(p)) = Prefix(q, Len(p))
      BY <3>3, <3>6, <3>14, <3>15, SamePrefix
    <3>17. Prefix(p, Len(p)) = p
      BY <3>3, PrefixElements
    <3> QED BY <3>16, <3>17 DEF p, q
  <2> QED BY <2>1, <2>2
<1> HIDE DEF S
<1>2. f.nodes \subseteq S
  BY <1>1, Downwards
<1> QED BY <1>2 DEF S

(* If it leads further than a node, it leads through it and to its child   *)
LEMMA LedThrough ==
  ASSUME NEW f, NEW t, IsForest(f), HasTrails(f, t), NEW R, Answered(R),
         NEW n \in f.nodes, Range(t[n].path) \subseteq R,
         NEW m \in f.nodes, Range(t[m].path) \subseteq R,
         t[n].root = t[m].root, Len(t[n].path) < Len(t[m].path)
  PROVE  /\ n \in f.inner
         /\ \E c \in f.nodes : f.up[c] = n /\ Edge(f, c) \in R
         /\ t[m].path[Len(t[n].path) + 1].call = f.ask[n]
<1>1. Len(t[n].path) \in Nat /\ Len(t[m].path) \in Nat /\ DOMAIN t[m].path = 1 .. Len(t[m].path)
  BY PairsSeq DEF HasTrails
<1>2. t[n].path = Prefix(t[m].path, Len(t[n].path))
  BY <1>1, OneWayDown
<1>3. Len(t[n].path) \in 0 .. Len(t[m].path) - 1
  BY <1>1
<1>4. PICK a, c : OnTheWay(f, t, m, Len(t[n].path), a, c)
  BY <1>3, WayThere
<1>5. a \in f.nodes /\ t[a].root = t[n].root /\ t[a].path = t[n].path
  BY <1>2, <1>4 DEF OnTheWay, IsForest
<1>6. a = n
  BY <1>5, SameNode
<1>7. t[m].path[Len(t[n].path) + 1] \in Range(t[m].path)
  <2>1. Len(t[n].path) + 1 \in DOMAIN t[m].path
    BY <1>1
  <2> QED BY <2>1 DEF Range
<1>8. t[m].path[Len(t[n].path) + 1] = Edge(f, c) /\ f.up[c] = n /\ c \in f.nodes
  BY <1>4, <1>6 DEF OnTheWay
<1>9. Edge(f, c).call = f.ask[n]
  BY <1>8 DEF Edge
<1>10. n \in f.inner
  BY <1>4, <1>6 DEF OnTheWay
<1> QED BY <1>7, <1>8, <1>9, <1>10

(* Every inner node has a child *)
Full(f) == \A a \in f.inner : \E c \in f.nodes : f.up[c] = a

(* There is a leaf below every node *)
LEMMA LeafBelow ==
  ASSUME NEW f, NEW t, IsForest(f), HasTrails(f, t), Full(f), IsFiniteSet(f.nodes),
         NEW n \in f.nodes
  PROVE  \E l \in f.nodes \ f.inner :
           /\ t[l].root = t[n].root
           /\ Len(t[n].path) <= Len(t[l].path)
           /\ Prefix(t[l].path, Len(t[n].path)) = t[n].path
<1> DEFINE B(x) == /\ t[x].root = t[n].root
                   /\ Len(t[n].path) <= Len(t[x].path)
                   /\ Prefix(t[x].path, Len(t[n].path)) = t[n].path
           L == {i \in Nat : \E x \in f.nodes : B(x) /\ Len(t[x].path) = i}
           g == [x \in f.nodes |-> t[x]]
           E == {g[x] : x \in f.nodes}
<1>1. \A x \in f.nodes : t[x].path \in Seq(Range(t[x].path)) /\ Len(t[x].path) \in Nat
  BY PairsSeq DEF HasTrails
<1>2. PICK b \in Nat : \A e \in E : Len(e.path) <= b
  <2>1. IsFiniteSet(E)
    <3>1. g \in Surjection(f.nodes, E)
      BY DEF Surjection
    <3> QED BY <3>1, FS_Surjection
  <2>2. \A e \in E : e.path \in Seq(Range(e.path))
    BY <1>1
  <2> QED BY <2>1, <2>2, PathsBounded
<1>3. B(n)
  <2>1. Len(t[n].path) \in 0 .. Len(t[n].path)
    BY <1>1
  <2>2. Prefix(t[n].path, Len(t[n].path)) = t[n].path
    BY <1>1, PrefixElements
  <2> QED BY <1>1, <2>2
<1> HIDE DEF B
<1>4. L \subseteq Nat /\ L # {}
  BY <1>1, <1>3
<1>5. \A i \in L : i <= b
  BY <1>2
<1>6. PICK i \in L : \A j \in L : j <= i
  BY <1>4, <1>5, GreatestNat
<1>7. PICK l \in f.nodes : B(l) /\ Len(t[l].path) = i
  BY <1>6
<1>8. l \notin f.inner
  <2> SUFFICES ASSUME l \in f.inner PROVE FALSE
    OBVIOUS
  <2>1. PICK c \in f.nodes : f.up[c] = l
    BY DEF Full
  <2>2. f.up[c] # None
    BY <2>1 DEF IsForest
  <2>3. /\ t[c].root = t[l].root /\ Len(t[c].path) = i + 1
        /\ Prefix(t[c].path, Len(t[c].path) - 1) = t[l].path
    BY <1>7, <2>1, <2>2, OneUp
  <2>4. i \in Nat /\ Len(t[n].path) \in 0 .. i /\ i \in 0 .. Len(t[c].path) /\ Len(t[c].path) - 1 = i
    BY <1>1, <1>7, <2>3 DEF B
  <2>5. Prefix(t[c].path, Len(t[n].path)) = t[n].path
    <3>1. Prefix(Prefix(t[c].path, i), Len(t[n].path)) = Prefix(t[c].path, Len(t[n].path))
      BY <1>1, <2>4, PrefixOfPrefix
    <3> QED BY <1>7, <2>3, <2>4, <3>1 DEF B
  <2>6. B(c)
    BY <1>7, <2>3, <2>4, <2>5 DEF B
  <2>7. i + 1 \in L
    BY <2>3, <2>4, <2>6
  <2> QED BY <1>6, <2>4, <2>7
<1> QED BY <1>7, <1>8 DEF B

(* Node m is passed on the way to node n *)
Passed(f, t, m, n) ==
  /\ m \in f.inner
  /\ Len(t[m].path) < Len(t[n].path)
  /\ t[m].path = Prefix(t[n].path, Len(t[m].path))
  /\ t[n].path[Len(t[m].path) + 1].call = f.ask[m]

(* Where answers lead no further, all that they lead to is above *)
LEMMA StuckAt ==
  ASSUME NEW f, NEW t, IsForest(f), HasTrails(f, t), NEW R, Answered(R),
         NEW n \in f.nodes, Range(t[n].path) \subseteq R,
         \A c \in f.nodes : f.up[c] = n => Edge(f, c) \notin R,
         NEW m \in f.nodes, Range(t[m].path) \subseteq R, t[m].root = t[n].root
  PROVE  /\ Len(t[m].path) <= Len(t[n].path)
         /\ m = n \/ Passed(f, t, m, n)
<1>1. Len(t[n].path) \in Nat /\ Len(t[m].path) \in Nat
  BY OneUp
<1>2. Len(t[m].path) <= Len(t[n].path)
  <2> SUFFICES ASSUME Len(t[n].path) < Len(t[m].path) PROVE FALSE
    BY <1>1
  <2> QED BY LedThrough
<1>3. t[m].path = Prefix(t[n].path, Len(t[m].path))
  BY <1>2, OneWayDown
<1>4. CASE Len(t[m].path) = Len(t[n].path)
  <2>1. t[m].path = t[n].path
    <3>1. t[n].path \in Seq(Range(t[n].path))
      BY PairsSeq DEF HasTrails
    <3> QED BY <1>3, <1>4, <3>1, PrefixElements
  <2>2. m = n
    BY <2>1, SameNode
  <2> QED BY <1>2, <2>2
<1>5. CASE Len(t[m].path) < Len(t[n].path)
  BY <1>2, <1>3, <1>5, LedThrough DEF Passed
<1> QED BY <1>1, <1>2, <1>4, <1>5

-----------------------------------------------------------------------------
(* What the entries of a key show of its tree.                             *)

(* The paths of the entries of key k are those of the leaves under root r *)
Shows(E, k, f, t, r) ==
  /\ \A e \in OfKey(E, k) : \E l \in f.nodes \ f.inner : t[l].root = r /\ t[l].path = e.path
  /\ \A l \in f.nodes \ f.inner : t[l].root = r => \E e \in OfKey(E, k) : t[l].path = e.path

(* The inner nodes are the questions: none is without an entry below it *)
LEMMA QuestionsAre ==
  ASSUME NEW f, NEW t, IsForest(f), HasTrails(f, t), Full(f), IsFiniteSet(f.nodes),
         NEW E, NEW k, NEW r, Shows(E, k, f, t, r)
  PROVE  /\ \A x \in Questions(E, k) : \E a \in f.inner :
              t[a].root = r /\ x.at = t[a].path /\ x.call = f.ask[a]
         /\ \A a \in f.inner : t[a].root = r =>
              [at |-> t[a].path, call |-> f.ask[a]] \in Questions(E, k)
<1>1. ASSUME NEW x \in Questions(E, k)
      PROVE  \E a \in f.inner : t[a].root = r /\ x.at = t[a].path /\ x.call = f.ask[a]
  <2>1. PICK e \in OfKey(E, k) : \E n \in DOMAIN e.path :
               x = [at |-> Prefix(e.path, n - 1), call |-> e.path[n].call]
    BY DEF Questions
  <2>2. PICK n \in DOMAIN e.path :
               x = [at |-> Prefix(e.path, n - 1), call |-> e.path[n].call]
    BY <2>1
  <2>3. PICK l \in f.nodes \ f.inner : t[l].root = r /\ t[l].path = e.path
    BY DEF Shows
  <2>4. DOMAIN t[l].path = 1 .. Len(t[l].path) /\ Len(t[l].path) \in Nat
    BY PairsSeq DEF HasTrails
  <2>5. n - 1 \in 0 .. Len(t[l].path) - 1 /\ (n - 1) + 1 = n
    BY <2>2, <2>3, <2>4
  <2>6. PICK a, c : OnTheWay(f, t, l, n - 1, a, c)
    BY <2>5, WayThere
  <2>7. Edge(f, c).call = f.ask[a]
    BY <2>6 DEF Edge, OnTheWay
  <2>8. t[l].path[n] = Edge(f, c)
    BY <2>5, <2>6 DEF OnTheWay
  <2> QED BY <2>2, <2>3, <2>6, <2>7, <2>8 DEF OnTheWay
<1>2. ASSUME NEW a \in f.inner, t[a].root = r
      PROVE  [at |-> t[a].path, call |-> f.ask[a]] \in Questions(E, k)
  <2> DEFINE m == Len(t[a].path)
  <2>1. a \in f.nodes
    BY DEF IsForest
  <2>2. PICK l \in f.nodes \ f.inner :
           /\ t[l].root = t[a].root
           /\ m <= Len(t[l].path)
           /\ Prefix(t[l].path, m) = t[a].path
    BY <2>1, LeafBelow
  <2>3. m \in Nat /\ Len(t[l].path) \in Nat /\ t[l].path \in Seq(Range(t[l].path))
        /\ DOMAIN t[l].path = 1 .. Len(t[l].path)
    BY <2>1, PairsSeq DEF HasTrails
  <2>4. m # Len(t[l].path)
    <3> SUFFICES ASSUME m = Len(t[l].path) PROVE FALSE
      OBVIOUS
    <3>1. t[l].path = t[a].path
      BY <2>2, <2>3, PrefixElements
    <3>2. l = a
      BY <2>1, <2>2, <3>1, SameNode
    <3> QED BY <3>2
  <2>5. m \in 0 .. Len(t[l].path) - 1 /\ m + 1 \in 1 .. Len(t[l].path) /\ (m + 1) - 1 = m
    BY <2>2, <2>3, <2>4
  <2>6. PICK b, c : OnTheWay(f, t, l, m, b, c)
    BY <2>5, WayThere
  <2>7. b = a
    <3>1. b \in f.nodes /\ t[b].root = t[a].root /\ t[b].path = t[a].path
      BY <2>2, <2>6 DEF OnTheWay, IsForest
    <3> QED BY <2>1, <3>1, SameNode
  <2>8. t[l].path[m + 1].call = f.ask[a]
    BY <2>6, <2>7 DEF OnTheWay, Edge
  <2>9. PICK e \in OfKey(E, k) : t[l].path = e.path
    BY <1>2, <2>2 DEF Shows
  <2>10. m + 1 \in DOMAIN e.path
    BY <2>3, <2>5, <2>9
  <2>11. [at |-> t[a].path, call |-> f.ask[a]]
          = [at |-> Prefix(e.path, (m + 1) - 1), call |-> e.path[m + 1].call]
    BY <2>2, <2>5, <2>8, <2>9
  <2> QED BY <2>10, <2>11 DEF Questions
<1> QED BY <1>1, <1>2

(* Every path from the root to a node is a node's *)
LEMMA NodesAre ==
  ASSUME NEW f, NEW t, IsForest(f), HasTrails(f, t), Full(f), IsFiniteSet(f.nodes),
         NEW E, NEW k, NEW r, Shows(E, k, f, t, r), NEW p
  PROVE  p \in Nodes(E, k) <=> \E n \in f.nodes : t[n].root = r /\ t[n].path = p
<1>1. ASSUME p \in Nodes(E, k)
      PROVE  \E n \in f.nodes : t[n].root = r /\ t[n].path = p
  <2>1. PICK e \in OfKey(E, k) : \E n \in 0 .. Len(e.path) : p = Prefix(e.path, n)
    BY <1>1 DEF Nodes
  <2>2. PICK n \in 0 .. Len(e.path) : p = Prefix(e.path, n)
    BY <2>1
  <2>3. PICK l \in f.nodes \ f.inner : t[l].root = r /\ t[l].path = e.path
    BY DEF Shows
  <2>4. t[l].path \in Seq(Range(t[l].path)) /\ Len(t[l].path) \in Nat
    BY PairsSeq DEF HasTrails
  <2>5. CASE n = Len(e.path)
    <3>1. p = t[l].path
      BY <2>2, <2>3, <2>4, <2>5, PrefixElements
    <3> QED BY <2>3, <3>1
  <2>6. CASE n # Len(e.path)
    <3>1. n \in 0 .. Len(t[l].path) - 1
      BY <2>3, <2>4, <2>6
    <3>2. PICK a, c : OnTheWay(f, t, l, n, a, c)
      BY <3>1, WayThere
    <3> QED BY <2>2, <2>3, <3>2 DEF OnTheWay, IsForest
  <2> QED BY <2>5, <2>6
<1>2. ASSUME NEW n \in f.nodes, t[n].root = r, t[n].path = p
      PROVE  p \in Nodes(E, k)
  <2>1. PICK l \in f.nodes \ f.inner :
           /\ t[l].root = t[n].root
           /\ Len(t[n].path) <= Len(t[l].path)
           /\ Prefix(t[l].path, Len(t[n].path)) = t[n].path
    BY LeafBelow
  <2>2. PICK e \in OfKey(E, k) : t[l].path = e.path
    BY <1>2, <2>1 DEF Shows
  <2>3. Len(t[n].path) \in Nat /\ Len(t[l].path) \in Nat
    BY PairsSeq DEF HasTrails
  <2>4. Len(p) \in 0 .. Len(e.path)
    BY <1>2, <2>1, <2>2, <2>3
  <2> QED BY <1>2, <2>1, <2>2, <2>4 DEF Nodes
<1> QED BY <1>1, <1>2

(* A leaf that a sequence or an oracle leads to is the only one *)
LEMMA OneLeaf ==
  ASSUME NEW f, NEW t, IsForest(f), HasTrails(f, t), NEW R, Answered(R),
         NEW n \in f.nodes \ f.inner, Range(t[n].path) \subseteq R,
         NEW m \in f.nodes \ f.inner, Range(t[m].path) \subseteq R, t[m].root = t[n].root
  PROVE  m = n
<1>1. \A c \in f.nodes : f.up[c] # n
  BY DEF IsForest
<1>2. \A c \in f.nodes : f.up[c] = n => Edge(f, c) \notin R
  BY <1>1
<1> QED BY <1>2, StuckAt DEF Passed

(* A node at which a question has no child for the answer that q gives it *)
NoWayOn(f, a, q) ==
  /\ a \in f.inner /\ q.call = f.ask[a]
  /\ \A c \in f.nodes : f.up[c] = a => Edge(f, c) # q

(* Where answers lead to no child, they lead to no leaf *)
LEMMA NoLeaf ==
  ASSUME NEW f, NEW t, IsForest(f), HasTrails(f, t), NEW R, Answered(R),
         NEW a, NEW q \in R, NoWayOn(f, a, q), Range(t[a].path) \subseteq R,
         NEW m \in f.nodes, Range(t[m].path) \subseteq R, t[m].root = t[a].root
  PROVE  /\ m \in f.inner
         /\ m = a \/ Passed(f, t, m, a)
<1>1. a \in f.nodes /\ a \in f.inner
  BY DEF NoWayOn, IsForest
<1>2. ASSUME NEW c \in f.nodes, f.up[c] = a PROVE Edge(f, c) \notin R
  <2>1. Edge(f, c).call = q.call /\ Edge(f, c) # q
    BY <1>2 DEF Edge, NoWayOn
  <2> QED BY <2>1 DEF Answered
<1> QED BY <1>1, <1>2, StuckAt DEF Passed

(* An insertion that gets to such a node is new, is not short of a call,   *)
(* and shares with the tree the path to the node and its own answer there. *)
LEMMA WalkStops ==
  ASSUME NEW f, NEW t, IsForest(f), HasTrails(f, t), Full(f), IsFiniteSet(f.nodes),
         NEW E, NEW k, NEW r, Shows(E, k, f, t, r),
         NEW s, Answered(Range(s)),
         NEW a, NEW q \in Range(s), NoWayOn(f, a, q),
         t[a].root = r, Range(t[a].path) \subseteq Range(s)
  PROVE  /\ OfKey(E, k) # {}
         /\ ~AlreadyThere(E, k, s) /\ ~LacksCall(E, k, s)
         /\ Divergences(E, k, s) = {Append(t[a].path, q)}
<1> DEFINE R == Range(s)
           P == t[a].path
<1>1. a \in f.nodes /\ a \in f.inner /\ q.call = f.ask[a]
  BY DEF NoWayOn, IsForest
<1>2. \A m \in f.nodes : Range(t[m].path) \subseteq R /\ t[m].root = r =>
         /\ m \in f.inner
         /\ m = a \/ Passed(f, t, m, a)
  BY NoLeaf
<1>3. P \in Seq(Range(P)) /\ Len(P) \in Nat /\ DOMAIN P = 1 .. Len(P)
  BY <1>1, PairsSeq DEF HasTrails
<1>4. \A m \in f.nodes : Len(t[m].path) \in Nat
  BY OneUp
<1>5. OfKey(E, k) # {}
  <2>1. PICK l \in f.nodes \ f.inner : t[l].root = r
    BY <1>1, LeafBelow
  <2> QED BY <2>1 DEF Shows
<1>6. ~AlreadyThere(E, k, s)
  <2> SUFFICES ASSUME NEW e \in OfKey(E, k), Follows(e.path, s) PROVE FALSE
    BY DEF AlreadyThere
  <2>1. PICK l \in f.nodes \ f.inner : t[l].root = r /\ t[l].path = e.path
    BY DEF Shows
  <2> QED BY <1>2, <2>1 DEF Follows
<1>7. ASSUME NEW x \in Reached(E, k, s)
      PROVE  \E m \in f.inner :
               /\ x.at = t[m].path /\ x.call = f.ask[m] /\ m \in f.nodes
               /\ m = a \/ (Passed(f, t, m, a) /\ P[Len(t[m].path) + 1] \in R)
  <2>1. x \in Questions(E, k) /\ Range(x.at) \subseteq R
    BY <1>7 DEF Reached, Follows
  <2>2. PICK m \in f.inner : t[m].root = r /\ x.at = t[m].path /\ x.call = f.ask[m]
    BY <2>1, QuestionsAre
  <2>3. m \in f.nodes
    BY DEF IsForest
  <2>4. CASE m = a
    BY <2>2, <2>3, <2>4
  <2>5. CASE m # a
    <3>1. Passed(f, t, m, a)
      BY <1>2, <2>1, <2>2, <2>3, <2>5
    <3>2. Len(t[m].path) + 1 \in DOMAIN P
      BY <1>3, <1>4, <2>3, <3>1 DEF Passed
    <3>3. P[Len(t[m].path) + 1] \in Range(P)
      BY <3>2 DEF Range
    <3> QED BY <2>2, <2>3, <3>1, <3>3
  <2> QED BY <2>4, <2>5
<1>8. ~LacksCall(E, k, s)
  <2> SUFFICES ASSUME NEW x \in Reached(E, k, s) PROVE x.call \in CallsOf(s)
    BY DEF LacksCall
  <2>1. PICK m \in f.inner :
               /\ x.call = f.ask[m]
               /\ m = a \/ (Passed(f, t, m, a) /\ P[Len(t[m].path) + 1] \in R)
    BY <1>7
  <2> QED BY <1>1, <2>1 DEF CallsOf, Passed
<1>9. Divergences(E, k, s) \subseteq {Append(P, q)}
  <2> SUFFICES ASSUME NEW d \in Divergences(E, k, s) PROVE d = Append(P, q)
    OBVIOUS
  <2>1. PICK x \in Reached(E, k, s) : \E u \in R : u.call = x.call /\ d = Append(x.at, u)
    BY DEF Divergences
  <2>2. PICK u \in R : u.call = x.call /\ d = Append(x.at, u)
    BY <2>1
  <2>3. d \notin Nodes(E, k)
    BY DEF Divergences
  <2>4. PICK m \in f.inner :
               /\ x.at = t[m].path /\ x.call = f.ask[m] /\ m \in f.nodes
               /\ m = a \/ (Passed(f, t, m, a) /\ P[Len(t[m].path) + 1] \in R)
    BY <1>7
  <2>5. CASE m = a
    <3>1. u = q
      BY <1>1, <2>2, <2>4, <2>5 DEF Answered
    <3> QED BY <2>2, <2>4, <2>5, <3>1
  <2>6. CASE m # a
    <3> DEFINE j == Len(t[m].path)
    <3>1. j \in 0 .. Len(P) - 1 /\ u = P[j + 1] /\ t[m].path = Prefix(P, j)
      BY <1>3, <1>4, <2>2, <2>4, <2>6 DEF Answered, Passed
    <3>2. PICK b, c : OnTheWay(f, t, a, j, b, c)
      BY <1>1, <3>1, WayThere
    <3>3. d = t[c].path
      <4>1. f.up[c] # None /\ c \in f.nodes /\ f.up[c] = b
        BY <3>2 DEF OnTheWay, IsForest
      <4>2. t[c].path = Append(t[b].path, Edge(f, c))
        BY <4>1, OneUp
      <4>3. t[b].path = t[m].path /\ Edge(f, c) = u
        BY <3>1, <3>2 DEF OnTheWay
      <4> QED BY <2>2, <2>4, <4>2, <4>3
    <3>4. d \in Nodes(E, k)
      <4>1. c \in f.nodes /\ t[c].root = r
        BY <3>2 DEF OnTheWay
      <4> QED BY <3>3, <4>1, NodesAre
    <3> QED BY <2>3, <3>4
  <2> QED BY <2>5, <2>6
<1>10. Append(P, q) \in Divergences(E, k, s)
  <2> DEFINE x == [at |-> P, call |-> f.ask[a]]
  <2>1. x \in Questions(E, k)
    BY <1>1, QuestionsAre
  <2>2. x \in Reached(E, k, s)
    BY <2>1 DEF Reached, Follows
  <2>3. Append(P, q) \notin Nodes(E, k)
    <3> SUFFICES ASSUME Append(P, q) \in Nodes(E, k) PROVE FALSE
      OBVIOUS
    <3> DEFINE p == Append(P, q)
    <3>0. p \in Nodes(E, k)
      OBVIOUS
    <3> HIDE DEF p
    <3>1. PICK n \in f.nodes : t[n].root = r /\ t[n].path = p
      BY <3>0, NodesAre
    <3>2. Len(t[n].path) = Len(P) + 1 /\ t[n].path[Len(P) + 1] = q
          /\ Prefix(t[n].path, Len(P)) = P
      <4>1. /\ t[n].path \in Seq(Range(t[n].path))
            /\ Len(t[n].path) = Len(P) + 1 /\ t[n].path[Len(P) + 1] = q
            /\ \A i \in 1 .. Len(P) : t[n].path[i] = P[i]
        BY <1>3, <3>1, Appended DEF p
      <4>2. Len(P) \in 0 .. Len(P) /\ Len(P) \in 0 .. Len(t[n].path)
        BY <1>3, <4>1
      <4>3. Prefix(t[n].path, Len(P)) = Prefix(P, Len(P))
        <5> DEFINE w == t[n].path
                   g == Len(P)
        <5>1. /\ w \in Seq(Range(w)) /\ g \in 0 .. Len(w)
              /\ P \in Seq(Range(P)) /\ g \in 0 .. Len(P)
              /\ \A i \in 1 .. g : w[i] = P[i]
          BY <1>3, <4>1, <4>2
        <5> HIDE DEF w, g, P
        <5>2. Prefix(w, g) = Prefix(P, g)
          BY <5>1, SamePrefix
        <5> QED BY <5>2 DEF w, g
      <4> QED BY <1>3, <4>1, <4>3, PrefixElements
    <3>3. Len(P) \in 0 .. Len(t[n].path) - 1
      BY <1>3, <3>2
    <3>4. PICK b, c : OnTheWay(f, t, n, Len(P), b, c)
      BY <3>3, WayThere
    <3>5. b \in f.nodes /\ t[b].root = t[a].root /\ t[b].path = t[a].path
      BY <3>1, <3>2, <3>4 DEF OnTheWay, IsForest
    <3>6. b = a
      BY <1>1, <3>5, SameNode
    <3>7. c \in f.nodes /\ f.up[c] = a /\ Edge(f, c) = q
      BY <3>2, <3>4, <3>6 DEF OnTheWay
    <3> QED BY <3>7 DEF NoWayOn
  <2>4. Append(P, q) \in {Append(x.at, u) : u \in {v \in R : v.call = x.call}}
    BY <1>1
  <2> QED BY <2>2, <2>3, <2>4 DEF Divergences
<1> QED BY <1>5, <1>6, <1>8, <1>9, <1>10

-----------------------------------------------------------------------------
(* Forests that change.                                                    *)

(* The trails are the one function that climbs as it should *)
LEMMA TrailsAre ==
  ASSUME NEW f, NEW t, IsForest(f), HasTrails(f, t)
  PROVE  HasTrails(f, Trails(f)) /\ \A n \in f.nodes : Trails(f)[n] = t[n]
<1> DEFINE g == [n \in f.nodes |-> t[n]]
           Climbs(h) == h = [n \in f.nodes |-> Above(f, n, h)]
           h == CHOOSE h : Climbs(h)
<1>1. \A n \in f.nodes : g[n] = Above(f, n, g)
  <2> TAKE n \in f.nodes
  <2>1. t[n] = Above(f, n, t)
    BY DEF HasTrails
  <2>2. f.up[n] # None => g[f.up[n]] = t[f.up[n]]
    BY DEF IsForest
  <2> QED BY <2>1, <2>2 DEF Above
<1>2. Climbs(g)
  BY <1>1
<1>3. Climbs(h)
  BY <1>2
<1>4. Trails(f) = h
  BY DEF Trails
<1>5. \A n \in f.nodes : h[n] = Above(f, n, h)
  <2> HIDE DEF h
  <2> QED BY <1>3
<1> HIDE DEF h
<1> DEFINE S == {n \in f.nodes : h[n] = t[n]}
<1>6. ASSUME NEW n \in f.nodes, f.up[n] = None \/ f.up[n] \in S PROVE n \in S
  <2>1. t[n] = Above(f, n, t)
    BY DEF HasTrails
  <2> QED BY <1>5, <1>6, <2>1 DEF Above
<1>7. f.nodes \subseteq S
  <2> HIDE DEF S
  <2> QED BY <1>6, Downwards
<1>8. \A n \in f.nodes : h[n] = t[n]
  BY <1>7
<1>9. HasTrails(f, h)
  BY <1>5, <1>8 DEF HasTrails
<1> QED BY <1>4, <1>8, <1>9

(* A forest that is part of another: its nodes have the same ways up *)
Part(f, g) ==
  /\ f.nodes \subseteq g.nodes /\ f.inner \subseteq g.inner
  /\ \A n \in f.nodes : f.up[n] = g.up[n] /\ f.label[n] = g.label[n]
  /\ \A i \in f.inner : f.ask[i] = g.ask[i]

(* What is above a node is the same in the part *)
LEMMA PartAbove ==
  ASSUME NEW f, NEW g, IsForest(f), Part(f, g), NEW n \in f.nodes, NEW t, NEW u,
         f.up[n] # None => t[f.up[n]] = u[f.up[n]]
  PROVE  Above(f, n, t) = Above(g, n, u)
<1>1. f.up[n] = g.up[n] /\ f.label[n] = g.label[n]
  BY DEF Part
<1>2. f.up[n] # None => f.ask[f.up[n]] = g.ask[f.up[n]]
  BY DEF IsForest, Part
<1> QED BY <1>1, <1>2 DEF Above

(* A part keeps the trails of its nodes *)
LEMMA PartTrails ==
  ASSUME NEW f, NEW g, IsForest(f), Part(f, g), NEW t, HasTrails(g, t)
  PROVE  HasTrails(f, Trails(f)) /\ \A n \in f.nodes : Trails(f)[n] = t[n]
<1>1. ASSUME NEW n \in f.nodes PROVE t[n] = Above(f, n, t) /\ t[n].path \in Seq(Pairs)
  <2>1. n \in g.nodes
    BY DEF Part
  <2>2. Above(f, n, t) = Above(g, n, t)
    BY PartAbove
  <2> QED BY <2>1, <2>2 DEF HasTrails
<1> QED BY <1>1, TrailsAre DEF HasTrails

(* A forest with one node more *)
LEMMA GrownTrails ==
  ASSUME NEW f, NEW g, IsForest(f), IsForest(g), Part(f, g), NEW t, HasTrails(f, t),
         NEW x, x \notin f.nodes, g.nodes = f.nodes \cup {x},
         g.up[x] # None => g.up[x] \in f.inner /\ Edge(g, x) \in Pairs
  PROVE  /\ HasTrails(g, Trails(g))
         /\ \A n \in f.nodes : Trails(g)[n] = t[n]
         /\ Trails(g)[x] = Above(g, x, t)
<1> DEFINE u == [n \in g.nodes |-> IF n = x THEN Above(g, x, t) ELSE t[n]]
<1>1. \A n \in f.nodes : u[n] = t[n] /\ n \in g.nodes
  OBVIOUS
<1>2. u[x] = Above(g, x, t)
  OBVIOUS
<1> HIDE DEF u
<1>3. ASSUME NEW n \in f.nodes PROVE u[n] = Above(g, n, u) /\ u[n].path \in Seq(Pairs)
  <2>1. f.up[n] # None => u[f.up[n]] = t[f.up[n]]
    BY <1>1 DEF IsForest
  <2>2. Above(f, n, t) = Above(g, n, u)
    BY <2>1, PartAbove
  <2> QED BY <1>1, <2>2 DEF HasTrails
<1>4. u[x] = Above(g, x, u) /\ u[x].path \in Seq(Pairs)
  <2>1. CASE g.up[x] = None
    <3>1. Above(g, x, u) = Above(g, x, t) /\ Above(g, x, t).path = <<>>
      BY <2>1 DEF Above
    <3> QED BY <1>2, <3>1
  <2>2. CASE g.up[x] # None
    <3> DEFINE v == g.up[x]
    <3>1. v \in f.nodes
      BY <2>2 DEF IsForest
    <3>2. u[v] = t[v] /\ t[v].path \in Seq(Pairs)
      BY <1>1, <3>1 DEF HasTrails
    <3>3. Above(g, x, t) = [root |-> t[v].root, path |-> Append(t[v].path, Edge(g, x))]
      BY <2>2 DEF Above, Edge
    <3>4. Above(g, x, u) = Above(g, x, t)
      BY <2>2, <3>2 DEF Above
    <3>5. Above(g, x, t).path = Append(t[v].path, Edge(g, x))
      BY <3>3
    <3> QED BY <1>2, <2>2, <3>2, <3>4, <3>5
  <2> QED BY <2>1, <2>2
<1>5. HasTrails(g, u)
  BY <1>3, <1>4 DEF HasTrails
<1>6. x \in g.nodes
  OBVIOUS
<1> QED BY <1>1, <1>2, <1>5, <1>6, TrailsAre

(* Trails start at roots *)
LEMMA TrailsStart ==
  ASSUME NEW f, NEW t, IsForest(f), HasTrails(f, t), NEW n \in f.nodes
  PROVE  t[n].root \in f.nodes /\ f.up[t[n].root] = None
<1> DEFINE S == {x \in f.nodes : t[x].root \in f.nodes /\ f.up[t[x].root] = None}
<1>1. ASSUME NEW x \in f.nodes, f.up[x] = None \/ f.up[x] \in S PROVE x \in S
  <2>1. CASE f.up[x] = None
    BY <2>1, OneUp
  <2>2. CASE f.up[x] # None
    <3>1. t[x].root = t[f.up[x]].root
      BY <2>2, OneUp
    <3> QED BY <1>1, <2>2, <3>1
  <2> QED BY <2>1, <2>2
<1> HIDE DEF S
<1>2. f.nodes \subseteq S
  BY <1>1, Downwards
<1> QED BY <1>2 DEF S

-----------------------------------------------------------------------------
(* The nodes of the call tree are a forest.                                *)

(* What hangs on an edge, and what edge a node hangs on *)
Labelled ==
  /\ \A n \in Nested : ParentOf(n) # None =>
       /\ ParentOf(n) \in LiveInner
       /\ <<ParentOf(n), Label(ParentOf(n), n)>> \in DOMAIN edges
       /\ edges[<<ParentOf(n), Label(ParentOf(n), n)>>] = n
       /\ Label(ParentOf(n), n) \in Rets
  /\ \A e \in DOMAIN edges : LiveNode(edges[e]) =>
       /\ edges[e] \in Nested
       /\ ParentOf(edges[e]) = e[1] /\ Label(e[1], edges[e]) = e[2]

ForestOK ==
  /\ \A n \in Int : n \in Nested <=> LiveNode(n)
  /\ Nested \subseteq Int /\ IsFiniteSet(Nested)
  /\ \A n \in Nested : n \in LiveInner <=> ~IsLeaf(n)
  /\ LiveInner \subseteq Nested
  /\ Labelled
  /\ IsForest(Forest)

(* What IInv says makes the nodes that live a forest *)
LEMMA ForestIsOK == IInv => ForestOK
<1> SUFFICES ASSUME IInv PROVE ForestOK
  OBVIOUS
<1>0. TypeOK /\ TreeOK
  BY DEF IInv
<1>l. Len(inner.data) \in Nat /\ Len(leaves.data) \in Nat
  BY <1>0 DEF TypeOK, SlabOK, SlabType
<1>1. Nested \subseteq Int
  BY <1>l DEF Nested, NodeNames
<1>2. \A n \in Int : n \in Nested <=> LiveNode(n)
  BY <1>0, NodeName DEF Nested, LiveNode
<1>3. IsFiniteSet(Nested)
  <2>1. IsFiniteSet(NodeNames)
    <3>1. -Len(leaves.data) \in Int /\ Len(inner.data) - 1 \in Int
      BY <1>l
    <3> QED BY <3>1, FS_Interval DEF NodeNames
  <2> QED BY <2>1, FS_Subset DEF Nested
<1>4. \A n \in Nested : n \in LiveInner <=> ~IsLeaf(n)
  <2> SUFFICES ASSUME NEW n \in Nested PROVE n \in LiveInner <=> ~IsLeaf(n)
    OBVIOUS
  <2>1. n \in Int /\ ExistsNode(n)
    BY <1>1, <1>2 DEF LiveNode
  <2>2. ~IsLeaf(n) => SlabContains(inner, n)
    BY <2>1 DEF ExistsNode
  <2> QED BY <1>l, <2>1, <2>2 DEF LiveInner, SlabContains, IsLeaf
<1>5. LiveInner \subseteq Nested
  <2> SUFFICES ASSUME NEW i \in LiveInner PROVE i \in Nested
    OBVIOUS
  <2>1. i \in Int /\ i >= 0 /\ SlabContains(inner, i)
    BY <1>l DEF LiveInner
  <2>2. ExistsNode(i)
    BY <2>1 DEF ExistsNode, IsLeaf
  <2>3. ~Unlinking(i)
    BY <2>1, <1>0 DEF Unlinking, NodeLeaf, TypeOK
  <2> QED BY <1>2, <2>1, <2>2, <2>3 DEF LiveNode
<1>6. Labelled
  <2>1. ASSUME NEW n \in Nested, ParentOf(n) # None
        PROVE  /\ ParentOf(n) \in LiveInner
               /\ <<ParentOf(n), Label(ParentOf(n), n)>> \in DOMAIN edges
               /\ edges[<<ParentOf(n), Label(ParentOf(n), n)>>] = n
               /\ Label(ParentOf(n), n) \in Rets
    <3>1. n \in Int /\ LiveNode(n) /\ ExistsNode(n)
      BY <1>1, <1>2 DEF LiveNode
    <3>2. SlabContains(inner, ParentOf(n)) /\ \E p \in DOMAIN edges : p[1] = ParentOf(n) /\ edges[p] = n
      BY <1>0, <2>1, <3>1, Hung DEF TreeOK
    <3>3. ParentOf(n) \in Nat
      BY <1>0, <2>1, <3>1, ParentType
    <3>4. ParentOf(n) \in LiveInner
      BY <1>0, <3>2, <3>3, InnerType
    <3> DEFINE e == CHOOSE p \in DOMAIN edges : p[1] = ParentOf(n) /\ edges[p] = n
    <3>5. e \in DOMAIN edges /\ e[1] = ParentOf(n) /\ edges[e] = n
      BY <3>2
    <3>6. Label(ParentOf(n), n) = e[2]
      BY DEF Label
    <3> HIDE DEF e
    <3>7. e \in Nat \X Rets
      BY <1>0, <3>5, EdgeTypes
    <3>8. e = <<ParentOf(n), Label(ParentOf(n), n)>> /\ e[2] \in Rets
      BY <3>5, <3>6, <3>7
    <3> QED BY <3>4, <3>5, <3>6, <3>8
  <2>2. ASSUME NEW e \in DOMAIN edges, LiveNode(edges[e])
        PROVE  /\ edges[e] \in Nested
               /\ ParentOf(edges[e]) = e[1] /\ Label(e[1], edges[e]) = e[2]
    <3>1. e \in Nat \X Rets /\ edges[e] \in Int /\ e[1] \in Nat
      BY <1>0, EdgeTypes
    <3>2. edges[e] \in Nested
      BY <1>2, <2>2, <3>1
    <3>3. ParentOf(edges[e]) = e[1]
      BY <1>0, <2>2 DEF TreeOK, EdgesPointBack
    <3>4. ParentOf(edges[e]) # None
      BY <3>1, <3>3, NoneAssumption
    <3>5. <<e[1], Label(e[1], edges[e])>> \in DOMAIN edges
          /\ edges[<<e[1], Label(e[1], edges[e])>>] = edges[e]
      BY <2>1, <3>2, <3>3, <3>4
    <3>6. e = <<e[1], Label(e[1], edges[e])>>
      BY <1>0, <2>2, <3>5 DEF TreeOK, OneEdgeEach
    <3>7. e[2] = Label(e[1], edges[e])
      <4> DEFINE w == Label(e[1], edges[e])
      <4> HIDE DEF w
      <4>1. e = <<e[1], w>>
        BY <3>6 DEF w
      <4>2. e[2] = w
        BY <3>1, <4>1
      <4> QED BY <4>2 DEF w
    <3> QED BY <3>2, <3>3, <3>7
  <2> QED BY <2>1, <2>2 DEF Labelled
<1>7. IsForest(Forest)
  <2>1. /\ Forest.nodes = Nested /\ Forest.inner = LiveInner
        /\ \A n \in Nested : Forest.up[n] = ParentOf(n)
        /\ \A n \in Nested : ParentOf(n) # None => Forest.label[n] = Label(ParentOf(n), n)
    BY DEF Forest
  <2>2. None \notin Nested
    BY <1>1, NoneAssumption
  <2>3. \A n \in Nested : ParentOf(n) = None \/ ParentOf(n) \in LiveInner
    BY <1>6 DEF Labelled
  <2>4. \A m, n \in Nested :
          ParentOf(m) # None /\ ParentOf(m) = ParentOf(n)
            /\ Label(ParentOf(m), m) = Label(ParentOf(n), n) => m = n
    <3> SUFFICES ASSUME NEW m \in Nested, NEW n \in Nested,
                        ParentOf(m) # None, ParentOf(m) = ParentOf(n),
                        Label(ParentOf(m), m) = Label(ParentOf(n), n)
                 PROVE  m = n
      OBVIOUS
    <3> DEFINE a == ParentOf(m)
               b == Label(ParentOf(m), m)
    <3>1. edges[<<a, b>>] = m
      BY <1>6 DEF Labelled
    <3>2. edges[<<ParentOf(n), Label(ParentOf(n), n)>>] = n
      BY <1>6 DEF Labelled
    <3> QED BY <3>1, <3>2
  <2> QED BY <1>5, <2>1, <2>2, <2>3, <2>4 DEF IsForest
<1> QED BY <1>1, <1>2, <1>3, <1>4, <1>5, <1>6, <1>7 DEF ForestOK

-----------------------------------------------------------------------------
(* Trails, roots and entries in a state.                                   *)

(* The fields of the forest *)
LEMMA ForestFields ==
  /\ Forest.nodes = Nested /\ Forest.inner = LiveInner
  /\ \A n \in Nested : Forest.up[n] = ParentOf(n)
  /\ \A n \in Nested : Forest.label[n] =
       IF ParentOf(n) = None THEN None ELSE Label(ParentOf(n), n)
  /\ \A i \in LiveInner : Forest.ask[i] = Slot(inner, i).call
BY DEF Forest

(* The trails of the tree are trails of its forest *)
LEMMA TrailedIs ==
  Trailed <=> /\ HasTrails(Forest, Trails(Forest))
              /\ \A i \in LiveInner : Slot(inner, i).call \notin CallsOf(TrailOf(i).path)
BY ForestFields DEF Trailed, HasTrails, TrailOf

(* The leaves are the nodes that are not inner *)
LeavesOK ==
  /\ \A n \in Nested \ LiveInner :
       n = NodeLeaf(LeafId(n)) /\ SlabContains(leaves, LeafId(n)) /\ LeafId(n) \in Nat
  /\ \A l \in LeavesKept :
       NodeLeaf(l) \in Nested \ LiveInner /\ l \in Nat /\ SlabContains(leaves, l)
  /\ ~Retaining => \A n \in Nested \ LiveInner : LeafId(n) \in LeavesKept

(* Every leaf that an entry is read off is there, and between retains an   *)
(* entry is read off each.                                                 *)
LEMMA LeavesAre ==
  ASSUME IInv, ForestOK, Sweeping
  PROVE  LeavesOK
<1>l. Len(leaves.data) \in Nat /\ TypeOK
  BY DEF IInv, TypeOK, SlabOK, SlabType
<1>1. ASSUME NEW n \in Nested \ LiveInner
      PROVE  n = NodeLeaf(LeafId(n)) /\ SlabContains(leaves, LeafId(n)) /\ LeafId(n) \in Nat
  <2>1. n \in Int /\ IsLeaf(n) /\ ExistsNode(n)
    BY DEF ForestOK, LiveNode
  <2>2. SlabContains(leaves, LeafId(n))
    BY <2>1 DEF ExistsNode
  <2> QED BY <2>1, <2>2 DEF IsLeaf, LeafId, NodeLeaf
<1>2. ASSUME NEW l \in LeavesKept
      PROVE  NodeLeaf(l) \in Nested \ LiveInner /\ l \in Nat /\ SlabContains(leaves, l)
  <2>1. l \in Nat /\ SlabContains(leaves, l) /\ (Retaining => Slot(leaves, l).value \in args.keep)
    BY <1>l DEF LeavesKept
  <2>2. NodeLeaf(l) \in Int /\ IsLeaf(NodeLeaf(l)) /\ LeafId(NodeLeaf(l)) = l
    BY <2>1 DEF NodeLeaf, IsLeaf, LeafId
  <2>3. ExistsNode(NodeLeaf(l))
    BY <2>1, <2>2 DEF ExistsNode
  <2>4. ~Unlinking(NodeLeaf(l))
    <3> SUFFICES ASSUME pc = "unlink", NodeLeaf(l) = NodeLeaf(idx) PROVE FALSE
      BY DEF Unlinking
    <3>1. l = idx
      BY <1>l, <2>1 DEF NodeLeaf, TypeOK
    <3> QED BY <2>1, <3>1 DEF Sweeping, Retaining
  <2> QED BY <2>1, <2>2, <2>3, <2>4 DEF ForestOK, LiveNode
<1>3. ASSUME ~Retaining, NEW n \in Nested \ LiveInner PROVE LeafId(n) \in LeavesKept
  BY <1>1, <1>3, <1>l DEF LeavesKept, SlabContains
<1> QED BY <1>1, <1>2, <1>3 DEF LeavesOK

(* The root of every node has a key, and just one *)
Keyed ==
  /\ \A n \in Nested : LET r == TrailOf(n).root IN
       /\ r \in Nested /\ ParentOf(r) = None
       /\ KeyOf(r) \in Keys /\ start[KeyOf(r)] = r
  /\ \A k \in Keys : start[k] # None => KeyOf(start[k]) = k

(* Each tree of the forest is the tree of one key *)
LEMMA RootsKeyed ==
  ASSUME ForestOK, Trailed, Rooted
  PROVE  Keyed
<1>1. ASSUME NEW n \in Nested
      PROVE  LET r == TrailOf(n).root IN
               /\ r \in Nested /\ ParentOf(r) = None
               /\ KeyOf(r) \in Keys /\ start[KeyOf(r)] = r
  <2> DEFINE r == TrailOf(n).root
  <2>1. IsForest(Forest) /\ HasTrails(Forest, Trails(Forest)) /\ n \in Forest.nodes
    BY ForestFields, TrailedIs DEF ForestOK
  <2>2. Trails(Forest)[n].root \in Forest.nodes /\ Forest.up[Trails(Forest)[n].root] = None
    BY <2>1, TrailsStart
  <2>3. r \in Nested /\ ParentOf(r) = None
    BY <2>2, ForestFields DEF TrailOf
  <2> HIDE DEF r
  <2>4. \E k \in Keys : start[k] = r
    BY <2>3 DEF Rooted
  <2>5. KeyOf(r) \in Keys /\ start[KeyOf(r)] = r
    BY <2>4 DEF KeyOf
  <2> QED BY <2>3, <2>5 DEF r
<1>2. ASSUME NEW k \in Keys, start[k] # None PROVE KeyOf(start[k]) = k
  <2>1. KeyOf(start[k]) \in Keys /\ start[KeyOf(start[k])] = start[k]
    BY DEF KeyOf
  <2> QED BY <1>2, <2>1 DEF Rooted
<1> QED BY <1>1, <1>2 DEF Keyed

(* What an entry is read off *)
LEMMA EntryFields ==
  ASSUME NEW l, NEW trail
  PROVE  LET e == EntryAt(l, trail) IN
           /\ e.key = KeyOf(trail.root) /\ e.path = trail.path
           /\ e.value = Slot(leaves, l).value
BY DEF EntryAt

(* An entry for each leaf that is kept, before a step and after it *)
LEMMA EntriesAre ==
  /\ Entries = {EntryAt(l, TrailOf(NodeLeaf(l))) : l \in LeavesKept}
  /\ Entries' = {EntryAt(l, TrailOf(NodeLeaf(l)))' : l \in LeavesKept'}
BY DEF Entries, TrailOf

(* The entries of a key are the leaves under its root *)
LEMMA EntriesOfKey ==
  ASSUME IInv, ForestOK, Sweeping, Keyed, NEW k \in Keys
  PROVE  /\ \A e \in OfKey(Entries, k) : \E l \in LeavesKept :
              /\ TrailOf(NodeLeaf(l)).root = start[k] /\ start[k] # None
              /\ e = EntryAt(l, TrailOf(NodeLeaf(l)))
         /\ \A l \in LeavesKept : TrailOf(NodeLeaf(l)).root = start[k] =>
              EntryAt(l, TrailOf(NodeLeaf(l))) \in OfKey(Entries, k)
<1>0. Entries = {EntryAt(l, TrailOf(NodeLeaf(l))) : l \in LeavesKept}
  BY EntriesAre
<1>1. ASSUME NEW e \in OfKey(Entries, k)
      PROVE  \E l \in LeavesKept :
               /\ TrailOf(NodeLeaf(l)).root = start[k] /\ start[k] # None
               /\ e = EntryAt(l, TrailOf(NodeLeaf(l)))
  <2>1. e \in Entries /\ e.key = k
    BY DEF OfKey
  <2>2. PICK l \in LeavesKept : e = EntryAt(l, TrailOf(NodeLeaf(l)))
    BY <1>0, <2>1
  <2>3. k = KeyOf(TrailOf(NodeLeaf(l)).root)
    BY <2>1, <2>2, EntryFields
  <2>4. NodeLeaf(l) \in Nested
    BY LeavesAre DEF LeavesOK
  <2>5. TrailOf(NodeLeaf(l)).root = start[k] /\ TrailOf(NodeLeaf(l)).root \in Nested
    BY <2>3, <2>4 DEF Keyed
  <2>6. start[k] # None
    BY <2>5, NoneAssumption DEF ForestOK
  <2> QED BY <2>2, <2>5, <2>6
<1>2. ASSUME NEW l \in LeavesKept, TrailOf(NodeLeaf(l)).root = start[k]
      PROVE  EntryAt(l, TrailOf(NodeLeaf(l))) \in OfKey(Entries, k)
  <2>1. NodeLeaf(l) \in Nested
    BY LeavesAre DEF LeavesOK
  <2>2. start[k] # None
    BY <1>2, <2>1, NoneAssumption DEF ForestOK, Keyed
  <2>3. KeyOf(start[k]) = k
    BY <2>2 DEF Keyed
  <2> QED BY <1>0, <1>2, <2>3, EntryFields DEF OfKey
<1> QED BY <1>1, <1>2

(* The entries of a key show its tree *)
LEMMA EntriesShow ==
  ASSUME IInv, ForestOK, Sweeping, Keyed, ~Retaining, NEW k \in Keys
  PROVE  Shows(Entries, k, Forest, Trails(Forest), start[k])
<1>1. ASSUME NEW e \in OfKey(Entries, k)
      PROVE  \E l \in Forest.nodes \ Forest.inner :
               Trails(Forest)[l].root = start[k] /\ Trails(Forest)[l].path = e.path
  <2>1. PICK l \in LeavesKept : /\ TrailOf(NodeLeaf(l)).root = start[k]
                                /\ e = EntryAt(l, TrailOf(NodeLeaf(l)))
    BY EntriesOfKey
  <2>2. NodeLeaf(l) \in Nested \ LiveInner
    BY LeavesAre DEF LeavesOK
  <2>3. e.path = TrailOf(NodeLeaf(l)).path
    BY <2>1, EntryFields
  <2> QED BY <2>1, <2>2, <2>3, ForestFields DEF TrailOf
<1>2. ASSUME NEW n \in Forest.nodes \ Forest.inner, Trails(Forest)[n].root = start[k]
      PROVE  \E e \in OfKey(Entries, k) : Trails(Forest)[n].path = e.path
  <2>1. n \in Nested \ LiveInner
    BY ForestFields
  <2>2. n = NodeLeaf(LeafId(n)) /\ LeafId(n) \in LeavesKept
    BY <2>1, LeavesAre DEF LeavesOK
  <2>3. EntryAt(LeafId(n), TrailOf(n)) \in OfKey(Entries, k)
    BY <1>2, <2>2, EntriesOfKey DEF TrailOf
  <2> QED BY <2>3, EntryFields DEF TrailOf
<1> QED BY <1>1, <1>2 DEF Shows

(* A key without a root has no entries *)
LEMMA NoEntries ==
  ASSUME IInv, ForestOK, Sweeping, Keyed, NEW k \in Keys, start[k] = None
  PROVE  OfKey(Entries, k) = {}
BY EntriesOfKey

(* No node is without a leaf below it while the tree is walked *)
LEMMA TreeFull ==
  ASSUME IInv, ForestOK, pc \in {"walk", "get"}
  PROVE  Full(Forest) /\ IsFiniteSet(Forest.nodes)
<1>1. ASSUME NEW a \in LiveInner PROVE \E c \in Nested : ParentOf(c) = a
  <2>1. a \in Int
    BY DEF ForestOK
  <2>2. Slot(inner, a).children = Cardinality(OutEdges(a)) + Phantom(a) /\ Slot(inner, a).children > 0
    BY DEF IInv, TreeOK, Counted
  <2>3. Phantom(a) = 0
    BY DEF Phantom
  <2>4. OutEdges(a) # {}
    <3> SUFFICES ASSUME OutEdges(a) = {} PROVE FALSE
      OBVIOUS
    <3>1. Cardinality(OutEdges(a)) = 0
      BY FS_EmptySet
    <3> QED BY <2>2, <2>3, <3>1
  <2>5. PICK e \in DOMAIN edges : e[1] = a /\ LiveNode(edges[e])
    BY <2>4 DEF OutEdges
  <2> QED BY <2>5 DEF ForestOK, Labelled
<1>2. \A a \in Forest.inner : \E c \in Forest.nodes : Forest.up[c] = a
  BY <1>1, ForestFields
<1> QED BY <1>2, ForestFields DEF Full, ForestOK

-----------------------------------------------------------------------------
(* Steps that take nodes away at most.                                     *)

Shrinks ==
  /\ \A n \in Nested' : n \in Nested /\ ParentOf(n)' = ParentOf(n)
  /\ \A e \in DOMAIN edges : edges[e] \in Nested' => e \in DOMAIN edges' /\ edges'[e] = edges[e]
  /\ \A i \in LiveInner' : i \in LiveInner /\ Slot(inner, i)'.call = Slot(inner, i).call
  /\ \A k \in Keys : start'[k] = start[k] \/ (start'[k] = None /\ start[k] \notin Nested')

(* What stays hangs where it did *)
LEMMA PartStays ==
  ASSUME IInv, IInv', Shrinks
  PROVE  Part(Forest', Forest)
<1>0. ForestOK /\ ForestOK'
  BY ForestIsOK, PTL
<1>1. /\ Forest'.nodes = Nested' /\ Forest'.inner = LiveInner'
      /\ \A n \in Nested' : Forest'.up[n] = ParentOf(n)'
      /\ \A n \in Nested' : Forest'.label[n] =
           IF ParentOf(n)' = None THEN None ELSE Label(ParentOf(n), n)'
      /\ \A i \in LiveInner' : Forest'.ask[i] = Slot(inner, i)'.call
  BY DEF Forest
<1>2. ASSUME NEW n \in Nested', ParentOf(n) # None
      PROVE  Label(ParentOf(n), n)' = Label(ParentOf(n), n)
  <2>1. n \in Nested /\ ParentOf(n)' = ParentOf(n)
    BY DEF Shrinks
  <2> DEFINE a == ParentOf(n)
             b == Label(ParentOf(n), n)
  <2>2. <<a, b>> \in DOMAIN edges /\ edges[<<a, b>>] = n
    BY <1>0, <1>2, <2>1 DEF ForestOK, Labelled
  <2>3. <<a, b>> \in DOMAIN edges' /\ edges'[<<a, b>>] = n
    BY <2>2 DEF Shrinks
  <2>4. LiveNode(n)'
    BY <1>0 DEF ForestOK
  <2>5. \A e \in DOMAIN edges' : LiveNode(edges[e])' =>
          ParentOf(edges[e])' = e[1] /\ Label(e[1], edges[e])' = e[2]
    BY <1>0 DEF ForestOK, Labelled
  <2> QED BY <2>3, <2>4, <2>5
<1>3. \A n \in Nested' : n \in Nested /\ ParentOf(n)' = ParentOf(n)
  BY DEF Shrinks
<1>4. \A i \in LiveInner' : i \in LiveInner /\ Slot(inner, i)'.call = Slot(inner, i).call
  BY DEF Shrinks
<1> QED BY <1>1, <1>2, <1>3, <1>4, ForestFields DEF Part

(* Whatever is taken away, the ways up from what stays and the keys of its *)
(* roots are as before.                                                    *)
LEMMA WaysStay ==
  ASSUME IInv, IInv', Trailed, Rooted, Shrinks
  PROVE  /\ Trailed' /\ Rooted'
         /\ \A n \in Nested' : TrailOf(n)' = TrailOf(n)
         /\ \A r \in Nested' : KeyOf(r)' = KeyOf(r)
<1>0. ForestOK /\ ForestOK'
  BY ForestIsOK, PTL
<1>1. Part(Forest', Forest)
  BY PartStays
<1>2. IsForest(Forest') /\ Forest'.nodes = Nested'
  BY <1>0 DEF ForestOK, Forest
<1>3. HasTrails(Forest, Trails(Forest))
  BY TrailedIs
<1>4. /\ HasTrails(Forest', Trails(Forest'))
      /\ \A n \in Forest'.nodes : Trails(Forest')[n] = Trails(Forest)[n]
  <2> DEFINE f == Forest'
             g == Forest
             t == Trails(Forest)
  <2>1. IsForest(f) /\ Part(f, g) /\ HasTrails(g, t)
    BY <1>1, <1>2, <1>3
  <2> HIDE DEF f, g, t
  <2>2. HasTrails(f, Trails(f)) /\ \A n \in f.nodes : Trails(f)[n] = t[n]
    BY <2>1, PartTrails
  <2> QED BY <2>2 DEF f, t
<1>5. \A n \in Nested' : TrailOf(n)' = TrailOf(n)
  BY <1>2, <1>4 DEF TrailOf
<1>6. Trailed'
  <2>1. ASSUME NEW i \in LiveInner' PROVE Slot(inner, i)'.call \notin CallsOf(TrailOf(i).path)'
    <3>1. i \in LiveInner /\ i \in Nested' /\ Slot(inner, i)'.call = Slot(inner, i).call
      BY <1>0 DEF Shrinks, ForestOK
    <3>2. TrailOf(i)' = TrailOf(i)
      BY <1>5, <3>1
    <3> QED BY <3>1, <3>2, TrailedIs DEF CallsOf
  <2>2. \A n \in Nested' :
          /\ Trails(Forest')[n] = Above(Forest', n, Trails(Forest'))
          /\ Trails(Forest')[n].path \in Seq(Pairs)
    BY <1>2, <1>4 DEF HasTrails
  <2> QED BY <2>1, <2>2 DEF Trailed, TrailOf
<1>7. None \notin Nested'
  BY <1>0, NoneAssumption DEF ForestOK
<1>8. Rooted'
  <2>1. ASSUME NEW j \in Keys, NEW k \in Keys, start'[j] # None, start'[j] = start'[k]
        PROVE  j = k
    BY <2>1 DEF Shrinks, Rooted
  <2>2. ASSUME NEW n \in Nested', ParentOf(n)' = None PROVE \E k \in Keys : start'[k] = n
    <3>1. n \in Nested /\ ParentOf(n) = None
      BY <2>2 DEF Shrinks
    <3>2. PICK k \in Keys : start[k] = n
      BY <3>1 DEF Rooted
    <3> QED BY <3>2 DEF Shrinks
  <2> QED BY <2>1, <2>2 DEF Rooted
<1>9. ASSUME NEW r \in Nested' PROVE KeyOf(r)' = KeyOf(r)
  <2>1. \A k \in Keys : start'[k] = r <=> start[k] = r
    BY <1>7 DEF Shrinks
  <2> QED BY <2>1 DEF KeyOf
<1> QED BY <1>5, <1>6, <1>8, <1>9

(* What an entry reads at leaf l *)
Shown(l) == EntryAt(l, TrailOf(NodeLeaf(l)))

(* The entries are what the leaves that are kept show *)
LEMMA EntriesShown == Entries = {Shown(l) : l \in LeavesKept}
BY EntriesAre DEF Shown

(* The entries of the leaves that stay do not change *)
LEMMA StillShown ==
  ASSUME IInv, IInv', Trailed, Rooted, Sweeping', Shrinks,
         NEW l \in LeavesKept', Slot(leaves, l)'.value = Slot(leaves, l).value
  PROVE  Shown(l)' = Shown(l)
<1>0. ForestOK'
  BY ForestIsOK, PTL
<1>1. NodeLeaf(l) \in Nested'
  <2>1. LeavesOK'
    BY <1>0, LeavesAre, PTL
  <2> QED BY <2>1 DEF LeavesOK, NodeLeaf
<1>2. TrailOf(NodeLeaf(l))' = TrailOf(NodeLeaf(l))
  BY <1>1, WaysStay DEF NodeLeaf
<1>3. Keyed'
  BY <1>0, WaysStay, RootsKeyed, PTL
<1>4. PICK r : r = TrailOf(NodeLeaf(l)).root
  OBVIOUS
<1>5. r \in Nested' /\ r = (TrailOf(NodeLeaf(l)).root)'
  <2>1. (TrailOf(NodeLeaf(l)).root)' \in Nested'
    BY <1>1, <1>3 DEF Keyed, NodeLeaf
  <2> QED BY <1>2, <1>4, <2>1
<1>6. KeyOf(r)' = KeyOf(r)
  BY <1>5, WaysStay
<1>7. KeyOf(TrailOf(NodeLeaf(l)).root)' = KeyOf(TrailOf(NodeLeaf(l)).root)
  BY <1>4, <1>5, <1>6 DEF KeyOf
<1> QED BY <1>2, <1>7 DEF Shown, EntryAt

-----------------------------------------------------------------------------
(* Steps that add a node where insert's next one hangs.                    *)

Grows(x) ==
  /\ x \in Int /\ x \notin Nested /\ Nested' = Nested \cup {x}
  /\ \A n \in Nested : ParentOf(n)' = ParentOf(n)
  /\ \A e \in DOMAIN edges : e \in DOMAIN edges' /\ edges'[e] = edges[e]
  /\ \A i \in LiveInner : i \in LiveInner' /\ Slot(inner, i)'.call = Slot(inner, i).call
  /\ LiveInner' \subseteq LiveInner \cup {x}
  /\ ParentOf(x)' = PredNode
  /\ pred # None => pred \in DOMAIN edges' /\ edges'[pred] = x
  /\ start' = IF pred = None THEN [start EXCEPT ![args.key] = x] ELSE start

(* What there was hangs where it did *)
LEMMA PartGrows ==
  ASSUME IInv, IInv', NEW x, Grows(x)
  PROVE  Part(Forest, Forest')
<1>0. ForestOK /\ ForestOK'
  BY ForestIsOK, PTL
<1>1. /\ Forest'.nodes = Nested' /\ Forest'.inner = LiveInner'
      /\ \A n \in Nested' : Forest'.up[n] = ParentOf(n)'
      /\ \A n \in Nested' : Forest'.label[n] =
           IF ParentOf(n)' = None THEN None ELSE Label(ParentOf(n), n)'
      /\ \A i \in LiveInner' : Forest'.ask[i] = Slot(inner, i)'.call
  BY DEF Forest
<1>2. ASSUME NEW n \in Nested, ParentOf(n) # None
      PROVE  Label(ParentOf(n), n)' = Label(ParentOf(n), n)
  <2>1. n \in Nested' /\ ParentOf(n)' = ParentOf(n)
    BY DEF Grows
  <2> DEFINE a == ParentOf(n)
             b == Label(ParentOf(n), n)
  <2>2. <<a, b>> \in DOMAIN edges /\ edges[<<a, b>>] = n
    BY <1>0, <1>2 DEF ForestOK, Labelled
  <2>3. <<a, b>> \in DOMAIN edges' /\ edges'[<<a, b>>] = n
    BY <2>2 DEF Grows
  <2>4. LiveNode(n)'
    BY <1>0, <2>1 DEF ForestOK
  <2>5. \A e \in DOMAIN edges' : LiveNode(edges[e])' =>
          ParentOf(edges[e])' = e[1] /\ Label(e[1], edges[e])' = e[2]
    BY <1>0 DEF ForestOK, Labelled
  <2> QED BY <2>3, <2>4, <2>5
<1>3. \A n \in Nested : n \in Nested' /\ ParentOf(n)' = ParentOf(n)
  BY DEF Grows
<1>4. \A i \in LiveInner : i \in LiveInner' /\ Slot(inner, i)'.call = Slot(inner, i).call
  BY DEF Grows
<1> QED BY <1>1, <1>2, <1>3, <1>4, ForestFields DEF Part

(* The way up from the new node is the one insert has made *)
LEMMA WaysGrow ==
  ASSUME IInv, IInv', Trailed, Rooted, pc = "append", NEW x, Grows(x),
         x \in LiveInner' => Slot(inner, x)'.call \notin CallsOf(Made)
  PROVE  /\ Trailed' /\ Rooted'
         /\ \A n \in Nested : TrailOf(n)' = TrailOf(n)
         /\ \A r \in Nested : KeyOf(r)' = KeyOf(r)
         /\ TrailOf(x)'.path = Made
         /\ TrailOf(x)'.root = IF pred = None THEN x ELSE TrailOf(pred[1]).root
<1>0. ForestOK /\ ForestOK'
  BY ForestIsOK, PTL
<1>g. /\ x \in Int /\ x \notin Nested /\ Nested' = Nested \cup {x}
      /\ \A n \in Nested : ParentOf(n)' = ParentOf(n)
      /\ ParentOf(x)' = PredNode
      /\ start' = IF pred = None THEN [start EXCEPT ![args.key] = x] ELSE start
  BY DEF Grows
<1>a. args.key \in Keys /\ start \in [Keys -> Int \cup {None}]
  BY DEF IInv, LoopOK, InsertArgs, TypeOK
<1>b. pred = None => start[args.key] = None
  BY DEF IInv, LoopOK
<1>c. pred # None => /\ pred[1] \in LiveInner /\ pred[1] \in Nested /\ pred[1] \in Nat
                     /\ pred[1] # None /\ pred = <<pred[1], pred[2]>>
                     /\ Slot(inner, pred[1]).call \in Calls
  <2> SUFFICES ASSUME pred # None
               PROVE  /\ pred[1] \in LiveInner /\ pred[1] \in Nested /\ pred[1] \in Nat
                      /\ pred[1] # None /\ pred = <<pred[1], pred[2]>>
                      /\ Slot(inner, pred[1]).call \in Calls
    OBVIOUS
  <2>1. pred \in Nat \X Rets
    BY DEF IInv, TypeOK
  <2>2. pred[1] \in Nat /\ pred = <<pred[1], pred[2]>>
    BY <2>1
  <2>3. SlabContains(inner, pred[1])
    BY DEF IInv, LoopOK
  <2>4. pred[1] \in LiveInner /\ Slot(inner, pred[1]) \in InnerNode
    BY <2>2, <2>3, InnerType DEF IInv
  <2>5. pred[1] # None
    BY <2>2, NoneAssumption
  <2> QED BY <1>0, <2>2, <2>4, <2>5 DEF ForestOK, InnerNode
<1>1. /\ HasTrails(Forest', Trails(Forest'))
      /\ \A n \in Nested : Trails(Forest')[n] = Trails(Forest)[n]
      /\ Trails(Forest')[x] = Above(Forest', x, Trails(Forest))
  <2> DEFINE f == Forest
             g == Forest'
             t == Trails(Forest)
  <2>1. IsForest(f) /\ IsForest(g) /\ Part(f, g) /\ HasTrails(f, t)
    BY <1>0, PartGrows, TrailedIs DEF ForestOK
  <2>2. g.nodes = f.nodes \cup {x} /\ x \notin f.nodes /\ f.nodes = Nested
    BY <1>g, ForestFields DEF Forest
  <2>3. g.up[x] # None => g.up[x] \in f.inner /\ Edge(g, x) \in Pairs
    <3> SUFFICES ASSUME g.up[x] # None PROVE g.up[x] \in f.inner /\ Edge(g, x) \in Pairs
      OBVIOUS
    <3>1. x \in Nested' /\ g.up[x] = ParentOf(x)'
      BY <1>g DEF Forest
    <3>2. pred # None /\ g.up[x] = pred[1]
      BY <1>g, <3>1 DEF PredNode
    <3>3. g.label[x] = Label(ParentOf(x), x)' /\ Label(ParentOf(x), x)' \in Rets
      <4>1. ParentOf(x)' # None
        BY <3>1
      <4>2. g.label[x] = Label(ParentOf(x), x)'
        BY <3>1, <4>1 DEF Forest
      <4>3. Label(ParentOf(x), x)' \in Rets
        BY <1>0, <3>1, <4>1 DEF ForestOK, Labelled
      <4> QED BY <4>2, <4>3
    <3>4. g.ask[pred[1]] = f.ask[pred[1]] /\ f.ask[pred[1]] \in Calls
      <4>1. pred[1] \in f.inner /\ f.ask[pred[1]] = Slot(inner, pred[1]).call
        BY <1>c, <3>2, ForestFields
      <4> QED BY <1>c, <2>1, <3>2, <4>1 DEF Part
    <3>5. g.up[x] \in f.inner
      BY <1>c, <3>2, ForestFields
    <3>6. Edge(g, x) = [call |-> g.ask[pred[1]], ret |-> g.label[x]]
      BY <3>2 DEF Edge
    <3> QED BY <3>3, <3>4, <3>5, <3>6 DEF Pairs
  <2> HIDE DEF f, g, t
  <2>4. /\ HasTrails(g, Trails(g))
        /\ \A n \in f.nodes : Trails(g)[n] = t[n]
        /\ Trails(g)[x] = Above(g, x, t)
    BY <2>1, <2>2, <2>3, GrownTrails
  <2> QED BY <2>2, <2>4 DEF g, t
<1>2. \A n \in Nested : TrailOf(n)' = TrailOf(n)
  BY <1>1 DEF TrailOf
<1>3. TrailOf(x)' = Above(Forest', x, Trails(Forest))
  BY <1>1 DEF TrailOf
<1>4. /\ TrailOf(x)'.path = Made
      /\ TrailOf(x)'.root = IF pred = None THEN x ELSE TrailOf(pred[1]).root
  <2>1. x \in Nested' /\ Forest'.up[x] = ParentOf(x)'
    BY <1>g DEF Forest
  <2>2. CASE pred = None
    <3>1. Forest'.up[x] = None
      BY <1>g, <2>1, <2>2 DEF PredNode
    <3>2. TrailOf(x)' = [root |-> x, path |-> <<>>]
      BY <1>3, <3>1 DEF Above
    <3> QED BY <2>2, <3>2 DEF Made
  <2>3. CASE pred # None
    <3>1. Forest'.up[x] = pred[1] /\ pred[1] # None /\ ParentOf(x)' = pred[1]
      BY <1>c, <1>g, <2>1, <2>3 DEF PredNode
    <3>2. Forest'.label[x] = Label(ParentOf(x), x)'
      BY <2>1, <3>1 DEF Forest
    <3> PICK p : p = pred
      OBVIOUS
    <3>3. Label(ParentOf(x), x)' = pred[2]
      <4>1. p \in DOMAIN edges' /\ edges'[p] = x
        BY <2>3 DEF Grows
      <4>2. LiveNode(x)'
        BY <1>0, <1>g, <2>1 DEF ForestOK
      <4>3. \A e \in DOMAIN edges' : LiveNode(edges[e])' =>
              ParentOf(edges[e])' = e[1] /\ Label(e[1], edges[e])' = e[2]
        BY <1>0 DEF ForestOK, Labelled
      <4>4. Label(p[1], x)' = p[2] /\ ParentOf(x)' = p[1]
        BY <4>1, <4>2, <4>3
      <4> QED BY <4>4
    <3>4. Forest'.ask[pred[1]] = Slot(inner, pred[1]).call
      <4>1. p[1] \in LiveInner' /\ Slot(inner, p[1])'.call = Slot(inner, p[1]).call
        BY <1>c, <2>3 DEF Grows
      <4>2. Forest'.ask[p[1]] = Slot(inner, p[1])'.call
        BY <4>1 DEF Forest
      <4> QED BY <4>1, <4>2
    <3>5. TrailOf(x)' = [root |-> TrailOf(pred[1]).root,
                         path |-> Append(TrailOf(pred[1]).path,
                                    [call |-> Slot(inner, pred[1]).call, ret |-> pred[2]])]
      BY <1>3, <3>1, <3>2, <3>3, <3>4 DEF Above, TrailOf
    <3> QED BY <2>3, <3>5 DEF Made
  <2> QED BY <2>2, <2>3
<1>5. Trailed'
  <2>1. ASSUME NEW i \in LiveInner' PROVE Slot(inner, i)'.call \notin CallsOf(TrailOf(i).path)'
    <3>1. CASE i = x
      <4>1. CallsOf(TrailOf(x).path)' = CallsOf(Made)
        BY <1>4 DEF CallsOf
      <4> QED BY <2>1, <3>1, <4>1
    <3>2. CASE i # x
      <4>1. i \in LiveInner /\ i \in Nested /\ Slot(inner, i)'.call = Slot(inner, i).call
        BY <1>0, <2>1, <3>2 DEF Grows, ForestOK
      <4>2. TrailOf(i)' = TrailOf(i)
        BY <1>2, <4>1
      <4> QED BY <4>1, <4>2, TrailedIs DEF CallsOf
    <3> QED BY <3>1, <3>2
  <2>2. \A n \in Nested' :
          /\ Trails(Forest')[n] = Above(Forest', n, Trails(Forest'))
          /\ Trails(Forest')[n].path \in Seq(Pairs)
    BY <1>1 DEF HasTrails, Forest
  <2> QED BY <2>1, <2>2 DEF Trailed, TrailOf
<1>6. \A k \in Keys : start'[k] = IF pred = None /\ k = args.key THEN x ELSE start[k]
  BY <1>a, <1>g
<1>7. \A k \in Keys : start[k] # None => start[k] \in Nested
  <2>1. \A k \in Keys : start[k] # None => LiveNode(start[k])
    BY DEF IInv, TreeOK, NothingDangles, Retaining
  <2> QED BY <1>0, <1>a, <2>1 DEF ForestOK
<1>8. Rooted'
  <2>1. ASSUME NEW j \in Keys, NEW k \in Keys, start'[j] # None, start'[j] = start'[k]
        PROVE  j = k
    BY <1>6, <1>7, <1>g, <2>1 DEF Rooted
  <2>2. ASSUME NEW n \in Nested', ParentOf(n)' = None PROVE \E k \in Keys : start'[k] = n
    <3>1. CASE n = x
      <4>1. pred = None
        BY <1>c, <1>g, <2>2, <3>1 DEF PredNode
      <4> QED BY <1>6, <1>a, <3>1, <4>1
    <3>2. CASE n # x
      <4>1. n \in Nested /\ ParentOf(n) = None
        BY <1>g, <2>2, <3>2
      <4>2. PICK k \in Keys : start[k] = n
        BY <4>1 DEF Rooted
      <4>3. n # None
        BY <1>0, <4>1, NoneAssumption DEF ForestOK
      <4>4. start'[k] = n
        BY <1>6, <1>b, <4>2, <4>3
      <4> QED BY <4>4
    <3> QED BY <3>1, <3>2
  <2> QED BY <2>1, <2>2 DEF Rooted
<1>9. ASSUME NEW r \in Nested PROVE KeyOf(r)' = KeyOf(r)
  <2>1. r # None /\ r # x
    BY <1>0, <1>g, NoneAssumption DEF ForestOK
  <2>2. \A k \in Keys : start'[k] = r <=> start[k] = r
    BY <1>6, <1>b, <2>1
  <2> QED BY <2>2 DEF KeyOf
<1> QED BY <1>2, <1>4, <1>5, <1>8, <1>9

(* The entries that there were are there still *)
LEMMA ShownOn ==
  ASSUME IInv, IInv', Trailed, Rooted, Sweeping, pc = "append", NEW x, Grows(x),
         x \in LiveInner' => Slot(inner, x)'.call \notin CallsOf(Made),
         NEW l \in LeavesKept, Slot(leaves, l)'.value = Slot(leaves, l).value
  PROVE  Shown(l)' = Shown(l)
<1>0. ForestOK
  BY ForestIsOK
<1>1. NodeLeaf(l) \in Nested
  BY <1>0, LeavesAre DEF LeavesOK
<1>2. TrailOf(NodeLeaf(l))' = TrailOf(NodeLeaf(l))
  BY <1>1, WaysGrow DEF NodeLeaf
<1>3. Keyed
  BY <1>0, RootsKeyed
<1>4. PICK r : r = TrailOf(NodeLeaf(l)).root
  OBVIOUS
<1>5. r \in Nested /\ r = (TrailOf(NodeLeaf(l)).root)'
  BY <1>1, <1>2, <1>3, <1>4 DEF Keyed
<1>6. KeyOf(r)' = KeyOf(r)
  BY <1>5, WaysGrow
<1>7. KeyOf(TrailOf(NodeLeaf(l)).root)' = KeyOf(TrailOf(NodeLeaf(l)).root)
  BY <1>4, <1>5, <1>6 DEF KeyOf
<1> QED BY <1>2, <1>7 DEF Shown, EntryAt

-----------------------------------------------------------------------------
(* Steps that leave the tree alone.                                        *)

(* The operators that DecisionTree is written with are those of the tree *)
LEMMA SameOperators ==
  /\ \A E, k, s : Abstract!AlreadyThere(E, k, s) <=> AlreadyThere(E, k, s)
  /\ \A E, k, s : Abstract!LacksCall(E, k, s) <=> LacksCall(E, k, s)
  /\ \A E, k, s : Abstract!NewPath(E, k, s) = NewPath(E, k, s)
  /\ \A E, k, o : Abstract!Matching(E, k, o) = Matching(E, k, o)
  /\ Abstract!CallSequences = CallSequences
<1>1. /\ \A s : Abstract!Range(s) = Range(s)
      /\ \A E, k : Abstract!OfKey(E, k) = OfKey(E, k)
      /\ \A p, n : Abstract!Prefix(p, n) = Prefix(p, n)
  BY DEF Abstract!Range, Range, Abstract!OfKey, OfKey, Abstract!Prefix, Prefix
<1>2. /\ \A p, s : Abstract!Follows(p, s) <=> Follows(p, s)
      /\ \A s : Abstract!CallsOf(s) = CallsOf(s)
  BY <1>1 DEF Abstract!Follows, Follows, Abstract!CallsOf, CallsOf
<1>3. /\ \A E, k : Abstract!Nodes(E, k) = Nodes(E, k)
      /\ \A E, k : Abstract!Questions(E, k) = Questions(E, k)
  BY <1>1 DEF Abstract!Nodes, Nodes, Abstract!Questions, Questions
<1>4. \A E, k, s : Abstract!Reached(E, k, s) = Reached(E, k, s)
  BY <1>2, <1>3 DEF Abstract!Reached, Reached
<1>5. \A E, k, s : Abstract!Divergences(E, k, s) = Divergences(E, k, s)
  BY <1>1, <1>3, <1>4 DEF Abstract!Divergences, Divergences
<1>6. \A s, set : Abstract!Without(s, set) = Without(s, set)
  BY DEF Abstract!Without, Without
<1>7. \A E, k, s : Abstract!AlreadyThere(E, k, s) <=> AlreadyThere(E, k, s)
  BY <1>1, <1>2 DEF Abstract!AlreadyThere, AlreadyThere
<1>8. \A E, k, s : Abstract!LacksCall(E, k, s) <=> LacksCall(E, k, s)
  BY <1>2, <1>4 DEF Abstract!LacksCall, LacksCall
<1>9. \A E, k, s : Abstract!NewPath(E, k, s) = NewPath(E, k, s)
  <2> TAKE E, k, s
  <2> DEFINE there == Abstract!Divergences(E, k, s)
             u == CHOOSE p \in there : TRUE
  <2>1. Abstract!NewPath(E, k, s)
          = IF Abstract!OfKey(E, k) = {} THEN s ELSE u \o Abstract!Without(s, Abstract!Range(u))
    BY DEF Abstract!NewPath
  <2>2. NewPath(E, k, s)
          = IF OfKey(E, k) = {} THEN s
            ELSE (CHOOSE p \in Divergences(E, k, s) : TRUE) \o
                   Without(s, Range(CHOOSE p \in Divergences(E, k, s) : TRUE))
    BY DEF NewPath
  <2>3. there = Divergences(E, k, s)
    BY <1>5
  <2>4. u = CHOOSE p \in Divergences(E, k, s) : TRUE
    BY <2>3
  <2> HIDE DEF u
  <2> QED BY <1>1, <1>6, <2>1, <2>2, <2>4
<1>10. \A E, k, o : Abstract!Matching(E, k, o) = Matching(E, k, o)
  BY <1>1 DEF Abstract!Matching, Matching, Abstract!Matches, Matches
<1>11. Abstract!CallSequences = CallSequences
  BY DEF Abstract!CallSequences, CallSequences, Abstract!Pairs, Pairs
<1> QED BY <1>7, <1>8, <1>9, <1>10, <1>11

(* A node of the tree as it was is one of the tree as it is, unless retain *)
(* has just dropped it                                                     *)
LEMMA TreeStays ==
  ASSUME IInv, IInv', UNCHANGED treeVars,
         pc = "unlink" => pc' = "unlink" /\ idx' = idx
  PROVE  Shrinks /\ \A n \in Nested' : LiveNode(n)
<1>0. ForestOK /\ ForestOK'
  BY ForestIsOK, PTL
<1>1. ASSUME NEW n \in Int, LiveNode(n)' PROVE LiveNode(n)
  <2>1. ExistsNode(n)
    BY <1>1 DEF LiveNode, ExistsNode, treeVars
  <2>2. ~Unlinking(n)
    BY <1>1 DEF LiveNode, Unlinking
  <2> QED BY <2>1, <2>2 DEF LiveNode
<1>2. \A n \in Nested' : n \in Nested /\ LiveNode(n)
  BY <1>0, <1>1 DEF ForestOK
<1>3. \A n : ParentOf(n)' = ParentOf(n)
  BY DEF ParentOf, treeVars
<1>4. LiveInner' = LiveInner /\ \A i : Slot(inner, i)' = Slot(inner, i)
  BY DEF LiveInner, treeVars
<1> QED BY <1>2, <1>3, <1>4 DEF Shrinks, treeVars

(* Between the steps of insert and get nothing happens to the entries *)
LEMMA SameEntries ==
  ASSUME RInv, IInv', UNCHANGED treeVars, ~Retaining, ~Retaining', idx' = 0
  PROVE  /\ Entries' = Entries /\ Nested' = Nested
         /\ \A n \in Nested : TrailOf(n)' = TrailOf(n)
         /\ Trailed' /\ Rooted' /\ Sweeping'
<1>0. IInv /\ Trailed /\ Rooted /\ Sweeping /\ ForestOK /\ ForestOK'
  BY ForestIsOK, PTL DEF RInv
<1>1. Shrinks
  BY <1>0, TreeStays DEF Retaining
<1>2. Sweeping'
  BY DEF Sweeping, Retaining
<1>3. Nested' = Nested
  BY DEF Nested, NodeNames, LiveNode, Unlinking, ExistsNode, Retaining, treeVars
<1>4. /\ Trailed' /\ Rooted'
      /\ \A n \in Nested : TrailOf(n)' = TrailOf(n)
  BY <1>0, <1>1, <1>3, WaysStay
<1>5. LeavesKept' = LeavesKept
  BY DEF LeavesKept, treeVars
<1>6. \A l \in LeavesKept' : Shown(l)' = Shown(l)
  BY <1>0, <1>1, <1>2, StillShown DEF treeVars
<1>7. Entries' = {Shown(l)' : l \in LeavesKept'}
  BY EntriesAre DEF Shown
<1>8. Entries' = Entries
  BY <1>5, <1>6, <1>7, EntriesShown
<1> QED BY <1>2, <1>3, <1>4, <1>8

(* What IInv is part of *)
LEMMA RParts ==
  ASSUME RInv
  PROVE  /\ IInv /\ Trailed /\ Rooted /\ Sweeping /\ Walking /\ Getting /\ Appending
         /\ ForestOK /\ Keyed /\ LeavesOK
<1>1. IInv /\ Trailed /\ Rooted /\ Sweeping /\ Walking /\ Getting /\ Appending
  BY DEF RInv
<1>2. ForestOK
  BY <1>1, ForestIsOK
<1> QED BY <1>1, <1>2, RootsKeyed, LeavesAre

(* A sequence that insert gets *)
LEMMA SequenceParts ==
  ASSUME NEW s \in CallSequences
  PROVE  /\ s \in Seq(Pairs) /\ s \in Seq(Range(s)) /\ IsPairs(s)
         /\ Len(s) \in Nat /\ DOMAIN s = 1 .. Len(s) /\ Range(s) \subseteq Pairs
         /\ Answered(Range(s))
         /\ \A i, j \in DOMAIN s : s[i].call = s[j].call => i = j
<1>1. PICK n \in 0 .. MaxCalls : s \in [1 .. n -> Pairs]
  BY DEF CallSequences
<1>2. n \in Nat
  BY BoundsAssumption
<1>3. s \in Seq(Pairs)
  BY <1>1, <1>2
<1>4. \A i, j \in DOMAIN s : s[i].call = s[j].call => i = j
  BY DEF CallSequences
<1>5. Answered(Range(s))
  <2> SUFFICES ASSUME NEW p \in Range(s), NEW q \in Range(s), p.call = q.call PROVE p = q
    BY DEF Answered
  <2>1. PICK i \in DOMAIN s : s[i] = p
    BY DEF Range
  <2>2. PICK j \in DOMAIN s : s[j] = q
    BY DEF Range
  <2> QED BY <1>4, <2>1, <2>2
<1> QED BY <1>3, <1>4, <1>5, PairsSeq

(* The entries and the call they are due to *)
LEMMA Stutters ==
  ASSUME Entries' = Entries, Call' = Call
  PROVE  [Abstract!Next]_(Abstract!tvars)
BY DEF Abstract!tvars

(* insert starts at the root of its key *)
LEMMA InsertCallRefines ==
  ASSUME RInv, NEW k \in Keys, NEW s \in CallSequences, NEW v \in Values, InsertCall(k, s, v)
  PROVE  RInv' /\ [Abstract!Next]_(Abstract!tvars)
<1>0. IInv /\ Trailed /\ Rooted /\ Sweeping /\ Walking /\ ForestOK /\ Keyed
  BY RParts
<1>1. /\ pc = "idle" /\ UNCHANGED treeVars /\ UNCHANGED <<taken, pred, idx, result>>
      /\ args'.key = k /\ args'.seq = s
      /\ cursor' = start[k]
      /\ pc' = IF start[k] = None THEN "append" ELSE "walk"
  BY DEF InsertCall
<1>2. IInv'
  BY <1>0, InsertCallKeeps
<1>3. ~Retaining /\ ~Retaining' /\ idx' = 0 /\ taken' = {} /\ pred' = None
  BY <1>0, <1>1 DEF Retaining, Sweeping, Walking, IInv, LoopOK
<1>4. /\ Entries' = Entries /\ Nested' = Nested
      /\ \A n \in Nested : TrailOf(n)' = TrailOf(n)
      /\ Trailed' /\ Rooted' /\ Sweeping'
  BY <1>1, <1>2, <1>3, SameEntries
<1>5. Getting'
  BY <1>1 DEF Getting
<1>6. Walking' /\ Appending'
  <2>1. CASE start[k] = None
    <3>1. Walking'
      BY <1>1, <1>3, <2>1 DEF Walking
    <3>2. OfKey(Entries, k) = {}
      BY <1>0, <1>3, <2>1, NoEntries
    <3>3. ~AlreadyThere(Entries', k, s) /\ ~LacksCall(Entries', k, s)
      BY <1>4, <3>2 DEF AlreadyThere, LacksCall, Reached, Questions
    <3>4. Shared' = <<>> /\ Made' = <<>>
      BY <1>1, <1>3, <1>4, <3>2 DEF Shared, Made
    <3>5. Range(<<>>) = {}
      BY DEF Range
    <3>6. Pending' = DOMAIN s
      BY <1>1, <1>3 DEF Pending
    <3>7. Without(s, Range(<<>>) \cup {s[i] : i \in DOMAIN s}) = <<>>
      <4>1. Range(s) \subseteq Range(<<>>) \cup {s[i] : i \in DOMAIN s}
        BY DEF Range
      <4> QED BY <4>1, WithoutExtremes, SequenceParts
    <3>8. <<>> = <<>> \o <<>>
      OBVIOUS
    <3>9. start'[k] = None /\ OfKey(Entries', k) = {} /\ <<>> \in Seq(Pairs)
      BY <1>1, <1>4, <2>1, <3>2 DEF treeVars
    <3> QED BY <1>1, <1>3, <3>1, <3>3, <3>4, <3>5, <3>6, <3>7, <3>8, <3>9 DEF Appending
  <2>2. CASE start[k] # None
    <3>1. Appending'
      BY <1>1, <2>2 DEF Appending
    <3>2. LiveNode(start[k]) /\ ParentOf(start[k]) = None
      BY <1>0, <1>3, <2>2 DEF IInv, TreeOK, NothingDangles, RootsHaveNoParent
    <3>3. start[k] \in Nested
      BY <1>0, <2>2, <3>2 DEF ForestOK, IInv, TypeOK
    <3>4. TrailOf(start[k]) = [root |-> start[k], path |-> <<>>]
      <4>1. TrailOf(start[k]) = Above(Forest, start[k], Trails(Forest))
        BY <1>0, <3>3, TrailedIs, ForestFields DEF HasTrails, TrailOf
      <4>2. Forest.up[start[k]] = None
        BY <3>2, <3>3, ForestFields
      <4> QED BY <4>1, <4>2 DEF Above
    <3>5. PICK c : c = start[k]
      OBVIOUS
    <3>6. TrailOf(c)' = [root |-> c, path |-> <<>>] /\ cursor' = c /\ start'[k] = c
      BY <1>1, <1>4, <3>3, <3>4, <3>5 DEF treeVars
    <3>7. Range(<<>>) = {}
      BY DEF Range
    <3>8. Walking'
      <4>1. TrailOf(cursor)' = [root |-> c, path |-> <<>>]
        BY <3>6 DEF TrailOf
      <4> QED BY <1>1, <1>3, <3>6, <3>7, <4>1 DEF Walking, Follows
    <3> QED BY <3>1, <3>8
  <2> QED BY <2>1, <2>2
<1>7. Call' = Call
  BY <1>1 DEF Call, Retaining
<1> QED BY <1>2, <1>4, <1>5, <1>6, <1>7, Stutters DEF RInv

(* Giving up a walk, or ending it, changes no entry *)
LEMMA FinishRefines ==
  ASSUME RInv, pc \in {"walk", "get"}, NEW r, Finish(r), UNCHANGED treeVars
  PROVE  /\ RInv' /\ Entries' = Entries
         /\ Call = None /\ Call' = [args |-> args, result |-> r]
<1>0. IInv
  BY RParts
<1>1. IInv'
  BY <1>0, FinishKeeps
<1>2. /\ pc' = "done" /\ result' = r /\ taken' = {} /\ idx' = 0 /\ args' = args
  BY DEF Finish
<1>3. ~Retaining /\ ~Retaining'
  BY <1>2 DEF Retaining
<1>4. Entries' = Entries /\ Trailed' /\ Rooted' /\ Sweeping'
  BY <1>1, <1>2, <1>3, SameEntries
<1>5. Walking' /\ Getting' /\ Appending'
  BY <1>2 DEF Walking, Getting, Appending
<1> QED BY <1>1, <1>2, <1>3, <1>4, <1>5 DEF RInv, Call, Retaining

(* The arguments insert runs with *)
LEMMA InsertArguments ==
  ASSUME IInv, pc \in {"walk", "append"}
  PROVE  /\ args.key \in Keys /\ args.seq \in CallSequences /\ args.value \in Values
         /\ args = [op |-> "insert", key |-> args.key, seq |-> args.seq, value |-> args.value]
BY DEF IInv, LoopOK, InsertArgs

(* A walk that ends at a leaf has found an entry it agrees with *)
LEMMA WalkAlreadyExistsRefines ==
  ASSUME RInv, WalkAlreadyExists
  PROVE  RInv' /\ [Abstract!Next]_(Abstract!tvars)
<1>0. IInv /\ Trailed /\ Rooted /\ Sweeping /\ Walking /\ ForestOK /\ Keyed /\ LeavesOK
  BY RParts
<1>1. pc = "walk" /\ IsLeaf(cursor) /\ Finish("AlreadyExists") /\ UNCHANGED treeVars
  BY DEF WalkAlreadyExists
<1>2. /\ RInv' /\ Entries' = Entries
      /\ Call = None /\ Call' = [args |-> args, result |-> "AlreadyExists"]
  BY <1>1, FinishRefines
<1>3. /\ args.key \in Keys /\ args.seq \in CallSequences /\ args.value \in Values
      /\ args = [op |-> "insert", key |-> args.key, seq |-> args.seq, value |-> args.value]
  BY <1>0, <1>1, InsertArguments
<1>4. cursor \in Nested \ LiveInner
  BY <1>0, <1>1 DEF ForestOK, IInv, LoopOK, TypeOK
<1>5. cursor = NodeLeaf(LeafId(cursor)) /\ LeafId(cursor) \in LeavesKept
  BY <1>0, <1>1, <1>4 DEF LeavesOK, Retaining
<1>6. TrailOf(cursor).root = start[args.key] /\ Follows(TrailOf(cursor).path, args.seq)
  BY <1>0, <1>1 DEF Walking
<1>7. EntryAt(LeafId(cursor), TrailOf(cursor)) \in OfKey(Entries, args.key)
  BY <1>0, <1>3, <1>5, <1>6, EntriesOfKey
<1>8. AlreadyThere(Entries, args.key, args.seq)
  BY <1>6, <1>7, EntryFields DEF AlreadyThere
<1>9. Abstract!Insert(args.key, args.seq, args.value)
  BY <1>2, <1>3, <1>8, SameOperators DEF Abstract!Insert, Abstract!Done
<1> QED BY <1>2, <1>3, <1>9, SameOperators DEF Abstract!Next

(* A walk that ends at a question has found one it has no answer to *)
LEMMA WalkMissingCallRefines ==
  ASSUME RInv, WalkMissingCall
  PROVE  RInv' /\ [Abstract!Next]_(Abstract!tvars)
<1>0. IInv /\ Trailed /\ Rooted /\ Sweeping /\ Walking /\ ForestOK /\ Keyed /\ LeavesOK
  BY RParts
<1>1. /\ pc = "walk" /\ ~IsLeaf(cursor) /\ Finish("MissingCall") /\ UNCHANGED treeVars
      /\ SlabContains(inner, cursor) => Extractable(Slot(inner, cursor).call) = {}
  BY DEF WalkMissingCall
<1>2. /\ RInv' /\ Entries' = Entries
      /\ Call = None /\ Call' = [args |-> args, result |-> "MissingCall"]
  BY <1>1, FinishRefines
<1>3. /\ args.key \in Keys /\ args.seq \in CallSequences /\ args.value \in Values
      /\ args = [op |-> "insert", key |-> args.key, seq |-> args.seq, value |-> args.value]
  BY <1>0, <1>1, InsertArguments
<1>4. cursor \in LiveInner /\ cursor \in Nested
  BY <1>0, <1>1 DEF ForestOK, IInv, LoopOK, TypeOK
<1>5. SlabContains(inner, cursor)
  BY <1>4 DEF LiveInner
<1> DEFINE at == TrailOf(cursor)
           c == Slot(inner, cursor).call
<1>6. at.root = start[args.key] /\ Follows(at.path, args.seq)
      /\ taken = {i \in DOMAIN args.seq : args.seq[i] \in Range(at.path)}
  BY <1>0, <1>1 DEF Walking
<1>7. [at |-> at.path, call |-> c] \in Questions(Entries, args.key)
  <2>1. Shows(Entries, args.key, Forest, Trails(Forest), start[args.key])
    BY <1>0, <1>1, <1>3, EntriesShow DEF Retaining
  <2>2. Full(Forest) /\ IsFiniteSet(Forest.nodes) /\ IsForest(Forest)
        /\ HasTrails(Forest, Trails(Forest))
    BY <1>0, <1>1, TreeFull, TrailedIs DEF ForestOK
  <2>3. \A a \in Forest.inner : Trails(Forest)[a].root = start[args.key] =>
          [at |-> Trails(Forest)[a].path, call |-> Forest.ask[a]] \in Questions(Entries, args.key)
    BY <2>1, <2>2, QuestionsAre
  <2> QED BY <1>4, <1>6, <2>3, ForestFields DEF TrailOf
<1>8. c \notin CallsOf(args.seq)
  <2> SUFFICES ASSUME NEW q \in Range(args.seq), q.call = c PROVE FALSE
    BY DEF CallsOf
  <2>1. PICK i \in DOMAIN args.seq : args.seq[i] = q
    BY DEF Range
  <2>2. i \in taken
    BY <1>1, <1>5, <2>1 DEF Extractable
  <2>3. q \in Range(at.path)
    BY <1>6, <2>1, <2>2
  <2>4. c \in CallsOf(at.path)
    BY <2>3 DEF CallsOf
  <2> QED BY <1>0, <1>4, <2>4, TrailedIs
<1>9. LacksCall(Entries, args.key, args.seq)
  <2> DEFINE x == [at |-> at.path, call |-> c]
  <2>1. x \in Reached(Entries, args.key, args.seq)
    BY <1>6, <1>7 DEF Reached
  <2>2. x.call \notin CallsOf(args.seq)
    BY <1>8
  <2> QED BY <2>1, <2>2 DEF LacksCall
<1>10. Abstract!Insert(args.key, args.seq, args.value)
  BY <1>2, <1>3, <1>9, SameOperators DEF Abstract!Insert, Abstract!Done
<1> QED BY <1>2, <1>3, <1>10, SameOperators DEF Abstract!Next

(* The step to a child, as the forest has it *)
LEMMA StepDown ==
  ASSUME RInv, pc \in {"walk", "get"}, NEW a \in LiveInner, NEW ret,
         <<a, ret>> \in DOMAIN edges
  PROVE  LET c == edges[<<a, ret>>] IN
           /\ c \in Nested
           /\ TrailOf(c).root = TrailOf(a).root
           /\ TrailOf(c).path = Append(TrailOf(a).path, [call |-> Slot(inner, a).call, ret |-> ret])
           /\ TrailOf(c).path \in Seq(Pairs)
           /\ Range(TrailOf(c).path) = Range(TrailOf(a).path) \cup {[call |-> Slot(inner, a).call, ret |-> ret]}
<1> DEFINE e == <<a, ret>>
           c == edges[e]
<1>0. IInv /\ Trailed /\ ForestOK
  BY RParts
<1>1. LiveNode(c)
  BY <1>0 DEF IInv, TreeOK, NothingDangles, Retaining
<1>2. c \in Nested /\ ParentOf(c) = e[1] /\ Label(e[1], c) = e[2]
  BY <1>0, <1>1 DEF ForestOK, Labelled
<1>3. ParentOf(c) = a /\ Label(a, c) = ret /\ a # None /\ a \in Nested
  BY <1>0, <1>2, NoneAssumption DEF ForestOK
<1> HIDE DEF c
<1>4. /\ Forest.up[c] = a /\ Forest.label[c] = ret /\ Forest.ask[a] = Slot(inner, a).call
      /\ c \in Forest.nodes /\ a \in Forest.nodes
  BY <1>2, <1>3, ForestFields
<1>5. HasTrails(Forest, Trails(Forest)) /\ IsForest(Forest)
  BY <1>0, TrailedIs DEF ForestOK
<1>6. /\ Trails(Forest)[c].root = Trails(Forest)[a].root
      /\ Trails(Forest)[c].path = Append(Trails(Forest)[a].path, Edge(Forest, c))
  BY <1>3, <1>4, <1>5, OneUp
<1>7. Edge(Forest, c) = [call |-> Slot(inner, a).call, ret |-> ret]
  BY <1>4 DEF Edge
<1>8. Trails(Forest)[c].path \in Seq(Pairs) /\ Trails(Forest)[a].path \in Seq(Range(Trails(Forest)[a].path))
  BY <1>4, <1>5, PairsSeq DEF HasTrails
<1>9. Range(Trails(Forest)[c].path) = Range(Trails(Forest)[a].path) \cup {Edge(Forest, c)}
  BY <1>6, <1>8, Appended
<1> QED BY <1>2, <1>6, <1>7, <1>8, <1>9 DEF TrailOf, c

(* Where there is no edge for an answer, no child has it *)
LEMMA NoStepDown ==
  ASSUME RInv, NEW a \in LiveInner, NEW q, q.call = Slot(inner, a).call,
         <<a, q.ret>> \notin DOMAIN edges
  PROVE  NoWayOn(Forest, a, q)
<1>0. ForestOK
  BY RParts
<1>1. ASSUME NEW c \in Nested, ParentOf(c) = a PROVE Edge(Forest, c) # q
  <2>1. a # None
    BY <1>0, NoneAssumption DEF ForestOK
  <2>2. <<a, Label(a, c)>> \in DOMAIN edges
    BY <1>0, <1>1, <2>1 DEF ForestOK, Labelled
  <2>3. Edge(Forest, c).ret = Label(a, c)
    BY <1>1, <2>1, ForestFields DEF Edge
  <2> QED BY <2>2, <2>3
<1>2. a \in Forest.inner /\ Forest.ask[a] = Slot(inner, a).call
  BY ForestFields
<1>3. \A c \in Forest.nodes : Forest.up[c] = a => Edge(Forest, c) # q
  BY <1>1, ForestFields
<1> QED BY <1>2, <1>3 DEF NoWayOn

(* The walk goes on along an edge; where there is none the new path starts *)
LEMMA WalkExtractRefines ==
  ASSUME RInv, WalkExtract
  PROVE  RInv' /\ [Abstract!Next]_(Abstract!tvars)
<1>0. /\ IInv /\ Trailed /\ Rooted /\ Sweeping /\ Walking /\ ForestOK /\ Keyed
  BY RParts
<1>1. PICK a : a = cursor
  OBVIOUS
<1>2. PICK c : c = Slot(inner, a).call
  OBVIOUS
<1>3. /\ pc = "walk" /\ ~IsLeaf(a) /\ SlabContains(inner, a)
      /\ UNCHANGED <<treeVars, args, idx, result>>
  BY <1>1 DEF WalkExtract
<1>4. PICK i \in Extractable(c) :
        LET pair == <<a, args.seq[i].ret>> IN
        /\ taken' = taken \cup {i}
        /\ IF pair \in DOMAIN edges
             THEN cursor' = edges[pair] /\ UNCHANGED <<pc, pred>>
             ELSE pred' = pair /\ pc' = "append" /\ UNCHANGED cursor
  BY <1>1, <1>2 DEF WalkExtract
<1>5. IInv'
  BY <1>0, WalkExtractKeeps
<1>6. ~Retaining /\ ~Retaining' /\ idx' = 0
  BY <1>0, <1>3, <1>4 DEF Retaining, Sweeping
<1>7. /\ Entries' = Entries /\ Nested' = Nested
      /\ \A n \in Nested : TrailOf(n)' = TrailOf(n)
      /\ Trailed' /\ Rooted' /\ Sweeping'
  BY <1>3, <1>5, <1>6, SameEntries
<1>8. PICK s, k : s = args.seq /\ k = args.key
  OBVIOUS
<1>9. k \in Keys /\ s \in CallSequences /\ args'.seq = s /\ args'.key = k
  BY <1>0, <1>3, <1>8, InsertArguments
<1>10. /\ s \in Seq(Range(s)) /\ DOMAIN s = 1 .. Len(s) /\ Range(s) \subseteq Pairs
       /\ Answered(Range(s)) /\ \A h, j \in DOMAIN s : s[h].call = s[j].call => h = j
  BY <1>9, SequenceParts
<1>11. i \in DOMAIN s /\ i \notin taken /\ s[i].call = c
  BY <1>4, <1>8 DEF Extractable
<1>12. PICK q : q = s[i]
  OBVIOUS
<1>13. q \in Range(s) /\ q.call = c /\ q = [call |-> c, ret |-> q.ret]
  BY <1>10, <1>11, <1>12 DEF Range, Pairs
<1>14. PICK at : at = TrailOf(a)
  OBVIOUS
<1>15. a \in LiveInner /\ a \in Nested
  BY <1>0, <1>1, <1>3 DEF ForestOK, IInv, LoopOK, TypeOK
<1>16. /\ at.root = start[k] /\ Range(at.path) \subseteq Range(s)
       /\ taken = {j \in DOMAIN s : s[j] \in Range(at.path)}
  BY <1>0, <1>1, <1>3, <1>8, <1>14 DEF Walking, Follows
<1>17. taken' = {j \in DOMAIN s : s[j] \in Range(at.path) \cup {q}}
  BY <1>4, <1>10, <1>11, <1>12, <1>16
<1>18. TrailOf(a)' = at
  BY <1>7, <1>14, <1>15
<1>19. Getting'
  BY <1>3, <1>4 DEF Getting
<1>20. Walking' /\ Appending'
  <2>1. CASE <<a, q.ret>> \in DOMAIN edges
    <3>1. PICK d : d = edges[<<a, q.ret>>]
      OBVIOUS
    <3>2. pc' = "walk" /\ cursor' = d
      BY <1>3, <1>4, <1>8, <1>12, <2>1, <3>1
    <3>3. /\ d \in Nested /\ TrailOf(d).root = start[k]
          /\ Range(TrailOf(d).path) = Range(at.path) \cup {q}
      <4>1. LET e == edges[<<a, q.ret>>] IN
              /\ e \in Nested /\ TrailOf(e).root = TrailOf(a).root
              /\ Range(TrailOf(e).path)
                   = Range(TrailOf(a).path) \cup {[call |-> Slot(inner, a).call, ret |-> q.ret]}
        BY <1>3, <1>15, <2>1, StepDown
      <4>2. [call |-> Slot(inner, a).call, ret |-> q.ret] = q
        BY <1>2, <1>13
      <4> QED BY <1>14, <1>16, <3>1, <4>1, <4>2
    <3>4. TrailOf(cursor)' = TrailOf(d)
      <4>1. TrailOf(d)' = TrailOf(d)
        BY <1>7, <3>3
      <4> QED BY <3>2, <4>1 DEF TrailOf
    <3>5. Range(at.path) \cup {q} \subseteq Range(s)
      BY <1>13, <1>16
    <3>6. start' = start
      BY <1>3 DEF treeVars
    <3>7. Walking'
      BY <1>9, <1>17, <3>2, <3>3, <3>4, <3>5, <3>6 DEF Walking, Follows
    <3> QED BY <3>2, <3>7 DEF Appending
  <2>2. CASE <<a, q.ret>> \notin DOMAIN edges
    <3> DEFINE p == Append(at.path, q)
    <3>1. pc' = "append" /\ pred' = <<a, q.ret>>
      BY <1>4, <1>8, <1>12, <2>2
    <3>2. Walking'
      BY <3>1 DEF Walking
    <3>3. NoWayOn(Forest, a, q)
      BY <1>2, <1>13, <1>15, <2>2, NoStepDown
    <3>4. /\ OfKey(Entries, k) # {}
          /\ ~AlreadyThere(Entries, k, s) /\ ~LacksCall(Entries, k, s)
          /\ Divergences(Entries, k, s) = {p}
      <4>1. Shows(Entries, k, Forest, Trails(Forest), start[k])
        BY <1>0, <1>6, <1>9, EntriesShow
      <4>2. Full(Forest) /\ IsFiniteSet(Forest.nodes) /\ IsForest(Forest)
            /\ HasTrails(Forest, Trails(Forest))
        BY <1>0, <1>3, TreeFull, TrailedIs DEF ForestOK
      <4>3. Trails(Forest)[a] = at
        BY <1>14 DEF TrailOf
      <4>4. PICK t : t = Trails(Forest)
        OBVIOUS
      <4>5. PICK r : r = start[k]
        OBVIOUS
      <4> QED BY <1>10, <1>13, <1>16, <3>3, <4>1, <4>2, <4>3, <4>4, <4>5, WalkStops
    <3>5. at.path \in Seq(Range(at.path)) /\ at.path \in Seq(Pairs)
      <4>1. HasTrails(Forest, Trails(Forest)) /\ a \in Forest.nodes
        BY <1>0, <1>15, TrailedIs, ForestFields
      <4> QED BY <1>14, <4>1, PairsSeq DEF HasTrails, TrailOf
    <3>6. Range(p) = Range(at.path) \cup {q} /\ p \in Seq(Range(p)) /\ p \in Seq(Pairs)
      BY <1>10, <1>13, <3>5, Appended
    <3> HIDE DEF p
    <3>7. Shared' = p
      <4>1. OfKey(Entries', k) # {} /\ Divergences(Entries', k, s) = {p}
        BY <1>7, <3>4
      <4>2. Shared' = CHOOSE x \in Divergences(Entries', k, s) : TRUE
        BY <1>9, <4>1 DEF Shared
      <4> QED BY <4>1, <4>2
    <3>8. pred' # None /\ pred'[1] = a /\ pred'[2] = q.ret
      <4>1. <<a, q.ret>> \in Nat \X Rets
        <5>1. q \in Pairs /\ a \in Nat
          BY <1>3, <1>10, <1>13 DEF SlabContains
        <5> QED BY <5>1 DEF Pairs
      <4> QED BY <3>1, <4>1, NoneAssumption
    <3>9. Slot(inner, a)' = Slot(inner, a)
      BY <1>3 DEF treeVars, Slot
    <3>10. Made' = p
      <4>1. TrailOf(pred[1])' = at
        BY <1>18, <3>8 DEF TrailOf
      <4>2. Slot(inner, pred[1])'.call = c
        BY <1>2, <3>8, <3>9 DEF Slot
      <4>3. Made' = Append(at.path, [call |-> c, ret |-> q.ret])
        BY <3>8, <4>1, <4>2 DEF Made
      <4> QED BY <1>13, <4>3 DEF p
    <3>11. Pending' = {j \in DOMAIN s : s[j] \notin Range(p)}
      BY <1>9, <1>17, <3>6 DEF Pending
    <3>12. Range(p) \subseteq Range(s)
      BY <1>13, <1>16, <3>6
    <3>13. p = p \o Without(s, Range(p) \cup {s[j] : j \in Pending'})
      <4>1. Range(s) \subseteq Range(p) \cup {s[j] : j \in Pending'}
        BY <3>11 DEF Range
      <4>2. Without(s, Range(p) \cup {s[j] : j \in Pending'}) = <<>>
        BY <1>10, <4>1, WithoutExtremes
      <4>3. p \o <<>> = p
        BY <3>6
      <4> QED BY <4>2, <4>3
    <3>14. start[k] # None /\ start' = start
      BY <1>0, <1>3, <1>14, <1>15, <1>16, NoneAssumption DEF Keyed, ForestOK, treeVars
    <3>15. TrailOf(pred[1])'.root = start[k]
      BY <1>16, <1>18, <3>8 DEF TrailOf
    <3>16. \A h \in Pending', j \in DOMAIN s :
             /\ s[h] \notin Range(p)
             /\ j > h => j \in Pending' \/ s[j] \in Range(p)
      BY <3>11
    <3>17. ~AlreadyThere(Entries', k, s) /\ ~LacksCall(Entries', k, s)
      BY <1>7, <3>4
    <3>18. Appending'
      <4>1. Shared' \in Seq(Pairs) /\ Range(Shared') \subseteq Range(s)
        BY <3>6, <3>7, <3>12
      <4> QED BY <1>9, <3>7, <3>8, <3>10, <3>13, <3>14, <3>15, <3>16, <3>17, <4>1 DEF Appending
    <3> QED BY <3>2, <3>18
  <2> QED BY <2>1, <2>2
<1>21. Call' = Call
  BY <1>3, <1>4 DEF Call, Retaining
<1> QED BY <1>5, <1>7, <1>19, <1>20, <1>21, Stutters DEF RInv

(* What insert adds is added to the forest *)
LEMMA AddedGrows ==
  ASSUME IInv, IInv', pc = "append", pc' \in {"append", "done"}, NEW x, Added(x)
  PROVE  Grows(x)
<1>0. ForestOK /\ ForestOK'
  BY ForestIsOK, PTL
<1>1. /\ x \in Int /\ ~ExistsNode(x) /\ HangOn(x) /\ ParentOf(x)' = PredNode
      /\ \A n \in Int : ExistsNode(n)' <=> (n = x \/ ExistsNode(n))
      /\ \A n \in Int : ExistsNode(n) => ParentOf(n)' = ParentOf(n)
      /\ \A j \in LiveInner : Slot(inner, j)'.call = Slot(inner, j).call
  BY DEF Added
<1>2. \A n \in Int : LiveNode(n) <=> ExistsNode(n)
  BY DEF LiveNode, Unlinking
<1>3. \A n \in Int : LiveNode(n)' <=> ExistsNode(n)'
  BY DEF LiveNode, Unlinking
<1>4. x \notin Nested /\ Nested' = Nested \cup {x}
  <2>1. Nested \subseteq Int /\ \A n \in Int : n \in Nested <=> ExistsNode(n)
    BY <1>0, <1>2 DEF ForestOK
  <2>2. Nested' \subseteq Int /\ \A n \in Int : n \in Nested' <=> ExistsNode(n)'
    BY <1>0, <1>3 DEF ForestOK
  <2> QED BY <1>1, <2>1, <2>2
<1>5. \A n \in Nested : ParentOf(n)' = ParentOf(n)
  BY <1>0, <1>1, <1>2 DEF ForestOK
<1>6. /\ \A i \in LiveInner : i \in LiveInner'
      /\ LiveInner' \subseteq LiveInner \cup {x}
  <2>1. \A n \in Nested : n \in LiveInner <=> ~IsLeaf(n)
    BY <1>0 DEF ForestOK
  <2>2. (\A n \in Nested' : n \in LiveInner' <=> ~IsLeaf(n)) /\ LiveInner' \subseteq Nested'
    BY <1>0 DEF ForestOK
  <2>3. LiveInner \subseteq Nested
    BY <1>0 DEF ForestOK
  <2> QED BY <1>4, <2>1, <2>2, <2>3
<1>7. /\ \A e \in DOMAIN edges : e \in DOMAIN edges' /\ edges'[e] = edges[e]
      /\ pred # None => pred \in DOMAIN edges' /\ edges'[pred] = x
      /\ start' = IF pred = None THEN [start EXCEPT ![args.key] = x] ELSE start
  <2>1. IF pred = None THEN cursor = None ELSE cursor # None /\ pred \notin DOMAIN edges
    BY DEF IInv, LoopOK
  <2> QED BY <1>1, <2>1 DEF HangOn
<1> QED BY <1>1, <1>4, <1>5, <1>6, <1>7 DEF Grows

(* What there is of the path insert makes is answered by its sequence, and *)
(* what is pending is not there yet.                                       *)
LEMMA MadeParts ==
  ASSUME RInv, pc = "append"
  PROVE  /\ Shared \in Seq(Range(Shared)) /\ Made \in Seq(Range(Made))
         /\ Range(Made) \subseteq Range(args.seq)
         /\ \A i \in Pending : args.seq[i].call \notin CallsOf(Made)
<1>0. IInv /\ Appending
  BY RParts
<1>1. PICK s : s = args.seq
  OBVIOUS
<1>2. s \in CallSequences
  BY <1>0, <1>1, InsertArguments
<1>3. s \in Seq(Range(s)) /\ Answered(Range(s)) /\ DOMAIN s = 1 .. Len(s)
  BY <1>2, SequenceParts
<1>4. PICK X : X = Range(Shared) \cup {s[i] : i \in Pending}
  OBVIOUS
<1>5. /\ Shared \in Seq(Pairs) /\ Range(Shared) \subseteq Range(s)
      /\ \A i \in Pending : i \in DOMAIN s => s[i] \notin Range(Shared)
      /\ Made = Shared \o Without(s, X)
  BY <1>0, <1>1, <1>4 DEF Appending
<1>6. Shared \in Seq(Range(Shared))
  BY <1>5, PairsSeq
<1>7. /\ Without(s, X) \in Seq(Range(Without(s, X)))
      /\ Range(Without(s, X)) = Range(s) \ X
  BY <1>3, WithoutKeeps
<1>8. Made \in Seq(Range(Made)) /\ Range(Made) = Range(Shared) \cup (Range(s) \ X)
  BY <1>5, <1>6, <1>7, Joined
<1>9. ASSUME NEW i \in Pending, s[i].call \in CallsOf(Made) PROVE FALSE
  <2>1. PICK q \in Range(Made) : q.call = s[i].call
    BY <1>9 DEF CallsOf
  <2>2. i \in DOMAIN s /\ s[i] \in Range(s)
    BY <1>1 DEF Pending, Range
  <2>3. q = s[i]
    BY <1>3, <1>5, <1>8, <2>1, <2>2 DEF Answered
  <2>4. s[i] \in X /\ s[i] \notin Range(Shared)
    BY <1>4, <1>5, <2>2
  <2> QED BY <1>8, <2>3, <2>4
<1> QED BY <1>1, <1>5, <1>6, <1>8, <1>9

(* The next call of the sequence gets its node, off the trees of entries *)
LEMMA AppendCallRefines ==
  ASSUME RInv, AppendCall
  PROVE  RInv' /\ [Abstract!Next]_(Abstract!tvars)
<1>0. IInv /\ Trailed /\ Rooted /\ Sweeping /\ Appending
  BY RParts
<1>1. PICK i \in DOMAIN args.seq, x \in Nat :
        /\ IsNext(i) /\ pred' = <<x, args.seq[i].ret>> /\ taken' = taken \cup {i}
        /\ Added(x) /\ SlabContains(inner', x)
        /\ Slot(inner', x).call = args.seq[i].call
  BY <1>0, CallAdded
<1>2. pc = "append" /\ UNCHANGED <<leaves, pc, args, idx, result>>
  BY DEF AppendCall
<1>3. IInv'
  BY <1>0, AppendCallKeeps
<1>4. Grows(x)
  BY <1>0, <1>1, <1>2, <1>3, AddedGrows
<1>5. PICK s, k : s = args.seq /\ k = args.key
  OBVIOUS
<1>6. k \in Keys /\ s \in CallSequences /\ args'.seq = s /\ args'.key = k
  BY <1>0, <1>2, <1>5, InsertArguments
<1>7. /\ s \in Seq(Range(s)) /\ DOMAIN s = 1 .. Len(s) /\ Len(s) \in Nat
      /\ Range(s) \subseteq Pairs
      /\ \A h, j \in DOMAIN s : s[h].call = s[j].call => h = j
  BY <1>6, SequenceParts
<1>8. /\ i \in Pending /\ i \in DOMAIN s /\ \A j \in Pending : i <= j
      /\ Pending \subseteq DOMAIN s /\ Pending' = Pending \ {i}
  BY <1>1, <1>2, <1>5 DEF IsNext, Pending
<1>9. PICK q : q = s[i]
  OBVIOUS
<1>10. q = [call |-> q.call, ret |-> q.ret] /\ Slot(inner, x)'.call = q.call
  <2>1. q \in Pairs
    BY <1>7, <1>8, <1>9 DEF Range
  <2>2. Slot(inner, x)' = Slot(inner', x)
    BY DEF Slot
  <2> QED BY <1>1, <1>5, <1>9, <2>1, <2>2 DEF Pairs
<1>11. q.call \notin CallsOf(Made) /\ Made \in Seq(Range(Made)) /\ Shared \in Seq(Range(Shared))
  BY <1>2, <1>5, <1>8, <1>9, MadeParts
<1>12. /\ Trailed' /\ Rooted'
       /\ \A n \in Nested : TrailOf(n)' = TrailOf(n)
       /\ TrailOf(x)'.path = Made
       /\ TrailOf(x)'.root = IF pred = None THEN x ELSE TrailOf(pred[1]).root
  BY <1>0, <1>2, <1>3, <1>4, <1>10, <1>11, WaysGrow
<1>13. Entries' = Entries
  <2>1. LeavesKept' = LeavesKept
    BY <1>2 DEF LeavesKept, Retaining
  <2>2. \A l : Slot(leaves, l)'.value = Slot(leaves, l).value
    BY <1>2 DEF Slot
  <2>3. \A l \in LeavesKept : Shown(l)' = Shown(l)
    BY <1>0, <1>2, <1>3, <1>4, <1>10, <1>11, <2>2, ShownOn
  <2>4. Entries' = {Shown(l)' : l \in LeavesKept'}
    BY EntriesAre DEF Shown
  <2> QED BY <2>1, <2>3, <2>4, EntriesShown
<1>14. Walking' /\ Getting' /\ Sweeping' /\ Call' = Call
  BY <1>0, <1>2 DEF Walking, Getting, Sweeping, Call, Retaining
<1>15. PICK sh : sh = Shared
  OBVIOUS
<1>16. Shared' = sh
  BY <1>2, <1>13, <1>15 DEF Shared
<1>17. pred' # None /\ pred'[1] = x /\ pred'[2] = q.ret
  <2>1. q.ret \in Rets
    BY <1>7, <1>8, <1>9 DEF Range, Pairs
  <2> QED BY <1>1, <1>5, <1>9, <2>1, NoneAssumption
<1>18. PICK m : m = Made
  OBVIOUS
<1>19. Made' = Append(m, q)
  <2>1. TrailOf(pred[1])'.path = m
    BY <1>12, <1>17, <1>18 DEF TrailOf
  <2>2. Slot(inner, pred[1])'.call = q.call
    BY <1>10, <1>17 DEF Slot
  <2>3. Made' = Append(m, [call |-> q.call, ret |-> q.ret])
    BY <1>17, <2>1, <2>2 DEF Made
  <2> QED BY <1>10, <2>3
<1>20. PICK P : P = Pending
  OBVIOUS
<1>21. /\ sh \in Seq(Pairs) /\ Range(sh) \subseteq Range(s)
       /\ \A h \in P, j \in DOMAIN s :
            /\ s[h] \notin Range(sh)
            /\ j > h => j \in P \/ s[j] \in Range(sh)
       /\ m = sh \o Without(s, Range(sh) \cup {s[j] : j \in P})
       /\ ~AlreadyThere(Entries, k, s) /\ ~LacksCall(Entries, k, s)
       /\ pred # None => TrailOf(pred[1]).root = start[k]
       /\ pred = None <=> start[k] = None
  BY <1>0, <1>2, <1>5, <1>15, <1>18, <1>20 DEF Appending
<1>22. Append(m, q) = sh \o Without(s, Range(sh) \cup {s[j] : j \in P \ {i}})
  <2> DEFINE X == Range(sh) \cup {s[j] : j \in P \ {i}}
  <2>1. q \notin X
    BY <1>7, <1>8, <1>9, <1>20, <1>21
  <2>2. \A h \in 1 .. i - 1 : s[h] # q
    BY <1>7, <1>8, <1>9
  <2>3. \A j \in i + 1 .. Len(s) : s[j] \in X
    <3> SUFFICES ASSUME NEW j \in i + 1 .. Len(s) PROVE s[j] \in X
      OBVIOUS
    <3>1. j \in DOMAIN s /\ j > i
      BY <1>7, <1>8
    <3> QED BY <1>8, <1>20, <1>21, <3>1
  <2>4. X \cup {q} = Range(sh) \cup {s[j] : j \in P}
    BY <1>8, <1>9, <1>20
  <2> HIDE DEF X
  <2>5. Without(s, X) = Append(Without(s, X \cup {q}), q)
    BY <1>7, <1>8, <1>9, <2>1, <2>2, <2>3, WithoutLast
  <2>6. PICK w : w = Without(s, X \cup {q})
    OBVIOUS
  <2>7. w \in Seq(Range(w)) /\ sh \in Seq(Range(sh))
    BY <1>7, <1>11, <1>15, <2>6, WithoutKeeps
  <2>8. sh \o Append(w, q) = Append(sh \o w, q)
    <3> DEFINE T == Range(w) \cup Range(sh) \cup {q}
    <3>1. w \in Seq(T) /\ sh \in Seq(T) /\ q \in T
      BY <2>7
    <3> HIDE DEF T
    <3> QED BY <3>1
  <2> QED BY <1>21, <2>4, <2>5, <2>6, <2>8 DEF X
<1>23. /\ start'[k] # None
       /\ TrailOf(pred[1])'.root = start'[k]
  <2>1. start' = IF pred = None THEN [start EXCEPT ![k] = x] ELSE start
    BY <1>4, <1>5 DEF Grows
  <2>2. TrailOf(pred[1])'.root = IF pred = None THEN x ELSE TrailOf(pred[1]).root
    BY <1>12, <1>17 DEF TrailOf
  <2>3. k \in DOMAIN start
    BY <1>0, <1>6 DEF IInv, TypeOK
  <2>4. x # None
    BY NoneAssumption
  <2> QED BY <1>21, <2>1, <2>2, <2>3, <2>4
<1>24. Pending' = P \ {i}
  BY <1>8, <1>20
<1>25. \A h \in P \ {i}, j \in DOMAIN s :
         /\ s[h] \notin Range(sh)
         /\ j > h => j \in P \ {i} \/ s[j] \in Range(sh)
  <2> SUFFICES ASSUME NEW h \in P \ {i}, NEW j \in DOMAIN s
               PROVE  s[h] \notin Range(sh) /\ (j > h => j \in P \ {i} \/ s[j] \in Range(sh))
    OBVIOUS
  <2>1. i <= h /\ h \in Nat /\ i \in Nat /\ j \in Nat
    BY <1>7, <1>8, <1>20
  <2>2. j > h => j # i
    BY <2>1
  <2> QED BY <1>21, <2>2
<1>26. ~AlreadyThere(Entries', k, s) /\ ~LacksCall(Entries', k, s)
  BY <1>13, <1>21
<1>27. Appending'
  BY <1>6, <1>16, <1>17, <1>19, <1>21, <1>22, <1>23, <1>24, <1>25, <1>26 DEF Appending
<1> QED BY <1>3, <1>12, <1>13, <1>14, <1>27, Stutters DEF RInv

(* The leaf makes the insertion show: the entry appears with its whole path *)
LEMMA AppendLeafRefines ==
  ASSUME RInv, AppendLeaf
  PROVE  RInv' /\ [Abstract!Next]_(Abstract!tvars)
<1>0. IInv /\ Trailed /\ Rooted /\ Sweeping /\ Appending
  BY RParts
<1>1. /\ pc = "append" /\ Pending = {} /\ pc' = "done" /\ result' = "Ok" /\ args' = args
      /\ taken' = {} /\ idx' = 0
  BY DEF AppendLeaf, Finish
<1>2. PICK l \in Nat, x \in Int :
        /\ x = -l - 1 /\ Added(x) /\ x < 0
        /\ \A j \in Int : SlabContains(leaves', j) <=> (j = l \/ SlabContains(leaves, j))
        /\ Slot(leaves', l).value = args.value
        /\ \A j \in Int : SlabContains(leaves, j) => Slot(leaves', j) = Slot(leaves, j)
  <2>1. PICK l \in Nat :
           LET id == -l - 1 IN
           /\ Added(id) /\ id < 0
           /\ \A j \in Int : SlabContains(leaves', j) <=> (j = l \/ SlabContains(leaves, j))
           /\ Slot(leaves', l).value = args.value
           /\ \A j \in Int : SlabContains(leaves, j) => Slot(leaves', j) = Slot(leaves, j)
    BY <1>0, LeafAdded
  <2>2. -l - 1 \in Int
    OBVIOUS
  <2> QED BY <2>1, <2>2
<1>3. IInv'
  BY <1>0, AppendLeafKeeps
<1>4. Grows(x)
  BY <1>0, <1>1, <1>2, <1>3, AddedGrows
<1>5. PICK s, k : s = args.seq /\ k = args.key
  OBVIOUS
<1>6. /\ k \in Keys /\ s \in CallSequences /\ args.value \in Values
      /\ args = [op |-> "insert", key |-> k, seq |-> s, value |-> args.value]
  BY <1>0, <1>1, <1>5, InsertArguments
<1>7. x \notin LiveInner'
  <2>1. ForestOK'
    BY <1>3, ForestIsOK, PTL
  <2>2. IsLeaf(x)
    BY <1>2 DEF IsLeaf
  <2> QED BY <2>1, <2>2 DEF ForestOK
<1>8. /\ Trailed' /\ Rooted'
      /\ TrailOf(x)'.path = Made
      /\ TrailOf(x)'.root = IF pred = None THEN x ELSE TrailOf(pred[1]).root
  BY <1>0, <1>1, <1>3, <1>4, <1>7, WaysGrow
<1>9. LeavesKept' = LeavesKept \cup {l}
  <2>1. Len(leaves.data) \in Nat /\ Len(leaves.data)' \in Nat
    BY <1>0, <1>3 DEF IInv, TypeOK, SlabOK, SlabType
  <2>2. LeavesKept = {j \in Int : SlabContains(leaves, j)}
    BY <1>1, <2>1 DEF LeavesKept, Retaining, SlabContains
  <2>3. LeavesKept' = {j \in Int : SlabContains(leaves', j)}
    BY <1>1, <2>1 DEF LeavesKept, Retaining, SlabContains
  <2> QED BY <1>2, <2>2, <2>3
<1>10. \A j \in LeavesKept : Shown(j)' = Shown(j)
  <2> SUFFICES ASSUME NEW j \in LeavesKept PROVE Shown(j)' = Shown(j)
    OBVIOUS
  <2>1. SlabContains(leaves, j) /\ j \in Int
    BY DEF LeavesKept, SlabContains
  <2>2. Slot(leaves, j)' = Slot(leaves, j)
    BY <1>2, <2>1 DEF Slot
  <2> QED BY <1>0, <1>1, <1>3, <1>4, <1>7, <2>2, ShownOn
<1>11. Entries' = Entries \cup {Shown(l)'}
  <2>1. Entries' = {Shown(j)' : j \in LeavesKept'}
    BY EntriesAre DEF Shown
  <2> QED BY <1>9, <1>10, <2>1, EntriesShown
<1>12. ~Retaining' /\ Sweeping' /\ Walking' /\ Getting' /\ Appending'
  BY <1>1 DEF Retaining, Sweeping, Walking, Getting, Appending
<1>13. start'[k] = TrailOf(x)'.root
  <2>1. start' = IF pred = None THEN [start EXCEPT ![k] = x] ELSE start
    BY <1>4, <1>5 DEF Grows
  <2>2. k \in DOMAIN start
    BY <1>0, <1>6 DEF IInv, TypeOK
  <2>3. pred # None => TrailOf(pred[1]).root = start[k]
    BY <1>0, <1>1, <1>5 DEF Appending
  <2> QED BY <1>8, <2>1, <2>2, <2>3
<1>14. KeyOf(TrailOf(x).root)' = k
  <2>1. RInv'
    BY <1>3, <1>8, <1>12 DEF RInv
  <2>2. Keyed' /\ ForestOK'
    BY <2>1, RParts, PTL
  <2>3. x \in Nested'
    BY <1>4 DEF Grows
  <2>4. TrailOf(x)'.root \in Nested' /\ None \notin Nested'
    BY <2>2, <2>3, NoneAssumption DEF Keyed, ForestOK
  <2>5. KeyOf(start[k])' = k
    BY <1>6, <1>13, <2>2, <2>4 DEF Keyed
  <2> QED BY <1>13, <2>5 DEF KeyOf
<1>15. Made = NewPath(Entries, k, s)
  <2>1. PICK sh : sh = Shared
    OBVIOUS
  <2>2. sh \in Seq(Pairs) /\ Made = sh \o Without(s, Range(sh) \cup {})
    BY <1>0, <1>1, <1>5, <2>1 DEF Appending
  <2>3. s \in Seq(Range(s)) /\ s \in Seq(Pairs)
    BY <1>6, SequenceParts
  <2>4. CASE OfKey(Entries, k) = {}
    <3>1. sh = <<>>
      BY <1>5, <2>1, <2>4 DEF Shared
    <3>2. Range(sh) = {}
      BY <3>1 DEF Range
    <3>3. Without(s, {}) = s
      BY <2>3, WithoutExtremes
    <3>4. <<>> \o s = s
      BY <2>3
    <3>5. Made = s
      BY <2>2, <3>1, <3>2, <3>3, <3>4
    <3> QED BY <2>4, <3>5 DEF NewPath
  <2>5. CASE OfKey(Entries, k) # {}
    <3>1. sh = CHOOSE p \in Divergences(Entries, k, s) : TRUE
      BY <1>5, <2>1, <2>5 DEF Shared
    <3>2. Made = sh \o Without(s, Range(sh))
      BY <2>2
    <3> QED BY <2>5, <3>1, <3>2 DEF NewPath
  <2> QED BY <2>4, <2>5
<1>16. Shown(l)' = [key |-> k, path |-> NewPath(Entries, k, s), value |-> args.value]
  <2>1. NodeLeaf(l) = x
    BY <1>2 DEF NodeLeaf
  <2>2. Shown(l)' = [key |-> KeyOf(TrailOf(x).root)', path |-> TrailOf(x)'.path,
                     value |-> Slot(leaves, l)'.value]
    BY <2>1 DEF Shown, EntryAt, TrailOf, KeyOf
  <2>3. Slot(leaves, l)'.value = args.value
    BY <1>2 DEF Slot
  <2> QED BY <1>8, <1>14, <1>15, <2>2, <2>3
<1>17. ~AlreadyThere(Entries, k, s) /\ ~LacksCall(Entries, k, s)
  BY <1>0, <1>1, <1>5 DEF Appending
<1>18. Call = None /\ Call' = [args |-> args, result |-> "Ok"]
  BY <1>1 DEF Call, Retaining
<1>19. Abstract!Insert(k, s, args.value)
  BY <1>6, <1>11, <1>16, <1>17, <1>18, SameOperators DEF Abstract!Insert, Abstract!Done
<1>20. RInv'
  BY <1>3, <1>8, <1>12 DEF RInv
<1> QED BY <1>6, <1>19, <1>20, SameOperators DEF Abstract!Next

-----------------------------------------------------------------------------
(* get. *)

(* The arguments get runs with *)
LEMMA GetArguments ==
  ASSUME IInv, pc = "get"
  PROVE  /\ args.key \in Keys /\ args.oracle \in [Calls -> Rets]
         /\ args = [op |-> "get", key |-> args.key, oracle |-> args.oracle]
BY DEF IInv, LoopOK, GetArgs, Oracles

(* What the oracle answers *)
Told == {[call |-> c, ret |-> args.oracle[c]] : c \in Calls}

(* An entry matches when the oracle answers its path *)
LEMMA ToldParts ==
  /\ Answered(Told)
  /\ \A p : p \in Seq(Pairs) =>
       (Range(p) \subseteq Told <=> \A q \in Range(p) : args.oracle[q.call] = q.ret)
<1>1. Answered(Told)
  BY DEF Answered, Told
<1>2. ASSUME NEW p, p \in Seq(Pairs), Range(p) \subseteq Told, NEW q \in Range(p)
      PROVE  args.oracle[q.call] = q.ret
  BY <1>2 DEF Told
<1>3. ASSUME NEW p, p \in Seq(Pairs), NEW q \in Range(p), args.oracle[q.call] = q.ret
      PROVE  q \in Told
  <2>1. q \in Pairs
    BY <1>3, PairsSeq
  <2>2. q = [call |-> q.call, ret |-> q.ret] /\ q.call \in Calls
    BY <2>1 DEF Pairs
  <2> QED BY <1>3, <2>2 DEF Told
<1> QED BY <1>1, <1>2, <1>3

(* get starts at the root of its key *)
LEMMA GetCallRefines ==
  ASSUME RInv, NEW k \in Keys, NEW o \in Oracles, GetCall(k, o)
  PROVE  RInv' /\ [Abstract!Next]_(Abstract!tvars)
<1>0. IInv /\ Trailed /\ Rooted /\ Sweeping /\ Walking /\ ForestOK /\ Keyed
  BY RParts
<1>1. /\ pc = "idle" /\ UNCHANGED treeVars /\ UNCHANGED <<taken, pred, idx, result>>
      /\ args'.key = k /\ args'.oracle = o /\ cursor' = start[k] /\ pc' = "get"
  BY DEF GetCall
<1>2. IInv'
  BY <1>0, GetCallKeeps
<1>3. ~Retaining /\ ~Retaining' /\ idx' = 0 /\ taken' = {}
  BY <1>0, <1>1 DEF Retaining, Sweeping, Walking
<1>4. /\ Entries' = Entries /\ Nested' = Nested
      /\ \A n \in Nested : TrailOf(n)' = TrailOf(n)
      /\ Trailed' /\ Rooted' /\ Sweeping'
  BY <1>1, <1>2, <1>3, SameEntries
<1>5. Walking' /\ Appending'
  BY <1>1, <1>3 DEF Walking, Appending
<1>6. Getting'
  <2>1. CASE start[k] = None
    <3>1. OfKey(Entries, k) = {}
      BY <1>0, <2>1, NoEntries
    <3>2. Matching(Entries', k, o) = {}
      BY <1>4, <3>1 DEF Matching
    <3> QED BY <1>1, <2>1, <3>2 DEF Getting
  <2>2. CASE start[k] # None
    <3>2. LiveNode(start[k]) /\ ParentOf(start[k]) = None
      BY <1>0, <1>3, <2>2 DEF IInv, TreeOK, NothingDangles, RootsHaveNoParent
    <3>3. start[k] \in Nested
      BY <1>0, <2>2, <3>2 DEF ForestOK, IInv, TypeOK
    <3>4. TrailOf(start[k]) = [root |-> start[k], path |-> <<>>]
      <4>1. TrailOf(start[k]) = Above(Forest, start[k], Trails(Forest))
        BY <1>0, <3>3, TrailedIs, ForestFields DEF HasTrails, TrailOf
      <4>2. Forest.up[start[k]] = None
        BY <3>2, <3>3, ForestFields
      <4> QED BY <4>1, <4>2 DEF Above
    <3>5. PICK c : c = start[k]
      OBVIOUS
    <3>6. TrailOf(c)' = [root |-> c, path |-> <<>>] /\ cursor' = c /\ start'[k] = c
      BY <1>1, <1>4, <3>3, <3>4, <3>5 DEF treeVars
    <3>7. Range(<<>>) = {}
      BY DEF Range
    <3>8. TrailOf(cursor)' = [root |-> c, path |-> <<>>]
      BY <3>6 DEF TrailOf
    <3> QED BY <1>1, <2>2, <3>5, <3>6, <3>7, <3>8 DEF Getting
  <2> QED BY <2>1, <2>2
<1>7. Call' = Call
  BY <1>1 DEF Call, Retaining
<1> QED BY <1>2, <1>4, <1>5, <1>6, <1>7, Stutters DEF RInv

(* Where the oracle leads no further, no entry matches *)
LEMMA NothingMatches ==
  ASSUME RInv, pc = "get", NEW a \in LiveInner,
         TrailOf(a).root = start[args.key],
         \A q \in Range(TrailOf(a).path) : args.oracle[q.call] = q.ret,
         <<a, args.oracle[Slot(inner, a).call]>> \notin DOMAIN edges
  PROVE  Matching(Entries, args.key, args.oracle) = {}
<1>0. IInv /\ Trailed /\ Rooted /\ Sweeping /\ ForestOK /\ Keyed /\ LeavesOK
  BY RParts
<1>1. args.key \in Keys
  BY <1>0, GetArguments
<1>2. /\ IsForest(Forest) /\ HasTrails(Forest, Trails(Forest)) /\ a \in Forest.nodes
      /\ Slot(inner, a).call \in Calls
  <2>1. SlabContains(inner, a) /\ a \in Int
    BY DEF LiveInner, SlabContains
  <2>2. Slot(inner, a).call \in Calls
    BY <1>0, <2>1, InnerType DEF IInv, InnerNode
  <2> QED BY <1>0, <2>2, TrailedIs, ForestFields DEF ForestOK
<1> DEFINE c == Slot(inner, a).call
           q == [call |-> c, ret |-> args.oracle[c]]
<1>3. NoWayOn(Forest, a, q)
  BY NoStepDown
<1>4. q \in Told
  BY <1>2 DEF Told
<1> HIDE DEF q
<1>5. TrailOf(a).path \in Seq(Pairs)
  BY <1>2 DEF HasTrails, TrailOf
<1>6. Range(TrailOf(a).path) \subseteq Told /\ Answered(Told)
  BY <1>5, ToldParts
<1> SUFFICES ASSUME NEW e \in OfKey(Entries, args.key), Matches(e, args.oracle) PROVE FALSE
  BY DEF Matching
<1>7. PICK l \in LeavesKept :
        TrailOf(NodeLeaf(l)).root = start[args.key] /\ e = EntryAt(l, TrailOf(NodeLeaf(l)))
  BY <1>0, <1>1, EntriesOfKey
<1>8. PICK n : n = NodeLeaf(l)
  OBVIOUS
<1>9. n \in Nested \ LiveInner /\ e.path = TrailOf(n).path
  BY <1>0, <1>7, <1>8, EntryFields DEF LeavesOK
<1>10. n \in Forest.nodes \ Forest.inner
  BY <1>9, ForestFields
<1>11. TrailOf(n).path \in Seq(Pairs)
  BY <1>2, <1>10 DEF HasTrails, TrailOf
<1>12. Range(TrailOf(n).path) \subseteq Told
  BY <1>9, <1>11, ToldParts DEF Matches
<1>13. PICK R, f, t : R = Told /\ f = Forest /\ t = Trails(Forest)
  OBVIOUS
<1>14. t[n] = TrailOf(n) /\ t[a] = TrailOf(a)
  BY <1>13 DEF TrailOf
<1>15. n \in f.inner
  <2>1. t[n].root = t[a].root
    BY <1>7, <1>8, <1>14
  <2>2. /\ IsForest(f) /\ HasTrails(f, t) /\ Answered(R) /\ q \in R /\ NoWayOn(f, a, q)
        /\ Range(t[a].path) \subseteq R /\ n \in f.nodes /\ Range(t[n].path) \subseteq R
    BY <1>2, <1>3, <1>4, <1>6, <1>10, <1>12, <1>13, <1>14
  <2> QED BY <2>1, <2>2, NoLeaf
<1> QED BY <1>10, <1>13, <1>15

(* get goes down one edge, or finds that nothing matches *)
LEMMA GetInnerRefines ==
  ASSUME RInv, GetInner
  PROVE  RInv' /\ [Abstract!Next]_(Abstract!tvars)
<1>0. IInv /\ Trailed /\ Rooted /\ Sweeping /\ Walking /\ Getting /\ ForestOK /\ Keyed
  BY RParts
<1>1. PICK a : a = cursor
  OBVIOUS
<1>2. PICK c : c = Slot(inner, a).call
  OBVIOUS
<1>3. PICK r : r = args.oracle[c]
  OBVIOUS
<1>4. /\ pc = "get" /\ pc' = "get" /\ a # None /\ ~IsLeaf(a) /\ SlabContains(inner, a)
      /\ cursor' = IF <<a, r>> \in DOMAIN edges THEN edges[<<a, r>>] ELSE None
      /\ UNCHANGED treeVars /\ UNCHANGED <<args, taken, pred, idx, result>>
  BY <1>1, <1>2, <1>3 DEF GetInner
<1>5. IInv'
  BY <1>0, GetInnerKeeps
<1>6. ~Retaining /\ ~Retaining' /\ idx' = 0
  BY <1>0, <1>4 DEF Retaining, Sweeping
<1>7. /\ Entries' = Entries /\ Nested' = Nested
      /\ \A n \in Nested : TrailOf(n)' = TrailOf(n)
      /\ Trailed' /\ Rooted' /\ Sweeping'
  BY <1>4, <1>5, <1>6, SameEntries
<1>8. Walking' /\ Appending'
  BY <1>0, <1>4 DEF Walking, Appending
<1>9. a \in LiveInner
  BY <1>0, <1>1, <1>4 DEF ForestOK, IInv, LoopOK, TypeOK
<1>10. PICK k, o : k = args.key /\ o = args.oracle
  OBVIOUS
<1>11. TrailOf(a).root = start[k] /\ \A q \in Range(TrailOf(a).path) : o[q.call] = q.ret
  BY <1>0, <1>1, <1>4, <1>10 DEF Getting
<1>12. args'.key = k /\ args'.oracle = o /\ start' = start
  BY <1>4, <1>10 DEF treeVars
<1>13. Getting'
  <2>1. CASE <<a, r>> \in DOMAIN edges
    <3>1. PICK d : d = edges[<<a, r>>]
      OBVIOUS
    <3>2. /\ d \in Nested /\ TrailOf(d).root = TrailOf(a).root
          /\ Range(TrailOf(d).path)
               = Range(TrailOf(a).path) \cup {[call |-> Slot(inner, a).call, ret |-> r]}
      BY <1>4, <1>9, <2>1, <3>1, StepDown
    <3>3. \A q \in Range(TrailOf(d).path) : o[q.call] = q.ret
      BY <1>2, <1>3, <1>10, <1>11, <3>2
    <3>4. cursor' = d /\ d # None
      BY <1>0, <1>4, <2>1, <3>1, <3>2, NoneAssumption DEF ForestOK
    <3>5. TrailOf(cursor)' = TrailOf(d)
      <4>1. TrailOf(d)' = TrailOf(d)
        BY <1>7, <3>2
      <4> QED BY <3>4, <4>1 DEF TrailOf
    <3>6. TrailOf(d).root = start'[k]
      BY <1>11, <1>12, <3>2
    <3> QED BY <1>12, <3>3, <3>4, <3>5, <3>6 DEF Getting
  <2>2. CASE <<a, r>> \notin DOMAIN edges
    <3>1. Matching(Entries, k, o) = {}
      BY <1>2, <1>3, <1>4, <1>9, <1>10, <1>11, <2>2, NothingMatches
    <3>2. Matching(Entries', k, o) = {} /\ cursor' = None
      BY <1>4, <1>7, <2>2, <3>1
    <3> QED BY <1>12, <3>2 DEF Getting
  <2> QED BY <2>1, <2>2
<1>14. Call' = Call
  BY <1>4 DEF Call, Retaining
<1> QED BY <1>5, <1>7, <1>8, <1>13, <1>14, Stutters DEF RInv

(* get returns what the one entry that matches holds *)
LEMMA GetLeafRefines ==
  ASSUME RInv, GetLeaf
  PROVE  RInv' /\ [Abstract!Next]_(Abstract!tvars)
<1>0. IInv /\ Trailed /\ Rooted /\ Sweeping /\ Getting /\ ForestOK /\ Keyed /\ LeavesOK
  BY RParts
<1>1. PICK b, j : b = cursor /\ j = LeafId(cursor)
  OBVIOUS
<1>2. PICK v : v = Slot(leaves, j).value
  OBVIOUS
<1>3. pc = "get" /\ b # None /\ IsLeaf(b) /\ UNCHANGED treeVars /\ Finish(v)
  BY <1>1, <1>2 DEF GetLeaf
<1>4. /\ RInv' /\ Entries' = Entries
      /\ Call = None /\ Call' = [args |-> args, result |-> v]
  BY <1>3, FinishRefines
<1>5. PICK k, o : k = args.key /\ o = args.oracle
  OBVIOUS
<1>6. k \in Keys /\ o \in [Calls -> Rets] /\ args = [op |-> "get", key |-> k, oracle |-> o]
  BY <1>0, <1>3, <1>5, GetArguments
<1>7. b \in Nested \ LiveInner
  BY <1>0, <1>1, <1>3 DEF ForestOK, IInv, LoopOK, TypeOK
<1>8. b = NodeLeaf(j) /\ j \in LeavesKept
  BY <1>0, <1>1, <1>3, <1>7 DEF LeavesOK, Retaining
<1>9. TrailOf(b).root = start[k] /\ \A q \in Range(TrailOf(b).path) : o[q.call] = q.ret
  BY <1>0, <1>1, <1>3, <1>5 DEF Getting
<1> DEFINE e == EntryAt(j, TrailOf(b))
<1>10. e \in OfKey(Entries, k) /\ e.path = TrailOf(b).path /\ e.value = v
  BY <1>0, <1>2, <1>6, <1>8, <1>9, EntriesOfKey, EntryFields
<1>11. e \in Matching(Entries, k, o)
  BY <1>9, <1>10 DEF Matching, Matches
<1>12. ASSUME NEW g \in Matching(Entries, k, o) PROVE g = e
  <2>1. g \in OfKey(Entries, k) /\ Matches(g, o)
    BY DEF Matching
  <2>2. PICK l \in LeavesKept :
          TrailOf(NodeLeaf(l)).root = start[k] /\ g = EntryAt(l, TrailOf(NodeLeaf(l)))
    BY <1>0, <1>6, <2>1, EntriesOfKey
  <2>3. PICK n : n = NodeLeaf(l)
    OBVIOUS
  <2>4. n \in Nested \ LiveInner /\ g.path = TrailOf(n).path
    BY <1>0, <2>2, <2>3, EntryFields DEF LeavesOK
  <2>5. PICK R, f, t : R = Told /\ f = Forest /\ t = Trails(Forest)
    OBVIOUS
  <2>6. /\ IsForest(f) /\ HasTrails(f, t) /\ n \in f.nodes \ f.inner /\ b \in f.nodes \ f.inner
        /\ t[n] = TrailOf(n) /\ t[b] = TrailOf(b)
    BY <1>0, <1>7, <2>4, <2>5, TrailedIs, ForestFields DEF ForestOK, TrailOf
  <2>7. t[n].path \in Seq(Pairs) /\ t[b].path \in Seq(Pairs)
    BY <2>6 DEF HasTrails
  <2>8. Answered(R) /\ Range(t[n].path) \subseteq R /\ Range(t[b].path) \subseteq R
    BY <1>5, <1>9, <2>1, <2>4, <2>5, <2>6, <2>7, ToldParts DEF Matches
  <2>9. t[n].root = t[b].root
    BY <1>9, <2>2, <2>3, <2>6
  <2>10. n = b
    BY <2>6, <2>8, <2>9, OneLeaf
  <2>11. l = j
    BY <1>8, <2>3, <2>10, <1>0 DEF NodeLeaf, LeavesOK
  <2> QED BY <2>2, <2>3, <2>10, <2>11
<1> HIDE DEF e
<1>13. Matching(Entries, k, o) = {e}
  BY <1>11, <1>12
<1>14. Abstract!Get(k, o)
  <2>1. PICK M : M = Matching(Entries, k, o)
    OBVIOUS
  <2>2. M # {} /\ (CHOOSE g \in M : TRUE).value = v
    BY <1>10, <1>13, <2>1
  <2>3. Abstract!Matching(Entries, k, o) = M
    BY <2>1, SameOperators
  <2> QED BY <1>4, <1>6, <2>2, <2>3 DEF Abstract!Get, Abstract!Done
<1> QED BY <1>4, <1>6, <1>14 DEF Abstract!Next

(* get returns nothing when nothing matches *)
LEMMA GetNothingRefines ==
  ASSUME RInv, GetNothing
  PROVE  RInv' /\ [Abstract!Next]_(Abstract!tvars)
<1>0. IInv /\ Getting
  BY RParts
<1>1. pc = "get" /\ UNCHANGED treeVars /\ Finish(None) /\ (cursor # None => ~ExistsNode(cursor))
  BY DEF GetNothing
<1>2. cursor = None
  BY <1>0, <1>1 DEF IInv, LoopOK, LiveNode
<1>3. /\ RInv' /\ Entries' = Entries
      /\ Call = None /\ Call' = [args |-> args, result |-> None]
  BY <1>1, FinishRefines
<1>4. PICK k, o : k = args.key /\ o = args.oracle
  OBVIOUS
<1>5. k \in Keys /\ o \in [Calls -> Rets] /\ args = [op |-> "get", key |-> k, oracle |-> o]
  BY <1>0, <1>1, <1>4, GetArguments
<1>6. Matching(Entries, k, o) = {}
  BY <1>0, <1>1, <1>2, <1>4 DEF Getting
<1>7. Abstract!Get(k, o)
  <2>1. Abstract!Matching(Entries, k, o) = {}
    BY <1>6, SameOperators
  <2> QED BY <1>3, <1>5, <2>1 DEF Abstract!Get, Abstract!Done
<1> QED BY <1>3, <1>5, <1>7 DEF Abstract!Next

-----------------------------------------------------------------------------
(* retain, and all the steps together. *)

(* When nodes are taken away and no loop of insert or get runs, the entries *)
(* are those of the leaves that stay.                                       *)
LEMMA WhatStays ==
  ASSUME RInv, IInv', Shrinks, Sweeping', pc' \notin {"walk", "append", "get"}, taken' = {},
         \A l \in LeavesKept' : Slot(leaves, l)'.value = Slot(leaves, l).value
  PROVE  RInv' /\ Entries' = {Shown(l) : l \in LeavesKept'}
<1>0. IInv /\ Trailed /\ Rooted
  BY RParts
<1>1. Trailed' /\ Rooted'
  BY <1>0, WaysStay
<1>2. Walking' /\ Getting' /\ Appending'
  BY DEF Walking, Getting, Appending
<1>3. \A l \in LeavesKept' : Shown(l)' = Shown(l)
  BY <1>0, StillShown
<1>4. Entries' = {Shown(l)' : l \in LeavesKept'}
  BY EntriesAre DEF Shown
<1> QED BY <1>1, <1>2, <1>3, <1>4 DEF RInv

(* retain has its effect when it is called: the entries that it will drop  *)
(* show no more.                                                           *)
LEMMA RetainCallRefines ==
  ASSUME RInv, NEW keep \in SUBSET Values, RetainCall(keep)
  PROVE  RInv' /\ [Abstract!Next]_(Abstract!tvars)
<1>0. IInv /\ Sweeping /\ Walking
  BY RParts
<1>1. /\ pc = "idle" /\ pc' = "retain" /\ args' = [op |-> "retain", keep |-> keep]
      /\ UNCHANGED treeVars /\ UNCHANGED loopVars
  BY DEF RetainCall
<1>2. IInv'
  BY <1>0, RetainCallKeeps
<1>3. Shrinks
  BY <1>0, <1>1, <1>2, TreeStays
<1>4. idx' = 0 /\ taken' = {}
  BY <1>0, <1>1 DEF Sweeping, Walking, Retaining, loopVars
<1>5. Sweeping'
  BY <1>1, <1>4 DEF Sweeping, Retaining
<1>6. /\ LeavesKept' = {l \in LeavesKept : Slot(leaves, l).value \in keep}
      /\ \A l : Slot(leaves, l)' = Slot(leaves, l)
  BY <1>1 DEF LeavesKept, Retaining, treeVars
<1>7. RInv' /\ Entries' = {Shown(l) : l \in LeavesKept'}
  BY <1>1, <1>2, <1>3, <1>4, <1>5, <1>6, WhatStays
<1>8. \A l \in LeavesKept : Shown(l).value = Slot(leaves, l).value
  BY DEF Shown, EntryAt
<1>9. Entries' = {e \in Entries : e.value \in keep}
  BY <1>6, <1>7, <1>8, EntriesShown
<1>10. Call = None /\ Call' = [args |-> args', result |-> "Unit"]
  BY <1>1 DEF Call, Retaining
<1>11. Abstract!Retain(keep)
  BY <1>1, <1>9, <1>10 DEF Abstract!Retain, Abstract!Done
<1> QED BY <1>7, <1>11 DEF Abstract!Next

(* The steps of its scan and its climbs show nothing *)
LEMMA SweepStutters ==
  ASSUME RInv, Retaining, Retaining', IInv', Shrinks, Sweeping', UNCHANGED <<args, taken>>,
         LeavesKept' = LeavesKept,
         \A l \in LeavesKept' : Slot(leaves, l)'.value = Slot(leaves, l).value
  PROVE  RInv' /\ [Abstract!Next]_(Abstract!tvars)
<1>1. taken' = {} /\ pc' \notin {"walk", "append", "get"}
  BY RParts DEF Walking, Retaining
<1>2. RInv' /\ Entries' = {Shown(l) : l \in LeavesKept'}
  BY <1>1, WhatStays
<1>3. Entries' = Entries
  BY <1>2, EntriesShown
<1>4. Call' = Call
  BY DEF Call, Retaining
<1> QED BY <1>2, <1>3, <1>4, Stutters

(* The scan passes a leaf that is kept or free *)
LEMMA RetainKeepRefines ==
  ASSUME RInv, RetainKeep
  PROVE  RInv' /\ [Abstract!Next]_(Abstract!tvars)
<1>0. IInv /\ Sweeping
  BY RParts
<1>1. /\ pc = "retain" /\ pc' = "retain" /\ ~Dropped(idx) /\ idx' = idx + 1
      /\ UNCHANGED treeVars /\ UNCHANGED <<args, taken>>
  BY DEF RetainKeep
<1>2. IInv'
  BY <1>0, RetainKeepKeeps
<1>3. Shrinks
  BY <1>0, <1>1, <1>2, TreeStays
<1>4. Retaining /\ Retaining'
  BY <1>1 DEF Retaining
<1>5. LeavesKept' = LeavesKept /\ \A l : Slot(leaves, l)' = Slot(leaves, l)
  BY <1>1, <1>4 DEF LeavesKept, treeVars
<1>6. Sweeping'
  <2>1. idx \in Nat
    BY <1>0 DEF IInv, TypeOK
  <2>2. \A l \in 0 .. idx : SlabContains(leaves, l) => Slot(leaves, l).value \in args.keep
    BY <1>0, <1>1, <1>4, <2>1 DEF Sweeping, Dropped
  <2>3. 0 .. idx' - 1 = 0 .. idx
    BY <1>1, <2>1
  <2> QED BY <1>1, <1>4, <2>2, <2>3 DEF Sweeping, treeVars
<1> QED BY <1>1, <1>2, <1>3, <1>4, <1>5, <1>6, SweepStutters

(* A climb starts at a leaf that shows no more *)
LEMMA RetainDropRefines ==
  ASSUME RInv, RetainDrop
  PROVE  RInv' /\ [Abstract!Next]_(Abstract!tvars)
<1>0. IInv /\ Sweeping
  BY RParts
<1>1. /\ pc = "retain" /\ pc' = "unlink" /\ Dropped(idx) /\ idx' = idx
      /\ UNCHANGED treeVars /\ UNCHANGED <<args, taken>>
  BY DEF RetainDrop
<1>2. IInv'
  BY <1>0, RetainDropKeeps
<1>3. Shrinks
  BY <1>0, <1>1, <1>2, TreeStays
<1>4. Retaining /\ Retaining'
  BY <1>1 DEF Retaining
<1>5. LeavesKept' = LeavesKept /\ \A l : Slot(leaves, l)' = Slot(leaves, l)
  BY <1>1, <1>4 DEF LeavesKept, treeVars
<1>6. Sweeping'
  BY <1>0, <1>1, <1>4 DEF Sweeping, Dropped, treeVars
<1> QED BY <1>1, <1>2, <1>3, <1>4, <1>5, <1>6, SweepStutters

(* The climb gives up an inner node below which nothing is left *)
LEMMA UnlinkParentRefines ==
  ASSUME RInv, UnlinkParent
  PROVE  RInv' /\ [Abstract!Next]_(Abstract!tvars)
<1>0. IInv /\ Sweeping /\ ForestOK
  BY RParts
<1>1. /\ pc = "unlink" /\ pc' = "unlink" /\ cursor # None
      /\ inner' = SlabRemove(inner, cursor)
      /\ UNCHANGED <<leaves, start, edges, args, taken, idx>>
  BY DEF UnlinkParent
<1>2. IInv' /\ ForestOK'
  BY <1>0, UnlinkParentKeeps, ForestIsOK, PTL
<1>3. PICK x \in Int : x = cursor /\ x \in Nat /\ SlabContains(inner, x)
  BY <1>0, <1>1, InnerType DEF IInv, LoopOK, TypeOK
<1>4. /\ \A i \in Int : SlabContains(inner', i) <=> (i # x /\ SlabContains(inner, i))
      /\ \A i \in Int : i # x => Slot(inner', i) = Slot(inner, i)
      /\ Len(inner'.data) = Len(inner.data)
  BY <1>0, <1>1, <1>3, SlabRemoval DEF IInv, TypeOK
<1>5. \A n \in Int : LiveNode(n)' => n # x /\ LiveNode(n)
  <2>1. \A n \in Int : ExistsNode(n)' => n # x /\ ExistsNode(n)
    BY <1>1, <1>3, <1>4 DEF ExistsNode, IsLeaf
  <2> QED BY <1>1, <2>1 DEF LiveNode, Unlinking
<1>6. \A n \in Int : n # x => ParentOf(n)' = ParentOf(n)
  BY <1>1, <1>4 DEF ParentOf
<1>7. \A i \in LiveInner' : i \in LiveInner /\ Slot(inner, i)'.call = Slot(inner, i).call
  <2> SUFFICES ASSUME NEW i \in LiveInner'
               PROVE  i \in LiveInner /\ Slot(inner, i)'.call = Slot(inner, i).call
    OBVIOUS
  <2>1. i \in Int /\ SlabContains(inner', i) /\ i \in 0 .. Len(inner.data) - 1
    BY <1>4 DEF LiveInner, SlabContains
  <2>2. i # x /\ SlabContains(inner, i)
    BY <1>4, <2>1
  <2>3. Slot(inner, i)' = Slot(inner', i)
    BY DEF Slot
  <2> QED BY <1>4, <2>1, <2>2, <2>3 DEF LiveInner
<1>8. Shrinks
  <2>1. \A n \in Nested' : n \in Nested /\ ParentOf(n)' = ParentOf(n)
    BY <1>0, <1>2, <1>5, <1>6 DEF ForestOK
  <2> QED BY <1>1, <1>7, <2>1 DEF Shrinks
<1>9. Retaining /\ Retaining'
  BY <1>1 DEF Retaining
<1>10. LeavesKept' = LeavesKept /\ \A l : Slot(leaves, l)' = Slot(leaves, l)
  BY <1>1, <1>9 DEF LeavesKept
<1>11. Sweeping'
  BY <1>0, <1>1, <1>9 DEF Sweeping
<1> QED BY <1>1, <1>2, <1>8, <1>9, <1>10, <1>11, SweepStutters

(* The climb ends, and the leaf that showed no more goes *)
LEMMA UnlinkLeafRefines ==
  ASSUME RInv, UnlinkLeaf
  PROVE  RInv' /\ [Abstract!Next]_(Abstract!tvars)
<1>0. IInv /\ Sweeping /\ ForestOK
  BY RParts
<1>1. /\ pc = "unlink" /\ pc' = "retain" /\ idx \in Nat /\ SlabContains(leaves, idx)
      /\ leaves' = SlabRemove(leaves, idx) /\ idx' = idx + 1
      /\ UNCHANGED <<start, edges, args, taken>>
  BY <1>0 DEF UnlinkLeaf, IInv, LoopOK, TypeOK
<1>2. IInv' /\ ForestOK'
  BY <1>0, UnlinkLeafKeeps, ForestIsOK, PTL
<1>3. /\ \A i \in Int : SlabContains(leaves', i) <=> (i # idx /\ SlabContains(leaves, i))
      /\ \A i \in Int : i # idx => Slot(leaves', i) = Slot(leaves, i)
      /\ Len(leaves'.data) = Len(leaves.data)
  BY <1>0, <1>1, SlabRemoval DEF IInv, TypeOK
<1>4. \A i \in Int : SlabContains(inner, i)' =>
        /\ SlabContains(inner, i) /\ Slot(inner, i)'.call = Slot(inner, i).call
        /\ Slot(inner, i)'.parent = Slot(inner, i).parent
  <2>1. CASE inner' = inner
    BY <2>1
  <2>2. CASE /\ cursor # None
             /\ inner' = SlabUpdate(inner, cursor, OneFewer(Slot(inner, cursor)))
    <3>1. /\ cursor \in Int /\ SlabContains(inner, cursor)
          /\ Slot(inner, cursor) \in InnerNode
          /\ Slot(inner, cursor).children > 1
      BY <1>0, <1>1, <2>2, InnerType DEF UnlinkLeaf, IInv, LoopOK, TypeOK
    <3>2. /\ OneFewer(Slot(inner, cursor)) \in InnerNode
          /\ OneFewer(Slot(inner, cursor)).parent = Slot(inner, cursor).parent
          /\ OneFewer(Slot(inner, cursor)).call = Slot(inner, cursor).call
      BY <3>1 DEF OneFewer, InnerNode
    <3>3. /\ \A i \in Int : SlabContains(inner', i) <=> SlabContains(inner, i)
          /\ Slot(inner', cursor) = OneFewer(Slot(inner, cursor))
          /\ \A i \in Int : i # cursor => Slot(inner', i) = Slot(inner, i)
      BY <1>0, <2>2, <3>1, <3>2, NoneAssumption, SlabUpdating DEF IInv, TypeOK
    <3>4. \A i \in Int : Slot(inner, i)' = Slot(inner', i)
      BY DEF Slot
    <3> QED BY <3>2, <3>3, <3>4
  <2> QED BY <2>1, <2>2 DEF UnlinkLeaf
<1>5. \A n \in Int : LiveNode(n)' => LiveNode(n)
  <2>1. \A n \in Int : LeafId(n) \in Int /\ (LeafId(n) = idx <=> n = NodeLeaf(idx))
    BY <1>1 DEF LeafId, NodeLeaf
  <2>2. NodeLeaf(idx) < 0
    BY <1>1 DEF NodeLeaf
  <2>3. \A n \in Int : ExistsNode(n)' => (ExistsNode(n) /\ n # NodeLeaf(idx))
    BY <1>3, <1>4, <2>1, <2>2 DEF ExistsNode, IsLeaf
  <2> QED BY <1>1, <2>3 DEF LiveNode, Unlinking
<1>6. ASSUME NEW n \in Int, LiveNode(n)'
      PROVE  ParentOf(n)' = ParentOf(n)
  <2>1. ExistsNode(n)' /\ LiveNode(n)
    BY <1>5, <1>6 DEF LiveNode
  <2>2. CASE n < 0
    <3>1. LeafId(n) \in Int /\ SlabContains(leaves', LeafId(n))
      BY <2>1, <2>2 DEF LeafId, ExistsNode, IsLeaf
    <3>2. Slot(leaves, LeafId(n))' = Slot(leaves, LeafId(n))
      BY <1>3, <3>1 DEF Slot
    <3> QED BY <2>2, <3>2 DEF ParentOf, IsLeaf, LeafId
  <2>3. CASE ~(n < 0)
    BY <1>4, <2>1, <2>3 DEF ParentOf, ExistsNode, IsLeaf
  <2> QED BY <2>2, <2>3
<1>7. \A i \in LiveInner' : i \in LiveInner /\ Slot(inner, i)'.call = Slot(inner, i).call
  <2> SUFFICES ASSUME NEW i \in LiveInner'
               PROVE  i \in LiveInner /\ Slot(inner, i)'.call = Slot(inner, i).call
    OBVIOUS
  <2>1. i \in Int /\ SlabContains(inner, i)'
    BY DEF LiveInner, SlabContains
  <2>2. SlabContains(inner, i) /\ Slot(inner, i)'.call = Slot(inner, i).call
    BY <1>4, <2>1
  <2> QED BY <2>1, <2>2 DEF LiveInner, SlabContains
<1>8. Shrinks
  <2>1. \A n \in Nested' : n \in Nested /\ ParentOf(n)' = ParentOf(n)
    BY <1>0, <1>2, <1>5, <1>6 DEF ForestOK
  <2> QED BY <1>1, <1>7, <2>1 DEF Shrinks
<1>9. Retaining /\ Retaining' /\ Slot(leaves, idx).value \notin args.keep
  BY <1>0, <1>1 DEF Retaining, Sweeping
<1>10. \A l \in Int : l # idx => Slot(leaves, l)' = Slot(leaves, l)
  BY <1>3 DEF Slot
<1>11. LeavesKept' = LeavesKept
  <2>1. LeavesKept = {l \in 0 .. Len(leaves.data) - 1 :
                        SlabContains(leaves, l) /\ Slot(leaves, l).value \in args.keep}
    BY <1>9 DEF LeavesKept
  <2>2. LeavesKept' = {l \in 0 .. Len(leaves.data) - 1 :
                         SlabContains(leaves', l) /\ Slot(leaves, l)'.value \in args.keep}
    BY <1>1, <1>3, <1>9 DEF LeavesKept
  <2>3. \A l \in 0 .. Len(leaves.data) - 1 :
          /\ SlabContains(leaves', l) /\ Slot(leaves, l)'.value \in args.keep
          <=> /\ SlabContains(leaves, l) /\ Slot(leaves, l).value \in args.keep
    BY <1>3, <1>9, <1>10
  <2> QED BY <2>1, <2>2, <2>3
<1>12. \A l \in LeavesKept' : Slot(leaves, l)'.value = Slot(leaves, l).value
  <2>1. \A l \in LeavesKept : l \in Int /\ l # idx
    BY <1>9 DEF LeavesKept
  <2> QED BY <1>10, <1>11, <2>1
<1>13. Sweeping'
  <2>1. ASSUME NEW l \in 0 .. idx, SlabContains(leaves', l)
        PROVE  Slot(leaves, l)'.value \in args.keep
    <3>1. l # idx /\ SlabContains(leaves, l) /\ l \in 0 .. idx - 1
      BY <1>1, <1>3, <2>1
    <3> QED BY <1>0, <1>9, <1>10, <3>1 DEF Sweeping
  <2>2. 0 .. idx' - 1 = 0 .. idx
    BY <1>1
  <2> QED BY <1>1, <1>9, <2>1, <2>2 DEF Sweeping
<1> QED BY <1>1, <1>2, <1>8, <1>9, <1>11, <1>12, <1>13, SweepStutters

(* The last leaf scanned, retain forgets what led to removed nodes *)
LEMMA RetainPruneRefines ==
  ASSUME RInv, RetainPrune
  PROVE  RInv' /\ [Abstract!Next]_(Abstract!tvars)
<1>0. IInv /\ Sweeping /\ ForestOK
  BY RParts
<1>1. /\ pc = "retain" /\ pc' = "done" /\ idx >= Len(leaves.data)
      /\ result' = "Unit" /\ args' = args /\ taken' = {} /\ idx' = 0
      /\ UNCHANGED <<inner, leaves>>
      /\ edges' = [p \in {q \in DOMAIN edges : ExistsNode(edges[q])} |-> edges[p]]
      /\ start' = [k \in Keys |->
                     IF start[k] # None /\ ExistsNode(start[k]) THEN start[k] ELSE None]
  BY DEF RetainPrune, Finish
<1>2. IInv'
  BY <1>0, RetainPruneKeeps
<1>3. Nested' = Nested /\ LiveInner' = LiveInner
  BY <1>1 DEF Nested, NodeNames, LiveNode, ExistsNode, Unlinking, LiveInner
<1>4. \A n : ParentOf(n)' = ParentOf(n)
  BY <1>1 DEF ParentOf
<1>5. \A n \in Int : n \in Nested <=> ExistsNode(n)
  BY <1>0, <1>1 DEF ForestOK, LiveNode, Unlinking
<1>6. Shrinks
  <2>1. \A e \in DOMAIN edges : edges[e] \in Int
    BY <1>0, EdgeTypes DEF IInv
  <2>2. \A e \in DOMAIN edges : edges[e] \in Nested =>
          e \in DOMAIN edges' /\ edges'[e] = edges[e]
    BY <1>1, <1>5, <2>1
  <2>3. \A k \in Keys : start'[k] = start[k] \/ (start'[k] = None /\ start[k] \notin Nested)
    BY <1>0, <1>1, <1>5, NoneAssumption DEF IInv, TypeOK, ForestOK
  <2>4. \A i \in LiveInner' : i \in LiveInner /\ Slot(inner, i)'.call = Slot(inner, i).call
    BY <1>1, <1>3
  <2>5. \A n \in Nested' : n \in Nested /\ ParentOf(n)' = ParentOf(n)
    BY <1>3, <1>4
  <2> QED BY <1>3, <2>2, <2>3, <2>4, <2>5 DEF Shrinks
<1>7. Sweeping'
  BY <1>1 DEF Sweeping, Retaining
<1>8. LeavesKept' = LeavesKept
  <2>1. idx \in Nat /\ Len(leaves.data) \in Nat
    BY <1>0 DEF IInv, TypeOK, SlabOK, SlabType
  <2>2. \A l \in 0 .. Len(leaves.data) - 1 :
          SlabContains(leaves, l) => Slot(leaves, l).value \in args.keep
    BY <1>0, <1>1, <2>1 DEF Sweeping, Retaining
  <2>3. LeavesKept = {l \in 0 .. Len(leaves.data) - 1 : SlabContains(leaves, l)}
    BY <1>1, <2>2 DEF LeavesKept
  <2>4. LeavesKept' = {l \in 0 .. Len(leaves.data) - 1 : SlabContains(leaves, l)}
    BY <1>1 DEF LeavesKept, Retaining
  <2> QED BY <2>3, <2>4
<1>9. \A l \in LeavesKept' : Slot(leaves, l)'.value = Slot(leaves, l).value
  BY <1>1
<1>10. RInv' /\ Entries' = {Shown(l) : l \in LeavesKept'}
  BY <1>1, <1>2, <1>6, <1>7, <1>9, WhatStays
<1>11. Entries' = Entries
  BY <1>8, <1>10, EntriesShown
<1>12. Call' = Call
  BY <1>1 DEF Call, Retaining
<1> QED BY <1>10, <1>11, <1>12, Stutters

(* The caller has the result *)
LEMMA ReturnRefines ==
  ASSUME RInv, Return
  PROVE  RInv' /\ [Abstract!Next]_(Abstract!tvars)
<1>0. IInv /\ Sweeping /\ Walking
  BY RParts
<1>1. /\ pc = "done" /\ pc' = "idle" /\ UNCHANGED treeVars /\ UNCHANGED <<taken, idx>>
  BY DEF Return, loopVars
<1>2. IInv'
  BY <1>0, ReturnKeeps
<1>3. ~Retaining /\ ~Retaining' /\ idx' = 0 /\ taken' = {}
  BY <1>0, <1>1 DEF Retaining, Sweeping, Walking
<1>4. Entries' = Entries /\ Trailed' /\ Rooted' /\ Sweeping'
  BY <1>1, <1>2, <1>3, SameEntries
<1>5. Walking' /\ Getting' /\ Appending'
  BY <1>1, <1>3 DEF Walking, Getting, Appending
<1>6. Call' = None
  BY <1>1 DEF Call, Retaining
<1>7. RInv'
  BY <1>2, <1>4, <1>5 DEF RInv
<1>8. CASE Call = None
  BY <1>4, <1>6, <1>7, <1>8, Stutters
<1>9. CASE Call # None
  <2>1. Abstract!Return
    BY <1>4, <1>6, <1>9 DEF Abstract!Return
  <2> QED BY <1>7, <2>1 DEF Abstract!Next
<1> QED BY <1>8, <1>9

(* There are no entries at first *)
LEMMA InitRefines ==
  ASSUME Init
  PROVE  RInv /\ Abstract!Init
<1>1. IInv
  BY InitIInv
<1>2. /\ leaves = EmptySlab /\ inner = EmptySlab /\ start = [k \in Keys |-> None]
      /\ pc = "idle" /\ taken = {} /\ idx = 0
  BY DEF Init
<1>3. Len(leaves.data) = 0 /\ Len(inner.data) = 0
  BY <1>2 DEF EmptySlab
<1>4. Nested = {} /\ LiveInner = {} /\ LeavesKept = {}
  <2>1. NodeNames = {}
    BY <1>3 DEF NodeNames
  <2> QED BY <1>3, <2>1 DEF Nested, LiveInner, LeavesKept
<1>5. Trailed
  BY <1>4 DEF Trailed
<1>6. Rooted
  BY <1>2, <1>4 DEF Rooted
<1>7. Walking /\ Getting /\ Appending /\ Sweeping
  BY <1>2 DEF Walking, Getting, Appending, Sweeping, Retaining
<1>8. Entries = {} /\ Call = None
  BY <1>2, <1>4, EntriesAre DEF Call, Retaining
<1> QED BY <1>1, <1>5, <1>6, <1>7, <1>8 DEF RInv, Abstract!Init

(* A step that changes nothing shows nothing *)
LEMMA StutterRefines ==
  ASSUME RInv, UNCHANGED vars
  PROVE  RInv' /\ [Abstract!Next]_(Abstract!tvars)
<1>0. /\ IInv /\ Trailed /\ Rooted /\ Sweeping /\ Walking /\ Getting /\ Appending
  BY RParts
<1>1. IInv'
  BY <1>0, StutterKeeps
<1>2. Forest' = Forest /\ Nested' = Nested /\ LiveInner' = LiveInner
  BY DEF vars, Forest, Nested, NodeNames, LiveNode, ExistsNode, Unlinking, LiveInner,
         ParentOf, Label
<1>3. \A n : TrailOf(n)' = TrailOf(n)
  BY <1>2 DEF TrailOf, Trails, Above
<1>4. Entries' = Entries /\ Call' = Call
  BY <1>2 DEF vars, Entries, EntryAt, KeyOf, LeavesKept, Retaining, Call
<1>5. Trailed'
  BY <1>0, <1>2 DEF vars, Trailed
<1>6. Rooted'
  BY <1>0, <1>2 DEF vars, Rooted, ParentOf
<1>7. Sweeping'
  BY <1>0 DEF vars, Sweeping, Retaining
<1>8. TrailOf(cursor)' = TrailOf(cursor)
  BY <1>2 DEF TrailOf, vars
<1>9. Walking' /\ Getting'
  BY <1>0, <1>4, <1>8 DEF vars, Walking, Getting
<1>10. Appending'
  <2>1. TrailOf(pred[1])' = TrailOf(pred[1])
    BY <1>2 DEF TrailOf, vars
  <2>2. Made' = Made /\ Shared' = Shared /\ Pending' = Pending
    BY <1>4, <2>1 DEF vars, Made, Shared, Pending
  <2> QED BY <1>0, <1>4, <2>1, <2>2 DEF vars, Appending
<1> QED BY <1>1, <1>4, <1>5, <1>6, <1>7, <1>9, <1>10, Stutters DEF RInv

(* Every step of a loop of tree.mbt is a step of the decision tree or shows *)
(* nothing                                                                  *)
LEMMA NextRefines ==
  ASSUME RInv, [Next]_vars
  PROVE  RInv' /\ [Abstract!Next]_(Abstract!tvars)
<1>1. CASE UNCHANGED vars
  BY <1>1, StutterRefines
<1>2. CASE Request
  BY <1>2, InsertCallRefines, GetCallRefines, RetainCallRefines DEF Request
<1>3. CASE Insert
  BY <1>3, WalkAlreadyExistsRefines, WalkMissingCallRefines, WalkExtractRefines,
     AppendCallRefines, AppendLeafRefines DEF Insert
<1>4. CASE Get
  BY <1>4, GetInnerRefines, GetLeafRefines, GetNothingRefines DEF Get
<1>5. CASE Retain
  BY <1>5, RetainKeepRefines, RetainDropRefines, UnlinkParentRefines, UnlinkLeafRefines,
     RetainPruneRefines DEF Retain
<1>6. CASE Return
  BY <1>6, ReturnRefines
<1> QED BY <1>1, <1>2, <1>3, <1>4, <1>5, <1>6 DEF Next, Step

(* The loops of insert, get and retain never lose their way in the tree    *)
(* they change: the node a walk is at, the path an insertion makes and the *)
(* part a retain has behind it are what the entries and the arguments say. *)
THEOREM RefinementInvariant == Spec => []RInv
<1>1. Init => RInv
  BY InitRefines
<1>2. RInv /\ [Next]_vars => RInv'
  BY NextRefines
<1> QED BY <1>1, <1>2, PTL DEF Spec

(* The slabs, edges, counters and loops of tree.mbt do what a set of       *)
(* entries does in single steps: every insert, get and retain has the      *)
(* effect and the result DecisionTree says.                                *)
THEOREM TreeImplements == Spec => ImplementsDecisionTree
<1>1. Init => Abstract!Init
  BY InitRefines
<1>2. RInv /\ [Next]_vars => [Abstract!Next]_(Abstract!tvars)
  BY NextRefines
<1> QED BY <1>1, <1>2, RefinementInvariant, PTL DEF Spec, ImplementsDecisionTree, Abstract!Spec
=============================================================================
