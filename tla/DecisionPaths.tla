--------------------------- MODULE DecisionPaths ---------------------------
(***************************************************************************)
(* What the call tree of src/lib/tree.mbt stands for, without its nodes: a *)
(* set of entries, each with the path of (call, return hash) pairs that    *)
(* leads from the root of its key to its leaf.                             *)
(***************************************************************************)
EXTENDS Naturals, Sequences, FiniteSets, Functions

(* The pairs of path p are all among those of sequence s *)
Follows(p, s) == Range(p) \subseteq Range(s)

CallsOf(s) == {q.call : q \in Range(s)}

OfKey(entries, key) == {e \in entries : e.key = key}

Prefix(p, n) == SubSeq(p, 1, n)

(* Every path from the root of key's tree to one of its nodes *)
Nodes(entries, key) ==
  UNION {{Prefix(e.path, n) : n \in 0 .. Len(e.path)} : e \in OfKey(entries, key)}

(* The inner nodes: where each one is and the call it asks *)
Questions(entries, key) ==
  UNION {{[at |-> Prefix(e.path, n - 1), call |-> e.path[n].call] : n \in DOMAIN e.path} :
           e \in OfKey(entries, key)}

(* The questions that s gets to when it is matched against the tree *)
Reached(entries, key, s) == {x \in Questions(entries, key) : Follows(x.at, s)}

(* s answers every question on the way to an existing leaf *)
AlreadyThere(entries, key, s) ==
  \E e \in OfKey(entries, key) : Follows(e.path, s)

(* s gets to a question it has no answer for *)
LacksCall(entries, key, s) ==
  \E x \in Reached(entries, key, s) : x.call \notin CallsOf(s)

(* Where s gives a question an answer no entry gave: the path up to there  *)
(* and s's own answer.                                                     *)
Divergences(entries, key, s) ==
  (UNION {{Append(x.at, q) : q \in {r \in Range(s) : r.call = x.call}} :
            x \in Reached(entries, key, s)})
    \ Nodes(entries, key)

(* What is left of sequence s without the members of set, in order *)
Without(s, set) ==
  LET left[n \in 0 .. Len(s)] ==
        IF n = 0 THEN <<>>
        ELSE IF s[n] \in set THEN left[n - 1] ELSE Append(left[n - 1], s[n])
  IN left[Len(s)]

(* The path s gets: the shared questions in the order of the tree, then    *)
(* the remaining calls of s in the order they were made.                   *)
NewPath(entries, key, s) ==
  IF OfKey(entries, key) = {} THEN s
  ELSE LET shared == CHOOSE p \in Divergences(entries, key, s) : TRUE
       IN shared \o Without(s, Range(shared))

(* A faulty Matches: the last question goes unchecked *)
MatchesAllButLast(e, oracle) ==
  \A n \in 1 .. Len(e.path) - 1 : oracle[e.path[n].call] = e.path[n].ret

(* Every recorded question gets the recorded answer from the oracle *)
Matches(e, oracle) == \A q \in Range(e.path) : oracle[q.call] = q.ret

Matching(entries, key, oracle) == {e \in OfKey(entries, key) : Matches(e, oracle)}

(* Two paths part at a question they answer differently *)
Diverge(p, q) ==
  \E n \in DOMAIN p \cap DOMAIN q :
    /\ Prefix(p, n - 1) = Prefix(q, n - 1)
    /\ p[n].call = q[n].call
    /\ p[n].ret # q[n].ret
=============================================================================
