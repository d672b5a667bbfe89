---------------------------- MODULE CallSequence ----------------------------
(***************************************************************************)
(* The CallSequence of src/lib/constraint.mbt: an array of optional pairs, *)
(* a map from call hashes to array indices, and the cursor of next.  The   *)
(* queue it stands for is what is left in the array.                       *)
(* Array indices are 1-based here: vec[i] of the code is vec[i + 1].       *)
(***************************************************************************)
EXTENDS DecisionPaths

CONSTANTS
  Calls,
  Rets,
  CallHash,   \* call |-> its hash
  None

ASSUME HashAssumption ==
  /\ DOMAIN CallHash = Calls
  /\ \A c, d \in Calls : CallHash[c] = CallHash[d] => c = d

ASSUME NoneAssumption == None \notin [call : Calls, ret : Rets]

VARIABLES
  vec,      \* the pairs, None once consumed
  map,      \* call hash |-> index in vec
  cursor,   \* next has consumed everything before it
  reply     \* what the last operation returned

svars == <<vec, map, cursor, reply>>

Init == vec = <<>> /\ map = [h \in {} |-> 0] /\ cursor = 1 /\ reply = None

(* A faulty InsertNew: the map leads to the slot before the new one *)
InsertBefore(c, r) ==
  /\ CallHash[c] \notin DOMAIN map
  /\ vec' = Append(vec, [call |-> c, ret |-> r])
  /\ map' = [h \in DOMAIN map \cup {CallHash[c]} |->
               IF h = CallHash[c] THEN Len(vec) ELSE map[h]]
  /\ reply' = <<"inserted">>
  /\ UNCHANGED cursor

InsertNew(c, r) ==
  /\ CallHash[c] \notin DOMAIN map
  /\ vec' = Append(vec, [call |-> c, ret |-> r])
  /\ map' = [h \in DOMAIN map \cup {CallHash[c]} |->
               IF h = CallHash[c] THEN Len(vec) + 1 ELSE map[h]]
  /\ reply' = <<"inserted">>
  /\ UNCHANGED cursor

(* The call is known: a pair still there must have the same return hash *)
InsertKnown(c, r) ==
  /\ CallHash[c] \in DOMAIN map
  /\ LET old == vec[map[CallHash[c]]] IN
       reply' = IF old # None /\ old.ret # r THEN <<"panic">> ELSE <<"duplicate">>
  /\ UNCHANGED <<vec, map, cursor>>

(* A faulty Remaining: the cursor moves on before the first look *)
RemainingAfter == {i \in cursor + 1 .. Len(vec) : vec[i] # None}

(* The loop of next skips the slots that are empty already *)
Remaining == {i \in cursor .. Len(vec) : vec[i] # None}
FirstRemaining == CHOOSE i \in Remaining : \A j \in Remaining : i <= j

TakeNext ==
  /\ IF Remaining = {}
       THEN cursor' = Len(vec) + 1 /\ reply' = None /\ vec' = vec
       ELSE /\ cursor' = FirstRemaining
            /\ reply' = <<"pair", vec[FirstRemaining]>>
            /\ vec' = [vec EXCEPT ![FirstRemaining] = None]
  /\ UNCHANGED map

Extract(c) ==
  /\ IF CallHash[c] \in DOMAIN map
       THEN LET i == map[CallHash[c]] IN
            /\ reply' = IF vec[i] = None THEN None ELSE <<"pair", vec[i]>>
            /\ vec' = [vec EXCEPT ![i] = None]
       ELSE reply' = None /\ vec' = vec
  /\ UNCHANGED <<map, cursor>>

Next ==
  /\ reply # <<"panic">>
  /\ \/ \E c \in Calls, r \in Rets : InsertNew(c, r) \/ InsertKnown(c, r)
     \/ TakeNext
     \/ \E c \in Calls : Extract(c)

Spec == Init /\ [][Next]_svars

-----------------------------------------------------------------------------

(* The map leads each recorded call to its own slot and to no other, and   *)
(* next's cursor has left nothing behind (CallSequence::insert, next and   *)
(* extract).                                                               *)
TypeOK ==
  /\ cursor \in 1 .. Len(vec) + 1
  /\ \A c \in Calls : CallHash[c] \in DOMAIN map =>
       /\ map[CallHash[c]] \in DOMAIN vec
       /\ vec[map[CallHash[c]]] = None \/ vec[map[CallHash[c]]].call = c
  /\ \A i \in DOMAIN vec : vec[i] # None =>
       CallHash[vec[i].call] \in DOMAIN map /\ map[CallHash[vec[i].call]] = i
  /\ \A i \in 1 .. cursor - 1 : vec[i] = None

Pending == INSTANCE PendingCalls WITH
  queue <- Without(vec, {None}),
  seen  <- {c \in Calls : CallHash[c] \in DOMAIN map}

(* Whatever the order in which calls are recorded, taken in turn and taken *)
(* by hash, the array, map and cursor behave as a queue without holes:     *)
(* next never skips or repeats a call, extract never finds a consumed one. *)
ImplementsPendingCalls == Pending!Spec
=============================================================================
