------------------------- MODULE CallSequenceProofs -------------------------
(***************************************************************************)
(* The call sequence keeps its type invariant whatever calls are recorded  *)
(* and taken, in whatever order, and so is a queue without holes.  The     *)
(* invariant is inductive once the array is known to be a sequence and the *)
(* map to have a domain.  Where the calls are those of a generated enum,   *)
(* their bytes tell them apart, up to characters beyond U+FFFF.            *)
(***************************************************************************)
EXTENDS EncodedCalls, DecisionPathTheorems

Slot == [call : Calls, ret : Rets] \cup {None}

IInv == vec \in Seq(Slot) /\ TypeOK

(* Nothing is recorded yet *)
LEMMA InitIInv == Init => IInv
  BY DEF Init, IInv, TypeOK

(* What is recorded under a new hash is the call of that hash alone        *)
LEMMA InsertNewIInv ==
  ASSUME IInv, NEW c \in Calls, NEW r \in Rets, InsertNew(c, r)
  PROVE  IInv'
<1> DEFINE pair == [call |-> c, ret |-> r]
<1>1. vec' = Append(vec, pair) /\ cursor' = cursor
  BY DEF InsertNew
<1>2. pair \in Slot
  BY DEF Slot
<1>3. vec' \in Seq(Slot) /\ Len(vec') = Len(vec) + 1
  BY <1>1, <1>2 DEF IInv
<1>4. \A i \in DOMAIN vec : vec'[i] = vec[i]
  BY <1>1, <1>2 DEF IInv
<1>5. vec'[Len(vec) + 1] = pair
  BY <1>1, <1>2 DEF IInv
<1>6. cursor' \in 1 .. Len(vec') + 1
  BY <1>1, <1>3 DEF IInv, TypeOK
<1>7. ASSUME NEW d \in Calls, CallHash[d] \in DOMAIN map'
      PROVE  /\ map'[CallHash[d]] \in DOMAIN vec'
             /\ vec'[map'[CallHash[d]]] = None \/ vec'[map'[CallHash[d]]].call = d
  <2>1. DOMAIN map' = DOMAIN map \cup {CallHash[c]}
    BY DEF InsertNew
  <2>2. CASE CallHash[d] = CallHash[c]
    <3>1. d = c
      BY <2>2, HashAssumption
    <3>2. map'[CallHash[d]] = Len(vec) + 1
      BY <2>2, <2>1 DEF InsertNew
    <3> QED BY <3>1, <3>2, <1>3, <1>5 DEF IInv
  <2>3. CASE CallHash[d] # CallHash[c]
    <3>1. CallHash[d] \in DOMAIN map /\ map'[CallHash[d]] = map[CallHash[d]]
      BY <2>3, <2>1, <1>7 DEF InsertNew
    <3>2. map[CallHash[d]] \in DOMAIN vec
      BY <3>1 DEF IInv, TypeOK
    <3>3. vec'[map'[CallHash[d]]] = vec[map[CallHash[d]]]
      BY <3>1, <3>2, <1>4
    <3>4. DOMAIN vec \subseteq DOMAIN vec'
      BY <1>3 DEF IInv
    <3> QED BY <3>1, <3>2, <3>3, <3>4 DEF IInv, TypeOK
  <2> QED BY <2>2, <2>3
<1>8. \A i \in 1 .. cursor' - 1 : vec'[i] = None
  <2>1. \A i \in 1 .. cursor - 1 : i \in DOMAIN vec
    BY DEF IInv, TypeOK
  <2> QED BY <2>1, <1>1, <1>4 DEF IInv, TypeOK
<1>9. ASSUME NEW i \in DOMAIN vec', vec'[i] # None
      PROVE  CallHash[vec'[i].call] \in DOMAIN map' /\ map'[CallHash[vec'[i].call]] = i
  <2>1. DOMAIN map' = DOMAIN map \cup {CallHash[c]} /\ map'[CallHash[c]] = Len(vec) + 1
    BY DEF InsertNew
  <2>2. CASE i = Len(vec) + 1
    BY <2>1, <2>2, <1>5
  <2>3. CASE i # Len(vec) + 1
    <3>1. i \in DOMAIN vec /\ vec'[i] = vec[i]
      BY <2>3, <1>3, <1>4 DEF IInv
    <3>2. CallHash[vec[i].call] \in DOMAIN map /\ map[CallHash[vec[i].call]] = i
      BY <3>1, <1>9 DEF IInv, TypeOK
    <3>3. CallHash[vec[i].call] # CallHash[c]
      BY <3>2 DEF InsertNew
    <3> QED BY <3>1, <3>2, <3>3, <2>1 DEF InsertNew
  <2> QED BY <2>2, <2>3
<1> QED BY <1>3, <1>6, <1>7, <1>8, <1>9 DEF IInv, TypeOK

(* Taking the pair at i out of the array, and moving the cursor to k at    *)
(* most i, or nowhere                                                      *)
LEMMA TakenIInv ==
  ASSUME IInv, NEW i \in DOMAIN vec, NEW k \in 1 .. Len(vec) + 1,
         vec' = [vec EXCEPT ![i] = None], cursor' = k, map' = map,
         \A j \in 1 .. k - 1 : vec[j] = None
  PROVE  IInv'
<1>1. vec' \in Seq(Slot) /\ Len(vec') = Len(vec) /\ DOMAIN vec' = DOMAIN vec
  BY DEF IInv, Slot
<1>2. \A j \in DOMAIN vec : vec'[j] = IF j = i THEN None ELSE vec[j]
  BY DEF IInv
<1>3. \A j \in 1 .. k - 1 : j \in DOMAIN vec
  BY DEF IInv
<1>4. ASSUME NEW d \in Calls, CallHash[d] \in DOMAIN map'
      PROVE  /\ map'[CallHash[d]] \in DOMAIN vec'
             /\ vec'[map'[CallHash[d]]] = None \/ vec'[map'[CallHash[d]]].call = d
  BY <1>1, <1>2, <1>4 DEF IInv, TypeOK
<1>5. \A j \in 1 .. cursor' - 1 : vec'[j] = None
  BY <1>2, <1>3
<1>6. ASSUME NEW j \in DOMAIN vec', vec'[j] # None
      PROVE  CallHash[vec'[j].call] \in DOMAIN map' /\ map'[CallHash[vec'[j].call]] = j
  BY <1>1, <1>2, <1>6 DEF IInv, TypeOK
<1> QED BY <1>1, <1>4, <1>5, <1>6 DEF IInv, TypeOK

(* next takes the first pair that is left, or there is none *)
LEMMA TakeNextIInv ==
  ASSUME IInv, TakeNext
  PROVE  IInv'
<1>0. vec \in Seq(Slot) /\ cursor \in 1 .. Len(vec) + 1 /\ DOMAIN vec = 1 .. Len(vec)
  BY DEF IInv, TypeOK
<1>1. CASE Remaining = {}
  <2>1. \A j \in 1 .. Len(vec) : vec[j] = None
    BY <1>0, <1>1 DEF Remaining, IInv, TypeOK
  <2>2. vec' = vec /\ map' = map /\ cursor' = Len(vec) + 1
    BY <1>1 DEF TakeNext
  <2> QED BY <2>1, <2>2, <1>0 DEF IInv, TypeOK
<1>2. CASE Remaining # {}
  <2>1. \E i \in Remaining : \A j \in Remaining : i <= j
    <3>1. Remaining \subseteq Nat
      BY <1>0 DEF Remaining
    <3> QED BY <3>1, <1>2, LeastNat
  <2>2. /\ FirstRemaining \in Remaining
        /\ \A j \in Remaining : FirstRemaining <= j
    BY <2>1 DEF FirstRemaining
  <2>3. /\ FirstRemaining \in DOMAIN vec
        /\ FirstRemaining \in 1 .. Len(vec) + 1
    BY <2>2, <1>0 DEF Remaining
  <2>4. \A j \in 1 .. FirstRemaining - 1 : vec[j] = None
    BY <2>2, <2>3, <1>0 DEF Remaining, IInv, TypeOK
  <2>5. /\ vec' = [vec EXCEPT ![FirstRemaining] = None]
        /\ cursor' = FirstRemaining /\ map' = map
    BY <1>2 DEF TakeNext
  <2> QED BY <2>3, <2>4, <2>5, TakenIInv
<1> QED BY <1>1, <1>2

(* extract empties the slot the map leads to *)
LEMMA ExtractIInv ==
  ASSUME IInv, NEW c \in Calls, Extract(c)
  PROVE  IInv'
<1>1. CASE CallHash[c] \in DOMAIN map
  <2>1. map[CallHash[c]] \in DOMAIN vec
    BY <1>1 DEF IInv, TypeOK
  <2>2. vec' = [vec EXCEPT ![map[CallHash[c]]] = None] /\ cursor' = cursor /\ map' = map
    BY <1>1 DEF Extract
  <2>3. cursor \in 1 .. Len(vec) + 1 /\ \A j \in 1 .. cursor - 1 : vec[j] = None
    BY DEF IInv, TypeOK
  <2> QED BY <2>1, <2>2, <2>3, TakenIInv
<1>2. CASE CallHash[c] \notin DOMAIN map
  BY <1>2 DEF Extract, IInv, TypeOK
<1> QED BY <1>1, <1>2

(* Every operation keeps the invariant *)
LEMMA StepIInv == IInv /\ [Next]_svars => IInv'
<1> SUFFICES ASSUME IInv, [Next]_svars PROVE IInv'
  OBVIOUS
<1>1. ASSUME NEW c \in Calls, NEW r \in Rets, InsertNew(c, r) PROVE IInv'
  BY <1>1, InsertNewIInv
<1>2. ASSUME NEW c \in Calls, NEW r \in Rets, InsertKnown(c, r) PROVE IInv'
  BY <1>2 DEF InsertKnown, IInv, TypeOK
<1>3. CASE TakeNext
  BY <1>3, TakeNextIInv
<1>4. ASSUME NEW c \in Calls, Extract(c) PROVE IInv'
  BY <1>4, ExtractIInv
<1>5. CASE UNCHANGED svars
  BY <1>5 DEF svars, IInv, TypeOK
<1> QED BY <1>1, <1>2, <1>3, <1>4, <1>5 DEF Next

(* However calls are recorded, taken in turn and taken by hash, the map    *)
(* leads each recorded call to its own slot and the cursor of next has     *)
(* left nothing behind (CallSequence::insert, next and extract).           *)
THEOREM TypeCorrect == Spec => []TypeOK
<1>1. IInv => TypeOK
  BY DEF IInv
<1> QED BY <1>1, InitIInv, StepIInv, PTL DEF Spec

-----------------------------------------------------------------------------
(* The queue. *)

Queue == Without(vec, {None})

(* The operators that PendingCalls is written with are those of the tree *)
LEMMA SameOperators ==
  /\ \A s : Pending!Range(s) = Range(s)
  /\ \A s, set : Pending!Without(s, set) = Without(s, set)
  BY DEF Pending!Range, Range, Pending!Without, Without

(* What is in the queue: the pairs that are left *)
LEMMA QueueParts ==
  ASSUME IInv
  PROVE  /\ vec \in Seq(Range(vec)) /\ DOMAIN vec = 1 .. Len(vec) /\ Len(vec) \in Nat
         /\ Queue \in Seq(Range(Queue))
         /\ Range(Queue) = Range(vec) \ {None}
<1>1. vec \in Seq(Slot) /\ Len(vec) \in Nat /\ DOMAIN vec = 1 .. Len(vec)
  BY DEF IInv
<1>2. vec = [i \in 1 .. Len(vec) |-> vec[i]]
  BY <1>1
<1>3. vec \in Seq(Range(vec))
  BY <1>1, <1>2, FunctionIsSeq
<1>4. Queue \in Seq(Range(Queue)) /\ Range(Queue) = Range(vec) \ {None}
  BY <1>3, WithoutKeeps DEF Queue
<1> QED BY <1>1, <1>3, <1>4

(* A call has one pair in the queue at most, and the map leads to it *)
LEMMA QueuedOnce ==
  ASSUME IInv, NEW c \in Calls
  PROVE  /\ CallHash[c] \notin DOMAIN map => Pending!Of(c) = {}
         /\ CallHash[c] \in DOMAIN map =>
              Pending!Of(c) = {vec[map[CallHash[c]]]} \ {None}
<1>1. ASSUME NEW p \in Pending!Of(c)
      PROVE  CallHash[c] \in DOMAIN map /\ p = vec[map[CallHash[c]]] /\ p # None
  <2>1. p \in Range(vec) \ {None} /\ p.call = c
    BY QueueParts, SameOperators DEF Pending!Of, Queue
  <2>2. PICK i \in DOMAIN vec : vec[i] = p
    BY <2>1 DEF Range
  <2> QED BY <2>1, <2>2 DEF IInv, TypeOK
<1>2. ASSUME CallHash[c] \in DOMAIN map, vec[map[CallHash[c]]] # None
      PROVE  vec[map[CallHash[c]]] \in Pending!Of(c)
  <2>1. map[CallHash[c]] \in DOMAIN vec /\ vec[map[CallHash[c]]].call = c
    BY <1>2 DEF IInv, TypeOK
  <2>2. vec[map[CallHash[c]]] \in Range(vec)
    BY <2>1 DEF Range
  <2> QED BY <1>2, <2>1, <2>2, QueueParts, SameOperators DEF Pending!Of, Queue
<1> QED BY <1>1, <1>2

(* Emptying a slot takes its pair out of the queue, and nothing else *)
LEMMA QueueTaken ==
  ASSUME IInv, NEW i \in DOMAIN vec, vec[i] # None, vec' = [vec EXCEPT ![i] = None]
  PROVE  Queue' = Without(Queue, {vec[i]})
<1>1. vec \in Seq(Range(vec)) /\ DOMAIN vec = 1 .. Len(vec) /\ Len(vec) \in Nat
  BY QueueParts
<1>2. \A j \in DOMAIN vec : vec'[j] = IF j = i THEN None ELSE vec[j]
  OBVIOUS
<1>3. vec' = [j \in 1 .. Len(vec) |-> vec'[j]]
  BY <1>1
<1>4. vec' \in Seq(Range(vec')) /\ Len(vec') = Len(vec)
  BY <1>1, <1>3, FunctionIsSeq
<1>5. \A j \in DOMAIN vec : vec[j] = vec[i] => j = i
  BY DEF IInv, TypeOK
<1>6. \A j \in 1 .. Len(vec') :
        /\ vec'[j] \in {None} <=> vec[j] \in {None} \cup {vec[i]}
        /\ vec'[j] \notin {None} => vec'[j] = vec[j]
  BY <1>1, <1>2, <1>4, <1>5
<1>7. Without(vec', {None}) = Without(vec, {None} \cup {vec[i]})
  <2> DEFINE new == vec'
             A == {None}
             B == {None} \cup {vec[i]}
  <2>1. \A j \in 1 .. Len(new) :
          (new[j] \in A <=> vec[j] \in B) /\ (new[j] \notin A => new[j] = vec[j])
    BY <1>6
  <2>2. new \in Seq(Range(new)) /\ Len(new) = Len(vec)
    BY <1>4
  <2> HIDE DEF new, A, B
  <2>3. Without(new, A) = Without(vec, B)
    BY <1>1, <2>1, <2>2, WithoutAlike
  <2> QED BY <2>3 DEF new, A, B
<1>8. Without(Without(vec, {None}), {vec[i]}) = Without(vec, {None} \cup {vec[i]})
  BY <1>1, WithoutTwice
<1> QED BY <1>7, <1>8 DEF Queue

(* insert of a call that is new *)
LEMMA InsertNewQueues ==
  ASSUME IInv, NEW c \in Calls, NEW r \in Rets, InsertNew(c, r)
  PROVE  Pending!Insert(c, r)
<1> DEFINE pair == [call |-> c, ret |-> r]
<1>1. CallHash[c] \notin DOMAIN map /\ vec' = Append(vec, pair) /\ reply' = <<"inserted">>
  BY DEF InsertNew
<1>2. DOMAIN map' = DOMAIN map \cup {CallHash[c]}
  BY DEF InsertNew
<1>3. pair \notin {None}
  BY NoneAssumption
<1>4. Without(Append(vec, pair), {None}) = Append(Without(vec, {None}), pair)
  <2> HIDE DEF pair
  <2> QED BY <1>3, QueueParts, WithoutAppended
<1>5. {d \in Calls : CallHash[d] \in DOMAIN map'} = {d \in Calls : CallHash[d] \in DOMAIN map} \cup {c}
  BY <1>2, HashAssumption
<1>6. Pending!Of(c) = {}
  BY <1>1, QueuedOnce
<1> QED BY <1>1, <1>4, <1>5, <1>6 DEF Pending!Insert

(* insert of a call that is known, whether it is still queued or not *)
LEMMA InsertKnownQueues ==
  ASSUME IInv, NEW c \in Calls, NEW r \in Rets, InsertKnown(c, r)
  PROVE  Pending!Insert(c, r)
<1> DEFINE old == vec[map[CallHash[c]]]
<1>1. CallHash[c] \in DOMAIN map /\ vec' = vec /\ map' = map
  BY DEF InsertKnown
<1>2. reply' = IF old # None /\ old.ret # r THEN <<"panic">> ELSE <<"duplicate">>
  BY DEF InsertKnown
<1>3. Pending!Of(c) = {old} \ {None}
  BY <1>1, QueuedOnce
<1>4. (\E p \in Pending!Of(c) : p.ret # r) <=> (old # None /\ old.ret # r)
  <2> HIDE DEF old
  <2> QED BY <1>3
<1> HIDE DEF old
<1> QED BY <1>1, <1>2, <1>4 DEF Pending!Insert

(* next: the head of the queue, or nothing when all slots are empty *)
LEMMA TakeNextQueues ==
  ASSUME IInv, TakeNext
  PROVE  Pending!TakeNext \/ (Queue = <<>> /\ Pending!Nothing)
<1>1. vec \in Seq(Range(vec)) /\ DOMAIN vec = 1 .. Len(vec) /\ Len(vec) \in Nat
  BY QueueParts
<1>2. cursor \in 1 .. Len(vec) + 1 /\ \A i \in 1 .. cursor - 1 : vec[i] = None
  BY DEF IInv, TypeOK
<1>3. CASE Remaining = {}
  <2>1. \A j \in 1 .. Len(vec) : vec[j] = None
    BY <1>1, <1>2, <1>3 DEF Remaining
  <2>2. Range(Queue) = {}
    BY <2>1, <1>1, QueueParts DEF Range
  <2>3. Queue = <<>>
    <3>1. Queue \in Seq(Range(Queue))
      BY QueueParts
    <3> QED BY <3>1, <2>2
  <2> QED BY <1>3, <2>3 DEF TakeNext, Pending!Nothing
<1>4. CASE Remaining # {}
  <2>1. \E i \in Remaining : \A j \in Remaining : i <= j
    <3>1. Remaining \subseteq Nat
      BY <1>1, <1>2 DEF Remaining
    <3> QED BY <3>1, <1>4, LeastNat
  <2> DEFINE i == FirstRemaining
  <2>2. i \in Remaining /\ \A j \in Remaining : i <= j
    BY <2>1 DEF FirstRemaining
  <2>3. /\ vec' = [vec EXCEPT ![i] = None] /\ reply' = <<"pair", vec[i]>> /\ map' = map
    BY <1>4 DEF TakeNext
  <2> HIDE DEF i
  <2>4. i \in 1 .. Len(vec) /\ vec[i] \notin {None}
    BY <2>2, <1>1, <1>2 DEF Remaining
  <2>5. \A h \in 1 .. i - 1 : vec[h] \in {None}
    BY <2>2, <2>4, <1>1, <1>2 DEF Remaining
  <2>6. Queue # <<>> /\ Head(Queue) = vec[i]
    BY <2>4, <2>5, <1>1, WithoutFirst DEF Queue
  <2>7. Queue' = Without(Queue, {vec[i]})
    BY <2>3, <2>4, <1>1, QueueTaken
  <2> QED BY <2>3, <2>6, <2>7, SameOperators DEF Pending!TakeNext, Pending!Take, Queue
<1> QED BY <1>3, <1>4

(* extract: the pair of the call, or nothing when it is gone or never was *)
LEMMA ExtractQueues ==
  ASSUME IInv, NEW c \in Calls, Extract(c)
  PROVE  Pending!TakeCall(c) \/ (Pending!Of(c) = {} /\ Pending!Nothing)
<1>1. CASE CallHash[c] \notin DOMAIN map
  <2>1. Pending!Of(c) = {}
    BY <1>1, QueuedOnce
  <2> QED BY <1>1, <2>1 DEF Extract, Pending!Nothing
<1>2. CASE CallHash[c] \in DOMAIN map
  <2> DEFINE i == map[CallHash[c]]
  <2>1. /\ reply' = IF vec[i] = None THEN None ELSE <<"pair", vec[i]>>
        /\ vec' = [vec EXCEPT ![i] = None] /\ map' = map
    BY <1>2 DEF Extract
  <2>2. i \in DOMAIN vec
    BY <1>2 DEF IInv, TypeOK
  <2>3. Pending!Of(c) = {vec[i]} \ {None}
    BY <1>2, QueuedOnce
  <2> HIDE DEF i
  <2>4. CASE vec[i] = None
    <3>1. vec' = vec
      BY <2>1, <2>2, <2>4, QueueParts
    <3> QED BY <2>1, <2>3, <2>4, <3>1 DEF Pending!Nothing
  <2>5. CASE vec[i] # None
    <3>1. Queue' = Without(Queue, {vec[i]})
      BY <2>1, <2>2, <2>5, QueueTaken
    <3>2. Pending!Take(vec[i])
      BY <2>1, <2>5, <3>1, SameOperators DEF Pending!Take, Queue
    <3>3. vec[i] \in Pending!Of(c)
      BY <2>3, <2>5
    <3> QED BY <3>2, <3>3 DEF Pending!TakeCall
  <2> QED BY <2>4, <2>5
<1> QED BY <1>1, <1>2

(* However calls are recorded, taken in turn and taken by hash, the array, *)
(* the map and the cursor of src/lib/constraint.mbt are a queue without    *)
(* holes: next takes the oldest call left, extract the call it is asked    *)
(* for just when it is left, and a repeated call is not queued again.      *)
THEOREM QueueImplemented == Spec => ImplementsPendingCalls
<1>1. Init => Pending!Init
  <2> SUFFICES ASSUME Init PROVE Pending!Init
    OBVIOUS
  <2>1. IInv /\ vec = <<>> /\ DOMAIN map = {} /\ reply = None
    BY InitIInv DEF Init
  <2>2. Queue \in Seq(Range(Queue)) /\ Range(Queue) = {}
    BY <2>1, QueueParts DEF Range
  <2>3. Queue = <<>>
    BY <2>2
  <2> QED BY <2>1, <2>3 DEF Pending!Init, Queue
<1>2. IInv /\ [Next]_svars => [Pending!Next]_(Pending!qvars)
  <2> SUFFICES ASSUME IInv, [Next]_svars PROVE [Pending!Next]_(Pending!qvars)
    OBVIOUS
  <2>1. CASE UNCHANGED svars
    BY <2>1 DEF svars, Pending!qvars
  <2>2. CASE Next
    <3>1. reply # <<"panic">>
      BY <2>2 DEF Next
    <3>2. ASSUME NEW c \in Calls, NEW r \in Rets, InsertNew(c, r) \/ InsertKnown(c, r)
          PROVE  Pending!Next
      <4>1. Pending!Insert(c, r)
        BY <3>2, InsertNewQueues, InsertKnownQueues
      <4> QED BY <3>1, <4>1 DEF Pending!Next
    <3>3. CASE TakeNext
      <4>1. Pending!TakeNext \/ (Queue = <<>> /\ Pending!Nothing)
        BY <3>3, TakeNextQueues
      <4> QED BY <3>1, <4>1 DEF Pending!Next, Queue
    <3>4. ASSUME NEW c \in Calls, Extract(c) PROVE Pending!Next
      <4>1. Pending!TakeCall(c) \/ (Pending!Of(c) = {} /\ Pending!Nothing)
        BY <3>4, ExtractQueues
      <4> QED BY <3>1, <4>1 DEF Pending!Next
    <3> QED BY <2>2, <3>2, <3>3, <3>4 DEF Next
  <2> QED BY <2>1, <2>2
<1> QED BY <1>1, <1>2, InitIInv, StepIInv, PTL DEF Spec, ImplementsPendingCalls, Pending!Spec

-----------------------------------------------------------------------------
(* What a reader of the bytes can tell.                                    *)

Byte == 0 .. 255

(* The bytes of w after the first p start with u *)
At(w, p, u) == \A j \in 1 .. Len(u) : w[p + j] = u[j]

(* Bytes behind others *)
LEMMA After ==
  ASSUME NEW u \in Seq(Byte), NEW v \in Seq(Byte)
  PROVE  /\ u \o v \in Seq(Byte) /\ Len(u \o v) = Len(u) + Len(v)
         /\ At(u \o v, 0, u) /\ At(u \o v, Len(u), v)
         /\ \A j \in 1 .. Len(u) : (u \o v)[j] = u[j]
         /\ \A j \in 1 .. Len(v) : (u \o v)[Len(u) + j] = v[j]
<1>1. u \o v \in Seq(Byte) /\ Len(u \o v) = Len(u) + Len(v) /\ Len(u) \in Nat /\ Len(v) \in Nat
  BY ConcatProperties
<1>2. ASSUME NEW j \in 1 .. Len(u) PROVE (u \o v)[0 + j] = u[j] /\ (u \o v)[j] = u[j]
  BY <1>1, ConcatProperties
<1>3. ASSUME NEW j \in 1 .. Len(v) PROVE (u \o v)[Len(u) + j] = v[j]
  <2>1. Len(u) + j \in Len(u) + 1 .. Len(u) + Len(v) /\ (Len(u) + j) - Len(u) = j
    BY <1>1
  <2>2. \A i \in Len(u) + 1 .. Len(u) + Len(v) : (u \o v)[i] = v[i - Len(u)]
    BY ConcatProperties
  <2> QED BY <2>1, <2>2
<1> QED BY <1>1, <1>2, <1>3 DEF At

(* A place in a piece is a place in what the piece is part of *)
LEMMA Inside ==
  ASSUME NEW a \in Nat, NEW k \in Nat, NEW b \in Nat, a + k <= b, NEW j \in 1 .. k
  PROVE  a + j \in 1 .. b
OBVIOUS

(* The pieces of a joined sequence, one after the other *)
LEMMA PiecesPlaced ==
  ASSUME NEW s, s \in Seq(Seq(Byte))
  PROVE  /\ FlattenSeq(s) \in Seq(Byte)
         /\ \E off \in [0 .. Len(s) -> Nat] :
              /\ off[0] = 0 /\ off[Len(s)] = Len(FlattenSeq(s))
              /\ \A i \in 1 .. Len(s) : off[i] = off[i - 1] + Len(s[i])
              /\ \A i \in 1 .. Len(s) : off[i] <= Len(FlattenSeq(s))
              /\ \A i \in 1 .. Len(s) : At(FlattenSeq(s), off[i - 1], s[i])
<1> DEFINE n == Len(s)
           Upto(i, f) == f = [m \in 1 .. i |-> IF m = 1 THEN s[m] ELSE f[m - 1] \o s[m]]
           Placed(i, u, off) ==
             /\ u \in Seq(Byte) /\ off \in [0 .. i -> Nat]
             /\ off[0] = 0 /\ off[i] = Len(u)
             /\ \A m \in 1 .. i : off[m] = off[m - 1] + Len(s[m])
             /\ \A m \in 1 .. i : off[m] <= Len(u)
             /\ \A m \in 1 .. i : At(u, off[m - 1], s[m])
           P == {i \in 0 .. n : \E f : Upto(i, f) /\ \E off : Placed(i, IF i = 0 THEN <<>> ELSE f[i], off)}
<1>1. n \in Nat /\ \A i \in 1 .. n : s[i] \in Seq(Byte) /\ Len(s[i]) \in Nat
  OBVIOUS
<1>2. 0 \in P
  <2> DEFINE f == [m \in 1 .. 0 |-> IF m = 1 THEN s[m] ELSE <<>>]
             off == [m \in 0 .. 0 |-> 0]
  <2>1. Upto(0, f)
    OBVIOUS
  <2>2. off \in [0 .. 0 -> Nat] /\ off[0] = 0
    OBVIOUS
  <2>3. Placed(0, <<>>, off)
    <3> HIDE DEF off
    <3> QED BY <2>2
  <2> HIDE DEF f, off, Upto, Placed
  <2>4. 0 \in 0 .. n
    BY <1>1
  <2> QED BY <2>1, <2>3, <2>4
<1>3. ASSUME NEW i \in 0 .. n - 1, i \in P PROVE i + 1 \in P
  <2>1. PICK f, off : Upto(i, f) /\ Placed(i, IF i = 0 THEN <<>> ELSE f[i], off)
    BY <1>3
  <2> DEFINE u == IF i = 0 THEN <<>> ELSE f[i]
             v == u \o s[i + 1]
             g == [m \in 1 .. i + 1 |-> IF m = i + 1 THEN v ELSE f[m]]
             ofg == [m \in 0 .. i + 1 |-> IF m = i + 1 THEN Len(v) ELSE off[m]]
  <2>2. i + 1 \in 1 .. n /\ s[i + 1] \in Seq(Byte) /\ u \in Seq(Byte)
    BY <1>1, <2>1
  <2>3. /\ v \in Seq(Byte) /\ Len(v) = Len(u) + Len(s[i + 1])
        /\ \A j \in 1 .. Len(u) : v[j] = u[j]
        /\ \A j \in 1 .. Len(s[i + 1]) : v[Len(u) + j] = s[i + 1][j]
    BY <2>2, After
  <2>4. i = 0 => v = s[i + 1]
    BY <2>2
  <2>5. \A m \in 1 .. i : f[m] = IF m = 1 THEN s[m] ELSE f[m - 1] \o s[m]
    BY <2>1
  <2>6. g[i + 1] = v
    <3> HIDE DEF v
    <3>1. i + 1 \in 1 .. i + 1
      OBVIOUS
    <3> QED BY <3>1
  <2>7. Upto(i + 1, g)
    <3>1. \A m \in 1 .. i + 1 : g[m] = IF m = 1 THEN s[m] ELSE g[m - 1] \o s[m]
      <4> TAKE m \in 1 .. i + 1
      <4>1. CASE m = i + 1
        <5>1. CASE i = 0
          BY <4>1, <5>1, <2>4, <2>6
        <5>2. CASE i # 0
          <6>1. g[m - 1] = f[i] /\ m # 1
            BY <4>1, <5>2
          <6> QED BY <6>1, <4>1, <5>2, <2>6
        <5> QED BY <5>1, <5>2
      <4>2. CASE m # i + 1
        <5>1. m \in 1 .. i /\ g[m] = f[m]
          BY <4>2
        <5>2. m # 1 => g[m - 1] = f[m - 1]
          BY <5>1
        <5> QED BY <5>1, <5>2, <2>5
      <4> QED BY <4>1, <4>2
    <3> HIDE DEF v
    <3>2. g = [m \in 1 .. i + 1 |-> g[m]]
      OBVIOUS
    <3> HIDE DEF g
    <3> QED BY <3>1, <3>2
  <2>8. Placed(i, u, off)
    BY <2>1
  <2> HIDE DEF u, v
  <2>9. /\ ofg \in [0 .. i + 1 -> Nat] /\ ofg[i + 1] = Len(v)
        /\ \A m \in 0 .. i : ofg[m] = off[m]
    BY <2>3, <2>8
  <2> HIDE DEF ofg
  <2>10. Placed(i + 1, v, ofg)
    <3>1. ofg[0] = 0
      BY <2>8, <2>9
    <3>2. ASSUME NEW m \in 1 .. i + 1
          PROVE  /\ ofg[m] = ofg[m - 1] + Len(s[m]) /\ ofg[m] <= Len(v)
                 /\ At(v, ofg[m - 1], s[m])
      <4>1. CASE m = i + 1
        <5>1. ofg[m - 1] = Len(u) /\ ofg[m] = Len(v) /\ s[m] = s[i + 1]
          BY <4>1, <2>8, <2>9
        <5> QED BY <5>1, <2>3, <2>2 DEF At
      <4>2. CASE m # i + 1
        <5>1. m \in 1 .. i /\ m - 1 \in 0 .. i /\ m \in 0 .. i /\ m \in 1 .. n
          BY <4>2
        <5>2. ofg[m - 1] = off[m - 1] /\ ofg[m] = off[m] /\ off[m - 1] \in Nat
          BY <5>1, <2>8, <2>9
        <5>3. off[m] = off[m - 1] + Len(s[m]) /\ off[m] <= Len(u) /\ At(u, off[m - 1], s[m])
          BY <5>1, <2>8
        <5>4. Len(s[m]) \in Nat /\ Len(u) \in Nat /\ Len(s[i + 1]) \in Nat
          BY <5>1, <1>1, <2>2
        <5>5. ASSUME NEW j \in 1 .. Len(s[m]) PROVE v[off[m - 1] + j] = s[m][j]
          <6>1. off[m - 1] + j \in 1 .. Len(u)
            BY <5>2, <5>3, <5>4, Inside
          <6> QED BY <6>1, <5>3, <2>3 DEF At
        <5>6. ofg[m] <= Len(v)
          BY <5>2, <5>3, <5>4, <2>3
        <5> QED BY <5>2, <5>3, <5>5, <5>6 DEF At
      <4> QED BY <4>1, <4>2
    <3> QED BY <3>1, <3>2, <2>3, <2>9
  <2> HIDE DEF Upto, Placed, g
  <2>11. i + 1 # 0 /\ i + 1 \in 0 .. n
    BY <1>1
  <2> QED BY <2>6, <2>7, <2>10, <2>11
<1>4. PICK f, off : Upto(n, f) /\ Placed(n, IF n = 0 THEN <<>> ELSE f[n], off)
  <2> HIDE DEF P
  <2>1. n \in P
    BY <1>1, <1>2, <1>3, CountUp
  <2> QED BY <2>1 DEF P
<1>5. FlattenSeq(s) = IF n = 0 THEN <<>> ELSE f[n]
  <2>1. CASE n = 0
    BY <2>1 DEF FlattenSeq
  <2>2. CASE n # 0
    <3> DEFINE Whole == CHOOSE g : Upto(n, g)
    <3>1. Upto(n, Whole)
      <4> HIDE DEF Upto
      <4> QED BY <1>4
    <3>2. FlattenSeq(s) = Whole[n]
      BY <2>2 DEF FlattenSeq
    <3> HIDE DEF Whole
    <3>3. \A m \in 1 .. n : Whole[m] = IF m = 1 THEN s[m] ELSE Whole[m - 1] \o s[m]
      BY <3>1
    <3>4. \A m \in 1 .. n : f[m] = IF m = 1 THEN s[m] ELSE f[m - 1] \o s[m]
      BY <1>4
    <3> DEFINE Q == {m \in 0 .. n : m # 0 => Whole[m] = f[m]}
    <3>5. 0 \in Q
      BY <1>1
    <3>6. ASSUME NEW m \in 0 .. n - 1, m \in Q PROVE m + 1 \in Q
      <4>1. m + 1 \in 1 .. n /\ (m + 1) - 1 = m /\ (m + 1 = 1 <=> m = 0)
        BY <1>1
      <4> QED BY <4>1, <3>3, <3>4, <3>6
    <3> HIDE DEF Q
    <3>7. n \in Q
      BY <1>1, <3>5, <3>6, CountUp
    <3> QED BY <2>2, <3>2, <3>7 DEF Q
  <2> QED BY <2>1, <2>2
<1> HIDE DEF Upto, n
<1> QED BY <1>4, <1>5 DEF n

(* Code points are numbers *)
LEMMA CodePointsCount ==
  CodePoints \subseteq Nat
<1>1. LastCodePoint \in Nat
  BY DEF LastCodePoint
<1> QED BY <1>1 DEF CodePoints

(* The forms of a character, and how its first byte tells them apart *)
LEMMA CharForms ==
  ASSUME NEW c \in CodePoints
  PROVE  /\ CharBytes(c) \in Seq(Byte) /\ Len(CharBytes(c)) \in 1 .. 3
         /\ c <= 127 => CharBytes(c) = <<c>>
         /\ c > 127 /\ c <= 2047 =>
              CharBytes(c) = <<192 + ((c \div 64) % 32), 128 + (c % 64)>>
         /\ c > 2047 =>
              CharBytes(c) = <<224 + ((c \div 4096) % 16), 128 + ((c \div 64) % 64), 128 + (c % 64)>>
         /\ CharBytes(c)[1] # 255
<1>1. c \in Nat
  BY CodePointsCount
<1>2. CASE c <= 127
  <2>1. CharBytes(c) = <<c>>
    BY <1>1, <1>2 DEF CharBytes
  <2>2. c \in Byte
    BY <1>1, <1>2 DEF Byte
  <2> QED BY <1>1, <1>2, <2>1, <2>2
<1>3. CASE c > 127 /\ c <= 2047
  <2> DEFINE x == 192 + ((c \div 64) % 32)
             y == 128 + (c % 64)
  <2>1. CharBytes(c) = <<x, y>>
    BY <1>1, <1>3 DEF CharBytes
  <2>2. x \in 192 .. 223 /\ y \in 128 .. 191
    BY <1>1
  <2> HIDE DEF x, y
  <2>3. x \in Byte /\ y \in Byte /\ x # 255
    BY <2>2 DEF Byte
  <2>4. CharBytes(c) \in Seq(Byte) /\ Len(CharBytes(c)) = 2 /\ CharBytes(c)[1] # 255
    BY <2>1, <2>3
  <2> QED BY <1>1, <1>3, <2>1, <2>4 DEF x, y
<1>4. CASE c > 2047
  <2> DEFINE x == 224 + ((c \div 4096) % 16)
             y == 128 + ((c \div 64) % 64)
             z == 128 + (c % 64)
  <2>1. CharBytes(c) = <<x, y, z>>
    BY <1>1, <1>4 DEF CharBytes
  <2>2. x \in 224 .. 239 /\ y \in 128 .. 191 /\ z \in 128 .. 191
    BY <1>1
  <2> HIDE DEF x, y, z
  <2>3. x \in Byte /\ y \in Byte /\ z \in Byte /\ x # 255
    BY <2>2 DEF Byte
  <2>4. CharBytes(c) \in Seq(Byte) /\ Len(CharBytes(c)) = 3 /\ CharBytes(c)[1] # 255
    BY <2>1, <2>3
  <2> QED BY <1>1, <1>4, <2>1, <2>4 DEF x, y, z
<1> QED BY <1>1, <1>2, <1>3, <1>4

(* The 16 bits that the third form keeps *)
LEMMA SixteenBits ==
  ASSUME NEW c \in Nat
  PROVE  c % 65536 = 4096 * ((c \div 4096) % 16) + 64 * ((c \div 64) % 64) + (c % 64)
<1>1. c % 4096 = 64 * ((c \div 64) % 64) + (c % 64)
  OBVIOUS
<1>2. c % 65536 = 4096 * ((c \div 4096) % 16) + (c % 4096)
  OBVIOUS
<1> QED BY <1>1, <1>2

(* The same to the code, which takes characters for one another that have  *)
(* the 16 bits of the third form in common: what the bytes tell.           *)
SameChar(a, b) == a = b \/ (a > 2047 /\ b > 2047 /\ a % 65536 = b % 65536)

SameString(s, t) == Len(s) = Len(t) /\ \A n \in DOMAIN s : SameChar(s[n], t[n])

SameArg(a, b) == IF a.type = "String" THEN SameString(a.val, b.val) ELSE a.val = b.val

SameCall(c, d) ==
  c.tag = d.tag /\ \A n \in DOMAIN c.args : SameArg(c.args[n], d.args[n])

(* No character's bytes start as another's but those that are the same *)
LEMMA CharRead ==
  ASSUME NEW w, NEW p \in Nat, NEW c \in CodePoints, NEW d \in CodePoints,
         At(w, p, CharBytes(c)), At(w, p, CharBytes(d))
  PROVE  SameChar(c, d) /\ Len(CharBytes(c)) = Len(CharBytes(d))
<1> DEFINE u == CharBytes(c)
           v == CharBytes(d)
<1>1. c \in Nat /\ d \in Nat
  BY CodePointsCount
<1>2. \A j \in 1 .. 3 : j \in 1 .. Len(u) /\ j \in 1 .. Len(v) => u[j] = v[j]
  BY DEF At
<1>3. u[1] = v[1]
  BY <1>2, CharForms
<1>4. CASE c <= 127
  <2>1. u = <<c>> /\ u[1] = c
    BY <1>4, CharForms
  <2>2. d <= 127
    <3>1. CASE d > 127 /\ d <= 2047
      <4>1. v[1] = 192 + ((d \div 64) % 32)
        BY <3>1, CharForms
      <4> QED BY <4>1, <1>1, <1>3, <1>4, <2>1
    <3>2. CASE d > 2047
      <4>1. v[1] = 224 + ((d \div 4096) % 16)
        BY <3>2, CharForms
      <4> QED BY <4>1, <1>1, <1>3, <1>4, <2>1
    <3> QED BY <3>1, <3>2, <1>1
  <2>3. v = <<d>> /\ v[1] = d
    BY <2>2, CharForms
  <2> QED BY <1>3, <2>1, <2>3 DEF SameChar
<1>5. CASE c > 127 /\ c <= 2047
  <2>1. u = <<192 + ((c \div 64) % 32), 128 + (c % 64)>>
    BY <1>5, CharForms
  <2>2. d > 127 /\ d <= 2047
    <3>1. CASE d <= 127
      <4>1. v[1] = d
        BY <3>1, CharForms
      <4> QED BY <4>1, <1>1, <1>3, <3>1, <2>1
    <3>2. CASE d > 2047
      <4>1. v[1] = 224 + ((d \div 4096) % 16)
        BY <3>2, CharForms
      <4> QED BY <4>1, <1>1, <1>3, <2>1
    <3> QED BY <3>1, <3>2, <1>1
  <2>3. v = <<192 + ((d \div 64) % 32), 128 + (d % 64)>>
    BY <2>2, CharForms
  <2>4. Len(u) = 2 /\ Len(v) = 2
    BY <2>1, <2>3
  <2>5. u[1] = v[1] /\ u[2] = v[2]
    BY <2>4, <1>2
  <2>6. (c \div 64) % 32 = (d \div 64) % 32 /\ c % 64 = d % 64
    <3>1. 192 + ((c \div 64) % 32) = 192 + ((d \div 64) % 32) /\ 128 + (c % 64) = 128 + (d % 64)
      BY <2>1, <2>3, <2>5
    <3> QED BY <3>1, <1>1
  <2>7. c = d
    BY <2>6, <2>2, <1>5, <1>1
  <2> QED BY <2>4, <2>7 DEF SameChar
<1>6. CASE c > 2047
  <2>1. u = <<224 + ((c \div 4096) % 16), 128 + ((c \div 64) % 64), 128 + (c % 64)>>
    BY <1>6, CharForms
  <2>2. d > 2047
    <3>1. CASE d <= 127
      <4>1. v[1] = d
        BY <3>1, CharForms
      <4> QED BY <4>1, <1>1, <1>3, <3>1, <2>1
    <3>2. CASE d > 127 /\ d <= 2047
      <4>1. v[1] = 192 + ((d \div 64) % 32)
        BY <3>2, CharForms
      <4> QED BY <4>1, <1>1, <1>3, <2>1
    <3> QED BY <3>1, <3>2, <1>1
  <2>3. v = <<224 + ((d \div 4096) % 16), 128 + ((d \div 64) % 64), 128 + (d % 64)>>
    BY <2>2, CharForms
  <2>4. Len(u) = 3 /\ Len(v) = 3
    BY <2>1, <2>3
  <2>5. u[1] = v[1] /\ u[2] = v[2] /\ u[3] = v[3]
    BY <2>4, <1>2
  <2>6. /\ 224 + ((c \div 4096) % 16) = 224 + ((d \div 4096) % 16)
        /\ 128 + ((c \div 64) % 64) = 128 + ((d \div 64) % 64)
        /\ 128 + (c % 64) = 128 + (d % 64)
    BY <2>1, <2>3, <2>5
  <2>7. c % 65536 = d % 65536
    BY <2>6, <1>1, SixteenBits
  <2> QED BY <1>6, <2>2, <2>4, <2>7 DEF SameChar
<1> QED BY <1>1, <1>4, <1>5, <1>6

(* The bytes of a text, and where each character is *)
LEMMA CharsPlaced ==
  ASSUME NEW s \in Seq(CodePoints)
  PROVE  /\ Chars(s) \in Seq(Byte)
         /\ \E off \in [0 .. Len(s) -> Nat] :
              /\ off[0] = 0 /\ off[Len(s)] = Len(Chars(s))
              /\ \A i \in 1 .. Len(s) : off[i] = off[i - 1] + Len(CharBytes(s[i]))
              /\ \A i \in 1 .. Len(s) : off[i] <= Len(Chars(s))
              /\ \A i \in 1 .. Len(s) : At(Chars(s), off[i - 1], CharBytes(s[i]))
<1> DEFINE b == [n \in DOMAIN s |-> CharBytes(s[n])]
<1>1. Len(s) \in Nat /\ DOMAIN s = 1 .. Len(s) /\ \A n \in 1 .. Len(s) : s[n] \in CodePoints
  OBVIOUS
<1>2. \A n \in 1 .. Len(s) : CharBytes(s[n]) \in Seq(Byte)
  BY <1>1, CharForms
<1>3. b \in [1 .. Len(s) -> Seq(Byte)]
  BY <1>1, <1>2
<1>4. b \in Seq(Seq(Byte)) /\ Len(b) = Len(s)
  BY <1>1, <1>3, SeqDef, LenProperties
<1>5. Chars(s) = FlattenSeq(b)
  BY DEF Chars
<1>6. \A n \in 1 .. Len(s) : b[n] = CharBytes(s[n])
  BY <1>1
<1> HIDE DEF b
<1>7. PICK off \in [0 .. Len(b) -> Nat] :
        /\ off[0] = 0 /\ off[Len(b)] = Len(FlattenSeq(b))
        /\ \A i \in 1 .. Len(b) : off[i] = off[i - 1] + Len(b[i])
        /\ \A i \in 1 .. Len(b) : off[i] <= Len(FlattenSeq(b))
        /\ \A i \in 1 .. Len(b) : At(FlattenSeq(b), off[i - 1], b[i])
  BY <1>4, PiecesPlaced
<1>8. FlattenSeq(b) \in Seq(Byte)
  BY <1>4, PiecesPlaced
<1> QED BY <1>4, <1>5, <1>6, <1>7, <1>8

(* Bytes within bytes *)
LEMMA AtWithin ==
  ASSUME NEW w, NEW p \in Nat, NEW u \in Seq(Byte), At(w, p, u),
         NEW q \in Nat, NEW x \in Seq(Byte), At(u, q, x), q + Len(x) <= Len(u)
  PROVE  At(w, p + q, x)
<1> SUFFICES ASSUME NEW j \in 1 .. Len(x) PROVE w[(p + q) + j] = x[j]
  BY DEF At
<1>1. Len(x) \in Nat /\ Len(u) \in Nat
  OBVIOUS
<1>2. q + j \in 1 .. Len(u)
  BY <1>1, Inside
<1>3. w[p + (q + j)] = u[q + j] /\ u[q + j] = x[j]
  BY <1>2 DEF At
<1>4. p + (q + j) = (p + q) + j
  BY <1>1
<1> QED BY <1>3, <1>4

(* Every character has a first byte, which is not the one that ends a text *)
LEMMA CharStarts ==
  ASSUME NEW c \in CodePoints
  PROVE  CharBytes(c) \in Seq(Byte) /\ 1 \in 1 .. Len(CharBytes(c)) /\ CharBytes(c)[1] # 255
<1>1. CharBytes(c) \in Seq(Byte) /\ Len(CharBytes(c)) \in 1 .. 3 /\ CharBytes(c)[1] # 255
  BY CharForms
<1> QED BY <1>1

(* The bytes of s start behind the first p of w, and those of its character *)
(* i where the first off[i - 1] of them end.                                *)
TextAt(w, p, s, off) ==
  /\ off \in [0 .. Len(s) -> Nat]
  /\ off[0] = 0 /\ off[Len(s)] + 1 = Len(StringBytes(s))
  /\ \A i \in 1 .. Len(s) : off[i] = off[i - 1] + Len(CharBytes(s[i]))
  /\ \A i \in 1 .. Len(s) : At(w, p + off[i - 1], CharBytes(s[i]))
  /\ w[p + off[Len(s)] + 1] = 255

(* The bytes of a string: its characters, and a byte that starts none *)
LEMMA TextPlaced ==
  ASSUME NEW s \in Seq(CodePoints), NEW w, NEW p \in Nat, At(w, p, StringBytes(s))
  PROVE  \E off : TextAt(w, p, s, off)
<1> DEFINE u == Chars(s)
<1>1. PICK off \in [0 .. Len(s) -> Nat] :
        /\ off[0] = 0 /\ off[Len(s)] = Len(u)
        /\ \A i \in 1 .. Len(s) : off[i] = off[i - 1] + Len(CharBytes(s[i]))
        /\ \A i \in 1 .. Len(s) : off[i] <= Len(u)
        /\ \A i \in 1 .. Len(s) : At(u, off[i - 1], CharBytes(s[i]))
  BY CharsPlaced
<1>2. u \in Seq(Byte) /\ Len(u) \in Nat /\ Len(s) \in Nat
  BY CharsPlaced
<1> HIDE DEF u
<1>3. /\ Len(StringBytes(s)) = Len(u) + 1
      /\ \A j \in 1 .. Len(u) : StringBytes(s)[j] = u[j]
      /\ StringBytes(s)[Len(u) + 1] = 255
  BY <1>2 DEF StringBytes, u, Byte
<1>4. At(w, p, u)
  BY <1>2, <1>3 DEF At
<1>5. w[p + (Len(u) + 1)] = 255
  <2>1. Len(u) + 1 \in 1 .. Len(StringBytes(s))
    BY <1>2, <1>3
  <2> QED BY <2>1, <1>3 DEF At
<1>6. w[p + off[Len(s)] + 1] = 255
  <2>1. p + (Len(u) + 1) = p + off[Len(s)] + 1
    BY <1>1, <1>2
  <2> QED BY <2>1, <1>5
<1>7. ASSUME NEW i \in 1 .. Len(s) PROVE At(w, p + off[i - 1], CharBytes(s[i]))
  <2>1. CharBytes(s[i]) \in Seq(Byte)
    <3>1. s[i] \in CodePoints
      OBVIOUS
    <3> QED BY <3>1, CharStarts
  <2>2. off[i - 1] \in Nat
    BY <1>2
  <2>3. off[i - 1] + Len(CharBytes(s[i])) <= Len(u) /\ At(u, off[i - 1], CharBytes(s[i]))
    BY <1>1
  <2> QED BY <2>1, <2>2, <2>3, <1>2, <1>4, AtWithin
<1>8. TextAt(w, p, s, off)
  BY <1>1, <1>3, <1>6, <1>7 DEF TextAt
<1> QED BY <1>8

(* One text starts where another does only if they are the same *)
LEMMA TextRead ==
  ASSUME NEW w, NEW p \in Nat, NEW s \in Seq(CodePoints), NEW t \in Seq(CodePoints),
         At(w, p, StringBytes(s)), At(w, p, StringBytes(t))
  PROVE  SameString(s, t) /\ Len(StringBytes(s)) = Len(StringBytes(t))
<1>1. PICK f : TextAt(w, p, s, f)
  BY TextPlaced
<1>2. PICK g : TextAt(w, p, t, g)
  BY TextPlaced
<1> DEFINE m == Len(s)
           n == Len(t)
<1>3. /\ m \in Nat /\ n \in Nat /\ DOMAIN s = 1 .. m /\ DOMAIN t = 1 .. n
      /\ \A i \in 1 .. m : s[i] \in CodePoints
      /\ \A i \in 1 .. n : t[i] \in CodePoints
  OBVIOUS
<1>4. w[p + f[m] + 1] = 255 /\ w[p + g[n] + 1] = 255
  BY <1>1, <1>2 DEF TextAt
<1>5. f \in [0 .. m -> Nat] /\ f[0] = 0 /\ f[m] + 1 = Len(StringBytes(s))
  BY <1>1 DEF TextAt
<1>6. g \in [0 .. n -> Nat] /\ g[0] = 0 /\ g[n] + 1 = Len(StringBytes(t))
  BY <1>2 DEF TextAt
<1>7. \A i \in 1 .. m : /\ f[i] = f[i - 1] + Len(CharBytes(s[i]))
                       /\ At(w, p + f[i - 1], CharBytes(s[i]))
  BY <1>1 DEF TextAt
<1>8. \A i \in 1 .. n : /\ g[i] = g[i - 1] + Len(CharBytes(t[i]))
                       /\ At(w, p + g[i - 1], CharBytes(t[i]))
  BY <1>2 DEF TextAt
<1> HIDE DEF m, n
<1>9. ASSUME NEW i \in 1 .. m PROVE w[p + f[i - 1] + 1] # 255
  <2>1. 1 \in 1 .. Len(CharBytes(s[i])) /\ CharBytes(s[i])[1] # 255
    BY <1>3, CharStarts
  <2>2. At(w, p + f[i - 1], CharBytes(s[i]))
    BY <1>7
  <2> QED BY <2>1, <2>2 DEF At
<1>10. ASSUME NEW i \in 1 .. n PROVE w[p + g[i - 1] + 1] # 255
  <2>1. 1 \in 1 .. Len(CharBytes(t[i])) /\ CharBytes(t[i])[1] # 255
    BY <1>3, CharStarts
  <2>2. At(w, p + g[i - 1], CharBytes(t[i]))
    BY <1>8
  <2> QED BY <2>1, <2>2 DEF At
<1> DEFINE Agree(i) == i <= n /\ f[i] = g[i] /\ \A j \in 1 .. i : SameChar(s[j], t[j])
           P == {i \in 0 .. m : Agree(i)}
<1>11. 0 \in P
  BY <1>3, <1>5, <1>6
<1>12. ASSUME NEW i \in 0 .. m - 1, i \in P PROVE i + 1 \in P
  <2>1. i <= n /\ f[i] = g[i] /\ \A j \in 1 .. i : SameChar(s[j], t[j])
    BY <1>12
  <2>2. i + 1 \in 1 .. m /\ (i + 1) - 1 = i /\ i + 1 \in 0 .. m
    BY <1>3
  <2>3. w[p + f[i] + 1] # 255
    BY <1>9, <2>2
  <2>4. i # n
    <3>1. w[p + g[n] + 1] = 255
      BY <1>4
    <3> QED BY <2>1, <2>3, <3>1
  <2>5. i + 1 \in 1 .. n
    BY <1>3, <2>1, <2>4
  <2>6. /\ At(w, p + f[i], CharBytes(s[i + 1])) /\ f[i + 1] = f[i] + Len(CharBytes(s[i + 1]))
        /\ At(w, p + g[i], CharBytes(t[i + 1])) /\ g[i + 1] = g[i] + Len(CharBytes(t[i + 1]))
    BY <1>7, <1>8, <2>2, <2>5
  <2>7. p + f[i] \in Nat /\ s[i + 1] \in CodePoints /\ t[i + 1] \in CodePoints
    <3>1. i \in 0 .. m
      BY <1>3
    <3>2. f[i] \in Nat
      BY <1>5, <3>1
    <3> QED BY <3>2, <1>3, <2>2, <2>5
  <2>8. SameChar(s[i + 1], t[i + 1]) /\ Len(CharBytes(s[i + 1])) = Len(CharBytes(t[i + 1]))
    BY <2>1, <2>6, <2>7, CharRead
  <2>9. f[i + 1] = g[i + 1]
    BY <2>1, <2>6, <2>8
  <2>10. \A j \in 1 .. i + 1 : SameChar(s[j], t[j])
    <3> TAKE j \in 1 .. i + 1
    <3>1. j \in 1 .. i \/ j = i + 1
      OBVIOUS
    <3> QED BY <3>1, <2>1, <2>8
  <2> QED BY <2>2, <2>5, <2>9, <2>10
<1> HIDE DEF P
<1>13. Agree(m)
  <2>1. m \in P
    BY <1>3, <1>11, <1>12, CountUp
  <2> QED BY <2>1 DEF P
<1>14. m = n
  <2> SUFFICES ASSUME m < n PROVE FALSE
    BY <1>3, <1>13
  <2>1. m + 1 \in 1 .. n /\ (m + 1) - 1 = m
    BY <1>3
  <2>2. w[p + g[m] + 1] # 255
    BY <1>10, <2>1
  <2>3. w[p + f[m] + 1] = 255
    BY <1>4
  <2> QED BY <1>13, <2>2, <2>3
<1> QED BY <1>3, <1>5, <1>6, <1>13, <1>14 DEF SameString, m, n

(* So many bytes are a sequence of so many bytes *)
LEMMA BytesSeq ==
  ASSUME NEW n \in Nat, NEW u \in [1 .. n -> Byte]
  PROVE  u \in Seq(Byte) /\ Len(u) = n
BY SeqDef, LenProperties

(* Where in an integer its bytes are *)
LEMMA PlacesAre ==
  /\ Places[1] = 1 /\ Places[2] = 256 /\ Places[3] = 65536 /\ Places[4] = 16777216
  /\ \A n \in 1 .. 4 : Places[n] \in Nat \ {0}
BY SMT DEF Places

(* The bytes of an integer, one by one *)
LEMMA BytesOf ==
  ASSUME NEW v \in Int, NEW n \in 1 .. 4
  PROVE  ByteAt(v, n) \in Byte
<1>1. v \div Places[n] \in Int
  BY PlacesAre
<1>2. \A x \in Int : x % 256 \in Byte
  BY DEF Byte
<1> QED BY <1>1, <1>2 DEF ByteAt

(* The bytes of an integer: four of its own, and four that have its sign *)
LEMMA WordForms ==
  ASSUME NEW v \in Int
  PROVE  /\ WordBytes(v) \in Seq(Byte) /\ Len(WordBytes(v)) = 8
         /\ \A n \in 1 .. 4 : WordBytes(v)[n] = ByteAt(v, n)
         /\ WordBytes(v)[5] = 255 <=> v < 0
<1> DEFINE u == WordBytes(v)
<1>1. u = [n \in 1 .. 8 |-> IF n <= 4 THEN ByteAt(v, n) ELSE IF v < 0 THEN 255 ELSE 0]
  BY DEF WordBytes
<1> HIDE DEF u
<1>2. \A n \in 1 .. 4 : u[n] = ByteAt(v, n)
  BY <1>1
<1>3. u[5] = IF v < 0 THEN 255 ELSE 0
  BY <1>1
<1>4. \A n \in 1 .. 8 : u[n] \in Byte
  <2>1. 255 \in Byte /\ 0 \in Byte
    BY DEF Byte
  <2>2. \A n \in 1 .. 4 : ByteAt(v, n) \in Byte
    BY BytesOf
  <2> QED BY <1>1, <2>1, <2>2
<1>5. u \in [1 .. 8 -> Byte]
  BY <1>1, <1>4
<1>6. u \in Seq(Byte) /\ Len(u) = 8
  BY <1>5, BytesSeq
<1> QED BY <1>2, <1>3, <1>6 DEF u

(* A word is an integer of 32 bits *)
LEMMA WordsRange ==
  \A v \in Words : v \in Int /\ v < 2147483648 /\ v >= -2147483648
<1>1. LargestWord \in Nat /\ LargestWord < 2147483648
  BY SMT DEF LargestWord
<1> QED BY SMT, <1>1 DEF Words

(* The four low bytes of two integers are the same *)
LowBytesAgree(a, b) == \A n \in 1 .. 4 : ByteAt(a, n) = ByteAt(b, n)

(* Four bytes and the sign tell two words apart *)
LEMMA FourBytes ==
  ASSUME NEW a \in Words, NEW b \in Words, LowBytesAgree(a, b), a < 0 <=> b < 0
  PROVE  a = b
<1>1. a \in Int /\ b \in Int
  BY WordsRange
<1>2. /\ ByteAt(a, 1) = ByteAt(b, 1) /\ ByteAt(a, 2) = ByteAt(b, 2)
      /\ ByteAt(a, 3) = ByteAt(b, 3) /\ ByteAt(a, 4) = ByteAt(b, 4)
  BY DEF LowBytesAgree
<1>3. /\ a % 256 = b % 256 /\ (a \div 256) % 256 = (b \div 256) % 256
      /\ (a \div 65536) % 256 = (b \div 65536) % 256
      /\ (a \div 16777216) % 256 = (b \div 16777216) % 256
  <2>1. a \div 1 = a /\ b \div 1 = b
    BY SMT, <1>1
  <2> QED BY SMT, <1>2, <2>1, PlacesAre DEF ByteAt
<1>4. \A v \in Words : v \div 4294967296 = IF v < 0 THEN -1 ELSE 0
  BY SMT, WordsRange
<1>5. a \div 4294967296 = b \div 4294967296
  BY SMT, <1>4
<1>6. \A v \in Int : v \div 16777216 = 256 * (v \div 4294967296) + ((v \div 16777216) % 256)
  BY SMT
<1>7. a \div 16777216 = b \div 16777216
  BY SMT, <1>1, <1>3, <1>5, <1>6
<1>8. \A v \in Int : v \div 65536 = 256 * (v \div 16777216) + ((v \div 65536) % 256)
  BY SMT
<1>9. a \div 65536 = b \div 65536
  BY SMT, <1>1, <1>3, <1>7, <1>8
<1>10. \A v \in Int : v \div 256 = 256 * (v \div 65536) + ((v \div 256) % 256)
  BY SMT
<1>11. a \div 256 = b \div 256
  BY SMT, <1>1, <1>3, <1>9, <1>10
<1>12. \A v \in Int : v = 256 * (v \div 256) + (v % 256)
  BY SMT
<1> QED BY SMT, <1>1, <1>3, <1>11, <1>12

(* Different integers have different bytes *)
LEMMA WordRead ==
  ASSUME NEW w, NEW p \in Nat, NEW a \in Words, NEW b \in Words,
         At(w, p, WordBytes(a)), At(w, p, WordBytes(b))
  PROVE  a = b
<1>1. a \in Int /\ b \in Int
  BY WordsRange
<1>2. Len(WordBytes(a)) = 8 /\ Len(WordBytes(b)) = 8
  BY <1>1, WordForms
<1>3. \A j \in 1 .. 8 : WordBytes(a)[j] = WordBytes(b)[j]
  BY <1>2 DEF At
<1>4. a < 0 <=> b < 0
  <2>1. WordBytes(a)[5] = WordBytes(b)[5]
    BY <1>3
  <2>2. (WordBytes(a)[5] = 255 <=> a < 0) /\ (WordBytes(b)[5] = 255 <=> b < 0)
    BY <1>1, WordForms
  <2> QED BY <2>1, <2>2
<1>5. LowBytesAgree(a, b)
  <2> SUFFICES ASSUME NEW n \in 1 .. 4 PROVE ByteAt(a, n) = ByteAt(b, n)
    BY DEF LowBytesAgree
  <2>1. WordBytes(a)[n] = WordBytes(b)[n]
    BY <1>3
  <2> QED BY <1>1, <2>1, WordForms
<1> QED BY <1>4, <1>5, FourBytes

(* A character on its own is four bytes, whole *)
CharacterBytes(c) == [n \in 1 .. 4 |-> ByteAt(c, n)]

(* There are four, and they are bytes *)
LEMMA CharacterForms ==
  ASSUME NEW c \in CodePoints
  PROVE  CharacterBytes(c) \in Seq(Byte) /\ Len(CharacterBytes(c)) = 4
<1>1. c \in Int
  BY CodePointsCount
<1>2. CharacterBytes(c) \in [1 .. 4 -> Byte]
  BY <1>1, BytesOf DEF CharacterBytes
<1> QED BY <1>2, BytesSeq

(* Different characters have different bytes then *)
LEMMA CharacterRead ==
  ASSUME NEW w, NEW p \in Nat, NEW a \in CodePoints, NEW b \in CodePoints,
         At(w, p, CharacterBytes(a)), At(w, p, CharacterBytes(b))
  PROVE  a = b
<1>1. Len(CharacterBytes(a)) = 4 /\ Len(CharacterBytes(b)) = 4
  BY CharacterForms
<1>2. \A j \in 1 .. 4 : CharacterBytes(a)[j] = CharacterBytes(b)[j]
  BY <1>1 DEF At
<1>3. LowBytesAgree(a, b)
  BY <1>2 DEF LowBytesAgree, CharacterBytes
<1>4. CodePoints \subseteq Words /\ ~(a < 0) /\ ~(b < 0)
  <2>1. LastCodePoint \in Nat /\ LargestWord \in Nat /\ LastCodePoint <= LargestWord
    BY SMT DEF LastCodePoint, LargestWord
  <2> QED BY SMT, <2>1 DEF CodePoints, Words
<1> QED BY <1>3, <1>4, FourBytes

(* The bytes of an argument of each type *)
LEMMA ArgForms ==
  ASSUME NEW type \in Types, NEW a \in ArgsOf(type)
  PROVE  /\ a.type = type /\ ArgBytes(a) \in Seq(Byte)
         /\ type = "String" => a.val \in Seq(CodePoints) /\ ArgBytes(a) = StringBytes(a.val)
         /\ type = "Int" => a.val \in Words /\ ArgBytes(a) = WordBytes(a.val)
         /\ type = "Char" => a.val \in CodePoints /\ ArgBytes(a) = CharacterBytes(a.val)
         /\ type = "Bool" => a.val \in BOOLEAN /\ ArgBytes(a) = <<IF a.val THEN 1 ELSE 0>>
<1>1. CASE type = "String"
  <2>1. a \in [type : {"String"}, val : Seq(CodePoints)]
    BY <1>1 DEF ArgsOf
  <2>2. a.type = "String" /\ a.val \in Seq(CodePoints)
    BY <2>1
  <2>3. ArgBytes(a) = StringBytes(a.val)
    BY <2>2 DEF ArgBytes
  <2>4. 255 \in Byte
    BY DEF Byte
  <2>5. StringBytes(a.val) \in Seq(Byte)
    BY <2>2, <2>4, CharsPlaced DEF StringBytes
  <2> QED BY <1>1, <2>2, <2>3, <2>5
<1>2. CASE type = "Int"
  <2>1. a \in [type : {"Int"}, val : Words]
    BY <1>2 DEF ArgsOf
  <2>2. a.type = "Int" /\ a.val \in Words
    BY <2>1
  <2>3. ArgBytes(a) = WordBytes(a.val)
    BY <2>2 DEF ArgBytes
  <2>4. WordBytes(a.val) \in Seq(Byte)
    BY <2>2, WordsRange, WordForms
  <2> QED BY <1>2, <2>2, <2>3, <2>4
<1>3. CASE type = "Char"
  <2>1. a \in [type : {"Char"}, val : CodePoints]
    BY <1>3 DEF ArgsOf
  <2>2. a.type = "Char" /\ a.val \in CodePoints
    BY <2>1
  <2>3. ArgBytes(a) = CharacterBytes(a.val)
    BY <2>2 DEF ArgBytes, CharacterBytes
  <2>4. CharacterBytes(a.val) \in Seq(Byte)
    BY <2>2, CharacterForms
  <2> QED BY <1>3, <2>2, <2>3, <2>4
<1>4. CASE type = "Bool"
  <2>1. a \in [type : {"Bool"}, val : BOOLEAN]
    BY <1>4 DEF ArgsOf
  <2>2. a.type = "Bool" /\ a.val \in BOOLEAN
    BY <2>1
  <2>3. ArgBytes(a) = <<IF a.val THEN 1 ELSE 0>>
    BY <2>2 DEF ArgBytes
  <2>4. 1 \in Byte /\ 0 \in Byte
    BY DEF Byte
  <2>5. <<IF a.val THEN 1 ELSE 0>> \in Seq(Byte)
    BY <2>4
  <2> QED BY <1>4, <2>2, <2>3, <2>5
<1> QED BY <1>1, <1>2, <1>3, <1>4 DEF Types

(* One argument starts where another of its type does only if it is it *)
LEMMA ArgRead ==
  ASSUME NEW w, NEW p \in Nat, NEW type \in Types, NEW a \in ArgsOf(type), NEW b \in ArgsOf(type),
         At(w, p, ArgBytes(a)), At(w, p, ArgBytes(b))
  PROVE  SameArg(a, b) /\ Len(ArgBytes(a)) = Len(ArgBytes(b))
<1>1. a.type = type /\ b.type = type
  BY ArgForms
<1>2. CASE type = "String"
  <2>1. /\ a.val \in Seq(CodePoints) /\ ArgBytes(a) = StringBytes(a.val)
        /\ b.val \in Seq(CodePoints) /\ ArgBytes(b) = StringBytes(b.val)
    BY <1>2, ArgForms
  <2>2. SameString(a.val, b.val) /\ Len(ArgBytes(a)) = Len(ArgBytes(b))
    BY <2>1, TextRead
  <2> QED BY <1>1, <1>2, <2>2 DEF SameArg
<1>3. CASE type = "Int"
  <2>1. /\ a.val \in Words /\ ArgBytes(a) = WordBytes(a.val)
        /\ b.val \in Words /\ ArgBytes(b) = WordBytes(b.val)
    BY <1>3, ArgForms
  <2>2. a.val = b.val
    BY <2>1, WordRead
  <2> QED BY <1>1, <1>3, <2>1, <2>2 DEF SameArg
<1>4. CASE type = "Char"
  <2>1. /\ a.val \in CodePoints /\ ArgBytes(a) = CharacterBytes(a.val)
        /\ b.val \in CodePoints /\ ArgBytes(b) = CharacterBytes(b.val)
    BY <1>4, ArgForms
  <2>2. a.val = b.val
    BY <2>1, CharacterRead
  <2> QED BY <1>1, <1>4, <2>1, <2>2 DEF SameArg
<1>5. CASE type = "Bool"
  <2>1. /\ a.val \in BOOLEAN /\ ArgBytes(a) = <<IF a.val THEN 1 ELSE 0>>
        /\ b.val \in BOOLEAN /\ ArgBytes(b) = <<IF b.val THEN 1 ELSE 0>>
    BY <1>5, ArgForms
  <2>2. Len(ArgBytes(a)) = 1 /\ Len(ArgBytes(b)) = 1 /\ ArgBytes(a)[1] = ArgBytes(b)[1]
    <3>1. Len(ArgBytes(a)) = 1 /\ Len(ArgBytes(b)) = 1
      BY <2>1
    <3> QED BY <3>1 DEF At
  <2>3. a.val = b.val
    <3>1. ArgBytes(a)[1] = (IF a.val THEN 1 ELSE 0) /\ ArgBytes(b)[1] = (IF b.val THEN 1 ELSE 0)
      BY <2>1
    <3> QED BY <2>1, <2>2, <3>1
  <2> QED BY <1>1, <1>5, <2>2, <2>3 DEF SameArg
<1> QED BY <1>2, <1>3, <1>4, <1>5 DEF Types

(* The calls of the enum: their types, and the bytes of their arguments    *)
LEMMA CallForms ==
  ASSUME NEW c, IsVariant(c, Signature)
  PROVE  /\ c.tag \in Words /\ Len(c.args) \in Nat /\ DOMAIN c.args = 1 .. Len(c.args)
         /\ Len(c.args) = Len(Signature[c.tag])
         /\ \A i \in 1 .. Len(c.args) :
              Signature[c.tag][i] \in Types /\ c.args[i] \in ArgsOf(Signature[c.tag][i])
<1>1. /\ c.tag \in DOMAIN Signature /\ c.args \in Seq(Range(c.args))
      /\ Len(c.args) = Len(Signature[c.tag])
      /\ \A n \in DOMAIN c.args : c.args[n] \in ArgsOf(Signature[c.tag][n])
  BY DEF IsVariant
<1>2. c.tag \in Words /\ Signature[c.tag] \in Seq(Types)
  BY <1>1, SignatureAssumption
<1>3. Len(c.args) \in Nat /\ DOMAIN c.args = 1 .. Len(c.args)
  BY <1>1
<1> QED BY <1>1, <1>2, <1>3

(* The bytes of a call start behind the first p of w, and those of its     *)
(* argument i where the first off[i - 1] of them end.                      *)
CallAt(c, off) ==
  /\ off \in [0 .. Len(c.args) -> Nat] /\ off[0] = 8
  /\ At(CallBytes(c), 0, WordBytes(c.tag))
  /\ \A i \in 1 .. Len(c.args) : off[i] = off[i - 1] + Len(ArgBytes(c.args[i]))
  /\ \A i \in 1 .. Len(c.args) : At(CallBytes(c), off[i - 1], ArgBytes(c.args[i]))

(* Every call of the enum is laid out so *)
LEMMA CallPlaced ==
  ASSUME NEW c, IsVariant(c, Signature)
  PROVE  \E off : CallAt(c, off)
<1> DEFINE b == [n \in DOMAIN c.args |-> ArgBytes(c.args[n])]
           u == FlattenSeq(b)
           n == Len(c.args)
<1>1. \A i \in 1 .. n : ArgBytes(c.args[i]) \in Seq(Byte)
  BY CallForms, ArgForms
<1>2. n \in Nat /\ DOMAIN c.args = 1 .. n
  BY CallForms
<1>3. b \in [1 .. n -> Seq(Byte)]
  BY <1>1, <1>2
<1>4. b \in Seq(Seq(Byte)) /\ Len(b) = n /\ \A i \in 1 .. n : b[i] = ArgBytes(c.args[i])
  BY <1>2, <1>3, SeqDef, LenProperties
<1>5. CallBytes(c) = WordBytes(c.tag) \o u
  BY DEF CallBytes
<1> HIDE DEF b, n
<1>6. PICK off \in [0 .. n -> Nat] :
        /\ off[0] = 0 /\ off[n] = Len(u)
        /\ \A i \in 1 .. n : off[i] = off[i - 1] + Len(b[i])
        /\ \A i \in 1 .. n : off[i] <= Len(u)
        /\ \A i \in 1 .. n : At(u, off[i - 1], b[i])
  BY <1>4, PiecesPlaced
<1>7. u \in Seq(Byte)
  BY <1>4, PiecesPlaced
<1>8. WordBytes(c.tag) \in Seq(Byte) /\ Len(WordBytes(c.tag)) = 8
  BY CallForms, WordsRange, WordForms
<1> HIDE DEF u
<1>9. At(CallBytes(c), 0, WordBytes(c.tag)) /\ At(CallBytes(c), 8, u)
  BY <1>5, <1>7, <1>8, After
<1> DEFINE place == [i \in 0 .. n |-> 8 + off[i]]
<1>10. place \in [0 .. n -> Nat] /\ \A i \in 0 .. n : place[i] = 8 + off[i]
  OBVIOUS
<1> HIDE DEF place
<1>11. ASSUME NEW i \in 1 .. n
       PROVE  /\ place[i] = place[i - 1] + Len(ArgBytes(c.args[i]))
              /\ At(CallBytes(c), place[i - 1], ArgBytes(c.args[i]))
  <2>1. i \in 0 .. n /\ i - 1 \in 0 .. n
    BY <1>2
  <2>2. /\ place[i] = 8 + off[i] /\ place[i - 1] = 8 + off[i - 1]
        /\ off[i] \in Nat /\ off[i - 1] \in Nat
    BY <1>10, <2>1
  <2>3. b[i] = ArgBytes(c.args[i]) /\ b[i] \in Seq(Byte) /\ Len(b[i]) \in Nat
    BY <1>1, <1>4
  <2>4. /\ off[i] = off[i - 1] + Len(b[i]) /\ off[i - 1] + Len(b[i]) <= Len(u)
        /\ At(u, off[i - 1], b[i])
    BY <1>6
  <2>5. At(CallBytes(c), 8 + off[i - 1], b[i])
    BY <1>7, <1>9, <2>2, <2>3, <2>4, AtWithin
  <2> QED BY <2>2, <2>3, <2>4, <2>5
<1>12. place[0] = 8
  BY <1>2, <1>6, <1>10
<1>13. CallAt(c, place)
  BY <1>9, <1>10, <1>11, <1>12 DEF CallAt, n
<1> QED BY <1>13

(* Two calls of an enum have the same bytes just if they are the same, but *)
(* for characters beyond U+FFFF in their strings.                          *)
LEMMA CallRead ==
  ASSUME NEW c, NEW d, IsVariant(c, Signature), IsVariant(d, Signature),
         CallBytes(c) = CallBytes(d)
  PROVE  SameCall(c, d)
<1>1. PICK f : CallAt(c, f)
  BY CallPlaced
<1>2. PICK g : CallAt(d, g)
  BY CallPlaced
<1> DEFINE w == CallBytes(c)
           n == Len(c.args)
<1>3. c.tag = d.tag
  <2>1. At(w, 0, WordBytes(c.tag)) /\ At(w, 0, WordBytes(d.tag))
    BY <1>1, <1>2 DEF CallAt
  <2>2. c.tag \in Words /\ d.tag \in Words
    BY CallForms
  <2> HIDE DEF w
  <2> QED BY <2>1, <2>2, WordRead
<1>4. Len(d.args) = n /\ n \in Nat /\ DOMAIN c.args = 1 .. n
  BY <1>3, CallForms
<1>5. \A i \in 1 .. n :
        /\ Signature[c.tag][i] \in Types
        /\ c.args[i] \in ArgsOf(Signature[c.tag][i]) /\ d.args[i] \in ArgsOf(Signature[c.tag][i])
  BY <1>3, <1>4, CallForms
<1>6. f \in [0 .. n -> Nat] /\ g \in [0 .. n -> Nat] /\ f[0] = 8 /\ g[0] = 8
  BY <1>1, <1>2, <1>4 DEF CallAt
<1>7. \A i \in 1 .. n : /\ f[i] = f[i - 1] + Len(ArgBytes(c.args[i]))
                       /\ At(w, f[i - 1], ArgBytes(c.args[i]))
  BY <1>1 DEF CallAt
<1>8. \A i \in 1 .. n : /\ g[i] = g[i - 1] + Len(ArgBytes(d.args[i]))
                       /\ At(w, g[i - 1], ArgBytes(d.args[i]))
  BY <1>2, <1>4 DEF CallAt
<1> HIDE DEF w, n
<1> DEFINE P == {i \in 0 .. n : f[i] = g[i] /\ \A j \in 1 .. i : SameArg(c.args[j], d.args[j])}
<1>9. 0 \in P
  BY <1>4, <1>6
<1>10. ASSUME NEW i \in 0 .. n - 1, i \in P PROVE i + 1 \in P
  <2>1. f[i] = g[i] /\ \A j \in 1 .. i : SameArg(c.args[j], d.args[j])
    BY <1>10
  <2>2. i + 1 \in 1 .. n /\ (i + 1) - 1 = i /\ i + 1 \in 0 .. n /\ i \in 0 .. n
    BY <1>4
  <2>3. f[i] \in Nat
    BY <1>6, <2>2
  <2>4. /\ At(w, f[i], ArgBytes(c.args[i + 1])) /\ f[i + 1] = f[i] + Len(ArgBytes(c.args[i + 1]))
        /\ At(w, g[i], ArgBytes(d.args[i + 1])) /\ g[i + 1] = g[i] + Len(ArgBytes(d.args[i + 1]))
    BY <1>7, <1>8, <2>2
  <2>5. /\ SameArg(c.args[i + 1], d.args[i + 1])
        /\ Len(ArgBytes(c.args[i + 1])) = Len(ArgBytes(d.args[i + 1]))
    BY <1>5, <2>1, <2>2, <2>3, <2>4, ArgRead
  <2>6. f[i + 1] = g[i + 1]
    BY <2>1, <2>4, <2>5
  <2>7. \A j \in 1 .. i + 1 : SameArg(c.args[j], d.args[j])
    <3> TAKE j \in 1 .. i + 1
    <3>1. j \in 1 .. i \/ j = i + 1
      OBVIOUS
    <3> QED BY <3>1, <2>1, <2>5
  <2> QED BY <2>2, <2>6, <2>7
<1> HIDE DEF P
<1>11. n \in P
  BY <1>4, <1>9, <1>10, CountUp
<1> QED BY <1>3, <1>4, <1>11 DEF P, SameCall

(* The hashes that are known are those of calls *)
HashesKnown == \A h \in DOMAIN map : \E c \in Calls : h = CallHash[c]

(* No hash gets into the map but with its call *)
LEMMA StepHashesKnown ==
  HashesKnown /\ [Next]_svars => HashesKnown'
<1> SUFFICES ASSUME HashesKnown, [Next]_svars PROVE HashesKnown'
  OBVIOUS
<1>1. CASE UNCHANGED map
  BY <1>1 DEF HashesKnown
<1>2. ASSUME NEW c \in Calls, NEW r \in Rets, InsertNew(c, r) PROVE HashesKnown'
  <2>1. DOMAIN map' = DOMAIN map \cup {CallHash[c]}
    BY <1>2 DEF InsertNew
  <2> QED BY <2>1 DEF HashesKnown
<1> QED BY <1>1, <1>2 DEF Next, svars, InsertKnown, TakeNext, Extract

(* Two characters up to U+FFFF are their 16 bits *)
LEMMA SameBasicChar ==
  ASSUME NEW x \in Nat, NEW y \in Nat, x <= 65535, y <= 65535, SameChar(x, y)
  PROVE  x = y
<1>1. x % 65536 = x /\ y % 65536 = y
  OBVIOUS
<1> QED BY <1>1 DEF SameChar

(* Calls that the code does not tell apart are the same in the basic plane *)
LEMMA SameInBasicPlane ==
  ASSUME NEW c, NEW d, IsVariant(c, Signature), IsVariant(d, Signature),
         Basic(c), Basic(d), SameCall(c, d)
  PROVE  c.tag = d.tag /\ c.args = d.args
<1>1. c.tag = d.tag
  BY DEF SameCall
<1> DEFINE n == Len(c.args)
<1>2. /\ n \in Nat /\ DOMAIN c.args = 1 .. n /\ DOMAIN d.args = 1 .. n
      /\ \A i \in 1 .. n : /\ Signature[c.tag][i] \in Types
                            /\ c.args[i] \in ArgsOf(Signature[c.tag][i])
                            /\ d.args[i] \in ArgsOf(Signature[c.tag][i])
  BY <1>1, CallForms
<1>3. c.args \in Seq(Range(c.args)) /\ d.args \in Seq(Range(d.args))
  BY DEF IsVariant
<1>4. ASSUME NEW i \in 1 .. n PROVE c.args[i] = d.args[i]
  <2> DEFINE a == c.args[i]
             b == d.args[i]
  <2>1. PICK type \in Types : a \in ArgsOf(type) /\ b \in ArgsOf(type)
    BY <1>2
  <2>2. SameArg(a, b)
    BY <1>2 DEF SameCall
  <2>3. /\ a.type = "String" => \A j \in DOMAIN a.val : a.val[j] <= 65535
        /\ b.type = "String" => \A j \in DOMAIN b.val : b.val[j] <= 65535
    BY <1>2 DEF Basic
  <2> HIDE DEF a, b
  <2>4. a.type = type /\ b.type = type
    BY <2>1, ArgForms
  <2>5. a = [type |-> a.type, val |-> a.val] /\ b = [type |-> b.type, val |-> b.val]
    BY <2>1 DEF ArgsOf, Types
  <2>6. a.val = b.val
    <3>1. CASE type = "String"
      <4>1. a.val \in Seq(CodePoints) /\ b.val \in Seq(CodePoints)
        BY <2>1, <3>1, ArgForms
      <4>2. Len(a.val) = Len(b.val) /\ \A j \in DOMAIN a.val : SameChar(a.val[j], b.val[j])
        BY <2>2, <2>4, <3>1 DEF SameArg, SameString
      <4>3. \A j \in 1 .. Len(a.val) : a.val[j] \in CodePoints /\ b.val[j] \in CodePoints
        BY <4>1, <4>2
      <4>4. \A j \in 1 .. Len(a.val) : a.val[j] = b.val[j]
        <5> TAKE j \in 1 .. Len(a.val)
        <5>1. j \in DOMAIN a.val /\ j \in DOMAIN b.val
          BY <4>1, <4>2
        <5>2. SameChar(a.val[j], b.val[j])
          BY <4>2, <5>1
        <5>3. a.val[j] <= 65535 /\ b.val[j] <= 65535
          BY <2>3, <2>4, <3>1, <5>1
        <5>4. a.val[j] \in Nat /\ b.val[j] \in Nat
          BY <4>3, CodePointsCount
        <5> QED BY <5>2, <5>3, <5>4, SameBasicChar
      <4> QED BY <4>1, <4>2, <4>4
    <3>2. CASE type # "String"
      BY <2>2, <2>4, <3>2 DEF SameArg
    <3> QED BY <3>1, <3>2
  <2>7. a = b
    BY <2>4, <2>5, <2>6
  <2> QED BY <2>7 DEF a, b
<1>5. c.args = d.args
  <2>1. c.args = [i \in 1 .. n |-> c.args[i]] /\ d.args = [i \in 1 .. n |-> d.args[i]]
    BY <1>2, <1>3
  <2> QED BY <1>4, <2>1
<1> QED BY <1>1, <1>5

(* Hashes known are enough to look up by *)
LEMMA FoundBySameness ==
  ASSUME BasicPlane, HashesKnown
  PROVE  LooksUpTheSame
<1> SUFFICES ASSUME NEW g \in Hashed
             PROVE  g.hash \in DOMAIN map
                      <=> \E c \in Calls : /\ CallHash[c] \in DOMAIN map
                                         /\ g.call.tag = Encoded[c].tag
                                         /\ g.call.args = Encoded[c].args
  BY DEF LooksUpTheSame
<1>1. g.hash = CallBytes(g.call) /\ IsVariant(g.call, Signature) /\ Basic(g.call)
  BY EncodedAssumption DEF Hashed, BasicPlane
<1>2. \A c \in Calls :
        CallHash[c] = CallBytes(Encoded[c]) /\ IsVariant(Encoded[c], Signature) /\ Basic(Encoded[c])
  BY EncodedAssumption DEF BasicPlane
<1>3. ASSUME g.hash \in DOMAIN map
      PROVE  \E c \in Calls : /\ CallHash[c] \in DOMAIN map
                             /\ g.call.tag = Encoded[c].tag /\ g.call.args = Encoded[c].args
  <2>1. PICK c \in Calls : g.hash = CallHash[c]
    BY <1>3 DEF HashesKnown
  <2>2. SameCall(g.call, Encoded[c])
    BY <1>1, <1>2, <2>1, CallRead
  <2>3. g.call.tag = Encoded[c].tag /\ g.call.args = Encoded[c].args
    BY <1>1, <1>2, <2>2, SameInBasicPlane
  <2> QED BY <1>3, <2>1, <2>3
<1>4. ASSUME NEW c \in Calls, CallHash[c] \in DOMAIN map,
             g.call.tag = Encoded[c].tag, g.call.args = Encoded[c].args
      PROVE  g.hash \in DOMAIN map
  <2>1. CallBytes(g.call) = CallBytes(Encoded[c])
    BY <1>4 DEF CallBytes
  <2> QED BY <1>1, <1>2, <1>4, <2>1
<1> QED BY <1>3, <1>4

(* For any enum with methods of texts, integers, characters and booleans,  *)
(* insert and extract know a call just if it was recorded, as long as no   *)
(* text has a character beyond U+FFFF (write_rust of hash.mbt and gen.py). *)
THEOREM FoundByBytes ==
  ASSUME BasicPlane
  PROVE  Spec => []LooksUpTheSame
<1>1. Init => HashesKnown
  BY DEF Init, HashesKnown
<1>2. HashesKnown => LooksUpTheSame
  BY FoundBySameness
<1> QED BY <1>1, <1>2, StepHashesKnown, PTL DEF Spec
=============================================================================
