-------------------------------- MODULE Slab --------------------------------
(***************************************************************************)
(* The slab allocator of src/lib/tree.mbt: a dense array of optional slots *)
(* and a LIFO list of the free ones.  An index handed out by an insertion  *)
(* stays valid until it is removed and may then be handed out again.       *)
(* Indices are 0-based as in the code; slot i is data[i + 1].              *)
(***************************************************************************)
EXTENDS Integers, Sequences

CONSTANT None   \* the empty option: a free slot, no parent, no result

EmptySlab == [data |-> <<>>, free |-> <<>>]

Slot(s, id) == s.data[id + 1]

(* id >= 0 && id < data.length() && data[id] is Some(_) *)
SlabContains(s, id) ==
  /\ id \in 0 .. Len(s.data) - 1
  /\ Slot(s, id) # None

(* A faulty SlabNextId: the oldest free index, though the newest is popped *)
OldestFree(s) == IF s.free = <<>> THEN Len(s.data) ELSE s.free[1]

(* The index the next insertion returns: the last freed one, else a new one *)
SlabNextId(s) == IF s.free = <<>> THEN Len(s.data) ELSE s.free[Len(s.free)]

SlabInsert(s, v) ==
  IF s.free = <<>>
    THEN [data |-> Append(s.data, v), free |-> <<>>]
    ELSE [data |-> [s.data EXCEPT ![SlabNextId(s) + 1] = v],
          free |-> SubSeq(s.free, 1, Len(s.free) - 1)]

SlabRemove(s, id) ==
  [data |-> [s.data EXCEPT ![id + 1] = None], free |-> Append(s.free, id)]

(* Overwriting a live slot in place: a write to a field of the node it holds *)
SlabUpdate(s, id, v) == [data |-> [s.data EXCEPT ![id + 1] = v], free |-> s.free]

SlabLen(s) == Len(s.data) - Len(s.free)

-----------------------------------------------------------------------------

(***************************************************************************)
(* What keeps a slab sound: the free list names exactly the empty slots,   *)
(* each once.  Were an index freed twice, two insertions would share it;   *)
(* were a live one on the list, an insertion would overwrite a live node.  *)
(***************************************************************************)
SlabType(T) == [data : Seq(T \cup {None}), free : Seq(Nat)]

FreeListExact(s) ==
  /\ \A i \in DOMAIN s.free :
       s.free[i] \in 0 .. Len(s.data) - 1 /\ Slot(s, s.free[i]) = None
  /\ \A i, j \in DOMAIN s.free : s.free[i] = s.free[j] => i = j
  /\ \A id \in 0 .. Len(s.data) - 1 :
       Slot(s, id) = None => \E i \in DOMAIN s.free : s.free[i] = id

SlabOK(s, T) == s \in SlabType(T) /\ FreeListExact(s)
=============================================================================
