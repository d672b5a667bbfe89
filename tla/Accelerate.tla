----------------------------- MODULE Accelerate -----------------------------
(***************************************************************************)
(* The validation accelerators of src/lib/accelerate.mbt: an array, indexed*)
(* by the id of a Tracked instance, of partial maps from calls to return   *)
(* hashes.  Ids are 0-based; the map of id is accs[id + 1].                *)
(***************************************************************************)
EXTENDS Naturals, Sequences

NoAnswers == [c \in {} |-> c]

HasAnswer(accs, id, call) ==
  id < Len(accs) /\ call \in DOMAIN accs[id + 1]

Answer(accs, id, call) == accs[id + 1][call]

(* accelerator_insert of several answers: the array first grows up to id *)
StoreAnswers(accs, id, answers) ==
  IF DOMAIN answers = {} THEN accs
  ELSE LET size  == IF Len(accs) > id THEN Len(accs) ELSE id + 1
           grown == [i \in 1 .. size |-> IF i <= Len(accs) THEN accs[i] ELSE NoAnswers]
       IN [grown EXCEPT ![id + 1] =
             [c \in DOMAIN @ \cup DOMAIN answers |->
                IF c \in DOMAIN answers THEN answers[c] ELSE @[c]]]

(* evict_accelerators: every map is emptied, the array keeps its length *)
EvictAccelerators(accs) == [i \in DOMAIN accs |-> NoAnswers]
=============================================================================
