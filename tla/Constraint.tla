----------------------------- MODULE Constraint -----------------------------
(***************************************************************************)
(* What a memoized call observed while it ran (src/lib/constraint.mbt): the*)
(* immutable tracked calls with their return hashes, each call once and in *)
(* the order of first use, and every mutable call in order.                *)
(***************************************************************************)
EXTENDS Naturals, Sequences, Functions

(* A sequence of (call, return hash) pairs *)
IsPairs(s) ==
  /\ s \in Seq(Range(s))
  /\ \A q \in Range(s) : q = [call |-> q.call, ret |-> q.ret]

IsConstraint(con) ==
  /\ con = [immutable |-> con.immutable, mutable |-> con.mutable]
  /\ IsPairs(con.immutable)
  /\ con.mutable \in Seq(Range(con.mutable))

EmptyConstraint == [immutable |-> <<>>, mutable |-> <<>>]

Recorded(seq) == {p.call : p \in Range(seq)}

(* A faulty Differs: a call recorded before is taken for a conflict *)
DiffersAtAll(con, call, ret) == call \in Recorded(con.immutable)

(* The call was recorded before with another return hash: the code panics *)
Differs(con, call, ret) ==
  \E p \in Range(con.immutable) : p.call = call /\ p.ret # ret

(* A faulty RecordImmutable: a known return hash is taken for a known call *)
RecordByReturn(con, call, ret) ==
  IF \E p \in Range(con.immutable) : p.ret = ret THEN con
  ELSE [con EXCEPT !.immutable = Append(@, [call |-> call, ret |-> ret])]

RecordImmutable(con, call, ret) ==
  IF call \in Recorded(con.immutable) THEN con
  ELSE [con EXCEPT !.immutable = Append(@, [call |-> call, ret |-> ret])]

(* The pairs told one after the other *)
RecordAll(con, pairs) ==
  LET told[n \in 0 .. Len(pairs)] ==
        IF n = 0 THEN con ELSE RecordImmutable(told[n - 1], pairs[n].call, pairs[n].ret)
  IN told[Len(pairs)]

(* The mutable calls of a body, one, or those of a replayed entry in order *)
RecordMutable(con, calls) == [con EXCEPT !.mutable = @ \o calls]
=============================================================================
