---------------------------- MODULE SeveralProofs ---------------------------
(***************************************************************************)
(* The recorders of calls with several tracked parameters: they hear what  *)
(* they should while their call runs, and nothing after.                   *)
(***************************************************************************)
EXTENDS SeveralInvariants, DecisionPathTheorems

(* What a program must be like.  A function is called with the same number *)
(* of cells everywhere, none of them twice; a body names its own           *)
(* parameters, and passes on some of them to memoized functions.           *)
Wired ==
  /\ Arity \in [Funs -> 1 .. 6]
  /\ \A f \in Funs : \A t \in Tuples[f] : Len(t) = Arity[f] /\ Distinctly(t)
  /\ \A f \in Funs : \A k, obs :
       /\ Body(f, k, obs).op \in {"read", "write"} => Body(f, k, obs).param \in 1 .. Arity[f]
       /\ Body(f, k, obs).op = "call" =>
            /\ Body(f, k, obs).fun \in Funs
            /\ Body(f, k, obs).params \in Seq(1 .. Arity[f])
            /\ Len(Body(f, k, obs).params) = Arity[Body(f, k, obs).fun]
            /\ Arity[Body(f, k, obs).fun] <= Arity[f]
            /\ Distinctly(Body(f, k, obs).params)

-----------------------------------------------------------------------------
(* Constraints.  Telling recorders of calls lets the constraints of the    *)
(* recorders grow, and leaves the others alone.                            *)

(* heard tells which constraints may be told of a call, on which parameter *)
Grown(old, new, heard) ==
  /\ ConstraintsShaped(new)
  /\ Len(new) = Len(old)
  /\ \A n \in 1 .. Len(old) :
       /\ \A w \in Range(new[n].mutable) :
            w \in Range(old[n].mutable) \/ [con |-> n, param |-> w.param] \in heard
       /\ new[n] = old[n] \/ \E h \in heard : h.con = n

(* Nothing told, nothing changed *)
LEMMA GrownAlready ==
  ASSUME NEW cons, ConstraintsShaped(cons), NEW heard
  PROVE  Grown(cons, cons, heard)
BY DEF Grown

(* Told twice *)
LEMMA GrownTwice ==
  ASSUME NEW a, NEW b, NEW c, NEW heard, Grown(a, b, heard), Grown(b, c, heard)
  PROVE  Grown(a, c, heard)
BY DEF Grown

(* One constraint that gets another sequence, or one more mutable call *)
LEMMA GrownByOne ==
  ASSUME NEW cons, ConstraintsShaped(cons), NEW n \in DOMAIN cons, NEW con, NEW heard,
         DOMAIN con = {"immutable", "mutable"},
         con.immutable \in Seq(Range(con.immutable)), con.mutable \in Seq(Range(con.mutable)),
         \A w \in Range(con.mutable) :
           w \in Range(cons[n].mutable) \/ [con |-> n, param |-> w.param] \in heard,
         \E h \in heard : h.con = n
  PROVE  Grown(cons, [cons EXCEPT ![n] = con], heard)
<1> DEFINE new == [cons EXCEPT ![n] = con]
<1>1. /\ cons \in Seq(Range(cons)) /\ Len(cons) \in Nat /\ DOMAIN cons = 1 .. Len(cons)
  BY Elements DEF ConstraintsShaped
<1>2. \A m \in 1 .. Len(cons) : new[m] = IF m = n THEN con ELSE cons[m]
  BY <1>1
<1>3. new = [m \in 1 .. Len(cons) |-> new[m]]
  BY <1>1
<1> HIDE DEF new
<1>4. new \in Seq(Range(new)) /\ Len(new) = Len(cons) /\ DOMAIN new = 1 .. Len(cons)
  BY <1>1, <1>3, FunctionIsSeq
<1>5. ConstraintsShaped(new)
  <2> SUFFICES ASSUME NEW m \in 1 .. Len(cons)
               PROVE  /\ DOMAIN new[m] = {"immutable", "mutable"}
                      /\ new[m].immutable \in Seq(Range(new[m].immutable))
                      /\ new[m].mutable \in Seq(Range(new[m].mutable))
    BY <1>4 DEF ConstraintsShaped
  <2>1. /\ DOMAIN cons[m] = {"immutable", "mutable"}
        /\ cons[m].immutable \in Seq(Range(cons[m].immutable))
        /\ cons[m].mutable \in Seq(Range(cons[m].mutable))
    BY <1>1 DEF ConstraintsShaped
  <2> QED BY <1>2, <2>1
<1>6. Grown(cons, new, heard)
  BY <1>2, <1>4, <1>5 DEF Grown
<1> QED BY <1>6 DEF new

(* One link is told of a read *)
LEMMA RecordGrows ==
  ASSUME NEW cons, ConstraintsShaped(cons), NEW l, l.con \in DOMAIN cons, NEW heard,
         \E h \in heard : h.con = l.con, NEW tagged, NEW ret
  PROVE  Grown(cons, [cons EXCEPT ![l.con] = Record(@, tagged, ret)], heard)
<1> DEFINE old == cons[l.con]
           con == Record(old, tagged, ret)
           one == [call |-> tagged, ret |-> <<ret>>]
<1>1. /\ DOMAIN old = {"immutable", "mutable"}
      /\ old.immutable \in Seq(Range(old.immutable)) /\ old.mutable \in Seq(Range(old.mutable))
  BY DEF ConstraintsShaped
<1>2. /\ DOMAIN con = {"immutable", "mutable"} /\ con.mutable = old.mutable
      /\ con.immutable = old.immutable \/ con.immutable = Append(old.immutable, one)
  BY <1>1 DEF Record
<1>3. [cons EXCEPT ![l.con] = Record(@, tagged, ret)] = [cons EXCEPT ![l.con] = con]
  OBVIOUS
<1> HIDE DEF con, old, one
<1>4. Append(old.immutable, one) \in Seq(Range(Append(old.immutable, one)))
  BY <1>1, Appended
<1>5. con.immutable \in Seq(Range(con.immutable))
  <2>1. CASE con.immutable = old.immutable
    BY <1>1, <2>1
  <2>2. CASE con.immutable = Append(old.immutable, one)
    BY <1>4, <2>2
  <2> QED BY <1>2, <2>1, <2>2
<1>6. Grown(cons, [cons EXCEPT ![l.con] = con], heard)
  BY <1>1, <1>2, <1>5, GrownByOne DEF old
<1> QED BY <1>3, <1>6

(* One link is told of a write *)
LEMMA RecordMutableGrows ==
  ASSUME NEW cons, ConstraintsShaped(cons), NEW l, l.con \in DOMAIN cons, NEW heard,
         NEW tagged, [con |-> l.con, param |-> tagged.param] \in heard
  PROVE  Grown(cons, [cons EXCEPT ![l.con] = RecordMutable(@, <<tagged>>)], heard)
<1> DEFINE old == cons[l.con]
           one == <<tagged>>
           con == RecordMutable(old, one)
<1>1. /\ DOMAIN old = {"immutable", "mutable"}
      /\ old.immutable \in Seq(Range(old.immutable)) /\ old.mutable \in Seq(Range(old.mutable))
  BY DEF ConstraintsShaped
<1>2. one = [i \in 1 .. 1 |-> one[i]] /\ one[1] = tagged
  OBVIOUS
<1>3. /\ DOMAIN con = {"immutable", "mutable"} /\ con.mutable = old.mutable \o one
      /\ con.immutable = old.immutable
  BY <1>1 DEF RecordMutable
<1>4. [cons EXCEPT ![l.con] = RecordMutable(@, <<tagged>>)] = [cons EXCEPT ![l.con] = con]
  OBVIOUS
<1> HIDE DEF con, old, one
<1>5. one \in Seq(Range(one)) /\ Range(one) = {tagged}
  BY <1>2, FunctionIsSeq DEF Range
<1>6. /\ con.mutable \in Seq(Range(con.mutable))
      /\ Range(con.mutable) = Range(old.mutable) \cup {tagged}
  BY <1>1, <1>3, <1>5, Joined
<1>7. \E h \in heard : h.con = l.con
  OBVIOUS
<1>8. Grown(cons, [cons EXCEPT ![l.con] = con], heard)
  BY <1>1, <1>3, <1>6, <1>7, GrownByOne DEF old
<1> QED BY <1>4, <1>8

-----------------------------------------------------------------------------
(* The loops over links, parameters and calls, step by step. *)

(* RecordRead tells one link after the other *)
ReadBy(param, call, ret, links, told) ==
  /\ told[0] = constraints
  /\ \A n \in 1 .. Len(links) :
       told[n] = [told[n - 1] EXCEPT ![links[n].con] = Record(@, Tagged(links[n], param, call), ret)]
  /\ RecordRead(param, call, ret) = told[Len(links)]

(* RecordRead is its loop, unrolled *)
LEMMA ReadSteps ==
  ASSUME NEW param, NEW call, NEW ret, NEW links, links = slots[CellOf(param)],
         links \in Seq(Range(links))
  PROVE  \E told : ReadBy(param, call, ret, links, told)
<1> DEFINE Next1(c, n) == [c EXCEPT ![links[n].con] = Record(@, Tagged(links[n], param, call), ret)]
           L == Len(links)
           Upto(i, g) == g = [n \in 0 .. i |-> IF n = 0 THEN constraints ELSE Next1(g[n - 1], n)]
           P == {i \in 0 .. L : \E g : Upto(i, g)}
<1> HIDE DEF Next1
<1>1. L \in Nat
  BY Elements
<1>2. 0 \in P
  <2> DEFINE g == [n \in 0 .. 0 |-> constraints]
  <2>1. Upto(0, g)
    OBVIOUS
  <2> HIDE DEF g
  <2> QED BY <2>1, <1>1
<1>3. ASSUME NEW i \in 0 .. L - 1, i \in P PROVE i + 1 \in P
  <2>1. PICK g : Upto(i, g)
    BY <1>3
  <2> DEFINE h == [n \in 0 .. i + 1 |-> IF n = i + 1 THEN Next1(g[i], i + 1) ELSE g[n]]
  <2>2. \A n \in 0 .. i + 1 : h[n] = IF n = 0 THEN constraints ELSE Next1(h[n - 1], n)
    <3> TAKE n \in 0 .. i + 1
    <3>1. CASE n = i + 1
      BY <3>1, <1>1
    <3>2. CASE n # i + 1
      <4>1. n \in 0 .. i /\ h[n] = g[n]
        BY <3>2
      <4>2. n # 0 => h[n - 1] = g[n - 1]
        BY <4>1
      <4>3. g[n] = IF n = 0 THEN constraints ELSE Next1(g[n - 1], n)
        BY <2>1, <4>1
      <4> QED BY <4>1, <4>2, <4>3
    <3> QED BY <3>1, <3>2
  <2>3. Upto(i + 1, h)
    BY <2>2
  <2> HIDE DEF h
  <2> QED BY <2>3, <1>1
<1>4. PICK g : Upto(L, g)
  <2>1. L \in P
    BY <1>1, <1>2, <1>3, CountUp
  <2> QED BY <2>1
<1> DEFINE told == CHOOSE f : Upto(L, f)
<1>5. Upto(L, told)
  BY <1>4
<1>6. RecordRead(param, call, ret) = told[L]
  BY DEF RecordRead, Next1
<1> HIDE DEF told
<1>7. \A n \in 0 .. L : told[n] = IF n = 0 THEN constraints ELSE Next1(told[n - 1], n)
  BY <1>5
<1>8. told[0] = constraints /\ \A n \in 1 .. L : told[n] = Next1(told[n - 1], n)
  BY <1>7, <1>1
<1>9. ReadBy(param, call, ret, links, told)
  BY <1>6, <1>8 DEF Next1, ReadBy
<1> QED BY <1>9

(* RecordWrite tells one link after the other *)
WriteBy(cons, cell, param, call, links, told) ==
  /\ told[0] = cons
  /\ \A n \in 1 .. Len(links) :
       told[n] = [told[n - 1] EXCEPT ![links[n].con] = RecordMutable(@, <<Tagged(links[n], param, call)>>)]
  /\ RecordWrite(cons, cell, param, call) = told[Len(links)]

(* RecordWrite is its loop, unrolled *)
LEMMA WriteSteps ==
  ASSUME NEW cons, NEW cell, NEW param, NEW call, NEW links, links = slots[cell],
         links \in Seq(Range(links))
  PROVE  \E told : WriteBy(cons, cell, param, call, links, told)
<1> DEFINE Next1(c, n) == [c EXCEPT ![links[n].con] = RecordMutable(@, <<Tagged(links[n], param, call)>>)]
           L == Len(links)
           Upto(i, g) == g = [n \in 0 .. i |-> IF n = 0 THEN cons ELSE Next1(g[n - 1], n)]
           P == {i \in 0 .. L : \E g : Upto(i, g)}
<1> HIDE DEF Next1
<1>1. L \in Nat
  BY Elements
<1>2. 0 \in P
  <2> DEFINE g == [n \in 0 .. 0 |-> cons]
  <2>1. Upto(0, g)
    OBVIOUS
  <2> HIDE DEF g
  <2> QED BY <2>1, <1>1
<1>3. ASSUME NEW i \in 0 .. L - 1, i \in P PROVE i + 1 \in P
  <2>1. PICK g : Upto(i, g)
    BY <1>3
  <2> DEFINE h == [n \in 0 .. i + 1 |-> IF n = i + 1 THEN Next1(g[i], i + 1) ELSE g[n]]
  <2>2. \A n \in 0 .. i + 1 : h[n] = IF n = 0 THEN cons ELSE Next1(h[n - 1], n)
    <3> TAKE n \in 0 .. i + 1
    <3>1. CASE n = i + 1
      BY <3>1, <1>1
    <3>2. CASE n # i + 1
      <4>1. n \in 0 .. i /\ h[n] = g[n]
        BY <3>2
      <4>2. n # 0 => h[n - 1] = g[n - 1]
        BY <4>1
      <4>3. g[n] = IF n = 0 THEN cons ELSE Next1(g[n - 1], n)
        BY <2>1, <4>1
      <4> QED BY <4>1, <4>2, <4>3
    <3> QED BY <3>1, <3>2
  <2>3. Upto(i + 1, h)
    BY <2>2
  <2> HIDE DEF h
  <2> QED BY <2>3, <1>1
<1>4. PICK g : Upto(L, g)
  <2>1. L \in P
    BY <1>1, <1>2, <1>3, CountUp
  <2> QED BY <2>1
<1> DEFINE told == CHOOSE f : Upto(L, f)
<1>5. Upto(L, told)
  BY <1>4
<1>6. RecordWrite(cons, cell, param, call) = told[L]
  BY DEF RecordWrite, Next1
<1> HIDE DEF told
<1>7. \A n \in 0 .. L : told[n] = IF n = 0 THEN cons ELSE Next1(told[n - 1], n)
  BY <1>5
<1>8. told[0] = cons /\ \A n \in 1 .. L : told[n] = Next1(told[n - 1], n)
  BY <1>7, <1>1
<1>9. WriteBy(cons, cell, param, call, links, told)
  BY <1>6, <1>8 DEF Next1, WriteBy
<1> QED BY <1>9

(* Attach takes one parameter after the other *)
AttachBy(tuple, con, told) ==
  /\ told[0] = slots
  /\ \A n \in 1 .. Len(tuple) :
       told[n] = [told[n - 1] EXCEPT ![tuple[n]] = <<[con |-> con, param |-> n]>> \o @]
  /\ Attach(tuple, con) = [slots |-> told[Len(tuple)],
        prevs |-> [n \in 1 .. Len(tuple) |-> told[n - 1][tuple[n]]]]

(* Attach is its loop, unrolled *)
LEMMA AttachSteps ==
  ASSUME NEW tuple, tuple \in Seq(Range(tuple)), NEW con
  PROVE  \E told : AttachBy(tuple, con, told)
<1> DEFINE Next1(c, n) == [c EXCEPT ![tuple[n]] = <<[con |-> con, param |-> n]>> \o @]
           L == Len(tuple)
           Upto(i, g) == g = [n \in 0 .. i |-> IF n = 0 THEN slots ELSE Next1(g[n - 1], n)]
           P == {i \in 0 .. L : \E g : Upto(i, g)}
<1> HIDE DEF Next1
<1>1. L \in Nat
  BY Elements
<1>2. 0 \in P
  <2> DEFINE g == [n \in 0 .. 0 |-> slots]
  <2>1. Upto(0, g)
    OBVIOUS
  <2> HIDE DEF g
  <2> QED BY <2>1, <1>1
<1>3. ASSUME NEW i \in 0 .. L - 1, i \in P PROVE i + 1 \in P
  <2>1. PICK g : Upto(i, g)
    BY <1>3
  <2> DEFINE h == [n \in 0 .. i + 1 |-> IF n = i + 1 THEN Next1(g[i], i + 1) ELSE g[n]]
  <2>2. \A n \in 0 .. i + 1 : h[n] = IF n = 0 THEN slots ELSE Next1(h[n - 1], n)
    <3> TAKE n \in 0 .. i + 1
    <3>1. CASE n = i + 1
      BY <3>1, <1>1
    <3>2. CASE n # i + 1
      <4>1. n \in 0 .. i /\ h[n] = g[n]
        BY <3>2
      <4>2. n # 0 => h[n - 1] = g[n - 1]
        BY <4>1
      <4>3. g[n] = IF n = 0 THEN slots ELSE Next1(g[n - 1], n)
        BY <2>1, <4>1
      <4> QED BY <4>1, <4>2, <4>3
    <3> QED BY <3>1, <3>2
  <2>3. Upto(i + 1, h)
    BY <2>2
  <2> HIDE DEF h
  <2> QED BY <2>3, <1>1
<1>4. PICK g : Upto(L, g)
  <2>1. L \in P
    BY <1>1, <1>2, <1>3, CountUp
  <2> QED BY <2>1
<1> DEFINE told == CHOOSE f : Upto(L, f)
<1>5. Upto(L, told)
  BY <1>4
<1>6. Attach(tuple, con) = [slots |-> told[L],
        prevs |-> [n \in 1 .. L |-> told[n - 1][tuple[n]]]]
  BY DEF Attach, Next1
<1> HIDE DEF told
<1>7. \A n \in 0 .. L : told[n] = IF n = 0 THEN slots ELSE Next1(told[n - 1], n)
  BY <1>5
<1>8. told[0] = slots /\ \A n \in 1 .. L : told[n] = Next1(told[n - 1], n)
  BY <1>7, <1>1
<1>9. AttachBy(tuple, con, told)
  BY <1>6, <1>8 DEF Next1, AttachBy
<1> QED BY <1>9

(* Detach takes one parameter after the other *)
DetachBy(tuple, prevs, told) ==
  /\ told[0] = slots
  /\ \A n \in 1 .. Len(tuple) :
       told[n] = [told[n - 1] EXCEPT ![tuple[n]] = prevs[n]]
  /\ Detach(tuple, prevs) = told[Len(tuple)]

(* Detach is its loop, unrolled *)
LEMMA DetachSteps ==
  ASSUME NEW tuple, tuple \in Seq(Range(tuple)), NEW prevs
  PROVE  \E told : DetachBy(tuple, prevs, told)
<1> DEFINE Next1(c, n) == [c EXCEPT ![tuple[n]] = prevs[n]]
           L == Len(tuple)
           Upto(i, g) == g = [n \in 0 .. i |-> IF n = 0 THEN slots ELSE Next1(g[n - 1], n)]
           P == {i \in 0 .. L : \E g : Upto(i, g)}
<1> HIDE DEF Next1
<1>1. L \in Nat
  BY Elements
<1>2. 0 \in P
  <2> DEFINE g == [n \in 0 .. 0 |-> slots]
  <2>1. Upto(0, g)
    OBVIOUS
  <2> HIDE DEF g
  <2> QED BY <2>1, <1>1
<1>3. ASSUME NEW i \in 0 .. L - 1, i \in P PROVE i + 1 \in P
  <2>1. PICK g : Upto(i, g)
    BY <1>3
  <2> DEFINE h == [n \in 0 .. i + 1 |-> IF n = i + 1 THEN Next1(g[i], i + 1) ELSE g[n]]
  <2>2. \A n \in 0 .. i + 1 : h[n] = IF n = 0 THEN slots ELSE Next1(h[n - 1], n)
    <3> TAKE n \in 0 .. i + 1
    <3>1. CASE n = i + 1
      BY <3>1, <1>1
    <3>2. CASE n # i + 1
      <4>1. n \in 0 .. i /\ h[n] = g[n]
        BY <3>2
      <4>2. n # 0 => h[n - 1] = g[n - 1]
        BY <4>1
      <4>3. g[n] = IF n = 0 THEN slots ELSE Next1(g[n - 1], n)
        BY <2>1, <4>1
      <4> QED BY <4>1, <4>2, <4>3
    <3> QED BY <3>1, <3>2
  <2>3. Upto(i + 1, h)
    BY <2>2
  <2> HIDE DEF h
  <2> QED BY <2>3, <1>1
<1>4. PICK g : Upto(L, g)
  <2>1. L \in P
    BY <1>1, <1>2, <1>3, CountUp
  <2> QED BY <2>1
<1> DEFINE told == CHOOSE f : Upto(L, f)
<1>5. Upto(L, told)
  BY <1>4
<1>6. Detach(tuple, prevs) = told[L]
  BY DEF Detach, Next1
<1> HIDE DEF told
<1>7. \A n \in 0 .. L : told[n] = IF n = 0 THEN slots ELSE Next1(told[n - 1], n)
  BY <1>5
<1>8. told[0] = slots /\ \A n \in 1 .. L : told[n] = Next1(told[n - 1], n)
  BY <1>7, <1>1
<1>9. DetachBy(tuple, prevs, told)
  BY <1>6, <1>8 DEF Next1, DetachBy
<1> QED BY <1>9

(* One call of an entry's replayed *)
ReplayedOne(done, c, tuple) ==
  [cells |-> [done.cells EXCEPT ![tuple[c.param]] = Effect(c.call, @)],
   cons  |-> RecordWrite(done.cons, tuple[c.param], c.param, c.call)]

(* Replayed takes one call after the other *)
ReplayBy(calls, tuple, told) ==
  /\ told[0] = [cells |-> cells, cons |-> constraints]
  /\ \A n \in 1 .. Len(calls) :
       told[n] = ReplayedOne(told[n - 1], calls[n], tuple)
  /\ Replayed(calls, tuple) = told[Len(calls)]

(* The replay of a hit is its loop, unrolled *)
LEMMA ReplaySteps ==
  ASSUME NEW calls, calls \in Seq(Range(calls)), NEW tuple
  PROVE  \E told : ReplayBy(calls, tuple, told)
<1> DEFINE Next1(c, n) == ReplayedOne(c, calls[n], tuple)
           L == Len(calls)
           Upto(i, g) == g = [n \in 0 .. i |-> IF n = 0 THEN [cells |-> cells, cons |-> constraints] ELSE Next1(g[n - 1], n)]
           P == {i \in 0 .. L : \E g : Upto(i, g)}
<1> HIDE DEF Next1
<1>1. L \in Nat
  BY Elements
<1>2. 0 \in P
  <2> DEFINE g == [n \in 0 .. 0 |-> [cells |-> cells, cons |-> constraints]]
  <2>1. Upto(0, g)
    OBVIOUS
  <2> HIDE DEF g
  <2> QED BY <2>1, <1>1
<1>3. ASSUME NEW i \in 0 .. L - 1, i \in P PROVE i + 1 \in P
  <2>1. PICK g : Upto(i, g)
    BY <1>3
  <2> DEFINE h == [n \in 0 .. i + 1 |-> IF n = i + 1 THEN Next1(g[i], i + 1) ELSE g[n]]
  <2>2. \A n \in 0 .. i + 1 : h[n] = IF n = 0 THEN [cells |-> cells, cons |-> constraints] ELSE Next1(h[n - 1], n)
    <3> TAKE n \in 0 .. i + 1
    <3>1. CASE n = i + 1
      BY <3>1, <1>1
    <3>2. CASE n # i + 1
      <4>1. n \in 0 .. i /\ h[n] = g[n]
        BY <3>2
      <4>2. n # 0 => h[n - 1] = g[n - 1]
        BY <4>1
      <4>3. g[n] = IF n = 0 THEN [cells |-> cells, cons |-> constraints] ELSE Next1(g[n - 1], n)
        BY <2>1, <4>1
      <4> QED BY <4>1, <4>2, <4>3
    <3> QED BY <3>1, <3>2
  <2>3. Upto(i + 1, h)
    BY <2>2
  <2> HIDE DEF h
  <2> QED BY <2>3, <1>1
<1>4. PICK g : Upto(L, g)
  <2>1. L \in P
    BY <1>1, <1>2, <1>3, CountUp
  <2> QED BY <2>1
<1> DEFINE told == CHOOSE f : Upto(L, f)
<1>5. Upto(L, told)
  BY <1>4
<1>6. Replayed(calls, tuple) = told[L]
  BY DEF Replayed, ReplayedOne, Next1
<1> HIDE DEF told
<1>7. \A n \in 0 .. L : told[n] = IF n = 0 THEN [cells |-> cells, cons |-> constraints] ELSE Next1(told[n - 1], n)
  BY <1>5
<1>8. told[0] = [cells |-> cells, cons |-> constraints] /\ \A n \in 1 .. L : told[n] = Next1(told[n - 1], n)
  BY <1>7, <1>1
<1>9. ReplayBy(calls, tuple, told)
  BY <1>6, <1>8 DEF Next1, ReplayBy
<1> QED BY <1>9

-----------------------------------------------------------------------------
(* What the loops do. *)

(* A read is told to the links of its cell, and to no other constraint     *)
LEMMA ReadGrows ==
  ASSUME ConstraintsShaped(constraints), NEW param, NEW call, NEW ret, NEW heard,
         slots[CellOf(param)] \in Seq(Range(slots[CellOf(param)])),
         \A l \in Range(slots[CellOf(param)]) :
           l.con \in DOMAIN constraints /\ \E h \in heard : h.con = l.con
  PROVE  Grown(constraints, RecordRead(param, call, ret), heard)
<1> DEFINE links == slots[CellOf(param)]
<1>1. links \in Seq(Range(links)) /\ Len(links) \in Nat /\ \A i \in 1 .. Len(links) : links[i] \in Range(links)
  BY Elements
<1>0. PICK told : ReadBy(param, call, ret, links, told)
  BY <1>1, ReadSteps
<1>2. /\ told[0] = constraints
      /\ \A n \in 1 .. Len(links) :
           told[n] = [told[n - 1] EXCEPT ![links[n].con] =
                        Record(@, Tagged(links[n], param, call), ret)]
      /\ RecordRead(param, call, ret) = told[Len(links)]
  BY <1>0 DEF ReadBy
<1> DEFINE P == {n \in 0 .. Len(links) : Grown(constraints, told[n], heard)}
<1>3. \A l \in Range(links) : l.con \in DOMAIN constraints /\ \E h \in heard : h.con = l.con
  OBVIOUS
<1> HIDE DEF links
<1>4. 0 \in P
  BY <1>1, <1>2, GrownAlready
<1>5. ASSUME NEW i \in 0 .. Len(links) - 1, i \in P PROVE i + 1 \in P
  <2>1. i + 1 \in 1 .. Len(links) /\ (i + 1) - 1 = i
    BY <1>1
  <2> DEFINE l == links[i + 1]
             old == told[i]
  <2>2. l \in Range(links)
    BY <1>1, <2>1
  <2>3. told[i + 1] = [old EXCEPT ![l.con] = Record(@, Tagged(l, param, call), ret)]
    BY <1>2, <2>1
  <2>4. Grown(constraints, old, heard)
    BY <1>5
  <2> HIDE DEF l, old
  <2>5. ConstraintsShaped(old) /\ l.con \in DOMAIN old
    BY <1>3, <2>2, <2>4, Elements DEF Grown, ConstraintsShaped
  <2>6. Grown(old, told[i + 1], heard)
    <3>1. \E h \in heard : h.con = l.con
      BY <1>3, <2>2
    <3>2. Grown(old, [old EXCEPT ![l.con] = Record(@, Tagged(l, param, call), ret)], heard)
      BY <3>1, <2>5, RecordGrows
    <3> QED BY <3>2, <2>3
  <2>7. Grown(constraints, told[i + 1], heard)
    BY <2>4, <2>6, GrownTwice
  <2> QED BY <2>1, <2>7
<1>6. Len(links) \in P
  <2> HIDE DEF P
  <2> QED BY <1>1, <1>4, <1>5, CountUp
<1> QED BY <1>2, <1>6

(* So is a write, which each recorder keeps under a parameter of its own   *)
LEMMA WriteGrows ==
  ASSUME NEW cons, ConstraintsShaped(cons), NEW cell, NEW param, NEW call, NEW heard,
         slots[cell] \in Seq(Range(slots[cell])),
         \A l \in Range(slots[cell]) :
           /\ l.con \in DOMAIN cons
           /\ [con |-> l.con, param |-> Tagged(l, param, call).param] \in heard
  PROVE  Grown(cons, RecordWrite(cons, cell, param, call), heard)
<1> DEFINE links == slots[cell]
<1>1. links \in Seq(Range(links)) /\ Len(links) \in Nat /\ \A i \in 1 .. Len(links) : links[i] \in Range(links)
  BY Elements
<1>0. PICK told : WriteBy(cons, cell, param, call, links, told)
  BY <1>1, WriteSteps
<1>2. /\ told[0] = cons
      /\ \A n \in 1 .. Len(links) :
           told[n] = [told[n - 1] EXCEPT ![links[n].con] =
                        RecordMutable(@, <<Tagged(links[n], param, call)>>)]
      /\ RecordWrite(cons, cell, param, call) = told[Len(links)]
  BY <1>0 DEF WriteBy
<1> DEFINE P == {n \in 0 .. Len(links) : Grown(cons, told[n], heard)}
<1>3. \A l \in Range(links) :
        /\ l.con \in DOMAIN cons
        /\ [con |-> l.con, param |-> Tagged(l, param, call).param] \in heard
  OBVIOUS
<1> HIDE DEF links
<1>4. 0 \in P
  BY <1>1, <1>2, GrownAlready
<1>5. ASSUME NEW i \in 0 .. Len(links) - 1, i \in P PROVE i + 1 \in P
  <2>1. i + 1 \in 1 .. Len(links) /\ (i + 1) - 1 = i
    BY <1>1
  <2> DEFINE l == links[i + 1]
             old == told[i]
             tagged == Tagged(l, param, call)
  <2>2. l \in Range(links)
    BY <1>1, <2>1
  <2>3. told[i + 1] = [old EXCEPT ![l.con] = RecordMutable(@, <<tagged>>)]
    BY <1>2, <2>1
  <2>4. Grown(cons, old, heard)
    BY <1>5
  <2>5. [con |-> l.con, param |-> tagged.param] \in heard
    BY <1>3, <2>2
  <2> HIDE DEF l, old, tagged
  <2>6. ConstraintsShaped(old) /\ l.con \in DOMAIN old
    BY <1>3, <2>2, <2>4, Elements DEF Grown, ConstraintsShaped
  <2>7. Grown(old, told[i + 1], heard)
    BY <2>3, <2>5, <2>6, RecordMutableGrows
  <2>8. Grown(cons, told[i + 1], heard)
    BY <2>4, <2>7, GrownTwice
  <2> QED BY <2>1, <2>8
<1>6. Len(links) \in P
  <2> HIDE DEF P
  <2> QED BY <1>1, <1>4, <1>5, CountUp
<1> QED BY <1>2, <1>6

(* So are all the writes that a hit replays *)
LEMMA ReplayGrows ==
  ASSUME ConstraintsShaped(constraints), NEW calls, calls \in Seq(Range(calls)), NEW tuple, NEW heard,
         \A c \in Range(calls) :
           /\ slots[tuple[c.param]] \in Seq(Range(slots[tuple[c.param]]))
           /\ \A l \in Range(slots[tuple[c.param]]) :
                /\ l.con \in DOMAIN constraints
                /\ [con |-> l.con, param |-> Tagged(l, c.param, c.call).param] \in heard
  PROVE  Grown(constraints, Replayed(calls, tuple).cons, heard)
<1>1. Len(calls) \in Nat /\ \A i \in 1 .. Len(calls) : calls[i] \in Range(calls)
  BY Elements
<1>0. PICK told : ReplayBy(calls, tuple, told)
  BY ReplaySteps
<1>2. /\ told[0] = [cells |-> cells, cons |-> constraints]
      /\ \A n \in 1 .. Len(calls) :
           told[n] = ReplayedOne(told[n - 1], calls[n], tuple)
      /\ Replayed(calls, tuple) = told[Len(calls)]
  BY <1>0 DEF ReplayBy
<1> DEFINE P == {n \in 0 .. Len(calls) : Grown(constraints, told[n].cons, heard)}
<1>3. 0 \in P
  <2>1. told[0].cons = constraints
    BY <1>2
  <2> QED BY <2>1, <1>1, GrownAlready
<1>4. ASSUME NEW i \in 0 .. Len(calls) - 1, i \in P PROVE i + 1 \in P
  <2>1. i + 1 \in 1 .. Len(calls) /\ (i + 1) - 1 = i
    BY <1>1
  <2> DEFINE c == calls[i + 1]
             old == told[i].cons
             cell == tuple[c.param]
  <2>2. c \in Range(calls)
    BY <1>1, <2>1
  <2>3. told[i + 1].cons = RecordWrite(old, cell, c.param, c.call)
    <3>1. told[i + 1] = ReplayedOne(told[i], c, tuple)
      BY <1>2, <2>1
    <3> QED BY <3>1 DEF ReplayedOne
  <2>4. Grown(constraints, old, heard)
    BY <1>4
  <2>5. /\ slots[cell] \in Seq(Range(slots[cell]))
        /\ \A l \in Range(slots[cell]) :
             /\ l.con \in DOMAIN constraints
             /\ [con |-> l.con, param |-> Tagged(l, c.param, c.call).param] \in heard
    BY <2>2
  <2> HIDE DEF c, old, cell
  <2>6. ConstraintsShaped(old) /\ DOMAIN old = DOMAIN constraints
    BY <2>4, Elements DEF Grown, ConstraintsShaped
  <2>7. Grown(old, told[i + 1].cons, heard)
    BY <2>3, <2>5, <2>6, WriteGrows
  <2>8. Grown(constraints, told[i + 1].cons, heard)
    BY <2>4, <2>7, GrownTwice
  <2> QED BY <2>1, <2>8
<1>5. Len(calls) \in P
  <2> HIDE DEF P
  <2> QED BY <1>1, <1>3, <1>4, CountUp
<1> QED BY <1>2, <1>5

(* Attached to distinct cells, each link is in front of the chain it found *)
LEMMA AttachLinks ==
  ASSUME DOMAIN slots = Cells, NEW tuple \in Seq(Cells), Distinctly(tuple), NEW con
  PROVE  /\ DOMAIN Attach(tuple, con).slots = Cells
         /\ \A i \in DOMAIN tuple :
              /\ Attach(tuple, con).slots[tuple[i]]
                   = <<[con |-> con, param |-> i]>> \o slots[tuple[i]]
              /\ Attach(tuple, con).prevs[i] = slots[tuple[i]]
         /\ \A c \in Cells \ Range(tuple) : Attach(tuple, con).slots[c] = slots[c]
<1> DEFINE L == Len(tuple)
           Link(i) == <<[con |-> con, param |-> i]>>
<1>1. /\ tuple \in Seq(Range(tuple)) /\ L \in Nat /\ DOMAIN tuple = 1 .. L
      /\ \A i \in 1 .. L : tuple[i] \in Cells
  BY DEF Range
<1>0. PICK told : AttachBy(tuple, con, told)
  BY <1>1, AttachSteps
<1>2. /\ told[0] = slots
      /\ \A n \in 1 .. L :
           told[n] = [told[n - 1] EXCEPT ![tuple[n]] = Link(n) \o @]
      /\ Attach(tuple, con) =
           [slots |-> told[L], prevs |-> [n \in 1 .. L |-> told[n - 1][tuple[n]]]]
  BY <1>0 DEF AttachBy, Link
<1> DEFINE Done(n) == /\ DOMAIN told[n] = Cells
                      /\ \A i \in 1 .. n : told[n][tuple[i]] = Link(i) \o slots[tuple[i]]
                      /\ \A c \in Cells : (\A i \in 1 .. n : tuple[i] # c) => told[n][c] = slots[c]
<1> HIDE DEF Link, L
<1>3. ASSUME NEW m \in 0 .. L PROVE Done(m)
  <2> DEFINE P == {n \in 0 .. m : Done(n)}
  <2>1. 0 \in P
    BY <1>2
  <2>2. ASSUME NEW n \in 0 .. m - 1, n \in P PROVE n + 1 \in P
    <3> DEFINE old == told[n]
               new == told[n + 1]
    <3>1. n + 1 \in 1 .. L /\ (n + 1) - 1 = n
      BY <1>1
    <3>2. new = [old EXCEPT ![tuple[n + 1]] = Link(n + 1) \o @]
      BY <1>2, <3>1
    <3>3. DOMAIN old = Cells /\ tuple[n + 1] \in Cells
      BY <1>1, <2>2, <3>1
    <3>4. \A i \in 1 .. n : tuple[i] # tuple[n + 1] /\ tuple[i] \in Cells
      BY <1>1, <3>1 DEF Distinctly
    <3>5. old[tuple[n + 1]] = slots[tuple[n + 1]]
      BY <2>2, <3>3, <3>4
    <3>6. \A i \in 1 .. n : old[tuple[i]] = Link(i) \o slots[tuple[i]]
      BY <2>2
    <3>7. \A c \in Cells : (\A i \in 1 .. n : tuple[i] # c) => old[c] = slots[c]
      BY <2>2
    <3> HIDE DEF old, new
    <3>8. DOMAIN new = Cells /\ new[tuple[n + 1]] = Link(n + 1) \o slots[tuple[n + 1]]
      BY <3>2, <3>3, <3>5
    <3>9. \A c \in Cells : c # tuple[n + 1] => new[c] = old[c]
      BY <3>2, <3>3
    <3>10. \A i \in 1 .. n + 1 : new[tuple[i]] = Link(i) \o slots[tuple[i]]
      <4> TAKE i \in 1 .. n + 1
      <4>1. CASE i = n + 1
        BY <4>1, <3>8
      <4>2. CASE i # n + 1
        <5>1. i \in 1 .. n
          BY <4>2
        <5> QED BY <5>1, <3>4, <3>6, <3>9
      <4> QED BY <4>1, <4>2
    <3>11. ASSUME NEW c \in Cells, \A i \in 1 .. n + 1 : tuple[i] # c PROVE new[c] = slots[c]
      <4>1. c # tuple[n + 1] /\ \A i \in 1 .. n : tuple[i] # c
        BY <3>11, <3>1
      <4> QED BY <4>1, <3>7, <3>9
    <3>12. Done(n + 1)
      BY <3>8, <3>10, <3>11 DEF new
    <3> HIDE DEF Done
    <3> QED BY <3>12
  <2>3. m \in P
    <3> HIDE DEF P
    <3> QED BY <2>1, <2>2, CountUp
  <2> QED BY <2>3
<1>4. Done(L)
  <2> HIDE DEF Done
  <2> QED BY <1>1, <1>3
<1>5. ASSUME NEW i \in 1 .. L PROVE told[i - 1][tuple[i]] = slots[tuple[i]]
  <2>1. i - 1 \in 0 .. L /\ \A j \in 1 .. i - 1 : j \in 1 .. L /\ j # i
    BY <1>1
  <2>2. \A j \in 1 .. i - 1 : tuple[j] # tuple[i]
    BY <1>1, <2>1 DEF Distinctly
  <2>3. Done(i - 1)
    BY <1>3, <2>1
  <2> QED BY <1>1, <2>2, <2>3
<1>6. Attach(tuple, con).slots = told[L] /\ \A i \in 1 .. L : Attach(tuple, con).prevs[i] = slots[tuple[i]]
  BY <1>2, <1>5
<1>7. \A c \in Cells \ Range(tuple) : \A i \in 1 .. L : tuple[i] # c
  BY <1>1 DEF Range
<1> QED BY <1>1, <1>4, <1>6, <1>7 DEF Link

(* Detached from distinct cells, each has the chain that was kept *)
LEMMA DetachLinks ==
  ASSUME DOMAIN slots = Cells, NEW tuple \in Seq(Cells), Distinctly(tuple), NEW prevs
  PROVE  /\ DOMAIN Detach(tuple, prevs) = Cells
         /\ \A i \in DOMAIN tuple : Detach(tuple, prevs)[tuple[i]] = prevs[i]
         /\ \A c \in Cells \ Range(tuple) : Detach(tuple, prevs)[c] = slots[c]
<1> DEFINE L == Len(tuple)
<1>1. /\ tuple \in Seq(Range(tuple)) /\ L \in Nat /\ DOMAIN tuple = 1 .. L
      /\ \A i \in 1 .. L : tuple[i] \in Cells
  BY DEF Range
<1>0. PICK told : DetachBy(tuple, prevs, told)
  BY <1>1, DetachSteps
<1>2. /\ told[0] = slots
      /\ \A n \in 1 .. L : told[n] = [told[n - 1] EXCEPT ![tuple[n]] = prevs[n]]
      /\ Detach(tuple, prevs) = told[L]
  BY <1>0 DEF DetachBy
<1> DEFINE Done(n) == /\ DOMAIN told[n] = Cells
                      /\ \A i \in 1 .. n : told[n][tuple[i]] = prevs[i]
                      /\ \A c \in Cells : (\A i \in 1 .. n : tuple[i] # c) => told[n][c] = slots[c]
           P == {n \in 0 .. L : Done(n)}
<1> HIDE DEF L
<1>3. 0 \in P
  BY <1>1, <1>2
<1>4. ASSUME NEW n \in 0 .. L - 1, n \in P PROVE n + 1 \in P
  <2> DEFINE old == told[n]
             new == told[n + 1]
  <2>1. n + 1 \in 1 .. L /\ (n + 1) - 1 = n
    BY <1>1
  <2>2. new = [old EXCEPT ![tuple[n + 1]] = prevs[n + 1]]
    BY <1>2, <2>1
  <2>3. DOMAIN old = Cells /\ tuple[n + 1] \in Cells
    BY <1>1, <1>4, <2>1
  <2>4. \A i \in 1 .. n : tuple[i] # tuple[n + 1] /\ tuple[i] \in Cells
    BY <1>1, <2>1 DEF Distinctly
  <2>5. \A i \in 1 .. n : old[tuple[i]] = prevs[i]
    BY <1>4
  <2>6. \A c \in Cells : (\A i \in 1 .. n : tuple[i] # c) => old[c] = slots[c]
    BY <1>4
  <2> HIDE DEF old, new
  <2>7. DOMAIN new = Cells /\ new[tuple[n + 1]] = prevs[n + 1]
    BY <2>2, <2>3
  <2>8. \A c \in Cells : c # tuple[n + 1] => new[c] = old[c]
    BY <2>2, <2>3
  <2>9. \A i \in 1 .. n + 1 : new[tuple[i]] = prevs[i]
    <3> TAKE i \in 1 .. n + 1
    <3>1. CASE i = n + 1
      BY <3>1, <2>7
    <3>2. CASE i # n + 1
      <4>1. i \in 1 .. n
        BY <3>2
      <4> QED BY <4>1, <2>4, <2>5, <2>8
    <3> QED BY <3>1, <3>2
  <2>10. ASSUME NEW c \in Cells, \A i \in 1 .. n + 1 : tuple[i] # c PROVE new[c] = slots[c]
    <3>1. c # tuple[n + 1] /\ \A i \in 1 .. n : tuple[i] # c
      BY <2>10, <2>1
    <3> QED BY <3>1, <2>6, <2>8
  <2>11. Done(n + 1)
    BY <2>7, <2>9, <2>10 DEF new
  <2> HIDE DEF Done
  <2> QED BY <2>1, <2>11
<1>5. L \in P
  <2> HIDE DEF P
  <2> QED BY <1>1, <1>3, <1>4, CountUp
<1>6. Done(L)
  BY <1>5
<1>7. \A c \in Cells \ Range(tuple) : \A i \in 1 .. L : tuple[i] # c
  BY <1>1 DEF Range
<1> QED BY <1>1, <1>2, <1>6, <1>7

-----------------------------------------------------------------------------
(* Frames.  Delivering results leaves the running calls the same but for   *)
(* what they have observed.                                                *)

Alike(old, new) ==
  /\ new \in Seq(Range(new)) /\ Len(new) = Len(old)
  /\ \A d \in 1 .. Len(old) :
       /\ DOMAIN new[d] = FrameFields
       /\ new[d].fun = old[d].fun /\ new[d].cells = old[d].cells
       /\ new[d].con = old[d].con /\ new[d].prevs = old[d].prevs

(* A chain depends on the functions, cells and constraints of the calls    *)
LEMMA ChainAlike ==
  ASSUME NEW old, NEW new, NEW n, NEW s, NEW c, IsChain(s, old, n, c),
         \A d \in 1 .. n : /\ new[d].fun = old[d].fun
                           /\ new[d].cells = old[d].cells
                           /\ new[d].con = old[d].con
  PROVE  IsChain(s, new, n, c)
<1>1. \A d \in 1 .. n : LinksOf(new[d], c) = LinksOf(old[d], c)
  BY DEF LinksOf
<1>2. {d \in 1 .. n : Recording(new[d])} = {d \in 1 .. n : Recording(old[d])}
  BY DEF Recording
<1>3. UNION {LinksOf(new[d], c) : d \in {e \in 1 .. n : Recording(new[e])}}
        = UNION {LinksOf(old[d], c) : d \in {e \in 1 .. n : Recording(old[e])}}
  BY <1>1, <1>2
<1> QED BY <1>3 DEF IsChain

(* What the shape of the stack and detach need is what such calls share    *)
LEMMA FramesAlike ==
  ASSUME NEW old, NEW made, Shaped(old, made), DetachRestores(old), NEW new, Alike(old, new)
  PROVE  Shaped(new, made) /\ DetachRestores(new)
<1>1. /\ old \in Seq(Range(old)) /\ Len(old) \in Nat /\ DOMAIN old = 1 .. Len(old)
      /\ new \in Seq(Range(new)) /\ DOMAIN new = 1 .. Len(old)
  BY Elements DEF Shaped, Alike
<1>2. ASSUME NEW d \in 1 .. Len(old)
      PROVE  /\ DOMAIN new[d] = FrameFields
             /\ new[d].fun \in Funs
             /\ new[d].cells \in Seq(Cells) /\ Len(new[d].cells) = Arity[new[d].fun]
             /\ Distinctly(new[d].cells)
             /\ new[d].con \in Nat
             /\ Recording(new[d]) => new[d].con \in 1 .. made
  BY <1>1 DEF Shaped, Alike, Recording
<1>3. ASSUME NEW d \in 1 .. Len(old), NEW e \in 1 .. Len(old), d < e
      PROVE  /\ Arity[new[e].fun] <= Arity[new[d].fun]
             /\ Recording(new[d]) /\ Recording(new[e]) => new[d].con < new[e].con
  <2>1. /\ Arity[old[e].fun] <= Arity[old[d].fun]
        /\ Recording(old[d]) /\ Recording(old[e]) => old[d].con < old[e].con
    BY <1>1, <1>3 DEF Shaped
  <2>2. /\ new[d].fun = old[d].fun /\ new[d].con = old[d].con
        /\ new[e].fun = old[e].fun /\ new[e].con = old[e].con
    BY DEF Alike
  <2> QED BY <2>1, <2>2 DEF Recording
<1>4. ASSUME NEW d \in 1 .. Len(old), Recording(new[d]), NEW i \in DOMAIN new[d].cells
      PROVE  IsChain(new[d].prevs[i], new, d - 1, new[d].cells[i])
  <2>1. /\ new[d].fun = old[d].fun /\ new[d].cells = old[d].cells /\ new[d].prevs = old[d].prevs
    BY DEF Alike
  <2>2. IsChain(old[d].prevs[i], old, d - 1, old[d].cells[i])
    BY <1>1, <1>4, <2>1 DEF DetachRestores, Recording
  <2>3. \A j \in 1 .. d - 1 : /\ new[j].fun = old[j].fun
                              /\ new[j].cells = old[j].cells
                              /\ new[j].con = old[j].con
    BY <1>1 DEF Alike
  <2>4. IsChain(old[d].prevs[i], new, d - 1, old[d].cells[i])
    BY <2>2, <2>3, ChainAlike
  <2> QED BY <2>1, <2>4
<1>5. Shaped(new, made)
  BY <1>1, <1>2, <1>3 DEF Shaped
<1>6. DetachRestores(new)
  BY <1>1, <1>4 DEF DetachRestores
<1> QED BY <1>5, <1>6

(* Every stack is alike itself *)
LEMMA AlikeItself ==
  ASSUME NEW frames, NEW made, Shaped(frames, made)
  PROVE  Alike(frames, frames)
BY Elements DEF Shaped, Alike

(* An observed value changes nothing else *)
LEMMA Observed ==
  ASSUME NEW frames, NEW made, Shaped(frames, made), frames # <<>>, NEW val
  PROVE  Alike(frames, [frames EXCEPT ![Len(frames)].obs = Append(@, val)])
<1> DEFINE new == [frames EXCEPT ![Len(frames)].obs = Append(@, val)]
<1>1. /\ frames \in Seq(Range(frames)) /\ Len(frames) \in Nat /\ DOMAIN frames = 1 .. Len(frames)
      /\ \A d \in 1 .. Len(frames) : DOMAIN frames[d] = FrameFields
  BY Elements DEF Shaped
<1>2. \A d \in 1 .. Len(frames) :
        new[d] = IF d = Len(frames) THEN [frames[d] EXCEPT !.obs = Append(@, val)] ELSE frames[d]
  BY <1>1
<1>3. new = [d \in 1 .. Len(frames) |-> new[d]]
  BY <1>1
<1> HIDE DEF new
<1>4. new \in Seq(Range(new)) /\ Len(new) = Len(frames)
  BY <1>1, <1>3, FunctionIsSeq
<1>5. ASSUME NEW d \in 1 .. Len(frames)
      PROVE  /\ DOMAIN new[d] = FrameFields
             /\ new[d].fun = frames[d].fun /\ new[d].cells = frames[d].cells
             /\ new[d].con = frames[d].con /\ new[d].prevs = frames[d].prevs
  <2>1. DOMAIN frames[d] = FrameFields
    BY <1>1
  <2> QED BY <1>2, <2>1 DEF FrameFields
<1>6. Alike(frames, new)
  BY <1>4, <1>5 DEF Alike
<1> QED BY <1>6 DEF new

(* A completed call hands its value on *)
LEMMA Handed ==
  ASSUME NEW frames, NEW made, Shaped(frames, made), NEW fun, NEW key, NEW tuple, NEW before,
         NEW val, NEW hit, Complete(frames, fun, key, tuple, before, val, hit)
  PROVE  Alike(frames, stack')
<1>1. CASE frames = <<>>
  <2>1. stack' = frames
    BY <1>1 DEF Complete
  <2> QED BY <2>1, AlikeItself
<1>2. CASE frames # <<>>
  <2>1. stack' = [frames EXCEPT ![Len(frames)].obs = Append(@, val)]
    BY <1>2 DEF Complete
  <2> QED BY <1>2, <2>1, Observed
<1> QED BY <1>1, <1>2

-----------------------------------------------------------------------------
(* Steps in which calls neither begin nor end. *)

(* Who may be told of a call, on which parameter *)
Heard ==
  UNION {{[con |-> stack[d].con, param |-> i] : i \in 1 .. Arity[stack[d].fun]} :
         d \in {e \in DOMAIN stack : Recording(stack[e])}}

(* No constraint is written but those of running calls *)
Untouched == \A n \in DOMAIN constraints \ Live : constraints'[n] = constraints[n]

(* The invariant's sequences are sequences *)
LEMMA Setting ==
  ASSUME IInv
  PROVE  /\ stack \in Seq(Range(stack)) /\ Len(stack) \in Nat /\ DOMAIN stack = 1 .. Len(stack)
         /\ Len(constraints) \in Nat /\ DOMAIN constraints = 1 .. Len(constraints)
BY Elements DEF IInv, Shaped, ConstraintsShaped

(* Only running calls hear anything *)
LEMMA HeardRunning ==
  ASSUME NEW h \in Heard
  PROVE  \E d \in DOMAIN stack : /\ Recording(stack[d])
                                 /\ h.con = stack[d].con
                                 /\ h.param \in 1 .. Arity[stack[d].fun]
BY DEF Heard

(* Two running recorders have two constraints *)
LEMMA OwnConstraint ==
  ASSUME IInv, NEW d \in DOMAIN stack, NEW e \in DOMAIN stack,
         Recording(stack[d]), Recording(stack[e]), stack[d].con = stack[e].con
  PROVE  d = e
<1>1. d \in Nat /\ e \in Nat
  BY Setting
<1>2. stack[d].con \in Nat
  BY DEF IInv, Shaped
<1>3. ~(d < e) /\ ~(e < d)
  BY <1>2 DEF IInv, Shaped
<1> QED BY <1>1, <1>3

(* Told within Heard, running calls keep writes on their parameters, and   *)
(* entries stay as they are                                                *)
LEMMA GrownKeeps ==
  ASSUME IInv, NEW new, Grown(constraints, new, Heard)
  PROVE  /\ ConstraintsShaped(new) /\ Len(new) = Len(constraints)
         /\ \A n \in DOMAIN constraints \ Live : new[n] = constraints[n]
         /\ \A d \in DOMAIN stack : Recording(stack[d]) => WritesOn(new[stack[d].con], stack[d].fun)
         /\ \A f \in Funs : \A e \in caches[f] : new[e.con] = constraints[e.con]
<1>1. ConstraintsShaped(new) /\ Len(new) = Len(constraints)
  BY DEF Grown
<1>2. \A n \in DOMAIN constraints \ Live : new[n] = constraints[n]
  BY Setting, HeardRunning DEF Grown, Live
<1>3. ASSUME NEW d \in DOMAIN stack, Recording(stack[d])
      PROVE  WritesOn(new[stack[d].con], stack[d].fun)
  <2> DEFINE n == stack[d].con
  <2>1. n \in 1 .. Len(constraints)
    BY <1>3 DEF IInv, Shaped
  <2> SUFFICES ASSUME NEW w \in Range(new[n].mutable) PROVE w.param \in 1 .. Arity[stack[d].fun]
    BY DEF WritesOn
  <2>2. CASE w \in Range(constraints[n].mutable)
    BY <1>3, <2>2 DEF IInv, RunningWrites, WritesOn
  <2>3. CASE [con |-> n, param |-> w.param] \in Heard
    <3>1. PICK e \in DOMAIN stack : /\ Recording(stack[e])
                                    /\ n = stack[e].con
                                    /\ w.param \in 1 .. Arity[stack[e].fun]
      BY <2>3, HeardRunning
    <3>2. d = e
      BY <1>3, <3>1, OwnConstraint
    <3> QED BY <3>1, <3>2
  <2> QED BY <2>1, <2>2, <2>3 DEF Grown
<1>4. ASSUME NEW f \in Funs, NEW e \in caches[f] PROVE new[e.con] = constraints[e.con]
  <2>1. /\ e.con \in 1 .. Len(constraints)
        /\ \A d \in DOMAIN stack : Recording(stack[d]) => stack[d].con # e.con
    BY Setting DEF IInv, EntriesFinished
  <2>2. ~ \E h \in Heard : h.con = e.con
    BY <2>1, HeardRunning
  <2> QED BY <2>1, <2>2 DEF Grown
<1> QED BY <1>1, <1>2, <1>3, <1>4

(* The entries keep their constraints, and there are no new ones *)
CachesKept ==
  /\ DOMAIN caches' = Funs
  /\ \A f \in Funs : \A e \in caches'[f] :
       DOMAIN e = EntryFields /\ \E g \in caches[f] : e.con = g.con

(* A step that begins and ends no call keeps the invariant *)
LEMMA QuietKeeps ==
  ASSUME IInv, Alike(stack, stack'), slots' = slots, CachesKept,
         Grown(constraints, constraints', Heard)
  PROVE  IInv' /\ Untouched
<1>1. /\ ConstraintsShaped(constraints') /\ Len(constraints') = Len(constraints)
      /\ Untouched
      /\ \A d \in DOMAIN stack :
           Recording(stack[d]) => WritesOn(constraints'[stack[d].con], stack[d].fun)
      /\ \A f \in Funs : \A e \in caches[f] : constraints'[e.con] = constraints[e.con]
  BY GrownKeeps DEF Untouched
<1>2. Shaped(stack', Len(constraints')) /\ DetachRestores(stack')
  BY <1>1, FramesAlike DEF IInv
<1>3. Len(stack') = Len(stack) /\ DOMAIN stack' = 1 .. Len(stack) /\ Len(stack) \in Nat
      /\ DOMAIN stack = 1 .. Len(stack)
  BY Setting, Elements DEF Alike
<1>4. DOMAIN constraints' = DOMAIN constraints
  BY <1>1, Elements, Setting DEF ConstraintsShaped
<1>5. \A d \in DOMAIN stack : /\ Recording(stack'[d]) <=> Recording(stack[d])
                              /\ stack'[d].con = stack[d].con /\ stack'[d].fun = stack[d].fun
                              /\ stack'[d].cells = stack[d].cells
  BY <1>3 DEF Alike, Recording
<1>6. Attached'
  <2> SUFFICES ASSUME NEW c \in Cells PROVE IsChain(slots'[c], stack', Len(stack'), c)
    BY DEF Attached
  <2>1. IsChain(slots[c], stack, Len(stack), c)
    BY DEF IInv, Attached
  <2> QED BY <2>1, <1>3, <1>5, ChainAlike
<1>7. EntriesFinished'
  <2> SUFFICES ASSUME NEW f \in Funs, NEW e \in caches'[f]
               PROVE  /\ DOMAIN e = EntryFields
                      /\ e.con \in DOMAIN constraints'
                      /\ \A d \in DOMAIN stack' : Recording(stack'[d]) => stack'[d].con # e.con
                      /\ WritesOn(constraints'[e.con], f)
    BY DEF EntriesFinished
  <2>1. PICK g \in caches[f] : e.con = g.con
    BY DEF CachesKept
  <2>2. /\ g.con \in DOMAIN constraints
        /\ \A d \in DOMAIN stack : Recording(stack[d]) => stack[d].con # g.con
        /\ WritesOn(constraints[g.con], f)
    BY DEF IInv, EntriesFinished
  <2>3. DOMAIN e = EntryFields
    BY DEF CachesKept
  <2>4. constraints'[g.con] = constraints[g.con]
    BY <1>1
  <2> QED BY <2>1, <2>2, <2>3, <2>4, <1>3, <1>4, <1>5
<1>8. RunningWrites'
  BY <1>1, <1>3, <1>5 DEF RunningWrites
<1>9. DOMAIN slots' = Cells /\ DOMAIN caches' = Funs
  BY DEF IInv, CachesKept
<1> QED BY <1>1, <1>2, <1>6, <1>7, <1>8, <1>9 DEF IInv

(* A cell hears its recorders, on any parameter they all have *)
LEMMA TellsWithin ==
  ASSUME IInv, NEW c \in Cells, NEW param, \A d \in DOMAIN stack : param \in 1 .. Arity[stack[d].fun]
  PROVE  /\ slots[c] \in Seq(Range(slots[c]))
         /\ \A l \in Range(slots[c]) :
              /\ l.con \in DOMAIN constraints
              /\ \A call : [con |-> l.con, param |-> Tagged(l, param, call).param] \in Heard
<1>1. IsChain(slots[c], stack, Len(stack), c)
  BY DEF IInv, Attached
<1>2. ASSUME NEW l \in Range(slots[c])
      PROVE  /\ l.con \in DOMAIN constraints
             /\ \A call : [con |-> l.con, param |-> Tagged(l, param, call).param] \in Heard
  <2>1. PICK d \in {e \in 1 .. Len(stack) : Recording(stack[e])} : l \in LinksOf(stack[d], c)
    BY <1>1 DEF IsChain
  <2>2. d \in DOMAIN stack /\ Recording(stack[d])
    BY <2>1, Setting
  <2>3. PICK i \in DOMAIN stack[d].cells : l = [con |-> stack[d].con, param |-> i]
    BY <2>1 DEF LinksOf
  <2>4. /\ stack[d].con \in 1 .. Len(constraints)
        /\ DOMAIN stack[d].cells = 1 .. Arity[stack[d].fun]
    BY <2>2 DEF IInv, Shaped
  <2>5. l.con = stack[d].con /\ l.param \in 1 .. Arity[stack[d].fun]
    BY <2>3, <2>4
  <2>6. \A j \in 1 .. Arity[stack[d].fun] : [con |-> l.con, param |-> j] \in Heard
    BY <2>2, <2>5 DEF Heard
  <2>7. ASSUME NEW call PROVE Tagged(l, param, call).param \in 1 .. Arity[stack[d].fun]
    <3>1. Tagged(l, param, call).param = IF Merged THEN l.param ELSE param
      BY DEF Tagged
    <3> QED BY <3>1, <2>2, <2>5
  <2> QED BY <2>4, <2>5, <2>6, <2>7, Setting
<1> QED BY <1>1, <1>2 DEF IsChain

(* The innermost call has the fewest parameters, and those its body names *)
LEMMA OfTop ==
  ASSUME IInv, Running
  PROVE  /\ Len(stack) \in DOMAIN stack /\ Top = stack[Len(stack)]
         /\ Top.fun \in Funs /\ Top.cells \in Seq(Cells) /\ DOMAIN Top.cells = 1 .. Arity[Top.fun]
         /\ Distinctly(Top.cells)
         /\ \A d \in DOMAIN stack : Arity[Top.fun] <= Arity[stack[d].fun]
<1>1. stack # <<>>
  BY DEF Running
<1>2. Len(stack) \in 1 .. Len(stack) /\ Top = stack[Len(stack)]
  BY <1>1, Setting, Shortened DEF Top
<1>3. Len(stack) \in DOMAIN stack
  BY <1>2, Setting
<1>4. /\ Top.fun \in Funs /\ Top.cells \in Seq(Cells) /\ DOMAIN Top.cells = 1 .. Arity[Top.fun]
      /\ Distinctly(Top.cells)
  BY <1>2, <1>3 DEF IInv, Shaped
<1>5. ASSUME NEW d \in DOMAIN stack PROVE Arity[Top.fun] <= Arity[stack[d].fun]
  <2>1. d = Len(stack) \/ d < Len(stack)
    BY Setting
  <2>2. DOMAIN stack[d].cells = 1 .. Arity[stack[d].fun] /\ Len(stack[d].cells) = Arity[stack[d].fun]
        /\ Len(stack[d].cells) \in Nat
    BY DEF IInv, Shaped
  <2>3. d < Len(stack) => Arity[Top.fun] <= Arity[stack[d].fun]
    BY <1>2, <1>3 DEF IInv, Shaped
  <2> QED BY <1>2, <2>1, <2>2, <2>3
<1> QED BY <1>2, <1>3, <1>4, <1>5

(* A parameter that the body names has a cell, and all calls around have   *)
(* it                                                                      *)
LEMMA ParamKnown ==
  ASSUME Wired, IInv, Running, NextOp.op \in {"read", "write"}
  PROVE  /\ CellOf(NextOp.param) \in Cells
         /\ \A d \in DOMAIN stack : NextOp.param \in 1 .. Arity[stack[d].fun]
<1>1. Top.fun \in Funs /\ Top.cells \in Seq(Cells) /\ DOMAIN Top.cells = 1 .. Arity[Top.fun]
  BY OfTop
<1>2. NextOp.param \in 1 .. Arity[Top.fun]
  BY <1>1 DEF Wired, NextOp
<1>3. CellOf(NextOp.param) \in Cells
  <2>1. PICK t : t = Top.cells
    OBVIOUS
  <2>2. t \in Seq(Cells) /\ NextOp.param \in DOMAIN t
    BY <1>1, <1>2, <2>1
  <2>3. t[NextOp.param] \in Cells
    BY <2>2
  <2> QED BY <2>1, <2>3 DEF CellOf
<1>4. ASSUME NEW d \in DOMAIN stack PROVE NextOp.param \in 1 .. Arity[stack[d].fun]
  <2>1. Arity[Top.fun] <= Arity[stack[d].fun]
    BY OfTop
  <2>2. Arity[stack[d].fun] \in Nat /\ Arity[Top.fun] \in Nat
    <3>1. stack[d].fun \in Funs /\ Top.fun \in Funs
      BY <1>1 DEF IInv, Shaped
    <3>2. \A f \in Funs : Arity[f] \in 1 .. 6
      BY DEF Wired
    <3> QED BY <3>1, <3>2
  <2> QED BY <1>2, <2>1, <2>2
<1> QED BY <1>3, <1>4

(* Untouched caches are kept *)
LEMMA CachesUnchanged ==
  ASSUME IInv, caches' = caches
  PROVE  CachesKept
BY DEF IInv, EntriesFinished, CachesKept

(* A read of the body *)
LEMMA ReadKeeps ==
  ASSUME Wired, IInv, BodyRead
  PROVE  IInv' /\ Untouched
<1>1. Running /\ NextOp.op = "read" /\ stack # <<>>
  BY DEF BodyRead, Active, Running
<1> DEFINE p == NextOp.param
           c == CellOf(p)
<1>2. c \in Cells /\ \A d \in DOMAIN stack : p \in 1 .. Arity[stack[d].fun]
  BY <1>1, ParamKnown
<1>3. /\ slots[c] \in Seq(Range(slots[c]))
      /\ \A l \in Range(slots[c]) :
           /\ l.con \in DOMAIN constraints
           /\ [con |-> l.con, param |-> Tagged(l, p, NextOp.call).param] \in Heard
  BY <1>2, TellsWithin
<1>4. \A l \in Range(slots[c]) : \E h \in Heard : h.con = l.con
  BY <1>3
<1>5. constraints' = RecordRead(p, NextOp.call, Seen) /\ slots' = slots /\ caches' = caches
  BY DEF BodyRead
<1>6. Grown(constraints, constraints', Heard)
  <2>1. ConstraintsShaped(constraints)
    BY DEF IInv
  <2> QED BY <1>3, <1>4, <1>5, <2>1, ReadGrows
<1>7. Alike(stack, stack')
  BY <1>1, Observed DEF IInv, BodyRead, Observe
<1> QED BY <1>5, <1>6, <1>7, CachesUnchanged, QuietKeeps

(* A write of the body *)
LEMMA WriteKeeps ==
  ASSUME Wired, IInv, BodyWrite
  PROVE  IInv' /\ Untouched
<1>1. Running /\ NextOp.op = "write" /\ stack # <<>>
  BY DEF BodyWrite, Active, Running
<1> DEFINE p == NextOp.param
           c == CellOf(p)
<1>2. c \in Cells /\ \A d \in DOMAIN stack : p \in 1 .. Arity[stack[d].fun]
  BY <1>1, ParamKnown
<1>3. /\ slots[c] \in Seq(Range(slots[c]))
      /\ \A l \in Range(slots[c]) :
           /\ l.con \in DOMAIN constraints
           /\ [con |-> l.con, param |-> Tagged(l, p, NextOp.call).param] \in Heard
  BY <1>2, TellsWithin
<1>4. constraints' = RecordWrite(constraints, c, p, NextOp.call) /\ slots' = slots /\ caches' = caches
  BY DEF BodyWrite
<1>5. Grown(constraints, constraints', Heard)
  <2>1. ConstraintsShaped(constraints)
    BY DEF IInv
  <2> QED BY <1>3, <1>4, <2>1, WriteGrows
<1>6. Alike(stack, stack')
  BY <1>1, Observed DEF IInv, BodyWrite, Observe
<1> QED BY <1>4, <1>5, <1>6, CachesUnchanged, QuietKeeps

(* A step that touches none of this *)
LEMMA IdleKeeps ==
  ASSUME IInv, stack' = stack, slots' = slots, constraints' = constraints, CachesKept
  PROVE  IInv' /\ Untouched
<1>1. Alike(stack, stack')
  BY AlikeItself DEF IInv
<1>2. Grown(constraints, constraints', Heard)
  BY GrownAlready DEF IInv
<1> QED BY <1>1, <1>2, QuietKeeps

(* An eviction, which only ages entries and drops some *)
LEMMA EvictKeeps ==
  ASSUME IInv, NEW maxAge, Evict(maxAge)
  PROVE  IInv' /\ Untouched
<1>1. CachesKept
  <2>1. caches' = [f \in Funs |->
          {[e EXCEPT !.age = @ + 1] : e \in {x \in caches[f] : x.age + 1 <= maxAge}}]
    BY DEF Evict
  <2> SUFFICES ASSUME NEW f \in Funs, NEW e \in caches'[f]
               PROVE  DOMAIN e = EntryFields /\ \E g \in caches[f] : e.con = g.con
    BY <2>1 DEF CachesKept
  <2>2. PICK g \in caches[f] : e = [g EXCEPT !.age = @ + 1]
    BY <2>1
  <2>3. DOMAIN g = EntryFields
    BY DEF IInv, EntriesFinished
  <2> QED BY <2>2, <2>3 DEF EntryFields
<1> QED BY <1>1, IdleKeeps DEF Evict

-----------------------------------------------------------------------------
(* Calls that begin. *)

(* What a call can be made with *)
Callable(fun, tuple) ==
  /\ fun \in Funs
  /\ tuple \in Seq(Cells) /\ Len(tuple) = Arity[fun] /\ Distinctly(tuple)
  /\ \A d \in DOMAIN stack : Arity[fun] <= Arity[stack[d].fun]

(* The top level calls with tuples of the function's *)
LEMMA TopCallable ==
  ASSUME Wired, ~Running, NEW fun \in Funs, NEW tuple \in Tuples[fun]
  PROVE  Callable(fun, tuple)
<1>1. stack = <<>>
  BY DEF Running
<1>2. tuple \in Seq(Cells)
  BY TuplesAssumption
<1> QED BY <1>1, <1>2 DEF Wired, Callable

(* A body calls with cells of its own parameters *)
LEMMA BodyCallable ==
  ASSUME Wired, IInv, Running, NextOp.op = "call"
  PROVE  Callable(NextOp.fun, [i \in DOMAIN NextOp.params |-> CellOf(NextOp.params[i])])
<1> DEFINE params == NextOp.params
           fun == NextOp.fun
           tuple == [i \in DOMAIN params |-> CellOf(params[i])]
           A == Arity[Top.fun]
<1>1. /\ Top.fun \in Funs /\ Top.cells \in Seq(Cells) /\ DOMAIN Top.cells = 1 .. A
      /\ Distinctly(Top.cells)
      /\ \A d \in DOMAIN stack : A <= Arity[stack[d].fun]
  BY OfTop
<1>2. /\ fun \in Funs
      /\ params \in Seq(1 .. A) /\ Len(params) = Arity[fun]
      /\ Arity[fun] <= A /\ Distinctly(params)
  BY <1>1 DEF Wired, NextOp
<1>3. \A f \in Funs : Arity[f] \in 1 .. 6
  BY DEF Wired
<1> HIDE DEF params, fun
<1>4. /\ Len(params) \in Nat /\ DOMAIN params = 1 .. Len(params)
      /\ \A i \in DOMAIN params : params[i] \in 1 .. A
  <2>1. PICK S : S = 1 .. A
    OBVIOUS
  <2>2. params \in Seq(S)
    BY <1>2, <2>1
  <2>3. Len(params) \in Nat /\ DOMAIN params = 1 .. Len(params)
    BY <2>2
  <2>4. \A i \in DOMAIN params : params[i] \in S
    BY <2>2, <2>3
  <2> QED BY <2>1, <2>3, <2>4
<1>5. \A i \in DOMAIN params : CellOf(params[i]) \in Cells
  <2>1. PICK t : t = Top.cells
    OBVIOUS
  <2>2. t \in Seq(Cells)
    BY <1>1, <2>1
  <2>3. \A j \in DOMAIN t : t[j] \in Cells
    BY <2>2
  <2>4. DOMAIN t = 1 .. A
    BY <1>1, <2>1
  <2> QED BY <1>4, <2>1, <2>3, <2>4 DEF CellOf
<1>6. \A i \in 1 .. Len(params) : tuple[i] = CellOf(params[i]) /\ tuple[i] \in Cells
  BY <1>4, <1>5
<1>7. tuple \in Seq(Cells) /\ Len(tuple) = Len(params) /\ DOMAIN tuple = 1 .. Len(params)
  <2>1. tuple \in [1 .. Len(params) -> Cells]
    BY <1>4, <1>5
  <2> QED BY <1>4, <2>1
<1>8. Distinctly(tuple)
  <2> SUFFICES ASSUME NEW i \in DOMAIN params, NEW j \in DOMAIN params, tuple[i] = tuple[j]
               PROVE  i = j
    BY <1>4, <1>7 DEF Distinctly
  <2>1. Top.cells[params[i]] = Top.cells[params[j]]
    BY <1>4, <1>6 DEF CellOf
  <2>2. params[i] \in DOMAIN Top.cells /\ params[j] \in DOMAIN Top.cells
    BY <1>1, <1>4
  <2>3. params[i] = params[j]
    BY <1>1, <2>1, <2>2 DEF Distinctly
  <2> QED BY <1>2, <2>3 DEF Distinctly
<1>9. \A d \in DOMAIN stack : Arity[fun] <= Arity[stack[d].fun]
  <2> SUFFICES ASSUME NEW d \in DOMAIN stack PROVE Arity[fun] <= Arity[stack[d].fun]
    OBVIOUS
  <2>1. stack[d].fun \in Funs
    BY DEF IInv, Shaped
  <2>2. PICK a, b, c : a = Arity[fun] /\ b = A /\ c = Arity[stack[d].fun]
    OBVIOUS
  <2>3. a \in 1 .. 6 /\ b \in 1 .. 6 /\ c \in 1 .. 6
    BY <1>1, <1>2, <1>3, <2>1, <2>2
  <2>4. a <= b /\ b <= c
    BY <1>1, <1>2, <2>2
  <2>5. a <= c
    BY <2>3, <2>4
  <2> QED BY <2>2, <2>5
<1> HIDE DEF tuple
<1>10. Callable(fun, tuple)
  BY <1>2, <1>7, <1>8, <1>9 DEF Callable
<1> QED BY <1>10 DEF fun, tuple, params

(* A hit: what it replays is told to the recorders around it *)
LEMMA HitKeeps ==
  ASSUME Wired, IInv, NEW fun, NEW key, NEW tuple, Callable(fun, tuple), Hit(fun, key, tuple)
  PROVE  IInv' /\ Untouched
<1>1. PICK e \in Hits(fun, key, tuple) :
        LET done == Replayed(constraints[e.con].mutable, tuple) IN
        /\ caches' = [caches EXCEPT ![fun] = (@ \ {e}) \cup {[e EXCEPT !.age = 0]}]
        /\ cells' = done.cells
        /\ constraints' = done.cons
        /\ Complete(stack, fun, key, tuple, cells, e.value, TRUE)
  BY DEF Hit
<1> DEFINE calls == constraints[e.con].mutable
<1>2. fun \in Funs /\ e \in caches[fun]
  BY DEF Callable, Hits, Matching, OfKey
<1>3. /\ DOMAIN e = EntryFields
      /\ e.con \in DOMAIN constraints
      /\ WritesOn(constraints[e.con], fun)
  BY <1>2 DEF IInv, EntriesFinished
<1>4. ConstraintsShaped(constraints) /\ calls \in Seq(Range(calls))
  BY <1>3 DEF IInv, ConstraintsShaped
<1>5. ASSUME NEW c \in Range(calls)
      PROVE  /\ slots[tuple[c.param]] \in Seq(Range(slots[tuple[c.param]]))
             /\ \A l \in Range(slots[tuple[c.param]]) :
                  /\ l.con \in DOMAIN constraints
                  /\ [con |-> l.con, param |-> Tagged(l, c.param, c.call).param] \in Heard
  <2>1. c.param \in 1 .. Arity[fun]
    BY <1>3 DEF WritesOn
  <2>2. tuple[c.param] \in Cells
    BY <2>1 DEF Callable
  <2>3. ASSUME NEW d \in DOMAIN stack PROVE c.param \in 1 .. Arity[stack[d].fun]
    <3>1. Arity[fun] <= Arity[stack[d].fun] /\ stack[d].fun \in Funs
      BY DEF Callable, IInv, Shaped
    <3>2. \A f \in Funs : Arity[f] \in 1 .. 6
      BY DEF Wired
    <3> QED BY <1>2, <2>1, <3>1, <3>2
  <2> QED BY <2>2, <2>3, TellsWithin
<1> HIDE DEF calls
<1>6. Grown(constraints, Replayed(calls, tuple).cons, Heard)
  BY <1>4, <1>5, ReplayGrows
<1>7. Grown(constraints, constraints', Heard)
  BY <1>1, <1>6 DEF calls
<1>8. Alike(stack, stack')
  BY <1>1, Handed DEF IInv
<1>9. CachesKept
  <2>1. caches' = [caches EXCEPT ![fun] = (@ \ {e}) \cup {[e EXCEPT !.age = 0]}]
    BY <1>1
  <2>2. DOMAIN caches' = Funs
    BY <2>1 DEF IInv
  <2>3. ASSUME NEW f \in Funs, NEW g \in caches'[f]
        PROVE  DOMAIN g = EntryFields /\ \E x \in caches[f] : g.con = x.con
    <3>1. CASE g \in caches[f]
      BY <3>1 DEF IInv, EntriesFinished
    <3>2. CASE g \notin caches[f]
      <4>1. f = fun /\ g = [e EXCEPT !.age = 0]
        BY <2>1, <3>2 DEF IInv
      <4>2. DOMAIN g = EntryFields /\ g.con = e.con
        BY <1>3, <4>1 DEF EntryFields
      <4> QED BY <1>2, <4>1, <4>2
    <3> QED BY <3>1, <3>2
  <2> QED BY <2>2, <2>3 DEF CachesKept
<1>10. slots' = slots
  BY DEF Hit
<1> QED BY <1>7, <1>8, <1>9, <1>10, QuietKeeps

(* Chains do not see frames that attached nothing to their cell *)
LEMMA ChainBeside ==
  ASSUME NEW frames, NEW n \in Nat, NEW s, NEW c,
         ~Recording(frames[n + 1]) \/ LinksOf(frames[n + 1], c) = {}
  PROVE  IsChain(s, frames, n, c) <=> IsChain(s, frames, n + 1, c)
<1> DEFINE links(k) == UNION {LinksOf(frames[d], c) : d \in {e \in 1 .. k : Recording(frames[e])}}
<1>1. 1 .. n + 1 = 1 .. n \cup {n + 1}
  OBVIOUS
<1>2. links(n) = links(n + 1)
  BY <1>1
<1> QED BY <1>2 DEF IsChain

(* A link in front of a chain of older ones *)
LEMMA ChainLonger ==
  ASSUME NEW frames, NEW n \in Nat, NEW s, NEW c, IsChain(s, frames, n, c),
         Recording(frames[n + 1]), NEW link, LinksOf(frames[n + 1], c) = {link},
         link.con \in Nat, \A l \in Range(s) : l.con \in Nat /\ l.con < link.con
  PROVE  IsChain(<<link>> \o s, frames, n + 1, c)
<1> DEFINE one == <<link>>
           new == one \o s
           links(k) == UNION {LinksOf(frames[d], c) : d \in {e \in 1 .. k : Recording(frames[e])}}
<1>1. one = [i \in 1 .. 1 |-> one[i]] /\ one[1] = link
  OBVIOUS
<1>2. s \in Seq(Range(s)) /\ Range(s) = links(n) /\ \A i, j \in DOMAIN s : i < j => s[i].con > s[j].con
  BY DEF IsChain
<1>3. 1 .. n + 1 = 1 .. n \cup {n + 1}
  OBVIOUS
<1>4. links(n + 1) = {link} \cup links(n)
  BY <1>3
<1> HIDE DEF one, new, links
<1>5. one \in Seq(Range(one)) /\ Len(one) = 1 /\ Range(one) = {link}
  BY <1>1, FunctionIsSeq DEF Range
<1>6. /\ new \in Seq(Range(new)) /\ DOMAIN new = 1 .. 1 + Len(s)
      /\ \A i \in 1 .. 1 : new[i] = one[i]
      /\ \A i \in 1 .. Len(s) : new[1 + i] = s[i]
      /\ Range(new) = Range(one) \cup Range(s)
  <2>1. /\ new \in Seq(Range(new)) /\ DOMAIN new = 1 .. Len(one) + Len(s)
        /\ \A i \in 1 .. Len(one) : new[i] = one[i]
        /\ \A i \in 1 .. Len(s) : new[Len(one) + i] = s[i]
        /\ Range(new) = Range(one) \cup Range(s)
    <3>1. s \in Seq(Range(s)) /\ one \in Seq(Range(one))
      BY <1>2, <1>5
    <3> QED BY <3>1, Joined DEF new
  <2> QED BY <1>5, <2>1
<1>7. Len(s) \in Nat /\ DOMAIN s = 1 .. Len(s) /\ \A i \in 1 .. Len(s) : s[i] \in Range(s)
  BY <1>2, Elements
<1>8. ASSUME NEW i \in DOMAIN new, NEW j \in DOMAIN new, i < j PROVE new[i].con > new[j].con
  <2>1. j - 1 \in 1 .. Len(s) /\ 1 + (j - 1) = j
    BY <1>6, <1>7, <1>8
  <2>2. new[j] = s[j - 1]
    BY <1>6, <2>1
  <2>3. CASE i = 1
    <3>1. new[i] = link
      BY <1>1, <1>6, <2>3
    <3>2. s[j - 1] \in Range(s)
      BY <1>7, <2>1
    <3> QED BY <2>2, <3>1, <3>2
  <2>4. CASE i # 1
    <3>1. i - 1 \in 1 .. Len(s) /\ 1 + (i - 1) = i /\ i - 1 < j - 1
      BY <1>6, <1>7, <1>8, <2>1, <2>4
    <3>2. new[i] = s[i - 1]
      BY <1>6, <3>1
    <3> QED BY <1>2, <1>7, <2>1, <2>2, <3>1, <3>2
  <2> QED BY <2>3, <2>4
<1>9. IsChain(new, frames, n + 1, c)
  BY <1>2, <1>4, <1>5, <1>6, <1>8 DEF IsChain, links
<1> QED BY <1>9 DEF new, one

(* A frame has one link for each of its cells *)
LEMMA LinkOfParam ==
  ASSUME NEW frame, Distinctly(frame.cells), NEW i \in DOMAIN frame.cells
  PROVE  LinksOf(frame, frame.cells[i]) = {[con |-> frame.con, param |-> i]}
<1>1. {j \in DOMAIN frame.cells : frame.cells[j] = frame.cells[i]} = {i}
  BY DEF Distinctly
<1> QED BY <1>1 DEF LinksOf

(* It has none for the others *)
LEMMA NoLinkElsewhere ==
  ASSUME NEW frame, NEW c, c \notin Range(frame.cells)
  PROVE  LinksOf(frame, c) = {}
BY DEF LinksOf, Range

(* The frame of a call that can be made, when made constraints have been *)
Fits(frame, made) ==
  /\ Callable(frame.fun, frame.cells)
  /\ DOMAIN frame = FrameFields
  /\ made \in Nat /\ Len(constraints) <= made
  /\ frame.con \in Nat /\ frame.con <= made
  /\ Recording(frame) =>
       /\ frame.con > Len(constraints)
       /\ \A i \in DOMAIN frame.cells : frame.prevs[i] = slots[frame.cells[i]]

(* new has it on top; the chains are still those of the calls around it *)
On(new, frame, made) ==
  /\ Shaped(new, made) /\ DetachRestores(new)
  /\ Len(new) = Len(stack) + 1 /\ DOMAIN new = 1 .. Len(stack) + 1
  /\ \A d \in 1 .. Len(stack) : new[d] = stack[d]
  /\ new[Len(stack) + 1] = frame
  /\ \A c \in Cells : IsChain(slots[c], new, Len(stack), c)

(* The call on top finds the chains of the calls around it *)
LEMMA Pushed ==
  ASSUME IInv, NEW frame, NEW made, Fits(frame, made)
  PROVE  On(Append(stack, frame), frame, made)
<1> DEFINE n == Len(stack)
           fun == frame.fun
           tuple == frame.cells
           new == Append(stack, frame)
<1>0. /\ Callable(fun, tuple)
      /\ DOMAIN frame = FrameFields
      /\ made \in Nat /\ Len(constraints) <= made
      /\ frame.con \in Nat /\ frame.con <= made
      /\ Recording(frame) =>
           /\ frame.con > Len(constraints)
           /\ \A i \in DOMAIN tuple : frame.prevs[i] = slots[tuple[i]]
  BY DEF Fits
<1>1. /\ stack \in Seq(Range(stack)) /\ n \in Nat /\ DOMAIN stack = 1 .. n
      /\ Len(constraints) \in Nat
  BY Setting
<1>2. /\ new \in Seq(Range(new)) /\ Len(new) = n + 1 /\ DOMAIN new = 1 .. n + 1
      /\ \A d \in 1 .. n : new[d] = stack[d]
      /\ new[n + 1] = frame
  BY <1>1, Appended
<1> HIDE DEF new
<1>3. ASSUME NEW d \in 1 .. n
      PROVE  /\ DOMAIN stack[d] = FrameFields
             /\ stack[d].fun \in Funs
             /\ stack[d].cells \in Seq(Cells) /\ Len(stack[d].cells) = Arity[stack[d].fun]
             /\ Distinctly(stack[d].cells)
             /\ stack[d].con \in Nat
             /\ Recording(stack[d]) => stack[d].con \in 1 .. Len(constraints)
             /\ Arity[fun] <= Arity[stack[d].fun]
  BY <1>0, <1>1 DEF IInv, Shaped, Callable
<1> HIDE DEF n
<1>4. Shaped(new, made)
  <2>1. ASSUME NEW d \in 1 .. n + 1
        PROVE  /\ DOMAIN new[d] = FrameFields
               /\ new[d].fun \in Funs
               /\ new[d].cells \in Seq(Cells) /\ Len(new[d].cells) = Arity[new[d].fun]
               /\ Distinctly(new[d].cells)
               /\ new[d].con \in Nat
               /\ Recording(new[d]) => new[d].con \in 1 .. made
    <3>1. CASE d = n + 1
      <4>1. new[d] = frame
        BY <1>2, <3>1
      <4>2. Recording(frame) => frame.con \in 1 .. made
        BY <1>0, <1>1
      <4> QED BY <1>0, <4>1, <4>2 DEF Callable
    <3>2. CASE d # n + 1
      <4>1. d \in 1 .. n
        BY <1>1, <3>2
      <4>2. new[d] = stack[d]
        BY <1>2, <4>1
      <4>3. Recording(stack[d]) => stack[d].con \in 1 .. made
        BY <1>0, <1>1, <1>3, <4>1
      <4> QED BY <1>3, <4>1, <4>2, <4>3
    <3> QED BY <3>1, <3>2
  <2>2. ASSUME NEW d \in 1 .. n + 1, NEW e \in 1 .. n + 1, d < e
        PROVE  /\ Arity[new[e].fun] <= Arity[new[d].fun]
               /\ Recording(new[d]) /\ Recording(new[e]) => new[d].con < new[e].con
    <3>1. d \in 1 .. n /\ new[d] = stack[d]
      BY <1>1, <1>2, <2>2
    <3>2. CASE e = n + 1
      <4>1. new[e] = frame
        BY <1>2, <3>2
      <4>2. Recording(stack[d]) /\ Recording(frame) => stack[d].con < frame.con
        BY <1>0, <1>1, <1>3, <3>1
      <4> QED BY <1>3, <3>1, <4>1, <4>2
    <3>3. CASE e # n + 1
      <4>1. e \in 1 .. n
        BY <1>1, <3>3
      <4>2. new[e] = stack[e]
        BY <1>2, <4>1
      <4> QED BY <1>1, <2>2, <3>1, <4>1, <4>2 DEF IInv, Shaped
    <3> QED BY <3>2, <3>3
  <2> QED BY <1>2, <2>1, <2>2 DEF Shaped
<1>5. ASSUME NEW s, NEW k \in 0 .. n, NEW c, IsChain(s, stack, k, c)
      PROVE  IsChain(s, new, k, c)
  <2>1. \A d \in 1 .. k : new[d].fun = stack[d].fun /\ new[d].cells = stack[d].cells
                          /\ new[d].con = stack[d].con
    BY <1>1, <1>2
  <2> QED BY <1>5, <2>1, ChainAlike
<1>6. \A c \in Cells : IsChain(slots[c], new, n, c)
  <2> SUFFICES ASSUME NEW c \in Cells PROVE IsChain(slots[c], new, n, c)
    OBVIOUS
  <2>1. IsChain(slots[c], stack, n, c)
    BY DEF IInv, Attached, n
  <2> QED BY <1>1, <1>5, <2>1
<1>7. DetachRestores(new)
  <2> SUFFICES ASSUME NEW d \in 1 .. n + 1, Recording(new[d]), NEW i \in DOMAIN new[d].cells
               PROVE  IsChain(new[d].prevs[i], new, d - 1, new[d].cells[i])
    BY <1>2 DEF DetachRestores
  <2>1. CASE d = n + 1
    <3>1. new[d] = frame /\ d - 1 = n
      BY <1>1, <1>2, <2>1
    <3>2. new[d].prevs[i] = slots[tuple[i]] /\ new[d].cells[i] = tuple[i] /\ i \in DOMAIN tuple
      BY <1>0, <2>1, <3>1
    <3>3. tuple[i] \in Cells
      BY <1>0, <3>2 DEF Callable
    <3> QED BY <1>6, <3>1, <3>2, <3>3
  <2>2. CASE d # n + 1
    <3>1. d \in 1 .. n /\ d - 1 \in 0 .. n
      BY <1>1, <2>2
    <3>2. new[d] = stack[d]
      BY <1>2, <3>1
    <3>3. IsChain(stack[d].prevs[i], stack, d - 1, stack[d].cells[i])
      BY <1>1, <3>1, <3>2 DEF IInv, DetachRestores
    <3> QED BY <1>5, <3>1, <3>2, <3>3
  <2> QED BY <2>1, <2>2
<1>8. On(new, frame, made)
  BY <1>2, <1>4, <1>6, <1>7 DEF On, n
<1> QED BY <1>8 DEF new

(* A miss: the new recorder goes in front of the chains of its cells *)
LEMMA MissKeeps ==
  ASSUME Wired, IInv, NEW fun, NEW key, NEW tuple, Callable(fun, tuple), Miss(fun, key, tuple)
  PROVE  IInv' /\ Untouched
<1> DEFINE con == Len(constraints) + 1
           n == Len(stack)
           attached == Attach(tuple, con)
           frame == Frame(fun, key, tuple, con, attached.prevs)
<1>1. /\ slots' = attached.slots
      /\ constraints' = Append(constraints, EmptyConstraint)
      /\ stack' = Append(stack, frame)
      /\ caches' = caches /\ fun \notin Bypassed
  BY DEF Miss
<1>2. /\ DOMAIN frame = FrameFields /\ frame.fun = fun /\ frame.cells = tuple /\ frame.con = con
      /\ frame.prevs = attached.prevs
  BY DEF Frame, FrameFields
<1>3. /\ tuple \in Seq(Cells) /\ Distinctly(tuple)
      /\ DOMAIN slots = Cells
  BY DEF IInv, Callable
<1>4. /\ DOMAIN slots' = Cells
      /\ \A i \in DOMAIN tuple :
           /\ slots'[tuple[i]] = <<[con |-> con, param |-> i]>> \o slots[tuple[i]]
           /\ frame.prevs[i] = slots[tuple[i]]
      /\ \A c \in Cells \ Range(tuple) : slots'[c] = slots[c]
  BY <1>1, <1>2, <1>3, AttachLinks
<1> HIDE DEF attached, frame
<1>5. /\ Len(constraints) \in Nat /\ DOMAIN constraints = 1 .. Len(constraints)
      /\ constraints \in Seq(Range(constraints))
      /\ n \in Nat /\ DOMAIN stack = 1 .. n
  BY Setting DEF IInv, ConstraintsShaped
<1>6. /\ constraints' \in Seq(Range(constraints')) /\ Len(constraints') = con
      /\ DOMAIN constraints' = 1 .. con
      /\ \A k \in 1 .. Len(constraints) : constraints'[k] = constraints[k]
      /\ constraints'[con] = EmptyConstraint
  BY <1>1, <1>5, Appended
<1>7. /\ Shaped(stack', con) /\ DetachRestores(stack')
      /\ Len(stack') = n + 1 /\ DOMAIN stack' = 1 .. n + 1
      /\ \A d \in 1 .. n : stack'[d] = stack[d]
      /\ stack'[n + 1] = frame
      /\ \A c \in Cells : IsChain(slots[c], stack', n, c)
  <2>1. con \in Nat /\ Len(constraints) <= con /\ con > Len(constraints)
    BY <1>5
  <2>2. \A i \in DOMAIN tuple : frame.prevs[i] = slots[tuple[i]]
    BY <1>4
  <2>3. Fits(frame, con)
    <3> HIDE DEF con
    <3> QED BY <1>2, <2>1, <2>2 DEF Fits
  <2>4. On(stack', frame, con)
    BY <1>1, <2>3, Pushed
  <2> QED BY <2>4 DEF On
<1>8. /\ EmptyConstraint.immutable \in Seq(Range(EmptyConstraint.immutable))
      /\ EmptyConstraint.mutable \in Seq(Range(EmptyConstraint.mutable))
      /\ Range(EmptyConstraint.mutable) = {}
      /\ DOMAIN EmptyConstraint = {"immutable", "mutable"}
  BY DEF EmptyConstraint, Range
<1>9. ConstraintsShaped(constraints')
  <2> SUFFICES ASSUME NEW k \in 1 .. con
               PROVE  /\ DOMAIN constraints'[k] = {"immutable", "mutable"}
                      /\ constraints'[k].immutable \in Seq(Range(constraints'[k].immutable))
                      /\ constraints'[k].mutable \in Seq(Range(constraints'[k].mutable))
    BY <1>6 DEF ConstraintsShaped
  <2>1. CASE k = con
    BY <1>6, <1>8, <2>1
  <2>2. CASE k # con
    <3>1. k \in 1 .. Len(constraints)
      BY <1>5, <2>2
    <3>2. constraints'[k] = constraints[k]
      BY <1>6, <3>1
    <3> QED BY <1>5, <3>1, <3>2 DEF IInv, ConstraintsShaped
  <2> QED BY <2>1, <2>2
<1>10. Attached'
  <2> SUFFICES ASSUME NEW c \in Cells PROVE IsChain(slots'[c], stack', n + 1, c)
    BY <1>7 DEF Attached
  <2>1. IsChain(slots[c], stack', n, c)
    BY <1>7
  <2>2. CASE c \notin Range(tuple)
    <3>1. LinksOf(stack'[n + 1], c) = {}
      BY <1>2, <1>7, <2>2, NoLinkElsewhere
    <3>2. IsChain(slots[c], stack', n + 1, c)
      BY <1>5, <2>1, <3>1, ChainBeside
    <3> QED BY <1>4, <2>2, <3>2
  <2>3. CASE c \in Range(tuple)
    <3>1. PICK i \in DOMAIN tuple : c = tuple[i]
      BY <2>3 DEF Range
    <3> DEFINE link == [con |-> con, param |-> i]
    <3>2. link.con = con /\ con \in Nat
      BY <1>5
    <3>3. LinksOf(stack'[n + 1], c) = {link} /\ Recording(stack'[n + 1])
      BY <1>1, <1>2, <1>3, <1>7, <3>1, LinkOfParam DEF Recording
    <3>4. \A l \in Range(slots[c]) : l.con \in Nat /\ l.con < con
      <4>1. ASSUME NEW d \in DOMAIN stack PROVE 1 \in 1 .. Arity[stack[d].fun]
        <5>1. stack[d].fun \in Funs
          BY DEF IInv, Shaped
        <5>2. \A f \in Funs : Arity[f] \in 1 .. 6
          BY DEF Wired
        <5> QED BY <5>1, <5>2
      <4>2. \A l \in Range(slots[c]) : l.con \in DOMAIN constraints
        BY <4>1, TellsWithin
      <4> QED BY <1>5, <4>2
    <3> HIDE DEF link, con
    <3>5. IsChain(<<link>> \o slots[c], stack', n + 1, c)
      BY <1>5, <2>1, <3>2, <3>3, <3>4, ChainLonger
    <3> QED BY <1>4, <3>1, <3>5 DEF link
  <2> QED BY <2>2, <2>3
<1>11. EntriesFinished'
  <2> SUFFICES ASSUME NEW f \in Funs, NEW e \in caches[f]
               PROVE  /\ DOMAIN e = EntryFields
                      /\ e.con \in DOMAIN constraints'
                      /\ \A d \in DOMAIN stack' : Recording(stack'[d]) => stack'[d].con # e.con
                      /\ WritesOn(constraints'[e.con], f)
    BY <1>1 DEF EntriesFinished
  <2>1. /\ DOMAIN e = EntryFields
        /\ e.con \in 1 .. Len(constraints)
        /\ \A d \in DOMAIN stack : Recording(stack[d]) => stack[d].con # e.con
        /\ WritesOn(constraints[e.con], f)
    BY <1>5 DEF IInv, EntriesFinished
  <2>2. e.con \in DOMAIN constraints' /\ e.con # con /\ constraints'[e.con] = constraints[e.con]
    BY <1>5, <1>6, <2>1
  <2>3. ASSUME NEW d \in 1 .. n + 1, Recording(stack'[d]) PROVE stack'[d].con # e.con
    <3>1. CASE d = n + 1
      BY <1>2, <1>7, <2>2, <3>1
    <3>2. CASE d # n + 1
      <4>1. d \in 1 .. n
        BY <1>5, <3>2
      <4> QED BY <1>5, <1>7, <2>1, <2>3, <4>1
    <3> QED BY <3>1, <3>2
  <2> QED BY <1>7, <2>1, <2>2, <2>3
<1>12. RunningWrites'
  <2> SUFFICES ASSUME NEW d \in 1 .. n + 1, Recording(stack'[d])
               PROVE  WritesOn(constraints'[stack'[d].con], stack'[d].fun)
    BY <1>7 DEF RunningWrites
  <2>1. CASE d = n + 1
    BY <1>2, <1>6, <1>7, <1>8, <2>1 DEF WritesOn
  <2>2. CASE d # n + 1
    <3>1. d \in 1 .. n
      BY <1>5, <2>2
    <3>2. stack'[d] = stack[d] /\ stack[d].con \in 1 .. Len(constraints)
      BY <1>5, <1>7, <3>1 DEF IInv, Shaped
    <3>3. constraints'[stack[d].con] = constraints[stack[d].con]
      BY <1>6, <3>2
    <3> QED BY <1>5, <3>1, <3>2, <3>3 DEF IInv, RunningWrites
  <2> QED BY <2>1, <2>2
<1>13. IInv'
  BY <1>1, <1>4, <1>6, <1>7, <1>9, <1>10, <1>11, <1>12 DEF IInv
<1>14. Untouched
  BY <1>5, <1>6 DEF Untouched
<1> QED BY <1>13, <1>14

(* A bypassed call attaches nothing *)
LEMMA BypassKeeps ==
  ASSUME IInv, NEW fun, NEW key, NEW tuple, Callable(fun, tuple), Bypass(fun, key, tuple)
  PROVE  IInv' /\ Untouched
<1> DEFINE n == Len(stack)
           frame == Frame(fun, key, tuple, 0, <<>>)
<1>1. /\ stack' = Append(stack, frame) /\ fun \in Bypassed
      /\ slots' = slots /\ constraints' = constraints /\ caches' = caches
  BY DEF Bypass
<1>2. /\ DOMAIN frame = FrameFields /\ frame.fun = fun /\ frame.cells = tuple /\ frame.con = 0
  BY DEF Frame, FrameFields
<1>3. ~Recording(frame)
  BY <1>1, <1>2 DEF Recording
<1> HIDE DEF frame
<1>4. n \in Nat /\ DOMAIN stack = 1 .. n /\ Len(constraints) \in Nat
  BY Setting
<1>5. /\ Shaped(stack', Len(constraints)) /\ DetachRestores(stack')
      /\ Len(stack') = n + 1 /\ DOMAIN stack' = 1 .. n + 1
      /\ \A d \in 1 .. n : stack'[d] = stack[d]
      /\ stack'[n + 1] = frame
      /\ \A c \in Cells : IsChain(slots[c], stack', n, c)
  <2>1. frame.con \in Nat /\ frame.con <= Len(constraints)
    BY <1>2, <1>4
  <2>2. Fits(frame, Len(constraints))
    BY <1>2, <1>3, <1>4, <2>1 DEF Fits
  <2>3. On(stack', frame, Len(constraints))
    BY <1>1, <2>2, Pushed
  <2> QED BY <2>3 DEF On
<1>6. \A d \in 1 .. n + 1 : Recording(stack'[d]) => d \in 1 .. n /\ stack'[d] = stack[d]
  BY <1>3, <1>4, <1>5
<1>7. Attached'
  <2> SUFFICES ASSUME NEW c \in Cells PROVE IsChain(slots[c], stack', n + 1, c)
    BY <1>1, <1>5 DEF Attached
  <2>1. IsChain(slots[c], stack', n, c) /\ ~Recording(stack'[n + 1])
    BY <1>3, <1>5
  <2> QED BY <1>4, <2>1, ChainBeside
<1>8. EntriesFinished'
  BY <1>1, <1>4, <1>5, <1>6 DEF IInv, EntriesFinished
<1>9. RunningWrites'
  BY <1>1, <1>4, <1>5, <1>6 DEF IInv, RunningWrites
<1>10. IInv'
  BY <1>1, <1>5, <1>7, <1>8, <1>9 DEF IInv
<1> QED BY <1>1, <1>10 DEF Untouched

-----------------------------------------------------------------------------
(* Calls that end. *)

(* new has the calls around the innermost one *)
Off(new) ==
  /\ Shaped(new, Len(constraints)) /\ DetachRestores(new)
  /\ Len(new) = Len(stack) - 1 /\ DOMAIN new = 1 .. Len(stack) - 1
  /\ \A d \in 1 .. Len(stack) - 1 :
       /\ new[d].fun = stack[d].fun /\ new[d].cells = stack[d].cells
       /\ new[d].con = stack[d].con

(* Completion takes the innermost call off and leaves the others as they   *)
(* are                                                                     *)
LEMMA Popped ==
  ASSUME IInv, Running, NEW fun, NEW key, NEW tuple, NEW before, NEW val, NEW hit,
         Complete(Front(stack), fun, key, tuple, before, val, hit)
  PROVE  Off(stack')
<1> DEFINE m == Len(stack) - 1
           rest == Front(stack)
           made == Len(constraints)
<1>1. stack \in Seq(Range(stack)) /\ stack # <<>> /\ DOMAIN stack = 1 .. Len(stack)
  BY Setting DEF Running
<1>2. /\ Len(stack) \in Nat \ {0}
      /\ rest \in Seq(Range(rest)) /\ Len(rest) = m /\ DOMAIN rest = 1 .. m
      /\ \A d \in 1 .. m : rest[d] = stack[d]
  BY <1>1, Shortened
<1>3. m \in Nat /\ \A d \in 1 .. m : d \in DOMAIN stack
  BY <1>1, <1>2
<1> HIDE DEF rest, m
<1>4. Shaped(rest, made)
  <2>1. \A d \in 1 .. m : rest[d] = stack[d] /\ d \in DOMAIN stack
    BY <1>2, <1>3
  <2>2. Shaped(stack, made)
    BY DEF IInv
  <2> QED BY <1>2, <2>1, <2>2 DEF Shaped
<1>5. DetachRestores(rest)
  <2> SUFFICES ASSUME NEW d \in 1 .. m, Recording(rest[d]), NEW i \in DOMAIN rest[d].cells
               PROVE  IsChain(rest[d].prevs[i], rest, d - 1, rest[d].cells[i])
    BY <1>2 DEF DetachRestores
  <2>1. d \in DOMAIN stack /\ rest[d] = stack[d]
    BY <1>2, <1>3
  <2>2. IsChain(stack[d].prevs[i], stack, d - 1, stack[d].cells[i])
    BY <2>1 DEF IInv, DetachRestores
  <2>3. \A e \in 1 .. d - 1 : e \in 1 .. m
    BY <1>3
  <2>4. \A e \in 1 .. d - 1 : /\ rest[e].fun = stack[e].fun
                              /\ rest[e].cells = stack[e].cells
                              /\ rest[e].con = stack[e].con
    BY <1>2, <2>3
  <2> QED BY <2>1, <2>2, <2>4, ChainAlike
<1>6. Alike(rest, stack')
  BY <1>4, Handed DEF rest
<1>7. Shaped(stack', made) /\ DetachRestores(stack')
  BY <1>4, <1>5, <1>6, FramesAlike
<1>8. Len(stack') = m /\ DOMAIN stack' = 1 .. m
  BY <1>2, <1>6, Elements DEF Alike
<1>9. \A d \in 1 .. m : /\ stack'[d].fun = stack[d].fun /\ stack'[d].cells = stack[d].cells
                        /\ stack'[d].con = stack[d].con
  BY <1>2, <1>6 DEF Alike
<1> QED BY <1>7, <1>8, <1>9 DEF Off, m

(* What the calls around the innermost one need *)
LEMMA AroundTop ==
  ASSUME IInv, Running, NEW new, Off(new)
  PROVE  /\ Len(stack) - 1 \in Nat /\ Len(stack) = (Len(stack) - 1) + 1
         /\ \A d \in DOMAIN new :
              /\ d \in DOMAIN stack /\ d # Len(stack)
              /\ new[d].con = stack[d].con /\ new[d].fun = stack[d].fun
              /\ Recording(new[d]) <=> Recording(stack[d])
         /\ \A s, c : IsChain(s, stack, Len(stack) - 1, c) => IsChain(s, new, Len(stack) - 1, c)
<1>1. Len(stack) \in Nat \ {0} /\ DOMAIN stack = 1 .. Len(stack)
  BY Setting, OfTop
<1>2. \A d \in 1 .. Len(stack) - 1 : /\ new[d].fun = stack[d].fun
                                     /\ new[d].cells = stack[d].cells
                                     /\ new[d].con = stack[d].con
  BY DEF Off
<1>3. ASSUME NEW s, NEW c, IsChain(s, stack, Len(stack) - 1, c)
      PROVE  IsChain(s, new, Len(stack) - 1, c)
  BY <1>2, <1>3, ChainAlike
<1>4. DOMAIN new = 1 .. Len(stack) - 1
  BY DEF Off
<1>5. \A d \in DOMAIN new : d \in DOMAIN stack /\ d # Len(stack)
  BY <1>1, <1>4
<1> QED BY <1>1, <1>2, <1>3, <1>4, <1>5 DEF Recording

(* A bypassed call returns *)
LEMMA BypassReturnKeeps ==
  ASSUME IInv, BypassReturn
  PROVE  IInv' /\ Untouched
<1> DEFINE m == Len(stack) - 1
<1>1. /\ Running /\ Top.fun \in Bypassed
      /\ slots' = slots /\ constraints' = constraints /\ caches' = caches
  BY DEF BypassReturn, Active
<1>2. Off(stack')
  BY <1>1, Popped DEF BypassReturn
<1>3. /\ m \in Nat /\ Len(stack) = m + 1
      /\ \A d \in DOMAIN stack' :
           /\ d \in DOMAIN stack /\ d # Len(stack)
           /\ stack'[d].con = stack[d].con /\ stack'[d].fun = stack[d].fun
           /\ Recording(stack'[d]) <=> Recording(stack[d])
      /\ \A s, c : IsChain(s, stack, m, c) => IsChain(s, stack', m, c)
  BY <1>1, <1>2, AroundTop
<1>4. Len(stack') = m /\ Shaped(stack', Len(constraints)) /\ DetachRestores(stack')
  BY <1>2 DEF Off
<1> HIDE DEF m
<1>5. ~Recording(stack[m + 1])
  BY <1>1, <1>3, OfTop DEF Recording
<1>6. Attached'
  <2> SUFFICES ASSUME NEW c \in Cells PROVE IsChain(slots[c], stack', m, c)
    BY <1>1, <1>4 DEF Attached
  <2>1. IsChain(slots[c], stack, m + 1, c)
    BY <1>3 DEF IInv, Attached
  <2>2. IsChain(slots[c], stack, m, c)
    BY <1>3, <1>5, <2>1, ChainBeside
  <2> QED BY <1>3, <2>2
<1>7. EntriesFinished'
  BY <1>1, <1>3 DEF IInv, EntriesFinished
<1>8. RunningWrites'
  BY <1>1, <1>3 DEF IInv, RunningWrites
<1>9. IInv'
  BY <1>1, <1>4, <1>6, <1>7, <1>8 DEF IInv
<1> QED BY <1>1, <1>9 DEF Untouched

(* The sequence that the insertion has taken calls from *)
LEMMA ConsumedGrows ==
  ASSUME Wired, IInv, Running, Top.fun \notin Bypassed
  PROVE  Grown(constraints, Consumed, Heard)
<1>1. /\ Len(stack) \in DOMAIN stack /\ Top = stack[Len(stack)] /\ Top.fun \in Funs
      /\ Recording(stack[Len(stack)])
  BY OfTop DEF Recording
<1>2. Top.con \in DOMAIN constraints
  BY <1>1, Setting DEF IInv, Shaped
<1>3. ConstraintsShaped(constraints)
  BY DEF IInv
<1> DEFINE con == [constraints[Top.con] EXCEPT !.immutable = LeftOf(Path, Taken)]
<1>4. /\ DOMAIN constraints[Top.con] = {"immutable", "mutable"}
      /\ Path \in Seq(Range(Path))
      /\ constraints[Top.con].mutable \in Seq(Range(constraints[Top.con].mutable))
  BY <1>2, <1>3 DEF ConstraintsShaped, Path
<1>5. /\ DOMAIN con = {"immutable", "mutable"}
      /\ con.immutable = LeftOf(Path, Taken)
      /\ con.mutable = constraints[Top.con].mutable
  BY <1>4
<1>6. Consumed = [constraints EXCEPT ![Top.con] = con]
  BY <1>2, <1>3 DEF Consumed, ConstraintsShaped
<1>7. 1 \in 1 .. Arity[Top.fun]
  <2>1. Arity[Top.fun] \in 1 .. 6
    BY <1>1 DEF Wired
  <2> QED BY <2>1
<1>8. \E h \in Heard : h.con = Top.con
  <2>1. [con |-> Top.con, param |-> 1] \in Heard
    BY <1>1, <1>7 DEF Heard
  <2> QED BY <2>1
<1> HIDE DEF con
<1>9. con.immutable \in Seq(Range(con.immutable))
  <2>1. PICK left : left = LeftOf(Path, Taken)
    OBVIOUS
  <2>2. Len(Path) \in Nat /\ DOMAIN Path = 1 .. Len(Path)
    BY <1>4, Elements
  <2>3. left = [n \in 1 .. Len(Path) |-> left[n]]
    BY <2>1, <2>2 DEF LeftOf
  <2> QED BY <1>5, <2>1, <2>2, <2>3, FunctionIsSeq
<1>10. /\ con.mutable \in Seq(Range(con.mutable))
       /\ \A w \in Range(con.mutable) : w \in Range(constraints[Top.con].mutable)
  BY <1>4, <1>5
<1>11. Grown(constraints, [constraints EXCEPT ![Top.con] = con], Heard)
  BY <1>2, <1>3, <1>5, <1>8, <1>9, <1>10, GrownByOne
<1> QED BY <1>6, <1>11

(* A recorded call returns: detach, insertion and what is left of the      *)
(* sequence                                                                *)
LEMMA ReturnKeeps ==
  ASSUME Wired, IInv, Return
  PROVE  IInv' /\ Untouched
<1> DEFINE m == Len(stack) - 1
<1>1. /\ Running /\ Top.fun \notin Bypassed
      /\ slots' = Detach(Top.cells, Top.prevs)
      /\ constraints' = Consumed
      /\ caches' = IF Fails THEN caches ELSE [caches EXCEPT ![Top.fun] = @ \cup {NewEntry}]
  BY DEF Return, Active
<1>2. Off(stack')
  BY <1>1, Popped DEF Return
<1>3. /\ m \in Nat /\ Len(stack) = m + 1
      /\ \A d \in DOMAIN stack' :
           /\ d \in DOMAIN stack /\ d # Len(stack)
           /\ stack'[d].con = stack[d].con /\ stack'[d].fun = stack[d].fun
           /\ Recording(stack'[d]) <=> Recording(stack[d])
      /\ \A s, c : IsChain(s, stack, m, c) => IsChain(s, stack', m, c)
  BY <1>1, <1>2, AroundTop
<1>4. /\ Len(stack') = m /\ Shaped(stack', Len(constraints)) /\ DetachRestores(stack')
  BY <1>2 DEF Off
<1> HIDE DEF m
<1>5. /\ m + 1 \in DOMAIN stack /\ Top = stack[m + 1] /\ Recording(stack[m + 1])
      /\ Top.fun \in Funs /\ Top.cells \in Seq(Cells) /\ Distinctly(Top.cells)
  BY <1>1, <1>3, OfTop DEF Recording
<1>6. Top.con \in DOMAIN constraints
  BY <1>5, Setting DEF IInv, Shaped
<1>7. /\ ConstraintsShaped(constraints') /\ Len(constraints') = Len(constraints)
      /\ Untouched
      /\ \A d \in DOMAIN stack :
           Recording(stack[d]) => WritesOn(constraints'[stack[d].con], stack[d].fun)
      /\ \A f \in Funs : \A e \in caches[f] : constraints'[e.con] = constraints[e.con]
  <2>1. Grown(constraints, constraints', Heard)
    BY <1>1, ConsumedGrows
  <2> QED BY <2>1, GrownKeeps DEF Untouched
<1>8. DOMAIN constraints' = DOMAIN constraints
  BY <1>7, Elements, Setting DEF ConstraintsShaped
<1>9. /\ DOMAIN slots' = Cells
      /\ \A i \in DOMAIN Top.cells : slots'[Top.cells[i]] = Top.prevs[i]
      /\ \A c \in Cells \ Range(Top.cells) : slots'[c] = slots[c]
  <2>1. DOMAIN slots = Cells
    BY DEF IInv
  <2> QED BY <1>1, <1>5, <2>1, DetachLinks
<1>10. Attached'
  <2> SUFFICES ASSUME NEW c \in Cells PROVE IsChain(slots'[c], stack', m, c)
    BY <1>4 DEF Attached
  <2>1. CASE c \in Range(Top.cells)
    <3>1. PICK i \in DOMAIN Top.cells : c = Top.cells[i]
      BY <2>1 DEF Range
    <3>2. (m + 1) - 1 = m
      BY <1>3
    <3>3. IsChain(Top.prevs[i], stack, m, c)
      BY <1>5, <3>1, <3>2 DEF IInv, DetachRestores
    <3>4. slots'[c] = Top.prevs[i]
      BY <1>9, <3>1
    <3> QED BY <1>3, <3>3, <3>4
  <2>2. CASE c \notin Range(Top.cells)
    <3>1. IsChain(slots[c], stack, m + 1, c)
      BY <1>3 DEF IInv, Attached
    <3>2. LinksOf(stack[m + 1], c) = {}
      BY <1>5, <2>2, NoLinkElsewhere
    <3>3. IsChain(slots[c], stack, m, c)
      BY <1>3, <3>1, <3>2, ChainBeside
    <3>4. slots'[c] = slots[c]
      BY <1>9, <2>2
    <3> QED BY <1>3, <3>3, <3>4
  <2> QED BY <2>1, <2>2
<1>11. /\ DOMAIN caches' = Funs
       /\ \A f \in Funs : \A e \in caches'[f] : e \in caches[f] \/ (f = Top.fun /\ e = NewEntry)
  BY <1>1, <1>5 DEF IInv
<1>12. EntriesFinished'
  <2> SUFFICES ASSUME NEW f \in Funs, NEW e \in caches'[f]
               PROVE  /\ DOMAIN e = EntryFields
                      /\ e.con \in DOMAIN constraints'
                      /\ \A d \in DOMAIN stack' : Recording(stack'[d]) => stack'[d].con # e.con
                      /\ WritesOn(constraints'[e.con], f)
    BY DEF EntriesFinished
  <2>1. CASE e \in caches[f]
    <3>1. /\ DOMAIN e = EntryFields
          /\ e.con \in DOMAIN constraints
          /\ \A d \in DOMAIN stack : Recording(stack[d]) => stack[d].con # e.con
          /\ WritesOn(constraints[e.con], f)
      BY <2>1 DEF IInv, EntriesFinished
    <3>2. constraints'[e.con] = constraints[e.con]
      BY <1>7, <2>1
    <3> QED BY <1>3, <1>8, <3>1, <3>2
  <2>2. CASE f = Top.fun /\ e = NewEntry
    <3>1. DOMAIN e = EntryFields /\ e.con = Top.con
      BY <2>2 DEF NewEntry, EntryFields
    <3>2. ASSUME NEW d \in DOMAIN stack', Recording(stack'[d]) PROVE stack'[d].con # Top.con
      <4>1. d \in DOMAIN stack /\ d # m + 1 /\ Recording(stack[d]) /\ stack'[d].con = stack[d].con
        BY <1>3, <3>2
      <4> QED BY <1>5, <4>1, OwnConstraint
    <3>3. WritesOn(constraints'[Top.con], Top.fun)
      BY <1>5, <1>7
    <3> QED BY <1>6, <1>8, <2>2, <3>1, <3>2, <3>3
  <2> QED BY <1>11, <2>1, <2>2
<1>13. RunningWrites'
  BY <1>3, <1>7 DEF RunningWrites
<1>14. IInv'
  BY <1>4, <1>7, <1>9, <1>10, <1>11, <1>12, <1>13 DEF IInv
<1> QED BY <1>7, <1>14

-----------------------------------------------------------------------------
(* The theorems. *)

(* Nothing runs and nothing is cached *)
LEMMA InitHolds ==
  ASSUME Init
  PROVE  IInv
<1>1. /\ stack = <<>> /\ constraints = <<>>
      /\ slots = [c \in Cells |-> <<>>] /\ caches = [f \in Funs |-> {}]
  BY DEF Init
<1>2. ASSUME NEW s, s = <<>> PROVE s \in Seq(Range(s)) /\ Len(s) = 0 /\ DOMAIN s = {} /\ Range(s) = {}
  BY <1>2 DEF Range
<1>3. ConstraintsShaped(constraints)
  BY <1>1, <1>2 DEF ConstraintsShaped
<1>4. Shaped(stack, Len(constraints)) /\ DetachRestores(stack)
  BY <1>1, <1>2 DEF Shaped, DetachRestores
<1>5. Attached
  <2> SUFFICES ASSUME NEW c \in Cells PROVE IsChain(slots[c], stack, Len(stack), c)
    BY DEF Attached
  <2>1. /\ slots[c] \in Seq(Range(slots[c])) /\ DOMAIN slots[c] = {} /\ Range(slots[c]) = {}
        /\ Len(stack) = 0
    BY <1>1, <1>2
  <2>2. 1 .. Len(stack) = {}
    BY <2>1
  <2> QED BY <2>1, <2>2 DEF IsChain
<1>6. EntriesFinished /\ RunningWrites
  BY <1>1, <1>2 DEF EntriesFinished, RunningWrites
<1> QED BY <1>1, <1>3, <1>4, <1>5, <1>6 DEF IInv

(* A memoized call, whichever way it goes *)
LEMMA CallKeeps ==
  ASSUME Wired, IInv, NEW fun, NEW key, NEW tuple, Callable(fun, tuple), Call(fun, key, tuple)
  PROVE  IInv' /\ Untouched
<1>1. CASE Hit(fun, key, tuple)
  BY <1>1, HitKeeps
<1>2. CASE Miss(fun, key, tuple)
  BY <1>2, MissKeeps
<1>3. CASE Bypass(fun, key, tuple)
  BY <1>3, BypassKeeps
<1> QED BY <1>1, <1>2, <1>3 DEF Call

(* Every step keeps the invariant, and what completed calls have recorded  *)
LEMMA StepKeeps ==
  ASSUME Wired, IInv, [Next]_vars
  PROVE  IInv' /\ Untouched
<1>1. CASE TopCall
  <2>1. PICK f \in Funs, k \in Args : \E t \in Tuples[f] : Call(f, k, t)
    BY <1>1 DEF TopCall
  <2>2. PICK t \in Tuples[f] : Call(f, k, t)
    BY <2>1
  <2>3. Callable(f, t)
    BY <1>1, <2>2, TopCallable DEF TopCall
  <2> QED BY <2>2, <2>3, CallKeeps
<1>2. CASE BodyCall
  <2> DEFINE tuple == [i \in DOMAIN NextOp.params |-> CellOf(NextOp.params[i])]
  <2>1. Callable(NextOp.fun, tuple)
    BY <1>2, BodyCallable DEF BodyCall, Active
  <2>2. Call(NextOp.fun, NextOp.key, tuple)
    BY <1>2 DEF BodyCall
  <2> HIDE DEF tuple
  <2> QED BY <2>1, <2>2, CallKeeps
<1>3. CASE Edit
  BY <1>3, IdleKeeps, CachesUnchanged DEF Edit
<1>4. CASE \E m \in 0 .. MaxAge : Evict(m)
  BY <1>4, EvictKeeps
<1>5. CASE BodyRead
  BY <1>5, ReadKeeps
<1>6. CASE ReadPanic
  BY <1>6, IdleKeeps, CachesUnchanged DEF ReadPanic
<1>7. CASE BodyWrite
  BY <1>7, WriteKeeps
<1>8. CASE BypassReturn
  BY <1>8, BypassReturnKeeps
<1>9. CASE Return
  BY <1>9, ReturnKeeps
<1>10. CASE UNCHANGED vars
  BY <1>10, IdleKeeps, CachesUnchanged DEF vars
<1> QED BY <1>1, <1>2, <1>3, <1>4, <1>5, <1>6, <1>7, <1>8, <1>9, <1>10 DEF Next

(* The inductive invariant: the chain of every cell holds the recorders of *)
(* the running calls that got the cell, once for each parameter, inner     *)
(* calls first; what a call found before it attached is the chain of the   *)
(* calls around it, so that detach restores that; and no entry shares a    *)
(* constraint that may still be written.                                   *)
THEOREM Invariant ==
  ASSUME Wired
  PROVE  Spec => []IInv
<1>1. IInv /\ [Next]_vars => IInv'
  BY StepKeeps
<1> QED BY <1>1, InitHolds, PTL DEF Spec

(* The chains of the invariant are those that ChainsNest speaks of *)
LEMMA ChainsFromInvariant ==
  ASSUME IInv
  PROVE  ChainsNest
<1> SUFFICES ASSUME NEW c \in Cells
             PROVE  /\ Range(slots[c]) =
                         UNION {{[con |-> stack[d].con, param |-> i] :
                                   i \in {j \in DOMAIN stack[d].cells : stack[d].cells[j] = c}} :
                                d \in {e \in DOMAIN stack : stack[e].fun \notin Bypassed}}
                    /\ \A m, n \in DOMAIN slots[c] :
                         m < n => slots[c][m].con >= slots[c][n].con
  BY DEF ChainsNest
<1>1. IsChain(slots[c], stack, Len(stack), c)
  BY DEF IInv, Attached
<1>2. DOMAIN stack = 1 .. Len(stack)
  BY Setting
<1>3. Range(slots[c]) = UNION {LinksOf(stack[d], c) : d \in {e \in DOMAIN stack : Recording(stack[e])}}
  BY <1>1, <1>2 DEF IsChain
<1>4. ASSUME NEW n \in DOMAIN slots[c] PROVE slots[c][n].con \in Nat
  <2>1. slots[c][n] \in Range(slots[c])
    BY DEF Range
  <2>2. PICK d \in {e \in DOMAIN stack : Recording(stack[e])} : slots[c][n] \in LinksOf(stack[d], c)
    BY <1>3, <2>1
  <2>3. slots[c][n].con = stack[d].con
    BY <2>2 DEF LinksOf
  <2> QED BY <2>2, <2>3 DEF IInv, Shaped
<1>5. \A m, n \in DOMAIN slots[c] : m < n => slots[c][m].con >= slots[c][n].con
  BY <1>1, <1>4 DEF IsChain
<1> QED BY <1>3, <1>5 DEF LinksOf, Recording

(* A recorder hears a cell exactly while its call runs, and exactly as the *)
(* parameters that the cell was passed for: what attach and detach of      *)
(* tracked.mbt make of the chain when calls nest.                          *)
THEOREM Nested ==
  ASSUME Wired
  PROVE  Spec => []ChainsNest
BY Invariant, ChainsFromInvariant, PTL

(* No step writes the constraint of a call that has completed, whether its *)
(* tree took the entry or not: entries are as they were inserted.          *)
THEOREM Finished ==
  ASSUME Wired
  PROVE  Spec => FinishedUntouched
<1>1. IInv /\ [Next]_vars => [\A n \in DOMAIN constraints \ Live : constraints'[n] = constraints[n]]_vars
  BY StepKeeps DEF Untouched
<1> QED BY <1>1, Invariant, PTL DEF Spec, FinishedUntouched

-----------------------------------------------------------------------------
(* The purity check of the recorders. *)

(* The wiring of the bundle, whose calls say where they were made, and     *)
(* bodies that pass parameters on in place, so that the place is right for *)
(* every recorder around                                                   *)
PassedInPlace ==
  /\ ~Merged
  /\ \A f \in Funs : \A k, obs :
       Body(f, k, obs).op = "call" =>
         \A i \in DOMAIN Body(f, k, obs).params : Body(f, k, obs).params[i] = i

(* No constraint has got anything from a read but pair *)
Answered(old, new, pair) ==
  /\ ConstraintsShaped(new) /\ DOMAIN new = DOMAIN old
  /\ \A n \in DOMAIN old :
       /\ new[n].mutable = old[n].mutable
       /\ \A p \in Range(new[n].immutable) : p \in Range(old[n].immutable) \/ p = pair

(* One link is told of a read *)
LEMMA AnsweredOne ==
  ASSUME NEW cons, ConstraintsShaped(cons), NEW n \in DOMAIN cons, NEW tagged, NEW ret
  PROVE  Answered(cons, [cons EXCEPT ![n] = Record(@, tagged, ret)],
                  [call |-> tagged, ret |-> <<ret>>])
<1> DEFINE pair == [call |-> tagged, ret |-> <<ret>>]
           con == Record(cons[n], tagged, ret)
           new == [cons EXCEPT ![n] = Record(@, tagged, ret)]
           heard == {[con |-> n]}
<1>1. ConstraintsShaped(new)
  <2>1. PICK l : l = [con |-> n]
    OBVIOUS
  <2>2. l.con = n /\ l \in heard
    BY <2>1
  <2> HIDE DEF heard
  <2>3. \E h \in heard : h.con = l.con
    BY <2>2
  <2>4. Grown(cons, [cons EXCEPT ![l.con] = Record(@, tagged, ret)], heard)
    BY <2>2, <2>3, RecordGrows
  <2> QED BY <2>2, <2>4 DEF Grown
<1>2. /\ cons \in Seq(Range(cons))
      /\ DOMAIN cons[n] = {"immutable", "mutable"}
      /\ cons[n].immutable \in Seq(Range(cons[n].immutable))
  BY DEF ConstraintsShaped
<1>3. /\ con.mutable = cons[n].mutable
      /\ con.immutable = cons[n].immutable \/ con.immutable = Append(cons[n].immutable, pair)
  BY <1>2 DEF Record
<1>4. DOMAIN new = DOMAIN cons /\ \A m \in DOMAIN cons : new[m] = IF m = n THEN con ELSE cons[m]
  BY <1>2
<1>5. Range(Append(cons[n].immutable, pair)) = Range(cons[n].immutable) \cup {pair}
  BY <1>2, Appended
<1> HIDE DEF new, con, pair
<1>6. \A p \in Range(con.immutable) : p \in Range(cons[n].immutable) \/ p = pair
  BY <1>3, <1>5
<1>7. Answered(cons, new, pair)
  BY <1>1, <1>3, <1>4, <1>6 DEF Answered
<1> QED BY <1>7 DEF new, pair

(* Two are *)
LEMMA AnsweredTwice ==
  ASSUME NEW a, NEW b, NEW c, NEW pair, Answered(a, b, pair), Answered(b, c, pair)
  PROVE  Answered(a, c, pair)
BY DEF Answered

(* All of them are, of the same call and answer *)
LEMMA ReadAnswers ==
  ASSUME ~Merged, ConstraintsShaped(constraints), NEW param, NEW call, NEW ret,
         slots[CellOf(param)] \in Seq(Range(slots[CellOf(param)])),
         \A l \in Range(slots[CellOf(param)]) : l.con \in DOMAIN constraints
  PROVE  Answered(constraints, RecordRead(param, call, ret),
                  [call |-> [param |-> param, call |-> call], ret |-> <<ret>>])
<1> DEFINE links == slots[CellOf(param)]
           tagged == [param |-> param, call |-> call]
           pair == [call |-> tagged, ret |-> <<ret>>]
<1>1. /\ links \in Seq(Range(links)) /\ Len(links) \in Nat
      /\ \A i \in 1 .. Len(links) : links[i] \in Range(links)
  BY Elements
<1>2. PICK told : ReadBy(param, call, ret, links, told)
  BY <1>1, ReadSteps
<1>3. /\ told[0] = constraints
      /\ \A n \in 1 .. Len(links) :
           told[n] = [told[n - 1] EXCEPT ![links[n].con] = Record(@, tagged, ret)]
      /\ RecordRead(param, call, ret) = told[Len(links)]
  BY <1>2 DEF ReadBy, Tagged
<1>4. \A l \in Range(links) : l.con \in DOMAIN constraints
  OBVIOUS
<1> HIDE DEF links, tagged
<1> DEFINE P == {n \in 0 .. Len(links) : Answered(constraints, told[n], pair)}
<1>5. 0 \in P
  BY <1>1, <1>3 DEF Answered
<1>6. ASSUME NEW i \in 0 .. Len(links) - 1, i \in P PROVE i + 1 \in P
  <2>1. i + 1 \in 1 .. Len(links) /\ (i + 1) - 1 = i
    BY <1>1
  <2>2. PICK old, n : old = told[i] /\ n = links[i + 1].con
    OBVIOUS
  <2>3. told[i + 1] = [old EXCEPT ![n] = Record(@, tagged, ret)]
    BY <1>3, <2>1, <2>2
  <2>4. Answered(constraints, old, pair)
    BY <1>6, <2>2
  <2>5. ConstraintsShaped(old) /\ n \in DOMAIN old
    BY <1>1, <1>4, <2>1, <2>2, <2>4 DEF Answered
  <2>6. Answered(old, told[i + 1], pair)
    BY <2>3, <2>5, AnsweredOne
  <2>7. Answered(constraints, told[i + 1], pair)
    BY <2>4, <2>6, AnsweredTwice
  <2> QED BY <2>1, <2>7
<1>7. Len(links) \in P
  <2> HIDE DEF P
  <2> QED BY <1>1, <1>5, <1>6, CountUp
<1>8. Answered(constraints, RecordRead(param, call, ret), pair)
  BY <1>3, <1>7
<1> QED BY <1>8 DEF tagged

(* No constraint has lost anything in a write, and some have got it *)
Written(old, new) ==
  /\ ConstraintsShaped(new) /\ DOMAIN new = DOMAIN old
  /\ \A n \in DOMAIN old :
       /\ new[n].immutable = old[n].immutable
       /\ Range(old[n].mutable) \subseteq Range(new[n].mutable)

HasWrite(con, param) == \E w \in Range(con.mutable) : w.param = param

(* One link is told of a write, and has it *)
LEMMA WrittenOne ==
  ASSUME NEW cons, ConstraintsShaped(cons), NEW n \in DOMAIN cons, NEW param, NEW call, NEW new,
         new = [cons EXCEPT ![n] = RecordMutable(@, <<[param |-> param, call |-> call]>>)]
  PROVE  Written(cons, new) /\ HasWrite(new[n], param)
<1> DEFINE tagged == [param |-> param, call |-> call]
           one == <<tagged>>
           con == RecordMutable(cons[n], one)
<1>0. tagged.param = param
  OBVIOUS
<1>1. ConstraintsShaped(new)
  <2>1. PICK l : l = [con |-> n]
    OBVIOUS
  <2>2. PICK heard : heard = {[con |-> n, param |-> param]}
    OBVIOUS
  <2>3. l.con = n /\ [con |-> l.con, param |-> tagged.param] \in heard
    BY <1>0, <2>1, <2>2
  <2>4. new = [cons EXCEPT ![l.con] = RecordMutable(@, <<tagged>>)]
    BY <2>3
  <2> HIDE DEF tagged
  <2>5. Grown(cons, [cons EXCEPT ![l.con] = RecordMutable(@, <<tagged>>)], heard)
    BY <2>3, RecordMutableGrows
  <2> QED BY <2>4, <2>5 DEF Grown
<1>2. /\ cons \in Seq(Range(cons))
      /\ DOMAIN cons[n] = {"immutable", "mutable"}
      /\ cons[n].mutable \in Seq(Range(cons[n].mutable))
  BY DEF ConstraintsShaped
<1>3. con.immutable = cons[n].immutable /\ con.mutable = cons[n].mutable \o one
  BY <1>2 DEF RecordMutable
<1>4. DOMAIN new = DOMAIN cons /\ \A m \in DOMAIN cons : new[m] = IF m = n THEN con ELSE cons[m]
  BY <1>2
<1>5. one = [i \in 1 .. 1 |-> one[i]] /\ one[1] = tagged
  OBVIOUS
<1> HIDE DEF con, one, tagged
<1>6. one \in Seq(Range(one)) /\ Range(one) = {tagged}
  BY <1>5, FunctionIsSeq DEF Range
<1>7. Range(con.mutable) = Range(cons[n].mutable) \cup {tagged}
  BY <1>2, <1>3, <1>6, Joined
<1> QED BY <1>0, <1>1, <1>3, <1>4, <1>7 DEF Written, HasWrite

(* Two are *)
LEMMA WrittenTwice ==
  ASSUME NEW a, NEW b, NEW c, Written(a, b), Written(b, c)
  PROVE  Written(a, c)
BY DEF Written

(* All of them are, and have it *)
LEMMA WriteHeard ==
  ASSUME ~Merged, NEW cons, ConstraintsShaped(cons), NEW cell, NEW param, NEW call,
         slots[cell] \in Seq(Range(slots[cell])),
         \A l \in Range(slots[cell]) : l.con \in DOMAIN cons
  PROVE  /\ Written(cons, RecordWrite(cons, cell, param, call))
         /\ \A l \in Range(slots[cell]) :
              HasWrite(RecordWrite(cons, cell, param, call)[l.con], param)
<1> DEFINE links == slots[cell]
           tagged == [param |-> param, call |-> call]
<1>1. /\ links \in Seq(Range(links)) /\ Len(links) \in Nat
      /\ \A i \in 1 .. Len(links) : links[i] \in Range(links)
  BY Elements
<1>2. PICK told : WriteBy(cons, cell, param, call, links, told)
  BY <1>1, WriteSteps
<1>3. /\ told[0] = cons
      /\ \A n \in 1 .. Len(links) :
           told[n] = [told[n - 1] EXCEPT ![links[n].con] = RecordMutable(@, <<tagged>>)]
      /\ RecordWrite(cons, cell, param, call) = told[Len(links)]
  BY <1>2 DEF WriteBy, Tagged
<1>4. \A l \in Range(links) : l.con \in DOMAIN cons
  OBVIOUS
<1> HIDE DEF links
<1> DEFINE Heeded(n) == \A i \in 1 .. n : HasWrite(told[n][links[i].con], param)
           P == {n \in 0 .. Len(links) : Written(cons, told[n]) /\ Heeded(n)}
<1>5. 0 \in P
  <2>1. Written(cons, told[0])
    BY <1>3 DEF Written
  <2> QED BY <1>1, <2>1
<1>6. ASSUME NEW i \in 0 .. Len(links) - 1, i \in P PROVE i + 1 \in P
  <2>1. i + 1 \in 1 .. Len(links) /\ (i + 1) - 1 = i /\ i \in Nat
    BY <1>1
  <2>2. PICK old, new, n : old = told[i] /\ new = told[i + 1] /\ n = links[i + 1].con
    OBVIOUS
  <2>3. new = [old EXCEPT ![n] = RecordMutable(@, <<tagged>>)]
    BY <1>3, <2>1, <2>2
  <2>4. Written(cons, old)
    BY <1>6, <2>2
  <2>5. ConstraintsShaped(old) /\ n \in DOMAIN old
    BY <1>1, <1>4, <2>1, <2>2, <2>4 DEF Written
  <2>6. Written(old, new) /\ HasWrite(new[n], param)
    BY <2>3, <2>5, WrittenOne
  <2>7. Written(cons, new)
    BY <2>4, <2>6, WrittenTwice
  <2>8. ASSUME NEW j \in 1 .. i + 1 PROVE HasWrite(new[links[j].con], param)
    <3>1. CASE j = i + 1
      BY <2>2, <2>6, <3>1
    <3>2. CASE j # i + 1
      <4>1. j \in 1 .. i /\ j \in 1 .. Len(links)
        BY <1>1, <2>1, <3>2
      <4>2. HasWrite(old[links[j].con], param)
        BY <1>6, <2>2, <4>1
      <4>3. links[j].con \in DOMAIN old
        BY <1>1, <1>4, <2>4, <4>1 DEF Written
      <4> QED BY <2>6, <4>2, <4>3 DEF Written, HasWrite
    <3> QED BY <3>1, <3>2
  <2> QED BY <2>1, <2>2, <2>7, <2>8
<1>7. Len(links) \in P
  <2> HIDE DEF P
  <2> QED BY <1>1, <1>5, <1>6, CountUp
<1>8. ASSUME NEW l \in Range(links) PROVE HasWrite(told[Len(links)][l.con], param)
  <2>1. PICK i \in 1 .. Len(links) : l = links[i]
    BY <1>1, Elements DEF Range
  <2> QED BY <1>7, <2>1
<1> QED BY <1>3, <1>7, <1>8 DEF links

(* Parameter param of every running call is cell *)
Everywhere(cell, param) ==
  \A d \in DOMAIN stack : param \in DOMAIN stack[d].cells /\ stack[d].cells[param] = cell

(* A cell that is the same parameter of all calls has the links of all     *)
LEMMA TellsAll ==
  ASSUME IInv, NEW cell \in Cells, NEW param, Everywhere(cell, param)
  PROVE  /\ slots[cell] \in Seq(Range(slots[cell]))
         /\ \A l \in Range(slots[cell]) : \E d \in DOMAIN stack :
              Recording(stack[d]) /\ l.con = stack[d].con /\ l.con \in DOMAIN constraints
         /\ \A d \in DOMAIN stack : Recording(stack[d]) =>
              \E l \in Range(slots[cell]) : l.con = stack[d].con
<1>1. /\ slots[cell] \in Seq(Range(slots[cell]))
      /\ Range(slots[cell]) =
           UNION {LinksOf(stack[d], cell) : d \in {e \in DOMAIN stack : Recording(stack[e])}}
  BY Setting DEF IInv, Attached, IsChain
<1>2. ASSUME NEW l \in Range(slots[cell])
      PROVE  \E d \in DOMAIN stack :
               Recording(stack[d]) /\ l.con = stack[d].con /\ l.con \in DOMAIN constraints
  <2>1. PICK d \in {e \in DOMAIN stack : Recording(stack[e])} : l \in LinksOf(stack[d], cell)
    BY <1>1
  <2>2. l.con = stack[d].con
    BY <2>1 DEF LinksOf
  <2>3. stack[d].con \in DOMAIN constraints
    BY <2>1, Setting DEF IInv, Shaped
  <2> QED BY <2>1, <2>2, <2>3
<1>3. ASSUME NEW d \in DOMAIN stack, Recording(stack[d])
      PROVE  \E l \in Range(slots[cell]) : l.con = stack[d].con
  <2>1. [con |-> stack[d].con, param |-> param] \in LinksOf(stack[d], cell)
    BY DEF Everywhere, LinksOf
  <2>2. [con |-> stack[d].con, param |-> param] \in Range(slots[cell])
    BY <1>1, <1>3, <2>1
  <2> QED BY <2>2
<1> QED BY <1>1, <1>2, <1>3

(* One write, of which the recorders are told *)
LEMMA WriteStands ==
  ASSUME IInv, ~Merged, NEW cell \in Cells, NEW param, Everywhere(cell, param),
         NEW cons, ConstraintsShaped(cons), DOMAIN cons = DOMAIN constraints,
         NEW current, DOMAIN current = Cells, Standing(stack, current, cons),
         NEW call, NEW val
  PROVE  /\ Written(cons, RecordWrite(cons, cell, param, call))
         /\ Standing(stack, [current EXCEPT ![cell] = val], RecordWrite(cons, cell, param, call))
<1> DEFINE new == RecordWrite(cons, cell, param, call)
           then == [current EXCEPT ![cell] = val]
<1>1. /\ slots[cell] \in Seq(Range(slots[cell]))
      /\ \A l \in Range(slots[cell]) : l.con \in DOMAIN cons
      /\ \A d \in DOMAIN stack : Recording(stack[d]) =>
           \E l \in Range(slots[cell]) : l.con = stack[d].con
  BY TellsAll
<1>2. Written(cons, new) /\ \A l \in Range(slots[cell]) : HasWrite(new[l.con], param)
  BY <1>1, WriteHeard
<1> HIDE DEF new
<1>3. ASSUME NEW d \in DOMAIN stack, Recording(stack[d]),
             NEW p \in Range(new[stack[d].con].immutable)
      PROVE  /\ p.call.param \in DOMAIN stack[d].cells
             /\ \/ \E w \in Range(new[stack[d].con].mutable) : w.param = p.call.param
                \/ p.ret = <<Result(p.call.call, then[stack[d].cells[p.call.param]])>>
  <2> DEFINE n == stack[d].con
             q == p.call.param
             c == stack[d].cells[q]
  <2>1. n \in DOMAIN cons
    BY <1>3, Setting DEF IInv, Shaped
  <2>2. p \in Range(cons[n].immutable)
    BY <1>2, <1>3, <2>1 DEF Written
  <2>3. /\ q \in DOMAIN stack[d].cells
        /\ (\E w \in Range(cons[n].mutable) : w.param = q) \/ p.ret = <<Result(p.call.call, current[c])>>
    BY <1>3, <2>2 DEF Standing
  <2>4. CASE q = param
    <3>1. PICK l \in Range(slots[cell]) : l.con = n
      BY <1>1, <1>3
    <3>2. HasWrite(new[n], param)
      BY <1>2, <3>1
    <3> QED BY <2>3, <2>4, <3>2 DEF HasWrite
  <2>5. CASE q # param
    <3>1. stack[d].cells[param] = cell /\ param \in DOMAIN stack[d].cells
      BY DEF Everywhere
    <3>2. Distinctly(stack[d].cells)
      BY DEF IInv, Shaped
    <3>3. c # cell
      BY <2>3, <2>5, <3>1, <3>2 DEF Distinctly
    <3>4. then[c] = current[c]
      BY <3>3
    <3>5. Range(cons[n].mutable) \subseteq Range(new[n].mutable)
      BY <1>2, <2>1 DEF Written
    <3> QED BY <2>3, <3>4, <3>5
  <2> QED BY <2>4, <2>5
<1>4. Standing(stack, then, new)
  BY <1>3 DEF Standing
<1> QED BY <1>2, <1>4 DEF new

(* The replay of a hit *)
LEMMA ReplayStands ==
  ASSUME IInv, ~Merged, DOMAIN cells = Cells, Standing(stack, cells, constraints),
         NEW calls, calls \in Seq(Range(calls)), NEW tuple,
         \A c \in Range(calls) : tuple[c.param] \in Cells /\ Everywhere(tuple[c.param], c.param)
  PROVE  LET done == Replayed(calls, tuple)
         IN DOMAIN done.cells = Cells /\ Standing(stack, done.cells, done.cons)
<1>1. Len(calls) \in Nat /\ \A i \in 1 .. Len(calls) : calls[i] \in Range(calls)
  BY Elements
<1>2. PICK told : ReplayBy(calls, tuple, told)
  BY ReplaySteps
<1>3. /\ told[0] = [cells |-> cells, cons |-> constraints]
      /\ \A n \in 1 .. Len(calls) :
           told[n] = ReplayedOne(told[n - 1], calls[n], tuple)
      /\ Replayed(calls, tuple) = told[Len(calls)]
  BY <1>2 DEF ReplayBy
<1> DEFINE Fine(done) == /\ DOMAIN done.cells = Cells
                         /\ ConstraintsShaped(done.cons) /\ DOMAIN done.cons = DOMAIN constraints
                         /\ Standing(stack, done.cells, done.cons)
           P == {n \in 0 .. Len(calls) : Fine(told[n])}
<1>4. 0 \in P
  <2>1. told[0].cells = cells /\ told[0].cons = constraints
    BY <1>3
  <2> QED BY <1>1, <2>1 DEF IInv
<1>5. ASSUME NEW i \in 0 .. Len(calls) - 1, i \in P PROVE i + 1 \in P
  <2>1. i + 1 \in 1 .. Len(calls) /\ (i + 1) - 1 = i
    BY <1>1
  <2>2. PICK c, old, new, cell : /\ c = calls[i + 1] /\ cell = tuple[c.param]
                                 /\ old = told[i] /\ new = told[i + 1]
    OBVIOUS
  <2>3. new = ReplayedOne(old, c, tuple)
    BY <1>3, <2>1, <2>2
  <2>4. /\ new.cells = [old.cells EXCEPT ![cell] = Effect(c.call, old.cells[cell])]
        /\ new.cons = RecordWrite(old.cons, cell, c.param, c.call)
    BY <2>2, <2>3 DEF ReplayedOne
  <2>5. Fine(old)
    BY <1>5, <2>2
  <2>6. cell \in Cells /\ Everywhere(cell, c.param)
    BY <1>1, <2>1, <2>2
  <2>7. PICK val : val = Effect(c.call, old.cells[cell])
    OBVIOUS
  <2>8. /\ Written(old.cons, RecordWrite(old.cons, cell, c.param, c.call))
        /\ Standing(stack, [old.cells EXCEPT ![cell] = val],
                    RecordWrite(old.cons, cell, c.param, c.call))
    BY <2>5, <2>6, WriteStands
  <2>9. DOMAIN new.cells = Cells
    BY <2>4, <2>5
  <2>10. Fine(new)
    BY <2>4, <2>5, <2>7, <2>8, <2>9 DEF Written
  <2> QED BY <2>1, <2>2, <2>10
<1>6. Len(calls) \in P
  <2> HIDE DEF P
  <2> QED BY <1>1, <1>4, <1>5, CountUp
<1> QED BY <1>3, <1>6

(* Fewer calls, or the same with other observations *)
LEMMA StandsFor ==
  ASSUME NEW old, NEW new, DOMAIN new \subseteq DOMAIN old,
         \A d \in DOMAIN new : /\ new[d].fun = old[d].fun
                               /\ new[d].cells = old[d].cells
                               /\ new[d].con = old[d].con,
         InPlace(old)
  PROVE  /\ InPlace(new)
         /\ \A current, cons : Standing(old, current, cons) => Standing(new, current, cons)
<1>1. InPlace(new)
  BY DEF InPlace
<1>2. \A current, cons : Standing(old, current, cons) => Standing(new, current, cons)
  BY DEF Standing, Recording
<1> QED BY <1>1, <1>2

(* Observations do not matter to what stands *)
LEMMA StandsAlike ==
  ASSUME IInv, AnswersStand, Alike(stack, stack')
  PROVE  /\ InPlace(stack')
         /\ \A current, cons : Standing(stack, current, cons) => Standing(stack', current, cons)
<1>1. DOMAIN stack' = DOMAIN stack
  BY Setting, Elements DEF Alike
<1>2. \A d \in DOMAIN stack' : /\ stack'[d].fun = stack[d].fun
                               /\ stack'[d].cells = stack[d].cells
                               /\ stack'[d].con = stack[d].con
  BY <1>1, Setting DEF Alike
<1> QED BY <1>1, <1>2, StandsFor DEF AnswersStand

(* What the body of the innermost call names is that for all around it *)
LEMMA TopEverywhere ==
  ASSUME Wired, IInv, AnswersStand, Running, NEW param \in DOMAIN Top.cells
  PROVE  Everywhere(Top.cells[param], param)
<1>1. /\ Len(stack) \in DOMAIN stack /\ Top = stack[Len(stack)]
      /\ DOMAIN Top.cells = 1 .. Arity[Top.fun] /\ Top.fun \in Funs
      /\ \A d \in DOMAIN stack : Arity[Top.fun] <= Arity[stack[d].fun]
  BY OfTop
<1> SUFFICES ASSUME NEW d \in DOMAIN stack
             PROVE  param \in DOMAIN stack[d].cells /\ stack[d].cells[param] = Top.cells[param]
  BY DEF Everywhere
<1>2. stack[d].cells[param] = Top.cells[param]
  <2>1. d = Len(stack) \/ d < Len(stack)
    BY Setting
  <2>2. CASE d = Len(stack)
    BY <1>1, <2>2
  <2>3. CASE d < Len(stack)
    BY <1>1, <2>3 DEF AnswersStand, InPlace
  <2> QED BY <2>1, <2>2, <2>3
<1>3. DOMAIN stack[d].cells = 1 .. Arity[stack[d].fun] /\ stack[d].fun \in Funs
  BY DEF IInv, Shaped
<1>4. param \in 1 .. Arity[stack[d].fun]
  <2>1. \A f \in Funs : Arity[f] \in Nat
    BY DEF Wired
  <2>2. PICK a, b : a = Arity[Top.fun] /\ b = Arity[stack[d].fun]
    OBVIOUS
  <2>3. a \in Nat /\ b \in Nat /\ a <= b /\ param \in 1 .. a
    BY <1>1, <1>3, <2>1, <2>2
  <2> QED BY <2>2, <2>3
<1> QED BY <1>2, <1>3, <1>4

(* So is what its next call is on *)
LEMMA NamedEverywhere ==
  ASSUME Wired, IInv, AnswersStand, Running, NextOp.op \in {"read", "write"}
  PROVE  CellOf(NextOp.param) \in Cells /\ Everywhere(CellOf(NextOp.param), NextOp.param)
<1>1. Top.fun \in Funs /\ DOMAIN Top.cells = 1 .. Arity[Top.fun]
  BY OfTop
<1>2. NextOp.param \in DOMAIN Top.cells
  BY <1>1 DEF Wired, NextOp
<1> QED BY <1>2, ParamKnown, TopEverywhere DEF CellOf

(* A read: the answer recorded is that of the cell as it is *)
LEMMA ReadStands ==
  ASSUME Wired, PassedInPlace, IInv, AnswersStand, BodyRead
  PROVE  AnswersStand'
<1>1. Running /\ NextOp.op = "read" /\ stack # <<>> /\ ~Merged
  BY DEF BodyRead, Active, Running, PassedInPlace
<1> DEFINE param == NextOp.param
           call == NextOp.call
           cell == CellOf(param)
           pair == [call |-> [param |-> param, call |-> call], ret |-> <<Seen>>]
<1>2. cell \in Cells /\ Everywhere(cell, param)
  BY <1>1, NamedEverywhere
<1>3. slots[cell] \in Seq(Range(slots[cell])) /\ \A l \in Range(slots[cell]) : l.con \in DOMAIN constraints
  BY <1>2, TellsAll
<1>4. constraints' = RecordRead(param, call, Seen) /\ cells' = cells
  BY DEF BodyRead
<1>5. Answered(constraints, constraints', pair)
  BY <1>1, <1>3, <1>4, ReadAnswers DEF IInv
<1>6. pair.call.param = param /\ pair.ret = <<Result(pair.call.call, cells[cell])>>
  BY DEF Seen
<1> HIDE DEF pair, param, call, cell
<1>7. Standing(stack, cells, constraints')
  <2> SUFFICES ASSUME NEW d \in DOMAIN stack, Recording(stack[d]),
                      NEW p \in Range(constraints'[stack[d].con].immutable)
               PROVE  /\ p.call.param \in DOMAIN stack[d].cells
                      /\ \/ \E w \in Range(constraints'[stack[d].con].mutable) : w.param = p.call.param
                         \/ p.ret = <<Result(p.call.call, cells[stack[d].cells[p.call.param]])>>
    BY DEF Standing
  <2>1. stack[d].con \in DOMAIN constraints
    BY Setting DEF IInv, Shaped
  <2>2. CASE p \in Range(constraints[stack[d].con].immutable)
    <3>1. constraints'[stack[d].con].mutable = constraints[stack[d].con].mutable
      BY <1>5, <2>1 DEF Answered
    <3> QED BY <2>2, <3>1 DEF AnswersStand, Standing
  <2>3. CASE p = pair
    BY <1>2, <1>6, <2>3 DEF Everywhere
  <2> QED BY <1>5, <2>1, <2>2, <2>3 DEF Answered
<1>8. Alike(stack, stack')
  BY <1>1, Observed DEF IInv, BodyRead, Observe
<1> QED BY <1>4, <1>7, <1>8, StandsAlike DEF AnswersStand

(* A write: the recorders that had read the cell have heard it *)
LEMMA WriteStandsStill ==
  ASSUME Wired, PassedInPlace, IInv, AnswersStand, BodyWrite
  PROVE  AnswersStand'
<1>1. Running /\ NextOp.op = "write" /\ stack # <<>> /\ ~Merged
  BY DEF BodyWrite, Active, Running, PassedInPlace
<1> DEFINE param == NextOp.param
           call == NextOp.call
           cell == CellOf(param)
           val == Effect(call, cells[cell])
<1>2. cell \in Cells /\ Everywhere(cell, param)
  BY <1>1, NamedEverywhere
<1>3. /\ constraints' = RecordWrite(constraints, cell, param, call)
      /\ cells' = [cells EXCEPT ![cell] = val]
  BY DEF BodyWrite
<1> HIDE DEF cell, param, call, val
<1>4. Standing(stack, [cells EXCEPT ![cell] = val], RecordWrite(constraints, cell, param, call))
  <2>1. DOMAIN cells = Cells /\ Standing(stack, cells, constraints) /\ ConstraintsShaped(constraints)
    BY DEF AnswersStand, IInv
  <2> QED BY <1>1, <1>2, <2>1, WriteStands
<1>5. Alike(stack, stack')
  BY <1>1, Observed DEF IInv, BodyWrite, Observe
<1>6. DOMAIN cells' = Cells
  BY <1>3 DEF AnswersStand
<1>7. Standing(stack, cells', constraints')
  BY <1>3, <1>4
<1> QED BY <1>5, <1>6, <1>7, StandsAlike DEF AnswersStand

(* A tuple that has the cells of the running calls in their places *)
Placed(tuple) == \A d \in DOMAIN stack : \A i \in DOMAIN tuple : stack[d].cells[i] = tuple[i]

(* A hit: so they have of the writes it replays *)
LEMMA HitStands ==
  ASSUME Wired, PassedInPlace, IInv, AnswersStand, NEW fun, NEW key, NEW tuple,
         Callable(fun, tuple), Placed(tuple), Hit(fun, key, tuple)
  PROVE  AnswersStand'
<1>1. PICK e \in Hits(fun, key, tuple) :
        LET done == Replayed(constraints[e.con].mutable, tuple) IN
        /\ caches' = [caches EXCEPT ![fun] = (@ \ {e}) \cup {[e EXCEPT !.age = 0]}]
        /\ cells' = done.cells
        /\ constraints' = done.cons
        /\ Complete(stack, fun, key, tuple, cells, e.value, TRUE)
  BY DEF Hit
<1> DEFINE calls == constraints[e.con].mutable
<1>2. fun \in Funs /\ e \in caches[fun]
  BY DEF Callable, Hits, Matching, OfKey
<1>3. e.con \in DOMAIN constraints /\ WritesOn(constraints[e.con], fun)
  BY <1>2 DEF IInv, EntriesFinished
<1>4. calls \in Seq(Range(calls))
  BY <1>3 DEF IInv, ConstraintsShaped
<1>5. ASSUME NEW c \in Range(calls)
      PROVE  tuple[c.param] \in Cells /\ Everywhere(tuple[c.param], c.param)
  <2>1. c.param \in 1 .. Arity[fun]
    BY <1>3 DEF WritesOn
  <2>2. c.param \in DOMAIN tuple /\ tuple[c.param] \in Cells
    BY <2>1 DEF Callable
  <2>3. ASSUME NEW d \in DOMAIN stack PROVE c.param \in DOMAIN stack[d].cells
    <3>1. /\ Arity[fun] <= Arity[stack[d].fun] /\ stack[d].fun \in Funs
          /\ DOMAIN stack[d].cells = 1 .. Arity[stack[d].fun]
      BY DEF Callable, IInv, Shaped
    <3>2. \A f \in Funs : Arity[f] \in 1 .. 6
      BY DEF Wired
    <3> QED BY <1>2, <2>1, <3>1, <3>2
  <2> QED BY <2>2, <2>3 DEF Placed, Everywhere
<1> HIDE DEF calls
<1>6. LET done == Replayed(calls, tuple)
      IN DOMAIN done.cells = Cells /\ Standing(stack, done.cells, done.cons)
  BY <1>4, <1>5, ReplayStands DEF AnswersStand, PassedInPlace
<1>7. DOMAIN cells' = Cells /\ Standing(stack, cells', constraints')
  BY <1>1, <1>6 DEF calls
<1>8. Alike(stack, stack')
  BY <1>1, Handed DEF IInv
<1> QED BY <1>7, <1>8, StandsAlike DEF AnswersStand

(* A new innermost call *)
LEMMA PushStands ==
  ASSUME IInv, AnswersStand, NEW frame, NEW made, Fits(frame, made), Placed(frame.cells),
         stack' = Append(stack, frame), cells' = cells,
         DOMAIN constraints \subseteq DOMAIN constraints',
         \A n \in DOMAIN constraints : constraints'[n] = constraints[n],
         Recording(frame) => Range(constraints'[frame.con].immutable) = {}
  PROVE  AnswersStand'
<1> DEFINE n == Len(stack)
<1>1. n \in Nat /\ DOMAIN stack = 1 .. n
  BY Setting
<1>2. On(stack', frame, made)
  BY Pushed
<1>3. /\ DOMAIN stack' = 1 .. n + 1
      /\ \A d \in 1 .. n : stack'[d] = stack[d]
      /\ stack'[n + 1] = frame
  BY <1>2 DEF On
<1> HIDE DEF n
<1>4. InPlace(stack')
  <2>1. ASSUME NEW d \in 1 .. n + 1, NEW e \in 1 .. n + 1, d < e,
               NEW i \in DOMAIN stack'[e].cells
        PROVE  stack'[d].cells[i] = stack'[e].cells[i]
    <3>1. d \in 1 .. n /\ stack'[d] = stack[d]
      BY <1>1, <1>3, <2>1
    <3>2. CASE e = n + 1
      BY <1>1, <1>3, <3>1, <3>2 DEF Placed
    <3>3. CASE e # n + 1
      <4>1. e \in 1 .. n /\ stack'[e] = stack[e]
        BY <1>1, <1>3, <3>3
      <4> QED BY <1>1, <2>1, <3>1, <4>1 DEF AnswersStand, InPlace
    <3> QED BY <3>2, <3>3
  <2>2. \A d, e \in DOMAIN stack' : d < e =>
          \A i \in DOMAIN stack'[e].cells : stack'[d].cells[i] = stack'[e].cells[i]
    BY <1>1, <1>3, <2>1
  <2> QED BY <2>2 DEF InPlace
<1>5. Standing(stack', cells, constraints')
  <2> SUFFICES ASSUME NEW d \in 1 .. n + 1, Recording(stack'[d]),
                      NEW p \in Range(constraints'[stack'[d].con].immutable)
               PROVE  /\ p.call.param \in DOMAIN stack'[d].cells
                      /\ \/ \E w \in Range(constraints'[stack'[d].con].mutable) : w.param = p.call.param
                         \/ p.ret = <<Result(p.call.call, cells[stack'[d].cells[p.call.param]])>>
    BY <1>3 DEF Standing
  <2>1. d # n + 1
    BY <1>3
  <2>2. d \in DOMAIN stack /\ stack'[d] = stack[d]
    BY <1>1, <1>3, <2>1
  <2>3. constraints'[stack[d].con] = constraints[stack[d].con]
    BY <2>2, Setting DEF IInv, Shaped
  <2> QED BY <2>2, <2>3 DEF AnswersStand, Standing
<1> QED BY <1>4, <1>5 DEF AnswersStand

(* A miss: nothing is recorded yet *)
LEMMA MissStands ==
  ASSUME IInv, AnswersStand, NEW fun, NEW key, NEW tuple,
         Callable(fun, tuple), Placed(tuple), Miss(fun, key, tuple)
  PROVE  AnswersStand'
<1> DEFINE con == Len(constraints) + 1
           attached == Attach(tuple, con)
           frame == Frame(fun, key, tuple, con, attached.prevs)
<1>1. /\ constraints' = Append(constraints, EmptyConstraint)
      /\ stack' = Append(stack, frame) /\ cells' = cells
  BY DEF Miss
<1>2. /\ DOMAIN frame = FrameFields /\ frame.fun = fun /\ frame.cells = tuple /\ frame.con = con
      /\ frame.prevs = attached.prevs
  BY DEF Frame, FrameFields
<1>3. \A i \in DOMAIN tuple : attached.prevs[i] = slots[tuple[i]]
  <2>1. tuple \in Seq(Cells) /\ Distinctly(tuple) /\ DOMAIN slots = Cells
    BY DEF IInv, Callable
  <2>2. PICK c : c = con
    OBVIOUS
  <2>3. \A i \in DOMAIN tuple :
          /\ Attach(tuple, c).slots[tuple[i]] = <<[con |-> c, param |-> i]>> \o slots[tuple[i]]
          /\ Attach(tuple, c).prevs[i] = slots[tuple[i]]
    BY <2>1, AttachLinks
  <2> QED BY <2>2, <2>3
<1> HIDE DEF attached, frame
<1>4. /\ Len(constraints) \in Nat /\ DOMAIN constraints = 1 .. Len(constraints)
      /\ constraints \in Seq(Range(constraints))
  BY Setting DEF IInv, ConstraintsShaped
<1>5. /\ DOMAIN constraints' = 1 .. con
      /\ \A k \in 1 .. Len(constraints) : constraints'[k] = constraints[k]
      /\ constraints'[con] = EmptyConstraint
  BY <1>1, <1>4, Appended
<1>6. con \in Nat /\ Len(constraints) <= con /\ con > Len(constraints)
  BY <1>4
<1>7. Fits(frame, con)
  <2> HIDE DEF con
  <2> QED BY <1>2, <1>3, <1>6 DEF Fits
<1>8. Range(EmptyConstraint.immutable) = {}
  BY DEF EmptyConstraint, Range
<1>9. DOMAIN constraints \subseteq DOMAIN constraints'
  BY <1>4, <1>5
<1>10. Range(constraints'[frame.con].immutable) = {}
  BY <1>2, <1>5, <1>8
<1> HIDE DEF con
<1> QED BY <1>1, <1>2, <1>4, <1>5, <1>7, <1>9, <1>10, PushStands

(* A bypassed call: it does not record *)
LEMMA BypassStands ==
  ASSUME IInv, AnswersStand, NEW fun, NEW key, NEW tuple,
         Callable(fun, tuple), Placed(tuple), Bypass(fun, key, tuple)
  PROVE  AnswersStand'
<1> DEFINE frame == Frame(fun, key, tuple, 0, <<>>)
<1>1. /\ stack' = Append(stack, frame) /\ fun \in Bypassed
      /\ cells' = cells /\ constraints' = constraints
  BY DEF Bypass
<1>2. /\ DOMAIN frame = FrameFields /\ frame.fun = fun /\ frame.cells = tuple /\ frame.con = 0
  BY DEF Frame, FrameFields
<1>3. ~Recording(frame)
  BY <1>1, <1>2 DEF Recording
<1> HIDE DEF frame
<1>4. Len(constraints) \in Nat
  BY Setting
<1>5. Fits(frame, Len(constraints))
  <2>1. frame.con \in Nat /\ frame.con <= Len(constraints)
    BY <1>2, <1>4
  <2> QED BY <1>2, <1>3, <1>4, <2>1 DEF Fits
<1> QED BY <1>1, <1>2, <1>3, <1>5, PushStands

(* A call that ends *)
LEMMA OffStands ==
  ASSUME IInv, AnswersStand, Running, Off(stack'), cells' = cells,
         \A d \in DOMAIN stack' :
           Recording(stack[d]) => constraints'[stack[d].con] = constraints[stack[d].con]
  PROVE  AnswersStand'
<1>1. \A d \in DOMAIN stack' :
        /\ d \in DOMAIN stack
        /\ stack'[d].con = stack[d].con /\ stack'[d].fun = stack[d].fun
        /\ Recording(stack'[d]) <=> Recording(stack[d])
  BY AroundTop
<1>2. \A d \in DOMAIN stack' : stack'[d].cells = stack[d].cells
  BY DEF Off
<1>3. InPlace(stack') /\ Standing(stack', cells, constraints)
  <2>1. DOMAIN stack' \subseteq DOMAIN stack
    BY <1>1
  <2> QED BY <1>1, <1>2, <2>1, StandsFor DEF AnswersStand
<1>4. Standing(stack', cells, constraints')
  <2>1. \A d \in DOMAIN stack' :
          Recording(stack'[d]) => constraints'[stack'[d].con] = constraints[stack'[d].con]
    BY <1>1
  <2> QED BY <1>3, <2>1 DEF Standing
<1> QED BY <1>3, <1>4 DEF AnswersStand

(* A recorded call: the insertion takes from its own sequence only *)
LEMMA ReturnStands ==
  ASSUME Wired, IInv, AnswersStand, Return
  PROVE  AnswersStand'
<1>1. /\ Running /\ Top.fun \notin Bypassed
      /\ constraints' = Consumed /\ cells' = cells
  BY DEF Return, Active
<1>2. Off(stack')
  BY <1>1, Popped DEF Return
<1>3. ASSUME NEW d \in DOMAIN stack', Recording(stack[d])
      PROVE  constraints'[stack[d].con] = constraints[stack[d].con]
  <2>1. d \in DOMAIN stack /\ d # Len(stack)
    BY <1>1, <1>2, AroundTop
  <2>2. /\ Len(stack) \in DOMAIN stack /\ Top = stack[Len(stack)]
        /\ Recording(stack[Len(stack)])
    BY <1>1, OfTop DEF Recording
  <2>3. stack[d].con # Top.con
    BY <1>3, <2>1, <2>2, OwnConstraint
  <2>4. stack[d].con \in DOMAIN constraints
    BY <1>3, <2>1, Setting DEF IInv, Shaped
  <2> QED BY <1>1, <2>3, <2>4 DEF Consumed
<1> QED BY <1>1, <1>2, <1>3, OffStands

(* A bypassed one *)
LEMMA BypassReturnStands ==
  ASSUME IInv, AnswersStand, BypassReturn
  PROVE  AnswersStand'
<1>1. Running /\ constraints' = constraints /\ cells' = cells
  BY DEF BypassReturn, Active
<1>2. Off(stack')
  BY <1>1, Popped DEF BypassReturn
<1> QED BY <1>1, <1>2, OffStands

(* A memoized call, whichever way it goes *)
LEMMA CallStands ==
  ASSUME Wired, PassedInPlace, IInv, AnswersStand, NEW fun, NEW key, NEW tuple,
         Callable(fun, tuple), Placed(tuple), Call(fun, key, tuple)
  PROVE  AnswersStand'
<1>1. CASE Hit(fun, key, tuple)
  BY <1>1, HitStands
<1>2. CASE Miss(fun, key, tuple)
  BY <1>2, MissStands
<1>3. CASE Bypass(fun, key, tuple)
  BY <1>3, BypassStands
<1> QED BY <1>1, <1>2, <1>3 DEF Call

(* A body passes on the cells of all calls in their places *)
LEMMA BodyPlaced ==
  ASSUME Wired, PassedInPlace, IInv, AnswersStand, Running, NextOp.op = "call"
  PROVE  Placed([i \in DOMAIN NextOp.params |-> CellOf(NextOp.params[i])])
<1> DEFINE params == NextOp.params
           tuple == [i \in DOMAIN params |-> CellOf(params[i])]
<1>1. /\ Top.fun \in Funs /\ DOMAIN Top.cells = 1 .. Arity[Top.fun]
  BY OfTop
<1>2. /\ params \in Seq(1 .. Arity[Top.fun])
      /\ \A i \in DOMAIN params : params[i] = i
  BY <1>1 DEF Wired, PassedInPlace, NextOp
<1> HIDE DEF params
<1>3. \A i \in DOMAIN params : i \in DOMAIN Top.cells
  <2>1. PICK S : S = 1 .. Arity[Top.fun]
    OBVIOUS
  <2>2. params \in Seq(S)
    BY <1>2, <2>1
  <2>3. \A i \in DOMAIN params : params[i] \in S
    BY <2>2
  <2> QED BY <1>1, <1>2, <2>1, <2>3
<1>4. ASSUME NEW d \in DOMAIN stack, NEW i \in DOMAIN params PROVE stack[d].cells[i] = tuple[i]
  <2>1. tuple[i] = Top.cells[i]
    BY <1>2 DEF CellOf
  <2>2. Everywhere(Top.cells[i], i)
    BY <1>3, TopEverywhere
  <2> QED BY <2>1, <2>2 DEF Everywhere
<1>5. Placed(tuple)
  BY <1>4 DEF Placed
<1> QED BY <1>5 DEF params

(* Every step leaves the recorded answers standing *)
LEMMA StepStands ==
  ASSUME Wired, PassedInPlace, IInv, AnswersStand, [Next]_vars
  PROVE  AnswersStand'
<1>1. CASE TopCall
  <2>1. PICK f \in Funs, k \in Args : \E t \in Tuples[f] : Call(f, k, t)
    BY <1>1 DEF TopCall
  <2>2. PICK t \in Tuples[f] : Call(f, k, t)
    BY <2>1
  <2>3. Callable(f, t) /\ stack = <<>>
    BY <1>1, <2>2, TopCallable DEF TopCall, Running
  <2>4. Placed(t)
    BY <2>3 DEF Placed
  <2> QED BY <2>2, <2>3, <2>4, CallStands
<1>2. CASE BodyCall
  <2> DEFINE tuple == [i \in DOMAIN NextOp.params |-> CellOf(NextOp.params[i])]
  <2>1. Callable(NextOp.fun, tuple) /\ Placed(tuple)
    BY <1>2, BodyCallable, BodyPlaced DEF BodyCall, Active
  <2>2. Call(NextOp.fun, NextOp.key, tuple)
    BY <1>2 DEF BodyCall
  <2> HIDE DEF tuple
  <2> QED BY <2>1, <2>2, CallStands
<1>3. CASE Edit
  <2>1. stack = <<>> /\ stack' = stack
    BY <1>3 DEF Edit, Running
  <2>2. DOMAIN cells' = Cells
    BY <1>3 DEF Edit, AnswersStand
  <2> QED BY <2>1, <2>2 DEF AnswersStand, InPlace, Standing
<1>4. CASE \E m \in 0 .. MaxAge : Evict(m)
  BY <1>4 DEF Evict, AnswersStand, InPlace, Standing
<1>5. CASE BodyRead
  BY <1>5, ReadStands
<1>6. CASE ReadPanic
  BY <1>6 DEF ReadPanic, AnswersStand, InPlace, Standing
<1>7. CASE BodyWrite
  BY <1>7, WriteStandsStill
<1>8. CASE BypassReturn
  BY <1>8, BypassReturnStands
<1>9. CASE Return
  BY <1>9, ReturnStands
<1>10. CASE UNCHANGED vars
  BY <1>10 DEF vars, AnswersStand, InPlace, Standing
<1> QED BY <1>1, <1>2, <1>3, <1>4, <1>5, <1>6, <1>7, <1>8, <1>9, <1>10 DEF Next

(* An answer that a recorder finds to differ from what it has is about a   *)
(* cell that was written in between                                        *)
LEMMA ImpureWritten ==
  ASSUME Wired, PassedInPlace, IInv, AnswersStand, Active("read"), Impure
  PROVE  \E l \in Range(slots[CellOf(NextOp.param)]) :
           \E w \in Range(constraints[l.con].mutable) : w.param = NextOp.param
<1> DEFINE param == NextOp.param
           call == NextOp.call
           cell == CellOf(param)
<1>1. Running /\ NextOp.op = "read" /\ ~Merged
  BY DEF Active, PassedInPlace
<1>2. cell \in Cells /\ Everywhere(cell, param)
  BY <1>1, NamedEverywhere
<1>3. PICK l \in Range(slots[cell]) : Conflict(constraints[l.con], Tagged(l, param, call), Seen)
  BY DEF Impure
<1>4. PICK d \in DOMAIN stack : Recording(stack[d]) /\ l.con = stack[d].con
  BY <1>2, <1>3, TellsAll
<1>5. PICK p \in Range(constraints[l.con].immutable) :
        /\ p.call = [param |-> param, call |-> call]
        /\ p.ret # <<Seen>>
  BY <1>1, <1>3 DEF Conflict, RecordedAs, Hashed, Tagged
<1>6. p.call.param = param /\ p.call.call = call
  BY <1>5
<1>7. stack[d].cells[param] = cell
  BY <1>2 DEF Everywhere
<1>8. \/ \E w \in Range(constraints[l.con].mutable) : w.param = param
      \/ p.ret = <<Result(call, cells[cell])>>
  BY <1>4, <1>5, <1>6, <1>7 DEF AnswersStand, Standing
<1>9. \E w \in Range(constraints[l.con].mutable) : w.param = param
  BY <1>5, <1>8 DEF Seen
<1> QED BY <1>3, <1>9

(* Every step that panics has a write to blame *)
LEMMA StepBlames ==
  ASSUME Wired, PassedInPlace, IInv, AnswersStand, OnlyWritersBlamed, [Next]_vars
  PROVE  OnlyWritersBlamed'
<1>1. CASE ReadPanic
  <2>1. \E l \in Range(slots[CellOf(NextOp.param)]) :
          \E w \in Range(constraints[l.con].mutable) : w.param = NextOp.param
    BY <1>1, ImpureWritten DEF ReadPanic
  <2>2. stack' = stack /\ slots' = slots /\ constraints' = constraints
    BY <1>1 DEF ReadPanic
  <2> QED BY <2>1, <2>2 DEF OnlyWritersBlamed, NextOp, CellOf, Top
<1>2. CASE UNCHANGED vars
  BY <1>2 DEF vars, OnlyWritersBlamed, NextOp, CellOf, Top
<1>3. CASE Next /\ ~ReadPanic
  <2>1. \A f, k, t : Call(f, k, t) => panicked' = panicked
    BY DEF Call, Hit, Miss, Bypass
  <2>2. ~panicked
    BY <1>3 DEF Next, TopCall, Edit, Evict, BodyRead, BodyWrite, BodyCall, BypassReturn, Return, Active
  <2>3. panicked' = panicked
    <3>1. CASE TopCall
      BY <2>1, <3>1 DEF TopCall
    <3>2. CASE BodyCall
      BY <2>1, <3>2 DEF BodyCall
    <3>3. CASE ~TopCall /\ ~BodyCall
      BY <1>3, <3>3 DEF Next, Edit, Evict, BodyRead, BodyWrite, BypassReturn, Return
    <3> QED BY <3>1, <3>2, <3>3
  <2> QED BY <2>2, <2>3 DEF OnlyWritersBlamed
<1> QED BY <1>1, <1>2, <1>3

(* What the recorders of the running calls hold is what their cells would  *)
(* still answer, but for what they have heard being written.               *)
THEOREM RecordedStands ==
  ASSUME Wired, PassedInPlace
  PROVE  Spec => []AnswersStand
<1>1. Init => AnswersStand
  BY DEF Init, AnswersStand, InPlace, Standing
<1>2. IInv /\ AnswersStand /\ [Next]_vars => AnswersStand'
  BY StepStands
<1> QED BY <1>1, <1>2, Invariant, PTL DEF Spec

(* The panic of a recorder is about a call that has heard the cell written *)
(* since it began: two parameters are never taken for each other, and no   *)
(* nested or replayed call makes a pure one look impure.                   *)
THEOREM Blamed ==
  ASSUME Wired, PassedInPlace
  PROVE  Spec => []OnlyWritersBlamed
<1>1. Init => OnlyWritersBlamed
  BY DEF Init, OnlyWritersBlamed
<1>2. IInv /\ AnswersStand /\ OnlyWritersBlamed /\ [Next]_vars => OnlyWritersBlamed'
  BY StepBlames
<1> QED BY <1>1, <1>2, Invariant, RecordedStands, PTL DEF Spec

-----------------------------------------------------------------------------
(* The hit flag. *)

(* Calls that return to a body leave it running *)
LEMMA HandedRunning ==
  ASSUME NEW frames, NEW made, Shaped(frames, made), frames # <<>>, NEW fun, NEW key, NEW tuple,
         NEW before, NEW val, NEW hit, Complete(frames, fun, key, tuple, before, val, hit)
  PROVE  stack' # <<>>
<1>1. Alike(frames, stack')
  BY Handed
<1>2. frames \in Seq(Range(frames)) /\ Len(frames) # 0
  BY DEF Shaped
<1> QED BY <1>1, <1>2 DEF Alike

(* A call begins, or hits *)
LEMMA CallFlag ==
  ASSUME IInv, HitFlagExact, NEW fun, NEW key, NEW tuple, Call(fun, key, tuple)
  PROVE  HitFlagExact'
<1>1. stack \in Seq(Range(stack)) /\ Shaped(stack, Len(constraints))
  BY DEF IInv, Shaped
<1>2. CASE Hit(fun, key, tuple)
  <2>1. PICK e \in Hits(fun, key, tuple) : Complete(stack, fun, key, tuple, cells, e.value, TRUE)
    BY <1>2 DEF Hit
  <2>2. wasHit' = TRUE
    BY <1>2 DEF Hit
  <2>3. CASE stack = <<>>
    BY <2>1, <2>2, <2>3 DEF Complete, HitFlagExact
  <2>4. CASE stack # <<>>
    BY <1>1, <2>1, <2>4, HandedRunning DEF HitFlagExact, Running
  <2> QED BY <2>3, <2>4
<1>3. CASE Miss(fun, key, tuple) \/ Bypass(fun, key, tuple)
  <2>1. PICK frame : stack' = Append(stack, frame)
    BY <1>3 DEF Miss, Bypass
  <2>2. stack' # <<>>
    BY <1>1, <2>1
  <2> QED BY <2>2 DEF HitFlagExact, Running
<1> QED BY <1>2, <1>3 DEF Call

(* Every step keeps the flag that of the outermost call *)
LEMMA StepFlag ==
  ASSUME IInv, HitFlagExact, [Next]_vars
  PROVE  HitFlagExact'
<1>1. CASE TopCall \/ BodyCall
  BY <1>1, CallFlag DEF TopCall, BodyCall
<1>2. CASE Edit \/ \E m \in 0 .. MaxAge : Evict(m)
  BY <1>2 DEF Edit, Evict, HitFlagExact
<1>3. CASE BodyRead \/ BodyWrite
  <2>1. PICK val : Running /\ Observe(val)
    BY <1>3 DEF BodyRead, BodyWrite, Active
  <2>2. Alike(stack, stack')
    BY <2>1, Observed DEF Observe, Running, IInv
  <2>3. Len(stack') # 0 /\ stack \in Seq(Range(stack))
    BY <2>1, <2>2, Setting DEF Alike, Running
  <2>4. stack' # <<>>
    BY <2>3
  <2> QED BY <2>4 DEF HitFlagExact, Running
<1>4. CASE ReadPanic \/ UNCHANGED vars
  BY <1>4 DEF ReadPanic, vars, HitFlagExact, Running
<1>5. CASE Return \/ BypassReturn
  <2>1. /\ Running
        /\ Complete(Front(stack), Top.fun, Top.key, Top.cells, Top.before, NextOp.value, FALSE)
        /\ wasHit' = FALSE \/ Top.fun \in Bypassed
    BY <1>5 DEF Return, BypassReturn, RegisterMiss, Active
  <2>2. Off(stack')
    BY <2>1, Popped
  <2>3. CASE Front(stack) = <<>>
    BY <2>1, <2>3 DEF Complete, HitFlagExact
  <2>4. CASE Front(stack) # <<>>
    <3>1. stack \in Seq(Range(stack)) /\ stack # <<>>
      BY <2>1, Setting DEF Running
    <3>2. Front(stack) \in Seq(Range(Front(stack))) /\ Len(Front(stack)) = Len(stack) - 1
      BY <3>1, Shortened
    <3>3. Len(stack) - 1 # 0
      <4>1. PICK rest : rest = Front(stack)
        OBVIOUS
      <4>2. rest \in Seq(Range(rest)) /\ rest # <<>>
        BY <2>4, <3>2, <4>1
      <4>3. Len(rest) # 0
        BY <4>2
      <4> QED BY <3>2, <4>1, <4>3
    <3>4. Len(stack') # 0
      BY <2>2, <3>3 DEF Off
    <3>5. stack' # <<>>
      BY <3>4
    <3> QED BY <3>5 DEF HitFlagExact, Running
  <2> QED BY <2>3, <2>4
<1> QED BY <1>1, <1>2, <1>3, <1>4, <1>5 DEF Next

(* last_was_hit tells of the outermost call, whatever the calls in it did *)
THEOREM FlagOfOutermost ==
  ASSUME Wired
  PROVE  Spec => []HitFlagExact
<1>1. Init => HitFlagExact
  BY DEF Init, HitFlagExact
<1>2. IInv /\ HitFlagExact /\ [Next]_vars => HitFlagExact'
  BY StepFlag
<1> QED BY <1>1, <1>2, Invariant, PTL DEF Spec
=============================================================================
