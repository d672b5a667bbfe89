--------------------------- MODULE MemoizeAnswers ---------------------------
(***************************************************************************)
(* What the running calls get to hear, and what may be believed: the       *)
(* recorded calls and writes are calls there are, the answers remembered   *)
(* are those of the tracked value, and so a hit is one that a direct look  *)
(* at the value would have been.                                           *)
(***************************************************************************)
EXTENDS MemoizeProofs

-----------------------------------------------------------------------------
(* What one step tells the running calls.                                  *)

(* new is con told of pairs and then of the writes calls *)
Hears(con, pairs, calls, new) ==
  /\ IsConstraint(new)
  /\ Tells(con, pairs, [immutable |-> new.immutable, mutable |-> con.mutable])
  /\ new.mutable = con.mutable \o calls

(* Every recorder attached hears the same, and nobody else anything *)
Heard(old, pairs, calls, new) ==
  /\ FramesInv(new) /\ Same(old, new)
  /\ \A d \in 1 .. Len(old) :
       /\ new[d].obs = old[d].obs
       /\ d \in Range(slot) => Hears(old[d].con, pairs, calls, new[d].con)
       /\ d \notin Range(slot) => new[d].con = old[d].con

(* What hearing amounts to *)
LEMMA HearsWhat ==
  ASSUME NEW con, NEW pairs, NEW calls, NEW new, Hears(con, pairs, calls, new)
  PROVE  /\ IsConstraint(new)
         /\ Range(new.immutable) = Range(con.immutable) \cup Range(pairs)
         /\ new.mutable = con.mutable \o calls
<1> DEFINE told == [immutable |-> new.immutable, mutable |-> con.mutable]
<1>1. told.immutable = new.immutable
  OBVIOUS
<1>2. Tells(con, pairs, told) /\ IsConstraint(new) /\ new.mutable = con.mutable \o calls
  BY DEF Hears
<1> HIDE DEF told
<1> QED BY <1>1, <1>2 DEF Tells

(* What was heard before stands in front, and each new pair behind those   *)
(* told before it.                                                         *)
LEMMA HearsInOrder ==
  ASSUME NEW con, NEW pairs, NEW calls, NEW new, Hears(con, pairs, calls, new)
  PROVE  /\ Len(con.immutable) <= Len(new.immutable)
         /\ \A i \in 1 .. Len(con.immutable) : new.immutable[i] = con.immutable[i]
         /\ \A j \in Len(con.immutable) + 1 .. Len(new.immutable) :
              \E i \in 1 .. Len(pairs) :
                /\ new.immutable[j] = pairs[i]
                /\ \A h \in 1 .. i - 1 : \E m \in 1 .. j - 1 : new.immutable[m] = pairs[h]
<1> DEFINE told == [immutable |-> new.immutable, mutable |-> con.mutable]
<1>1. told.immutable = new.immutable
  OBVIOUS
<1>2. Tells(con, pairs, told)
  BY DEF Hears
<1> HIDE DEF told
<1> QED BY <1>1, <1>2 DEF Tells

(* A constraint that is told of pairs *)
LEMMA HearsPairs ==
  ASSUME NEW con, IsConstraint(con), NEW pairs, NEW new, Tells(con, pairs, new)
  PROVE  Hears(con, pairs, <<>>, new)
<1>1. new = [immutable |-> new.immutable, mutable |-> con.mutable] /\ IsConstraint(new)
  BY DEF Tells, IsConstraint
<1>2. con.mutable \in Seq(Range(con.mutable))
  BY DEF IsConstraint
<1>3. con.mutable \o <<>> = con.mutable
  BY <1>2
<1>4. new.mutable = con.mutable
  BY DEF Tells
<1> QED BY <1>1, <1>3, <1>4 DEF Hears

(* and then of calls *)
LEMMA HearsCalls ==
  ASSUME NEW con, IsConstraint(con), NEW pairs, NEW mid, Hears(con, pairs, <<>>, mid),
         NEW calls, calls \in Seq(Range(calls)),
         NEW new, new = RecordMutable(mid, calls)
  PROVE  Hears(con, pairs, calls, new)
<1>1. IsConstraint(mid) /\ mid.mutable = con.mutable \o <<>>
  BY DEF Hears
<1>2. con.mutable \in Seq(Range(con.mutable))
  BY DEF IsConstraint
<1>3. mid.mutable = con.mutable
  BY <1>1, <1>2
<1>4. IsConstraint(new) /\ new.immutable = mid.immutable /\ new.mutable = mid.mutable \o calls
  BY <1>1, RecordMutables
<1> QED BY <1>3, <1>4 DEF Hears

(* Nothing told *)
LEMMA HearsNothing ==
  ASSUME NEW con, IsConstraint(con)
  PROVE  Hears(con, <<>>, <<>>, con)
<1>1. con.immutable \in Seq(Range(con.immutable))
  BY DEF IsConstraint, IsPairs
<1>2. Range(<<>>) = {} /\ Len(con.immutable) \in Nat
  BY <1>1, Elements DEF Range
<1>3. Tells(con, <<>>, con)
  BY <1>2 DEF Tells
<1> QED BY <1>3, HearsPairs

(* The recorders of frames get the constraints c, and nothing else changes *)
Retells(frames, c, new) ==
  \A d \in 1 .. Len(frames) :
    /\ new[d].obs = frames[d].obs
    /\ new[d].con = IF d \in Range(slot) THEN c[d] ELSE frames[d].con

(* That is what the records do *)
LEMMA Recording ==
  ASSUME NEW frames, FramesInv(frames), NEW c, NEW new,
         new = [d \in DOMAIN frames |->
                  IF Records(d) THEN [frames[d] EXCEPT !.con = c[d]] ELSE frames[d]]
  PROVE  Retells(frames, c, new)
<1> SUFFICES ASSUME NEW d \in 1 .. Len(frames)
             PROVE  /\ new[d].obs = frames[d].obs
                    /\ new[d].con = IF d \in Range(slot) THEN c[d] ELSE frames[d].con
  BY DEF Retells
<1>1. d \in DOMAIN frames
  BY Elements DEF FramesInv, Shaped
<1>2. DOMAIN frames[d] = FrameFields
  BY <1>1 DEF FramesInv, Shaped
<1>3. new[d] = IF d \in Range(slot) THEN [frames[d] EXCEPT !.con = c[d]] ELSE frames[d]
  BY <1>1 DEF Records
<1> QED BY <1>2, <1>3 DEF FrameFields

(* A recorded read *)
LEMMA ReadHeard ==
  ASSUME NEW frames, FramesInv(frames), IsChain(slot, frames, Len(frames)),
         NEW call, NEW ret, \A d \in Range(slot) : ~Differs(frames[d].con, call, ret)
  PROVE  Heard(frames, <<[call |-> call, ret |-> ret]>>, <<>>, RecordRead(frames, call, ret))
<1> DEFINE c == [d \in DOMAIN frames |-> RecordImmutable(frames[d].con, call, ret)]
           new == RecordRead(frames, call, ret)
           pair == [call |-> call, ret |-> ret]
           pairs == <<pair>>
<1>1. new = [d \in DOMAIN frames |->
               IF Records(d) THEN [frames[d] EXCEPT !.con = c[d]] ELSE frames[d]]
  BY DEF RecordRead
<1>2. FramesInv(new) /\ Same(frames, new)
  BY ReadTold
<1>3. /\ Range(pairs) = {pair} /\ Len(pairs) = 1 /\ pairs[1] = pair
      /\ pairs \in Seq(Range(pairs))
  BY DEF Range
<1>4. pair.call = call /\ pair.ret = ret
  OBVIOUS
<1> HIDE DEF new, pairs
<1>5. pair = [call |-> pair.call, ret |-> pair.ret]
  OBVIOUS
<1> HIDE DEF pair
<1>6. IsPairs(pairs)
  BY <1>3, <1>5 DEF IsPairs
<1>7. ASSUME NEW d \in 1 .. Len(frames), d \in Range(slot)
      PROVE  Hears(frames[d].con, pairs, <<>>, c[d])
  <2>1. d \in DOMAIN frames
    BY Elements DEF FramesInv, Shaped
  <2>2. IsConstraint(frames[d].con)
    BY <2>1 DEF FramesInv, Shaped
  <2> DEFINE con == frames[d].con
  <2>3. \A q \in Range(pairs) : ~Differs(con, q.call, q.ret)
    BY <1>3, <1>4, <1>7
  <2>4. \A p, q \in Range(pairs) : p.call = q.call => p.ret = q.ret
    BY <1>3
  <2>5. Tells(con, pairs, RecordAll(con, pairs))
    BY <1>6, <2>2, <2>3, <2>4, RecordWalk
  <2>6. RecordAll(con, pairs) = RecordImmutable(con, call, ret)
    <3>1. PICK told : LeadsToAll(con, pairs, told)
      BY <1>3, RecordAllSteps
    <3>2. told[0] = con /\ RecordAll(con, pairs) = told[1]
      BY <3>1, <1>3 DEF LeadsToAll
    <3>3. told[1] = RecordImmutable(told[0], pairs[1].call, pairs[1].ret)
      BY <3>1, <1>3 DEF LeadsToAll
    <3> QED BY <3>2, <3>3, <1>3, <1>4
  <2>7. c[d] = RecordImmutable(con, call, ret)
    BY <2>1
  <2>8. Tells(con, pairs, c[d])
    BY <2>5, <2>6, <2>7
  <2> HIDE DEF con
  <2>9. Hears(con, pairs, <<>>, c[d])
    BY <2>2, <2>8, HearsPairs DEF con
  <2> QED BY <2>9 DEF con
<1> HIDE DEF c
<1>8. Retells(frames, c, new)
  BY <1>1, Recording
<1>9. Heard(frames, pairs, <<>>, new)
  BY <1>2, <1>7, <1>8 DEF Heard, Retells
<1> QED BY <1>9 DEF pairs, pair, new

(* A walk told of *)
LEMMA WalkHeard ==
  ASSUME NEW frames, FramesInv(frames), IsChain(slot, frames, Len(frames)),
         NEW pairs, IsPairs(pairs),
         \A q \in Range(pairs), d \in Range(slot) : ~Differs(frames[d].con, q.call, q.ret),
         \A p, q \in Range(pairs) : p.call = q.call => p.ret = q.ret
  PROVE  Heard(frames, pairs, <<>>, RecordReads(frames, pairs))
<1> DEFINE c == [d \in DOMAIN frames |-> RecordAll(frames[d].con, pairs)]
           new == RecordReads(frames, pairs)
<1>1. new = [d \in DOMAIN frames |->
               IF Records(d) THEN [frames[d] EXCEPT !.con = c[d]] ELSE frames[d]]
  BY DEF RecordReads
<1>2. FramesInv(new) /\ Same(frames, new)
  BY WalkTold
<1> HIDE DEF new
<1>3. ASSUME NEW d \in 1 .. Len(frames), d \in Range(slot)
      PROVE  Hears(frames[d].con, pairs, <<>>, c[d])
  <2>1. d \in DOMAIN frames
    BY Elements DEF FramesInv, Shaped
  <2>2. IsConstraint(frames[d].con)
    BY <2>1 DEF FramesInv, Shaped
  <2>3. Tells(frames[d].con, pairs, RecordAll(frames[d].con, pairs))
    BY <1>3, <2>2, RecordWalk
  <2>4. c[d] = RecordAll(frames[d].con, pairs)
    BY <2>1
  <2> QED BY <2>2, <2>3, <2>4, HearsPairs
<1> HIDE DEF c
<1>4. Retells(frames, c, new)
  BY <1>1, Recording
<1>5. Heard(frames, pairs, <<>>, new)
  BY <1>2, <1>3, <1>4 DEF Heard, Retells
<1> QED BY <1>5 DEF new

(* Writes recorded after that *)
LEMMA WritesHeard ==
  ASSUME NEW old, FramesInv(old), IsChain(slot, old, Len(old)),
         NEW pairs, NEW frames, Heard(old, pairs, <<>>, frames),
         NEW calls, calls \in Seq(Range(calls))
  PROVE  Heard(old, pairs, calls, RecordWrites(frames, calls))
<1> DEFINE c == [d \in DOMAIN frames |-> RecordMutable(frames[d].con, calls)]
           new == RecordWrites(frames, calls)
<1>0. FramesInv(frames) /\ Same(old, frames) /\ Len(frames) = Len(old)
  BY DEF Heard, Same
<1>1. new = [d \in DOMAIN frames |->
               IF Records(d) THEN [frames[d] EXCEPT !.con = c[d]] ELSE frames[d]]
  BY DEF RecordWrites
<1>2. FramesInv(new) /\ Same(frames, new)
  <2>1. IsChain(slot, frames, Len(frames))
    BY <1>0, ChainSame
  <2> QED BY <1>0, <2>1, WritesTold
<1> HIDE DEF new
<1>3. Same(old, new)
  BY <1>0, <1>2 DEF Same
<1>4. ASSUME NEW d \in 1 .. Len(old), d \in Range(slot)
      PROVE  Hears(old[d].con, pairs, calls, c[d])
  <2>1. d \in DOMAIN frames /\ d \in DOMAIN old
    BY <1>0, Elements DEF FramesInv, Shaped
  <2>2. IsConstraint(old[d].con)
    BY <2>1 DEF FramesInv, Shaped
  <2>3. Hears(old[d].con, pairs, <<>>, frames[d].con)
    BY <1>4 DEF Heard
  <2>4. c[d] = RecordMutable(frames[d].con, calls)
    BY <2>1
  <2> QED BY <2>2, <2>3, <2>4, HearsCalls
<1> HIDE DEF c
<1>5. Retells(frames, c, new)
  BY <1>0, <1>1, Recording
<1>6. ASSUME NEW d \in 1 .. Len(old)
      PROVE  /\ new[d].obs = old[d].obs
             /\ d \in Range(slot) => Hears(old[d].con, pairs, calls, new[d].con)
             /\ d \notin Range(slot) => new[d].con = old[d].con
  BY <1>0, <1>4, <1>5 DEF Heard, Retells
<1>7. Heard(old, pairs, calls, new)
  BY <1>2, <1>3, <1>6 DEF Heard
<1> QED BY <1>7 DEF new

(* Nothing happened *)
LEMMA NothingHeard ==
  ASSUME NEW frames, FramesInv(frames)
  PROVE  Heard(frames, <<>>, <<>>, frames)
<1>1. frames \in Seq(Range(frames)) /\ DOMAIN frames = 1 .. Len(frames)
  BY Elements DEF FramesInv, Shaped
<1>2. Same(frames, frames)
  BY <1>1 DEF Same, FramesInv, Shaped
<1>3. \A d \in 1 .. Len(frames) : Hears(frames[d].con, <<>>, <<>>, frames[d].con)
  BY <1>1, HearsNothing DEF FramesInv, Shaped
<1> QED BY <1>2, <1>3 DEF Heard

-----------------------------------------------------------------------------
(* Replaying writes.                                                       *)

(* The states that a replay goes through *)
LEMMA ReplaySteps ==
  ASSUME NEW calls, calls \in Seq(Range(calls)), NEW s
  PROVE  \E after : /\ after[0] = s
                    /\ \A n \in 1 .. Len(calls) : after[n] = Effect(calls[n], after[n - 1])
                    /\ Replay(calls, s) = after[Len(calls)]
<1> DEFINE Step(t, n) == Effect(calls[n], t)
           L == Len(calls)
           Upto(i, g) == g = [n \in 0 .. i |-> IF n = 0 THEN s ELSE Step(g[n - 1], n)]
           P == {i \in 0 .. L : \E g : Upto(i, g)}
<1> HIDE DEF Step
<1>1. L \in Nat
  BY Elements
<1>2. 0 \in P
  <2> DEFINE g == [n \in 0 .. 0 |-> s]
  <2>1. Upto(0, g)
    OBVIOUS
  <2> HIDE DEF g
  <2> QED BY <2>1, <1>1
<1>3. ASSUME NEW i \in 0 .. L - 1, i \in P PROVE i + 1 \in P
  <2>1. PICK g : Upto(i, g)
    BY <1>3
  <2> DEFINE h == [n \in 0 .. i + 1 |-> IF n = i + 1 THEN Step(g[i], i + 1) ELSE g[n]]
  <2>2. \A n \in 0 .. i + 1 : h[n] = IF n = 0 THEN s ELSE Step(h[n - 1], n)
    <3> TAKE n \in 0 .. i + 1
    <3>1. CASE n = i + 1
      BY <3>1, <1>1
    <3>2. CASE n # i + 1
      <4>1. n \in 0 .. i /\ h[n] = g[n]
        BY <3>2
      <4>2. n # 0 => h[n - 1] = g[n - 1]
        BY <4>1
      <4>3. g[n] = IF n = 0 THEN s ELSE Step(g[n - 1], n)
        BY <2>1, <4>1
      <4> QED BY <4>1, <4>2, <4>3
    <3> QED BY <3>1, <3>2
  <2>3. Upto(i + 1, h)
    BY <2>2
  <2> HIDE DEF h
  <2> QED BY <2>3, <1>1
<1>4. PICK g : Upto(L, g)
  <2>1. L \in P
    BY <1>1, <1>2, <1>3, CountUp
  <2> QED BY <2>1
<1> DEFINE after == CHOOSE f : Upto(L, f)
<1>5. Upto(L, after)
  BY <1>4
<1>6. Replay(calls, s) = after[L]
  BY DEF Replay, Step
<1> HIDE DEF after
<1>7. \A n \in 0 .. L : after[n] = IF n = 0 THEN s ELSE Step(after[n - 1], n)
  BY <1>5
<1>8. after[0] = s /\ \A n \in 1 .. L : after[n] = Step(after[n - 1], n)
  BY <1>7, <1>1
<1> QED BY <1>6, <1>8 DEF Step

(* No write and one write *)
LEMMA ReplayFew ==
  /\ \A s : Replay(<<>>, s) = s
  /\ \A w, s : Replay(<<w>>, s) = Effect(w, s)
<1>1. ASSUME NEW s PROVE Replay(<<>>, s) = s
  <2> DEFINE none == <<>>
  <2>1. none \in Seq(Range(none)) /\ Len(none) = 0
    BY DEF Range
  <2> HIDE DEF none
  <2>2. PICK after : /\ after[0] = s
                     /\ \A n \in 1 .. Len(none) : after[n] = Effect(none[n], after[n - 1])
                     /\ Replay(none, s) = after[Len(none)]
    BY <2>1, ReplaySteps
  <2> QED BY <2>1, <2>2 DEF none
<1>2. ASSUME NEW w, NEW s PROVE Replay(<<w>>, s) = Effect(w, s)
  <2> DEFINE one == <<w>>
  <2>1. one \in Seq(Range(one)) /\ Len(one) = 1 /\ one[1] = w
    BY DEF Range
  <2> HIDE DEF one
  <2>2. PICK after : /\ after[0] = s
                     /\ \A n \in 1 .. Len(one) : after[n] = Effect(one[n], after[n - 1])
                     /\ Replay(one, s) = after[Len(one)]
    BY <2>1, ReplaySteps
  <2>3. after[1] = Effect(one[1], after[0])
    BY <2>1, <2>2
  <2> QED BY <2>1, <2>2, <2>3 DEF one
<1> QED BY <1>1, <1>2

(* Writes that follow others *)
LEMMA ReplayJoined ==
  ASSUME NEW a, a \in Seq(Range(a)), NEW b, b \in Seq(Range(b)), NEW s
  PROVE  Replay(a \o b, s) = Replay(b, Replay(a, s))
<1> DEFINE both == a \o b
<1>1. /\ both \in Seq(Range(both)) /\ Len(both) = Len(a) + Len(b)
      /\ \A i \in 1 .. Len(a) : both[i] = a[i]
      /\ \A i \in 1 .. Len(b) : both[Len(a) + i] = b[i]
      /\ Len(a) \in Nat /\ Len(b) \in Nat
  BY Joined, Elements
<1> HIDE DEF both
<1>2. PICK f : /\ f[0] = s
               /\ \A n \in 1 .. Len(a) : f[n] = Effect(a[n], f[n - 1])
               /\ Replay(a, s) = f[Len(a)]
  BY ReplaySteps
<1>3. PICK g : /\ g[0] = Replay(a, s)
               /\ \A n \in 1 .. Len(b) : g[n] = Effect(b[n], g[n - 1])
               /\ Replay(b, Replay(a, s)) = g[Len(b)]
  BY ReplaySteps
<1>4. PICK h : /\ h[0] = s
               /\ \A n \in 1 .. Len(both) : h[n] = Effect(both[n], h[n - 1])
               /\ Replay(both, s) = h[Len(both)]
  BY <1>1, ReplaySteps
<1>5. h[Len(a)] = f[Len(a)]
  <2> DEFINE P == {n \in 0 .. Len(a) : h[n] = f[n]}
  <2>1. 0 \in P
    BY <1>1, <1>2, <1>4
  <2>2. ASSUME NEW n \in 0 .. Len(a) - 1, n \in P PROVE n + 1 \in P
    <3> DEFINE k == n + 1
    <3>1. k \in 1 .. Len(a) /\ k \in 1 .. Len(both) /\ k - 1 = n /\ k \in 0 .. Len(a)
      BY <1>1
    <3> HIDE DEF k
    <3>2. h[k] = Effect(both[k], h[n]) /\ f[k] = Effect(a[k], f[n]) /\ both[k] = a[k]
      BY <1>1, <1>2, <1>4, <3>1
    <3>3. h[n] = f[n]
      BY <2>2
    <3>4. k \in P
      BY <3>1, <3>2, <3>3
    <3> QED BY <3>4 DEF k
  <2> HIDE DEF P
  <2>3. Len(a) \in P
    BY <1>1, <2>1, <2>2, CountUp
  <2> QED BY <2>3 DEF P
<1>6. h[Len(a) + Len(b)] = g[Len(b)]
  <2> DEFINE P == {n \in 0 .. Len(b) : h[Len(a) + n] = g[n]}
  <2>1. 0 \in P
    BY <1>1, <1>2, <1>3, <1>5
  <2>2. ASSUME NEW n \in 0 .. Len(b) - 1, n \in P PROVE n + 1 \in P
    <3> DEFINE k == n + 1
               m == Len(a) + k
    <3>1. /\ k \in 1 .. Len(b) /\ k - 1 = n /\ k \in 0 .. Len(b)
          /\ m \in 1 .. Len(both) /\ m - 1 = Len(a) + n
      BY <1>1
    <3>2. both[m] = b[k]
      BY <1>1, <3>1
    <3> HIDE DEF k
    <3>3. h[m] = Effect(both[m], h[m - 1]) /\ g[k] = Effect(b[k], g[n])
      BY <1>3, <1>4, <3>1
    <3>4. h[Len(a) + n] = g[n]
      BY <2>2
    <3>5. k \in P
      BY <3>1, <3>2, <3>3, <3>4
    <3> QED BY <3>5 DEF k
  <2> HIDE DEF P
  <2>3. Len(b) \in P
    BY <1>1, <2>1, <2>2, CountUp
  <2> QED BY <2>3 DEF P
<1> QED BY <1>1, <1>3, <1>4, <1>6 DEF both

(* The functions make calls there are, and calls lead to states there are *)
OperationsKnown ==
  /\ \A f \in Funs : \A k, obs :
       /\ Body(f, k, obs).op \in {"read", "write", "call", "return"}
       /\ Body(f, k, obs).op = "read" => Body(f, k, obs).call \in Reads
       /\ Body(f, k, obs).op = "write" => Body(f, k, obs).call \in Writes
  /\ \A w \in Writes, s \in States : Effect(w, s) \in States

(* A mutable call changes nothing that immutable calls observe *)
Neutral ==
  \A w \in Writes, s \in States, c \in Reads : Result(c, Effect(w, s)) = Result(c, s)

(* Replaying calls there are *)
LEMMA ReplayKnown ==
  ASSUME OperationsKnown, NEW calls \in Seq(Writes), NEW s \in States
  PROVE  /\ Replay(calls, s) \in States
         /\ Neutral => \A c \in Reads : Result(c, Replay(calls, s)) = Result(c, s)
<1>1. calls \in Seq(Range(calls)) /\ Len(calls) \in Nat /\ \A n \in 1 .. Len(calls) : calls[n] \in Writes
  BY DEF Range
<1>2. PICK after : /\ after[0] = s
                   /\ \A n \in 1 .. Len(calls) : after[n] = Effect(calls[n], after[n - 1])
                   /\ Replay(calls, s) = after[Len(calls)]
  BY <1>1, ReplaySteps
<1> DEFINE P == {n \in 0 .. Len(calls) :
                   /\ after[n] \in States
                   /\ Neutral => \A c \in Reads : Result(c, after[n]) = Result(c, s)}
<1>3. 0 \in P
  BY <1>1, <1>2
<1>4. ASSUME NEW n \in 0 .. Len(calls) - 1, n \in P PROVE n + 1 \in P
  <2> DEFINE k == n + 1
  <2>1. k \in 1 .. Len(calls) /\ k - 1 = n /\ k \in 0 .. Len(calls)
    BY <1>1
  <2> HIDE DEF k
  <2>2. after[k] = Effect(calls[k], after[n]) /\ calls[k] \in Writes
    BY <1>1, <1>2, <2>1
  <2>3. /\ after[n] \in States
        /\ Neutral => \A c \in Reads : Result(c, after[n]) = Result(c, s)
    BY <1>4
  <2>4. after[k] \in States
    BY <2>2, <2>3 DEF OperationsKnown
  <2>5. Neutral => \A c \in Reads : Result(c, after[k]) = Result(c, s)
    BY <2>2, <2>3 DEF Neutral
  <2>6. k \in P
    BY <2>1, <2>4, <2>5
  <2> QED BY <2>6 DEF k
<1> HIDE DEF P
<1>5. Len(calls) \in P
  BY <1>1, <1>3, <1>4, CountUp
<1> QED BY <1>2, <1>5 DEF P

-----------------------------------------------------------------------------
(* The steps, by what they tell the running calls.                         *)

(* The innermost running call *)
LEMMA Innermost ==
  ASSUME FramesInv(stack), Running
  PROVE  /\ Len(stack) \in Nat \ {0} /\ DOMAIN stack = 1 .. Len(stack)
         /\ Top = stack[Len(stack)] /\ Top.fun \in Funs
<1>1. stack \in Seq(Range(stack)) /\ stack # <<>>
  BY DEF FramesInv, Shaped, Running
<1>2. Len(stack) \in Nat \ {0} /\ DOMAIN stack = 1 .. Len(stack) /\ Top = stack[Len(stack)]
  BY <1>1, Shortened, Elements DEF Top
<1> QED BY <1>2 DEF FramesInv, Shaped

(* What a delivered value changes *)
LEMMA DeliverOnly ==
  ASSUME NEW frames, FramesInv(frames), NEW v
  PROVE  /\ Same(frames, Deliver(frames, v)) /\ FramesInv(Deliver(frames, v))
         /\ \A d \in 1 .. Len(frames) :
              /\ Deliver(frames, v)[d].con = frames[d].con
              /\ Deliver(frames, v)[d].obs =
                   IF d = Len(frames) THEN Append(frames[d].obs, v) ELSE frames[d].obs
<1>1. /\ frames \in Seq(Range(frames)) /\ Len(frames) \in Nat /\ DOMAIN frames = 1 .. Len(frames)
      /\ \A d \in 1 .. Len(frames) : DOMAIN frames[d] = FrameFields
  BY Elements DEF FramesInv, Shaped
<1>2. Same(frames, Deliver(frames, v)) /\ FramesInv(Deliver(frames, v))
  BY Delivered
<1>3. ASSUME NEW d \in 1 .. Len(frames)
      PROVE  /\ Deliver(frames, v)[d].con = frames[d].con
             /\ Deliver(frames, v)[d].obs =
                  IF d = Len(frames) THEN Append(frames[d].obs, v) ELSE frames[d].obs
  <2>1. frames # <<>>
    BY <1>1, <1>3
  <2> DEFINE new == [frames EXCEPT ![Len(frames)].obs = Append(@, v)]
  <2>2. Deliver(frames, v) = new
    BY <2>1 DEF Deliver
  <2>3. /\ new[d].con = frames[d].con
        /\ new[d].obs = IF d = Len(frames) THEN Append(frames[d].obs, v) ELSE frames[d].obs
    BY <1>1 DEF FrameFields
  <2> QED BY <2>2, <2>3
<1> QED BY <1>2, <1>3

(* What a lookup tells the recorders *)
Hearing(fun, key, id) == IF Original THEN Walk(fun, key, id) ELSE <<>>

(* A lookup that contradicts no recorder *)
LEMMA ToldHeard ==
  ASSUME IInv, ~panicked, NEW fun \in Funs, NEW key, NEW id, ~Contradicted(fun, key, id)
  PROVE  Heard(stack, Hearing(fun, key, id), <<>>, Told(fun, key, id))
<1>1. FramesInv(stack) /\ IsChain(slot, stack, Len(stack))
  BY DEF IInv, RecorderChain
<1>2. CASE Original
  <2> DEFINE walk == Walk(fun, key, id)
  <2>1. EntriesShaped(caches[fun]) /\ AllPart(caches[fun])
    BY DEF IInv, CachesShaped, OneEntryMatches, AllPart
  <2>2. IsPairs(walk) /\ \A q \in Range(walk) : q.ret = Validate(id, q.call)
    BY <2>1, WalkShape
  <2>3. \A q \in Range(walk), d \in Range(slot) : ~Differs(stack[d].con, q.call, q.ret)
    BY <1>2 DEF Contradicted
  <2> HIDE DEF walk
  <2>4. \A p, q \in Range(walk) : p.call = q.call => p.ret = q.ret
    BY <2>2
  <2>5. Heard(stack, walk, <<>>, RecordReads(stack, walk))
    BY <1>1, <2>2, <2>3, <2>4, WalkHeard
  <2> QED BY <1>2, <2>5 DEF Told, walk, Hearing
<1>3. CASE ~Original
  <2>1. Told(fun, key, id) = stack /\ Hearing(fun, key, id) = <<>>
    BY <1>3 DEF Told, Hearing
  <2> QED BY <1>1, <2>1, NothingHeard
<1> QED BY <1>2, <1>3

(* A hit tells of the walk and the replayed writes, and delivers *)
LEMMA HitHears ==
  ASSUME IInv, ~panicked, NEW fun \in Funs, NEW key, NEW id, Hit(fun, key, id)
  PROVE  \E e, mid :
           /\ e \in Hits(fun, key, id) /\ e \in caches[fun] /\ e.mutable \in Seq(Range(e.mutable))
           /\ caches' = [caches EXCEPT ![fun] = (@ \ {e}) \cup {[e EXCEPT !.age = 0]}]
           /\ value' = Replay(e.mutable, value)
           /\ Heard(stack, Hearing(fun, key, id), e.mutable, mid)
           /\ stack' = Deliver(mid, e.value)
           /\ Complete(mid, fun, key, value, e.value, TRUE, e.path)
<1> DEFINE told == Told(fun, key, id)
           pairs == Hearing(fun, key, id)
<1>1. FramesInv(stack) /\ IsChain(slot, stack, Len(stack))
  BY DEF IInv, RecorderChain
<1>2. Heard(stack, pairs, <<>>, told)
  BY ToldHeard DEF Hit
<1>3. PICK e \in Hits(fun, key, id) :
        /\ caches' = [caches EXCEPT ![fun] = (@ \ {e}) \cup {[e EXCEPT !.age = 0]}]
        /\ value' = Replay(e.mutable, value)
        /\ Complete(RecordWrites(told, e.mutable), fun, key, value, e.value, TRUE, e.path)
  BY DEF Hit
<1> HIDE DEF told, pairs
<1> DEFINE mid == RecordWrites(told, e.mutable)
<1>4. e \in caches[fun]
  BY DEF Hits, Matching, OfKey
<1>5. e.mutable \in Seq(Range(e.mutable))
  BY <1>4 DEF IInv, CachesShaped, EntriesShaped
<1>6. Heard(stack, pairs, e.mutable, mid)
  BY <1>1, <1>2, <1>5, WritesHeard
<1>7. Complete(mid, fun, key, value, e.value, TRUE, e.path)
  BY <1>3
<1> HIDE DEF mid
<1>8. stack' = Deliver(mid, e.value)
  BY <1>7 DEF Complete
<1> QED BY <1>3, <1>4, <1>5, <1>6, <1>7, <1>8 DEF pairs

(* A read and a write of a body, and a frame that hears nothing *)
LEMMA BodyHears ==
  ASSUME IInv
  PROVE  /\ BodyRead => \E mid :
              /\ Heard(stack, <<[call |-> NextOp.call, ret |-> Seen]>>, <<>>, mid)
              /\ stack' = Deliver(mid, Seen)
         /\ BodyWrite => \E mid :
              /\ Heard(stack, <<>>, <<NextOp.call>>, mid)
              /\ stack' = Deliver(mid, Unit)
<1>1. FramesInv(stack) /\ (~panicked => IsChain(slot, stack, Len(stack)))
  BY DEF IInv, RecorderChain
<1>2. ASSUME BodyRead
      PROVE  \E mid : /\ Heard(stack, <<[call |-> NextOp.call, ret |-> Seen]>>, <<>>, mid)
                      /\ stack' = Deliver(mid, Seen)
  <2>1. /\ ~panicked /\ \A d \in Range(slot) : ~Differs(stack[d].con, NextOp.call, Seen)
        /\ stack' = Deliver(RecordRead(stack, NextOp.call, Seen), Seen)
    BY <1>2 DEF BodyRead, Impure
  <2>2. Heard(stack, <<[call |-> NextOp.call, ret |-> Seen]>>, <<>>,
              RecordRead(stack, NextOp.call, Seen))
    BY <1>1, <2>1, ReadHeard
  <2> QED BY <2>1, <2>2
<1>3. ASSUME BodyWrite
      PROVE  \E mid : /\ Heard(stack, <<>>, <<NextOp.call>>, mid)
                      /\ stack' = Deliver(mid, Unit)
  <2> DEFINE calls == <<NextOp.call>>
  <2>1. ~panicked /\ stack' = Deliver(RecordWrites(stack, calls), Unit)
    BY <1>3 DEF BodyWrite
  <2>2. calls \in Seq(Range(calls))
    BY DEF Range
  <2> HIDE DEF calls
  <2>3. Heard(stack, <<>>, <<>>, stack)
    BY <1>1, NothingHeard
  <2>4. Heard(stack, <<>>, calls, RecordWrites(stack, calls))
    BY <1>1, <2>1, <2>2, <2>3, WritesHeard
  <2> QED BY <2>1, <2>4 DEF calls
<1> QED BY <1>2, <1>3

-----------------------------------------------------------------------------
(* Only calls there are get recorded.                                      *)

(* Told of calls there are *)
LEMMA KnownHeard ==
  ASSUME NEW old, FramesInv(old), FramesKnown(old), NEW pairs, CallsOf(pairs) \subseteq Reads,
         NEW calls \in Seq(Writes), NEW new, Heard(old, pairs, calls, new)
  PROVE  FramesKnown(new)
<1>1. DOMAIN old = 1 .. Len(old) /\ DOMAIN new = 1 .. Len(old)
  BY Elements DEF Heard, FramesInv, Shaped, Same
<1> SUFFICES ASSUME NEW d \in 1 .. Len(old)
             PROVE  Known(new[d].con) /\ new[d].before \in States
  BY <1>1 DEF FramesKnown
<1>2. Known(old[d].con) /\ old[d].before \in States
  BY <1>1 DEF FramesKnown
<1>3. new[d].before = old[d].before
  BY DEF Heard, Same
<1>4. CASE d \in Range(slot)
  <2>1. Hears(old[d].con, pairs, calls, new[d].con)
    BY <1>4 DEF Heard
  <2>2. /\ IsConstraint(new[d].con)
        /\ Range(new[d].con.immutable) = Range(old[d].con.immutable) \cup Range(pairs)
        /\ new[d].con.mutable = old[d].con.mutable \o calls
    BY <2>1, HearsWhat, ZenonT(30)
  <2>3. CallsOf(new[d].con.immutable) \subseteq Reads
    BY <1>2, <2>2 DEF Known, CallsOf
  <2>4. new[d].con.mutable \in Seq(Writes)
    BY <1>2, <2>2 DEF Known
  <2> QED BY <1>2, <1>3, <2>3, <2>4 DEF Known
<1>5. CASE d \notin Range(slot)
  BY <1>2, <1>3, <1>5 DEF Heard
<1> QED BY <1>4, <1>5

(* Handed a value *)
LEMMA KnownDelivered ==
  ASSUME NEW frames, FramesInv(frames), FramesKnown(frames), NEW v
  PROVE  FramesKnown(Deliver(frames, v))
<1> DEFINE new == Deliver(frames, v)
<1>1. Same(frames, new) /\ \A d \in 1 .. Len(frames) : new[d].con = frames[d].con
  BY DeliverOnly
<1> HIDE DEF new
<1>2. DOMAIN frames = 1 .. Len(frames) /\ DOMAIN new = 1 .. Len(frames)
  BY <1>1, Elements DEF FramesInv, Shaped, Same
<1>3. FramesKnown(new)
  BY <1>1, <1>2 DEF FramesKnown, Same
<1> QED BY <1>3 DEF new

(* Joined by a call that begins *)
LEMMA KnownPushed ==
  ASSUME NEW frames, FramesInv(frames), FramesKnown(frames), value \in States,
         NEW fun, NEW key, NEW id, NEW mode
  PROVE  FramesKnown(Append(frames, Frame(fun, key, id, mode)))
<1> DEFINE f == Frame(fun, key, id, mode)
           new == Append(frames, f)
<1>1. /\ frames \in Seq(Range(frames)) /\ DOMAIN frames = 1 .. Len(frames)
      /\ Len(frames) \in Nat
  BY Elements DEF FramesInv, Shaped
<1>2. Known(f.con) /\ f.before \in States
  <2>1. f.con = EmptyConstraint /\ f.before = value
    BY DEF Frame
  <2>2. EmptyConstraint.immutable = <<>> /\ EmptyConstraint.mutable = <<>>
    BY DEF EmptyConstraint
  <2>3. CallsOf(<<>>) = {} /\ <<>> \in Seq(Writes)
    BY DEF CallsOf, Range
  <2> QED BY <2>1, <2>2, <2>3 DEF Known
<1> HIDE DEF f
<1>3. /\ DOMAIN new = 1 .. Len(frames) + 1 /\ new[Len(frames) + 1] = f
      /\ \A d \in 1 .. Len(frames) : new[d] = frames[d]
  BY <1>1, Appended
<1> HIDE DEF new
<1>4. FramesKnown(new)
  <2> SUFFICES ASSUME NEW d \in 1 .. Len(frames) + 1
               PROVE  Known(new[d].con) /\ new[d].before \in States
    BY <1>3 DEF FramesKnown
  <2>1. CASE d = Len(frames) + 1
    BY <1>2, <1>3, <2>1
  <2>2. CASE d # Len(frames) + 1
    <3>1. d \in 1 .. Len(frames)
      BY <1>1, <2>2
    <3> QED BY <1>1, <1>3, <3>1 DEF FramesKnown
  <2> QED BY <2>1, <2>2
<1> QED BY <1>4 DEF new, f

(* Without the innermost call *)
LEMMA KnownShorter ==
  ASSUME NEW frames, FramesInv(frames), FramesKnown(frames), frames # <<>>
  PROVE  FramesKnown(Front(frames))
<1> DEFINE rest == Front(frames)
<1>1. /\ DOMAIN rest = 1 .. Len(frames) - 1 /\ Len(frames) \in Nat \ {0}
      /\ \A i \in 1 .. Len(frames) - 1 : rest[i] = frames[i]
      /\ DOMAIN frames = 1 .. Len(frames)
  BY Shortened, Elements DEF FramesInv, Shaped
<1> HIDE DEF rest
<1>2. FramesKnown(rest)
  BY <1>1 DEF FramesKnown
<1> QED BY <1>2 DEF rest

(* The walk asks what the entries ask *)
LEMMA WalkKnown ==
  ASSUME IInv, VInv, NEW fun \in Funs, NEW key, NEW id
  PROVE  /\ IsPairs(Walk(fun, key, id)) /\ IsPairs(Hearing(fun, key, id))
         /\ CallsOf(Walk(fun, key, id)) \subseteq Reads
         /\ CallsOf(Hearing(fun, key, id)) \subseteq Reads
<1> DEFINE walk == Walk(fun, key, id)
<1>1. EntriesShaped(caches[fun]) /\ AllPart(caches[fun])
  BY DEF IInv, CachesShaped, OneEntryMatches, AllPart
<1>2. /\ IsPairs(walk)
      /\ \A n \in 1 .. Len(walk) :
           \E e \in OfKey(caches[fun], key) :
             n \in 1 .. Len(e.path) /\ e.path[n].call = walk[n].call
  BY <1>1, WalkShape
<1>3. IsPairs(<<>>) /\ CallsOf(<<>>) = {}
  BY DEF IsPairs, CallsOf, Range
<1> HIDE DEF walk
<1>4. DOMAIN walk = 1 .. Len(walk)
  BY <1>2, Elements DEF IsPairs
<1>5. ASSUME NEW n \in 1 .. Len(walk) PROVE walk[n].call \in Reads
  <2>1. PICK e \in OfKey(caches[fun], key) :
          n \in 1 .. Len(e.path) /\ e.path[n].call = walk[n].call
    BY <1>2
  <2>2. e \in caches[fun]
    BY DEF OfKey
  <2>3. e.path[n] \in Range(e.path)
    BY <1>1, <2>1, <2>2, Elements DEF EntriesShaped, IsPairs
  <2>4. CallsOf(e.path) \subseteq Reads
    BY <2>2 DEF VInv, EntriesKnown
  <2> QED BY <2>1, <2>3, <2>4 DEF CallsOf
<1>6. CallsOf(walk) \subseteq Reads
  BY <1>4, <1>5 DEF CallsOf, Range
<1> QED BY <1>2, <1>3, <1>6 DEF walk, Hearing

(* A lookup, or a call that begins *)
LEMMA KnownCall ==
  ASSUME OperationsKnown, IInv, VInv, ~panicked, NEW fun \in Funs, NEW key, NEW id,
         Call(fun, key, id)
  PROVE  VInv'
<1>1. FramesInv(stack) /\ FramesKnown(stack) /\ value \in States /\ DOMAIN caches = Funs
  BY DEF IInv, VInv, CachesShaped
<1>2. CASE Hit(fun, key, id)
  <2>1. PICK e, mid :
          /\ e \in Hits(fun, key, id) /\ e \in caches[fun] /\ e.mutable \in Seq(Range(e.mutable))
          /\ caches' = [caches EXCEPT ![fun] = (@ \ {e}) \cup {[e EXCEPT !.age = 0]}]
          /\ value' = Replay(e.mutable, value)
          /\ Heard(stack, Hearing(fun, key, id), e.mutable, mid)
          /\ stack' = Deliver(mid, e.value)
          /\ Complete(mid, fun, key, value, e.value, TRUE, e.path)
    BY <1>2, HitHears
  <2>2. EntriesKnown(caches[fun]) /\ e.mutable \in Seq(Writes)
    BY <2>1 DEF VInv, EntriesKnown
  <2>3. value' \in States
    BY <1>1, <2>1, <2>2, ReplayKnown
  <2>4. FramesKnown(mid) /\ FramesInv(mid)
    BY <1>1, <2>1, <2>2, WalkKnown, KnownHeard DEF Heard
  <2>5. FramesKnown(stack')
    BY <2>1, <2>4, KnownDelivered
  <2>6. \A f \in Funs : EntriesKnown(caches'[f])
    <3> DEFINE y == [e EXCEPT !.age = 0]
    <3>1. y.path = e.path /\ y.mutable = e.mutable
      <4>1. DOMAIN e = EntryFields
        BY <2>1 DEF IInv, CachesShaped, EntriesShaped
      <4> QED BY <4>1 DEF EntryFields
    <3> HIDE DEF y
    <3>2. EntriesKnown((caches[fun] \ {e}) \cup {y})
      BY <2>1, <2>2, <3>1 DEF EntriesKnown
    <3>3. caches' = [caches EXCEPT ![fun] = (caches[fun] \ {e}) \cup {y}]
      BY <2>1 DEF y
    <3> QED BY <1>1, <3>2, <3>3 DEF VInv
  <2> QED BY <2>3, <2>5, <2>6 DEF VInv, FramesKnown
<1>3. CASE Miss(fun, key, id)
  <2> DEFINE told == Told(fun, key, id)
             none == <<>>
  <2>1. /\ stack' = Append(told, Frame(fun, key, id, "recorded"))
        /\ value' = value /\ caches' = caches
    BY <1>3 DEF Miss
  <2>2. Heard(stack, Hearing(fun, key, id), none, told)
    BY <1>3, ToldHeard DEF Miss
  <2>3. none \in Seq(Writes)
    OBVIOUS
  <2> HIDE DEF told, none
  <2>4. FramesKnown(told) /\ FramesInv(told)
    BY <1>1, <2>2, <2>3, WalkKnown, KnownHeard DEF Heard
  <2>5. FramesKnown(stack')
    BY <1>1, <2>1, <2>4, KnownPushed
  <2> QED BY <1>1, <2>1, <2>5 DEF VInv, FramesKnown
<1>4. CASE LookupPanic(fun, key, id)
  BY <1>4 DEF LookupPanic, VInv, FramesKnown
<1>5. CASE PureHit(fun, key)
  <2>1. PICK e \in OfKey(caches[fun], key) :
          /\ caches' = [caches EXCEPT ![fun] = (@ \ {e}) \cup {[e EXCEPT !.age = 0]}]
          /\ stack' = Deliver(stack, e.value) /\ value' = value
    BY <1>5 DEF PureHit, Complete
  <2>2. e \in caches[fun]
    BY DEF OfKey
  <2>3. FramesKnown(stack')
    BY <1>1, <2>1, KnownDelivered
  <2>4. \A f \in Funs : EntriesKnown(caches'[f])
    <3> DEFINE y == [e EXCEPT !.age = 0]
    <3>1. y.path = e.path /\ y.mutable = e.mutable
      <4>1. DOMAIN e = EntryFields
        BY <2>2 DEF IInv, CachesShaped, EntriesShaped
      <4> QED BY <4>1 DEF EntryFields
    <3> HIDE DEF y
    <3>2. EntriesKnown((caches[fun] \ {e}) \cup {y})
      BY <2>2, <3>1 DEF VInv, EntriesKnown
    <3>3. caches' = [caches EXCEPT ![fun] = (caches[fun] \ {e}) \cup {y}]
      BY <2>1 DEF y
    <3> QED BY <1>1, <3>2, <3>3 DEF VInv
  <2> QED BY <1>1, <2>1, <2>3, <2>4 DEF VInv, FramesKnown
<1>6. ASSUME NEW mode, stack' = Append(stack, Frame(fun, key, id, mode)),
             value' = value, caches' = caches
      PROVE  VInv'
  <2>1. FramesKnown(stack')
    BY <1>1, <1>6, KnownPushed
  <2> QED BY <1>1, <1>6, <2>1 DEF VInv, FramesKnown
<1>7. CASE PureMiss(fun, key, id)
  BY <1>6, <1>7 DEF PureMiss
<1>8. CASE Bypass(fun, key, id)
  BY <1>6, <1>8 DEF Bypass
<1> QED BY <1>2, <1>3, <1>4, <1>5, <1>7, <1>8 DEF Call

(* An insertion *)
LEMMA KnownInserted ==
  ASSUME IInv, VInv, Running, caches' = Inserted
  PROVE  \A f \in Funs : EntriesKnown(caches'[f])
<1>1. /\ FramesInv(stack) /\ FramesKnown(stack) /\ DOMAIN caches = Funs
      /\ \A f \in Funs : EntriesKnown(caches[f])
  BY DEF IInv, VInv, CachesShaped
<1>2. Len(stack) \in DOMAIN stack /\ Top = stack[Len(stack)] /\ Top.fun \in Funs
  BY <1>1, Innermost
<1>3. Known(Top.con) /\ IsConstraint(Top.con)
  BY <1>1, <1>2 DEF FramesKnown, FramesInv, Shaped
<1>4. CASE AlreadyThere(Tree, Top.key, Top.con.immutable) \/ Torn
  BY <1>1, <1>4 DEF Inserted
<1>5. CASE ~(AlreadyThere(Tree, Top.key, Top.con.immutable) \/ Torn)
  <2> DEFINE path == NewPath(Tree, Top.key, Top.con.immutable)
             y == NewEntry(path)
  <2>1. caches' = [caches EXCEPT ![Top.fun] = @ \cup {y}]
    BY <1>5 DEF Inserted
  <2>2. EntriesShaped(Tree) /\ AllPart(Tree) /\ EntriesKnown(Tree)
    BY <1>1, <1>2 DEF IInv, CachesShaped, OneEntryMatches, AllPart, Tree
  <2>3. IsFiniteSet(Tree) /\ \A e \in Tree : IsPairs(e.path)
    BY <2>2 DEF EntriesShaped
  <2>4. IsPairs(Top.con.immutable)
    BY <1>3 DEF IsConstraint
  <2>5. ~AlreadyThere(Tree, Top.key, Top.con.immutable)
        /\ ~LacksCall(Tree, Top.key, Top.con.immutable)
    BY <1>5 DEF Torn
  <2>6. /\ IsPairs(path) /\ Range(path) = Range(Top.con.immutable)
        /\ \A g \in OfKey(Tree, Top.key) : Diverge(path, g.path)
    BY <2>2, <2>3, <2>4, <2>5, InsertionFits
  <2>7. y.path = path /\ y.mutable = Top.con.mutable
    BY DEF NewEntry
  <2> HIDE DEF path, y
  <2>8. CallsOf(y.path) \subseteq Reads /\ y.mutable \in Seq(Writes)
    BY <1>3, <2>6, <2>7 DEF Known, CallsOf
  <2>9. EntriesKnown(Tree \cup {y})
    BY <2>2, <2>8 DEF EntriesKnown
  <2>10. caches' = [caches EXCEPT ![Top.fun] = Tree \cup {y}]
    BY <2>1 DEF Tree
  <2> QED BY <1>1, <2>9, <2>10
<1> QED BY <1>4, <1>5

(* Every step records calls there are only *)
LEMMA KnownStep ==
  ASSUME OperationsKnown, CallsKnown, IInv, VInv, [Next]_vars
  PROVE  VInv'
<1>0. FramesInv(stack) /\ FramesKnown(stack) /\ value \in States /\ DOMAIN caches = Funs
  BY DEF IInv, VInv, CachesShaped
<1>1. ASSUME stack' = stack, caches' = caches, value' \in States PROVE VInv'
  BY <1>1 DEF VInv, FramesKnown
<1>2. CASE UNCHANGED vars
  BY <1>0, <1>1, <1>2 DEF vars
<1>3. CASE TopCall
  <2>1. ~panicked /\ \E fun \in Funs, key \in Args : Call(fun, key, view')
    BY <1>3 DEF TopCall
  <2> QED BY <2>1, KnownCall
<1>4. CASE Edit
  <2>1. value' \in States /\ stack' = stack /\ caches' = caches
    BY <1>4, WorldsAssumption DEF Edit
  <2> QED BY <1>1, <2>1
<1>5. CASE EvictAnswers
  BY <1>0, <1>1, <1>5 DEF EvictAnswers
<1>6. ASSUME NEW m \in 0 .. MaxAge, Evict(m) PROVE VInv'
  <2>1. \A f \in Funs : EntriesKnown(caches'[f])
    <3> SUFFICES ASSUME NEW f \in Funs, NEW e \in caches'[f]
                 PROVE  CallsOf(e.path) \subseteq Reads /\ e.mutable \in Seq(Writes)
      BY DEF EntriesKnown
    <3>1. caches'[f] = {[x EXCEPT !.age = @ + 1] : x \in {z \in caches[f] : z.age + 1 <= m}}
      BY <1>6 DEF Evict
    <3>2. PICK x \in caches[f] : e = [x EXCEPT !.age = @ + 1]
      BY <3>1
    <3>3. DOMAIN x = EntryFields
      BY DEF IInv, CachesShaped, EntriesShaped
    <3>4. e.path = x.path /\ e.mutable = x.mutable
      BY <3>2, <3>3 DEF EntryFields
    <3> QED BY <3>4 DEF VInv, EntriesKnown
  <2> QED BY <1>0, <1>6, <2>1 DEF Evict, VInv, FramesKnown
<1>7. CASE BodyRead
  <2> DEFINE pairs == <<[call |-> NextOp.call, ret |-> Seen]>>
             none == <<>>
  <2>1. NextOp.op = "read" /\ Running /\ value' = value /\ caches' = caches
    BY <1>7 DEF BodyRead
  <2>2. NextOp.call \in Reads
    BY <1>0, <2>1, Innermost DEF OperationsKnown, NextOp
  <2>3. CallsOf(pairs) \subseteq Reads /\ none \in Seq(Writes)
    <3>1. Range(pairs) = {[call |-> NextOp.call, ret |-> Seen]}
      BY DEF Range
    <3> QED BY <2>2, <3>1 DEF CallsOf
  <2>4. PICK mid : Heard(stack, pairs, none, mid) /\ stack' = Deliver(mid, Seen)
    BY <1>7, BodyHears
  <2> HIDE DEF pairs, none
  <2>5. FramesKnown(mid) /\ FramesInv(mid)
    BY <1>0, <2>3, <2>4, KnownHeard DEF Heard
  <2>6. FramesKnown(stack')
    BY <2>4, <2>5, KnownDelivered
  <2> QED BY <1>0, <2>1, <2>6 DEF VInv, FramesKnown
<1>8. CASE ReadPanic \/ InsertPanic
  BY <1>0, <1>1, <1>8 DEF ReadPanic, InsertPanic
<1>9. CASE BodyWrite
  <2> DEFINE calls == <<NextOp.call>>
             none == <<>>
  <2>1. NextOp.op = "write" /\ Running /\ value' = Effect(NextOp.call, value) /\ caches' = caches
    BY <1>9 DEF BodyWrite
  <2>2. NextOp.call \in Writes
    BY <1>0, <2>1, Innermost DEF OperationsKnown, NextOp
  <2>3. CallsOf(none) \subseteq Reads /\ calls \in Seq(Writes)
    BY <2>2 DEF CallsOf, Range
  <2>4. PICK mid : Heard(stack, none, calls, mid) /\ stack' = Deliver(mid, Unit)
    BY <1>9, BodyHears
  <2> HIDE DEF calls, none
  <2>5. FramesKnown(mid) /\ FramesInv(mid)
    BY <1>0, <2>3, <2>4, KnownHeard DEF Heard
  <2>6. FramesKnown(stack')
    BY <2>4, <2>5, KnownDelivered
  <2>7. value' \in States
    BY <1>0, <2>1, <2>2 DEF OperationsKnown
  <2> QED BY <2>1, <2>6, <2>7 DEF VInv, FramesKnown
<1>10. CASE BodyCall
  <2>1. NextOp.op = "call" /\ ~panicked /\ Running
    BY <1>10 DEF BodyCall
  <2>2. NextOp.fun \in Funs
    BY <1>0, <2>1, Innermost DEF CallsKnown, NextOp
  <2>3. Call(NextOp.fun, NextOp.key, nextId) \/ Call(NextOp.fun, NextOp.key, Top.id)
    BY <1>10 DEF BodyCall
  <2> QED BY <2>1, <2>2, <2>3, KnownCall
<1>11. CASE BypassReturn \/ InsertReturn \/ InsertSwallow
  <2>1. /\ ~panicked /\ Running /\ stack' = Deliver(Front(stack), NextOp.value)
        /\ value' = value /\ (caches' = caches \/ caches' = Inserted)
    BY <1>11 DEF BypassReturn, InsertReturn, InsertSwallow, Close, Complete
  <2> DEFINE rest == Front(stack)
  <2>2. FramesKnown(rest) /\ FramesInv(rest)
    BY <1>0, <2>1, KnownShorter, Shorter DEF IInv, RecorderChain, Running
  <2> HIDE DEF rest
  <2>3. FramesKnown(stack')
    BY <2>1, <2>2, KnownDelivered DEF rest
  <2>4. \A f \in Funs : EntriesKnown(caches'[f])
    BY <2>1, KnownInserted DEF VInv
  <2> QED BY <1>0, <2>1, <2>3, <2>4 DEF VInv, FramesKnown
<1> QED BY <1>2, <1>3, <1>4, <1>5, <1>6, <1>7, <1>8, <1>9, <1>10, <1>11 DEF Next

(* The functions' calls and the recorded ones are calls there are *)
LEMMA KnownAlways == ASSUME OperationsKnown, CallsKnown PROVE Spec => [](IInv /\ VInv)
<1>1. Init => VInv
  <2> SUFFICES ASSUME Init PROVE VInv
    OBVIOUS
  <2>1. value \in States /\ stack = <<>> /\ DOMAIN <<>> = {}
    BY WorldsAssumption DEF Init
  <2>2. \A f \in Funs : caches[f] = {}
    BY DEF Init
  <2> QED BY <2>1, <2>2 DEF VInv, FramesKnown, EntriesKnown
<1>2. IInv /\ VInv /\ [Next]_vars => VInv'
  BY KnownStep
<1> QED BY <1>1, <1>2, Invariant, PTL DEF Spec

-----------------------------------------------------------------------------
(* The instances handed out.                                               *)

(* Storing answers adds them and nothing else *)
LEMMA Stored ==
  ASSUME NEW accs, accs \in Seq(Range(accs)), NEW id \in Nat, NEW answers,
         \A i \in DOMAIN accs : DOMAIN accs[i] \subseteq Reads,
         DOMAIN answers \subseteq Reads,
         NEW n \in Nat, Len(accs) <= n, id < n
  PROVE  LET new == StoreAnswers(accs, id, answers) IN
           /\ new \in Seq(Range(new)) /\ Len(new) <= n
           /\ \A i \in DOMAIN new : DOMAIN new[i] \subseteq Reads
           /\ \A j \in Nat : \A c \in Reads : HasAnswer(new, j, c) =>
                \/ j = id /\ c \in DOMAIN answers /\ Answer(new, j, c) = answers[c]
                \/ HasAnswer(accs, j, c) /\ Answer(new, j, c) = Answer(accs, j, c)
<1> DEFINE new == StoreAnswers(accs, id, answers)
<1>1. Len(accs) \in Nat /\ DOMAIN accs = 1 .. Len(accs)
  BY Elements
<1>2. CASE DOMAIN answers = {}
  BY <1>2 DEF StoreAnswers
<1>3. CASE DOMAIN answers # {}
  <2> DEFINE size == IF Len(accs) > id THEN Len(accs) ELSE id + 1
             grown == [i \in 1 .. size |-> IF i <= Len(accs) THEN accs[i] ELSE NoAnswers]
             at == [c \in DOMAIN grown[id + 1] \cup DOMAIN answers |->
                      IF c \in DOMAIN answers THEN answers[c] ELSE grown[id + 1][c]]
  <2>1. new = [grown EXCEPT ![id + 1] = at]
    BY <1>3 DEF StoreAnswers
  <2>2. size \in Nat /\ id + 1 \in 1 .. size /\ size <= n /\ Len(accs) <= size
    BY <1>1
  <2> HIDE DEF size
  <2>3. new = [i \in 1 .. size |-> new[i]]
    BY <2>1
  <2>4. new \in Seq(Range(new)) /\ Len(new) = size /\ DOMAIN new = 1 .. size
    BY <2>2, <2>3, FunctionIsSeq
  <2>5. \A i \in 1 .. size : new[i] = IF i = id + 1 THEN at ELSE grown[i]
    BY <2>1, <2>2
  <2>6. \A i \in 1 .. size :
          /\ DOMAIN grown[i] \subseteq Reads
          /\ \A c \in DOMAIN grown[i] : i <= Len(accs) /\ grown[i] = accs[i]
    <3> SUFFICES ASSUME NEW i \in 1 .. size
                 PROVE  /\ DOMAIN grown[i] \subseteq Reads
                        /\ \A c \in DOMAIN grown[i] : i <= Len(accs) /\ grown[i] = accs[i]
      OBVIOUS
    <3>1. CASE i <= Len(accs)
      <4>1. grown[i] = accs[i] /\ i \in DOMAIN accs
        BY <1>1, <2>2, <3>1
      <4> QED BY <3>1, <4>1
    <3>2. CASE ~(i <= Len(accs))
      <4>1. grown[i] = NoAnswers
        BY <3>2
      <4>2. DOMAIN NoAnswers = {}
        BY DEF NoAnswers
      <4> QED BY <4>1, <4>2
    <3> QED BY <3>1, <3>2
  <2> HIDE DEF new, grown
  <2>7. DOMAIN at = DOMAIN grown[id + 1] \cup DOMAIN answers
    OBVIOUS
  <2>8. \A c \in DOMAIN at : at[c] = IF c \in DOMAIN answers THEN answers[c] ELSE grown[id + 1][c]
    OBVIOUS
  <2> HIDE DEF at
  <2>9. \A i \in DOMAIN new : DOMAIN new[i] \subseteq Reads
    BY <2>2, <2>4, <2>5, <2>6, <2>7
  <2>10. ASSUME NEW j \in Nat, NEW c \in Reads, HasAnswer(new, j, c)
         PROVE  \/ j = id /\ c \in DOMAIN answers /\ Answer(new, j, c) = answers[c]
                \/ HasAnswer(accs, j, c) /\ Answer(new, j, c) = Answer(accs, j, c)
    <3>1. j + 1 \in 1 .. size /\ c \in DOMAIN new[j + 1]
      BY <2>2, <2>4, <2>10 DEF HasAnswer
    <3>2. CASE c \in DOMAIN grown[j + 1] /\ new[j + 1][c] = grown[j + 1][c]
      <4>1. j + 1 <= Len(accs) /\ grown[j + 1] = accs[j + 1]
        BY <2>6, <3>1, <3>2
      <4>2. HasAnswer(accs, j, c)
        BY <1>1, <3>2, <4>1 DEF HasAnswer
      <4> QED BY <3>2, <4>1, <4>2 DEF Answer
    <3>3. CASE ~(c \in DOMAIN grown[j + 1] /\ new[j + 1][c] = grown[j + 1][c])
      <4>1. j = id
        BY <2>5, <3>1, <3>3
      <4>2. new[j + 1] = at
        BY <2>5, <3>1, <4>1
      <4>3. c \in DOMAIN at
        BY <3>1, <4>2
      <4>4. c \in DOMAIN answers /\ at[c] = answers[c]
        BY <2>7, <2>8, <3>3, <4>1, <4>2, <4>3
      <4> QED BY <4>1, <4>2, <4>4 DEF Answer
    <3> QED BY <3>2, <3>3
  <2> QED BY <2>2, <2>4, <2>9, <2>10 DEF new
<1> QED BY <1>2, <1>3

(* A lookup remembers answers to calls there are *)
LEMMA AskedKnown ==
  ASSUME IInv, VInv, NEW fun \in Funs, NEW key, NEW id
  PROVE  {x.call : x \in Asked(fun, key, id)} \subseteq Reads
<1> SUFFICES ASSUME NEW x \in Asked(fun, key, id) PROVE x.call \in Reads
  OBVIOUS
<1>1. x \in Questions(caches[fun], key)
  BY DEF Asked
<1>2. PICK e \in OfKey(caches[fun], key) :
        x \in {[at |-> Prefix(e.path, n - 1), call |-> e.path[n].call] : n \in DOMAIN e.path}
  BY <1>1 DEF Questions
<1>3. PICK n \in DOMAIN e.path : x = [at |-> Prefix(e.path, n - 1), call |-> e.path[n].call]
  BY <1>2
<1>4. e \in caches[fun]
  BY DEF OfKey
<1>5. CallsOf(e.path) \subseteq Reads
  BY <1>4 DEF VInv, EntriesKnown
<1>6. e.path[n] \in Range(e.path)
  BY DEF Range
<1>7. x.call = e.path[n].call
  BY <1>3
<1> QED BY <1>5, <1>6, <1>7 DEF CallsOf

(* What Remember leaves *)
LEMMA Remembered ==
  ASSUME IInv, VInv, NInv, NEW fun \in Funs, NEW key, NEW id \in Nat, Remember(fun, key, id),
         NEW n \in Nat, nextId <= n, id < n
  PROVE  /\ accelerators' \in Seq(Range(accelerators')) /\ Len(accelerators') <= n
         /\ \A i \in DOMAIN accelerators' : DOMAIN accelerators'[i] \subseteq Reads
         /\ Original => accelerators' = accelerators
         /\ \A j \in Nat : \A c \in Reads : HasAnswer(accelerators', j, c) =>
              \/ j = id /\ Answer(accelerators', j, c) = Validate(id, c)
              \/ HasAnswer(accelerators, j, c)
                 /\ Answer(accelerators', j, c) = Answer(accelerators, j, c)
<1>1. /\ accelerators \in Seq(Range(accelerators)) /\ Len(accelerators) <= n
      /\ \A i \in DOMAIN accelerators : DOMAIN accelerators[i] \subseteq Reads
  <2>1. Len(accelerators) \in Nat
    BY Elements DEF NInv
  <2> QED BY <2>1 DEF NInv
<1>2. CASE Original
  BY <1>1, <1>2 DEF Remember
<1>3. CASE ~Original
  <2> DEFINE calls == {x.call : x \in Asked(fun, key, id)}
             answers == [c \in calls |-> Validate(id, c)]
             new == StoreAnswers(accelerators, id, answers)
  <2>1. accelerators' = new
    BY <1>3 DEF Remember
  <2>2. calls \subseteq Reads
    BY AskedKnown
  <2> HIDE DEF calls
  <2>3. DOMAIN answers \subseteq Reads /\ \A c \in DOMAIN answers : answers[c] = Validate(id, c)
    BY <2>2
  <2> HIDE DEF answers
  <2>4. /\ new \in Seq(Range(new)) /\ Len(new) <= n
        /\ \A i \in DOMAIN new : DOMAIN new[i] \subseteq Reads
        /\ \A j \in Nat : \A c \in Reads : HasAnswer(new, j, c) =>
             \/ j = id /\ c \in DOMAIN answers /\ Answer(new, j, c) = answers[c]
             \/ HasAnswer(accelerators, j, c) /\ Answer(new, j, c) = Answer(accelerators, j, c)
    BY <1>1, <2>3, Stored
  <2> HIDE DEF new
  <2> QED BY <1>3, <2>1, <2>3, <2>4
<1> QED BY <1>2, <1>3

(* The instances that frames work on *)
IdsIn(frames, lo, hi) == \A d \in DOMAIN frames : frames[d].id \in lo .. hi

(* Told or handed something, they stay *)
LEMMA IdsSame ==
  ASSUME NEW old, FramesInv(old), NEW new, Same(old, new), NEW lo, NEW hi, IdsIn(old, lo, hi)
  PROVE  IdsIn(new, lo, hi)
<1>1. DOMAIN old = 1 .. Len(old) /\ DOMAIN new = 1 .. Len(old)
  BY Elements DEF FramesInv, Shaped, Same
<1> QED BY <1>1 DEF IdsIn, Same

(* A call that begins adds its own *)
LEMMA IdsPushed ==
  ASSUME NEW frames, FramesInv(frames), NEW fun, NEW key, NEW id, NEW mode,
         NEW lo, NEW hi, IdsIn(frames, lo, hi), id \in lo .. hi
  PROVE  IdsIn(Append(frames, Frame(fun, key, id, mode)), lo, hi)
<1> DEFINE f == Frame(fun, key, id, mode)
           new == Append(frames, f)
<1>1. /\ frames \in Seq(Range(frames)) /\ DOMAIN frames = 1 .. Len(frames)
      /\ Len(frames) \in Nat
  BY Elements DEF FramesInv, Shaped
<1>2. f.id = id
  BY DEF Frame
<1> HIDE DEF f
<1>3. /\ DOMAIN new = 1 .. Len(frames) + 1 /\ new[Len(frames) + 1] = f
      /\ \A d \in 1 .. Len(frames) : new[d] = frames[d]
  BY <1>1, Appended
<1> HIDE DEF new
<1>4. ASSUME NEW d \in 1 .. Len(frames) + 1 PROVE new[d].id \in lo .. hi
  <2>1. CASE d = Len(frames) + 1
    BY <1>2, <1>3, <2>1
  <2>2. CASE d # Len(frames) + 1
    <3>1. d \in 1 .. Len(frames)
      BY <1>1, <2>2
    <3> QED BY <1>1, <1>3, <3>1 DEF IdsIn
  <2> QED BY <2>1, <2>2
<1>5. IdsIn(new, lo, hi)
  BY <1>3, <1>4 DEF IdsIn
<1> QED BY <1>5 DEF new, f

(* What a call does to the frames: it changes what they have heard and     *)
(* seen, or begins a new one.                                              *)
LEMMA CallFrames ==
  ASSUME IInv, ~panicked, NEW fun \in Funs, NEW key, NEW id, Call(fun, key, id)
  PROVE  \/ Same(stack, stack')
         \/ \E mid, mode : /\ FramesInv(mid) /\ Same(stack, mid)
                           /\ stack' = Append(mid, Frame(fun, key, id, mode))
<1>1. FramesInv(stack)
  BY DEF IInv
<1>2. Same(stack, stack)
  BY <1>1, NothingHeard DEF Heard
<1>3. CASE Hit(fun, key, id)
  <2>1. PICK e, mid :
          /\ e \in Hits(fun, key, id) /\ e \in caches[fun] /\ e.mutable \in Seq(Range(e.mutable))
          /\ caches' = [caches EXCEPT ![fun] = (@ \ {e}) \cup {[e EXCEPT !.age = 0]}]
          /\ value' = Replay(e.mutable, value)
          /\ Heard(stack, Hearing(fun, key, id), e.mutable, mid)
          /\ stack' = Deliver(mid, e.value)
          /\ Complete(mid, fun, key, value, e.value, TRUE, e.path)
    BY <1>3, HitHears
  <2>2. FramesInv(mid) /\ Same(stack, mid)
    BY <2>1 DEF Heard
  <2>3. Same(mid, stack')
    BY <2>1, <2>2, Delivered
  <2>4. Same(stack, stack')
    BY <2>2, <2>3 DEF Same
  <2> QED BY <2>4
<1>4. CASE Miss(fun, key, id)
  <2>1. FramesInv(Told(fun, key, id)) /\ Same(stack, Told(fun, key, id))
    BY <1>4, ToldKeeps DEF Miss
  <2>2. stack' = Append(Told(fun, key, id), Frame(fun, key, id, "recorded"))
    BY <1>4 DEF Miss
  <2> QED BY <2>1, <2>2
<1>5. CASE LookupPanic(fun, key, id)
  BY <1>2, <1>5 DEF LookupPanic
<1>6. CASE PureHit(fun, key)
  <2>1. \E e : stack' = Deliver(stack, e.value)
    BY <1>6 DEF PureHit, Complete
  <2> QED BY <1>1, <2>1, Delivered
<1>7. CASE PureMiss(fun, key, id) \/ Bypass(fun, key, id)
  <2>1. \E mode : stack' = Append(stack, Frame(fun, key, id, mode))
    BY <1>7 DEF PureMiss, Bypass
  <2> QED BY <1>1, <1>2, <2>1
<1> QED BY <1>3, <1>4, <1>5, <1>6, <1>7 DEF Call

(* In particular to the instances they work on *)
LEMMA IdsCall ==
  ASSUME IInv, ~panicked, NEW fun \in Funs, NEW key, NEW id, Call(fun, key, id),
         NEW lo, NEW hi, IdsIn(stack, lo, hi), id \in lo .. hi
  PROVE  IdsIn(stack', lo, hi)
<1>1. FramesInv(stack)
  BY DEF IInv
<1>2. CASE Same(stack, stack')
  BY <1>1, <1>2, IdsSame
<1>3. ASSUME NEW mid, NEW mode, FramesInv(mid), Same(stack, mid),
             stack' = Append(mid, Frame(fun, key, id, mode))
      PROVE  IdsIn(stack', lo, hi)
  <2>1. IdsIn(mid, lo, hi)
    BY <1>1, <1>3, IdsSame
  <2> QED BY <1>3, <2>1, IdsPushed
<1> QED BY <1>2, <1>3, CallFrames

(* A call on an instance handed out *)
LEMMA InstancesCall ==
  ASSUME IInv, VInv, NInv, ~panicked, NEW fun \in Funs, NEW key, NEW id, Call(fun, key, id),
         view' \in Nat, nextId' \in Nat, nextId <= nextId', id \in view' .. nextId' - 1,
         stack = <<>> \/ view' = view
  PROVE  NInv'
<1>1. IdsIn(stack, view', nextId' - 1)
  <2>1. CASE stack = <<>>
    BY <2>1 DEF IdsIn
  <2>2. CASE view' = view
    BY <2>2 DEF IdsIn, NInv
  <2> QED BY <2>1, <2>2
<1>2. IdsIn(stack', view', nextId' - 1)
  BY <1>1, IdsCall
<1>3. id \in Nat /\ id < nextId' /\ view' < nextId'
  <2>1. \A a, b \in Nat : \A i \in a .. b - 1 : i \in Nat /\ i < b /\ a < b
    OBVIOUS
  <2> QED BY <2>1
<1>4. /\ accelerators' \in Seq(Range(accelerators')) /\ Len(accelerators') <= nextId'
      /\ \A i \in DOMAIN accelerators' : DOMAIN accelerators'[i] \subseteq Reads
  <2>1. CASE Remember(fun, key, id)
    BY <1>3, <2>1, Remembered
  <2>2. CASE accelerators' = accelerators
    <3>1. Len(accelerators) \in Nat
      BY Elements DEF NInv
    <3> QED BY <2>2, <3>1 DEF NInv
  <2>3. Remember(fun, key, id) \/ accelerators' = accelerators
    BY DEF Call, Hit, Miss, LookupPanic, PureHit, PureMiss, Bypass
  <2> QED BY <2>1, <2>2, <2>3
<1> QED BY <1>2, <1>3, <1>4 DEF NInv, IdsIn

(* Every step uses instances handed out only *)
LEMMA InstancesStep ==
  ASSUME CallsKnown, IInv, VInv, NInv, [Next]_vars
  PROVE  NInv'
<1>0. FramesInv(stack) /\ view \in Nat /\ nextId \in Nat /\ view < nextId
      /\ IdsIn(stack, view, nextId - 1) /\ Len(accelerators) \in Nat
  BY Elements DEF IInv, NInv, IdsIn
<1>1. ASSUME Same(stack, stack') \/ (Same(Front(stack), stack') /\ Running),
             FramesInv(stack'), accelerators' = accelerators, view' = view, nextId' = nextId
      PROVE  NInv'
  <2>1. IdsIn(stack', view, nextId - 1)
    <3>1. CASE Same(stack, stack')
      BY <1>0, <3>1, IdsSame
    <3>2. CASE Same(Front(stack), stack') /\ Running
      <4>1. /\ DOMAIN stack = 1 .. Len(stack) /\ Len(stack) \in Nat \ {0}
            /\ Len(Front(stack)) = Len(stack) - 1
            /\ \A i \in 1 .. Len(stack) - 1 : Front(stack)[i] = stack[i]
        BY <1>0, <3>2, Innermost, Shortened DEF FramesInv, Shaped, Running
      <4>2. DOMAIN stack' = 1 .. Len(stack) - 1
        BY <3>2, <4>1, Elements DEF Same
      <4>3. \A i \in 1 .. Len(stack) - 1 : stack'[i].id = Front(stack)[i].id
        BY <3>2, <4>1 DEF Same
      <4>4. \A i \in 1 .. Len(stack) - 1 : i \in DOMAIN stack
        BY <4>1
      <4> QED BY <1>0, <4>1, <4>2, <4>3, <4>4 DEF IdsIn
    <3> QED BY <1>1, <3>1, <3>2
  <2> QED BY <1>1, <2>1 DEF NInv, IdsIn
<1>2. CASE UNCHANGED vars
  <2>1. stack' = stack /\ accelerators' = accelerators /\ view' = view /\ nextId' = nextId
    BY <1>2 DEF vars
  <2> QED BY <2>1 DEF NInv
<1>3. CASE TopCall
  <2>1. /\ ~panicked /\ stack = <<>>
        /\ \/ view' = nextId /\ nextId' = nextId + 1
           \/ view' = view /\ nextId' = nextId
    BY <1>3 DEF TopCall, Running
  <2>2. PICK fun \in Funs, key \in Args : Call(fun, key, view')
    BY <1>3 DEF TopCall
  <2>3. /\ view' \in Nat /\ nextId' \in Nat /\ nextId <= nextId'
        /\ view' \in view' .. nextId' - 1
    BY <1>0, <2>1
  <2> QED BY <2>1, <2>2, <2>3, InstancesCall
<1>4. CASE Edit
  <2>1. stack' = stack /\ stack = <<>> /\ accelerators' = accelerators
        /\ \/ view' = nextId /\ nextId' = nextId + 1
           \/ view' = view /\ nextId' = nextId
    BY <1>4 DEF Edit, Running
  <2>2. view' \in Nat /\ nextId' \in Nat /\ view' < nextId' /\ nextId <= nextId'
    BY <1>0, <2>1
  <2>3. Len(accelerators) <= nextId'
    BY <1>0, <2>2 DEF NInv
  <2> QED BY <2>1, <2>2, <2>3 DEF NInv
<1>5. CASE EvictAnswers
  <2> DEFINE new == EvictAccelerators(accelerators)
  <2>1. DOMAIN accelerators = 1 .. Len(accelerators)
    BY Elements DEF NInv
  <2>2. /\ accelerators' = new /\ stack' = stack /\ view' = view /\ nextId' = nextId
        /\ new = [i \in 1 .. Len(accelerators) |-> NoAnswers]
    BY <1>5, <2>1 DEF EvictAnswers, EvictAccelerators
  <2>3. new = [i \in 1 .. Len(accelerators) |-> new[i]] /\ \A i \in 1 .. Len(accelerators) : new[i] = NoAnswers
    BY <2>2
  <2>4. DOMAIN NoAnswers \subseteq Reads
    BY DEF NoAnswers
  <2> HIDE DEF new
  <2>5. new \in Seq(Range(new)) /\ Len(new) = Len(accelerators) /\ DOMAIN new = 1 .. Len(accelerators)
    BY <1>0, <2>3, FunctionIsSeq
  <2>6. \A i \in DOMAIN new : DOMAIN new[i] \subseteq Reads
    BY <2>3, <2>4, <2>5
  <2> QED BY <1>0, <2>2, <2>5, <2>6 DEF NInv
<1>6. CASE \E m \in 0 .. MaxAge : Evict(m)
  <2>1. stack' = stack /\ accelerators' = accelerators /\ view' = view /\ nextId' = nextId
    BY <1>6 DEF Evict
  <2> QED BY <2>1 DEF NInv
<1>7. CASE BodyRead \/ BodyWrite
  <2>1. \E mid, v : FramesInv(mid) /\ Same(stack, mid) /\ stack' = Deliver(mid, v)
    BY <1>7, BodyHears DEF Heard
  <2>2. PICK mid, v : FramesInv(mid) /\ Same(stack, mid) /\ stack' = Deliver(mid, v)
    BY <2>1
  <2>3. FramesInv(stack') /\ Same(mid, stack')
    BY <2>2, Delivered
  <2>4. Same(stack, stack')
    BY <2>2, <2>3 DEF Same
  <2> QED BY <1>1, <1>7, <2>3, <2>4 DEF BodyRead, BodyWrite
<1>8. CASE ReadPanic \/ InsertPanic
  BY <1>8 DEF ReadPanic, InsertPanic, NInv
<1>9. CASE BodyCall
  <2>1. NextOp.op = "call" /\ ~panicked /\ Running /\ view' = view
    BY <1>9 DEF BodyCall
  <2>2. NextOp.fun \in Funs
    BY <1>0, <2>1, Innermost DEF CallsKnown, NextOp
  <2>3. Top.id \in view .. nextId - 1
    BY <1>0, <2>1, Innermost DEF IdsIn
  <2>4. CASE nextId' = nextId + 1 /\ Call(NextOp.fun, NextOp.key, nextId)
    <3>1. /\ view' \in Nat /\ nextId' \in Nat /\ nextId <= nextId'
          /\ nextId \in view' .. nextId' - 1
      BY <1>0, <2>1, <2>4
    <3> QED BY <2>1, <2>2, <2>4, <3>1, InstancesCall
  <2>5. CASE nextId' = nextId /\ Call(NextOp.fun, NextOp.key, Top.id)
    <3>1. /\ view' \in Nat /\ nextId' \in Nat /\ nextId <= nextId'
          /\ Top.id \in view' .. nextId' - 1
      BY <1>0, <2>1, <2>3, <2>5
    <3> QED BY <2>1, <2>2, <2>5, <3>1, InstancesCall
  <2> QED BY <1>9, <2>4, <2>5 DEF BodyCall
<1>10. CASE BypassReturn \/ InsertReturn \/ InsertSwallow
  <2>1. /\ ~panicked /\ Running /\ stack' = Deliver(Front(stack), NextOp.value)
        /\ accelerators' = accelerators /\ view' = view /\ nextId' = nextId
    BY <1>10 DEF BypassReturn, InsertReturn, InsertSwallow, Close, Complete
  <2>2. FramesInv(Front(stack))
    BY <1>0, <2>1, Shorter DEF IInv, RecorderChain, Running
  <2>3. FramesInv(stack') /\ Same(Front(stack), stack')
    BY <2>1, <2>2, Delivered
  <2> QED BY <1>1, <2>1, <2>3
<1> QED BY <1>2, <1>3, <1>4, <1>5, <1>6, <1>7, <1>8, <1>9, <1>10 DEF Next

-----------------------------------------------------------------------------
(* Types.                                                                  *)

(* What a step does to the bookkeeping: it counts an edit at most, and     *)
(* only an insertion that panics moves the recorders in doing so.          *)
Keeps ==
  /\ edits' = edits \/ (edits < MaxEdits /\ edits' = edits + 1)
  /\ wasHit' = wasHit \/ wasHit' \in BOOLEAN
  /\ panicked' = panicked \/ panicked' = TRUE
  /\ ~panicked' \/ (slot' = slot /\ stack' = stack) \/ InsertPanic

(* A call changes flags only to flags, and panics only in an insertion or a *)
(* lookup                                                                   *)
LEMMA KeepsCall ==
  ASSUME ~panicked, NEW fun, NEW key, NEW id, Call(fun, key, id)
  PROVE  Keeps
<1>1. CASE Hit(fun, key, id)
  BY <1>1 DEF Hit, Keeps
<1>2. CASE Miss(fun, key, id)
  BY <1>2 DEF Miss, Keeps
<1>3. CASE LookupPanic(fun, key, id)
  BY <1>3 DEF LookupPanic, Keeps
<1>4. CASE PureHit(fun, key)
  BY <1>4 DEF PureHit, Keeps
<1>5. CASE PureMiss(fun, key, id)
  BY <1>5 DEF PureMiss, Keeps
<1>6. CASE Bypass(fun, key, id)
  BY <1>6 DEF Bypass, Keeps
<1> QED BY <1>1, <1>2, <1>3, <1>4, <1>5, <1>6 DEF Call

(* and so does every step *)
LEMMA KeepsStep ==
  ASSUME [Next]_vars
  PROVE  Keeps
<1>1. CASE UNCHANGED vars
  BY <1>1 DEF vars, Keeps
<1>2. CASE TopCall
  <2>1. ~panicked /\ \E f, k, id : Call(f, k, id)
    BY <1>2 DEF TopCall
  <2> QED BY <2>1, KeepsCall
<1>3. CASE Edit
  BY <1>3 DEF Edit, Keeps
<1>4. CASE EvictAnswers
  BY <1>4 DEF EvictAnswers, Keeps
<1>5. CASE \E m \in 0 .. MaxAge : Evict(m)
  BY <1>5 DEF Evict, Keeps
<1>6. CASE BodyRead
  BY <1>6 DEF BodyRead, Keeps
<1>7. CASE ReadPanic
  BY <1>7 DEF ReadPanic, Keeps
<1>8. CASE BodyWrite
  BY <1>8 DEF BodyWrite, Keeps
<1>9. CASE BodyCall
  <2>1. ~panicked /\ \E f, k, id : Call(f, k, id)
    BY <1>9 DEF BodyCall
  <2> QED BY <2>1, KeepsCall
<1>10. CASE BypassReturn
  BY <1>10 DEF BypassReturn, Keeps
<1>11. CASE InsertReturn
  BY <1>11 DEF InsertReturn, Close, RegisterMiss, Keeps
<1>12. CASE InsertSwallow
  BY <1>12 DEF InsertSwallow, Close, RegisterMiss, Keeps
<1>13. CASE InsertPanic
  BY <1>13 DEF InsertPanic, Keeps
<1> QED
  BY <1>1, <1>2, <1>3, <1>4, <1>5, <1>6, <1>7, <1>8, <1>9, <1>10, <1>11, <1>12, <1>13 DEF Next

(* The recorders attached, even when a panic has ended the program *)
LEMMA SlotStep ==
  ASSUME IInv, IInv', SInv, [Next]_vars
  PROVE  SInv'
<1>1. FramesInv(stack)
  BY DEF IInv
<1>2. edits' \in 0 .. MaxEdits /\ wasHit' \in BOOLEAN /\ panicked' \in BOOLEAN
  <2>1. edits \in 0 .. MaxEdits /\ wasHit \in BOOLEAN /\ panicked \in BOOLEAN /\ MaxEdits \in Nat
    BY BoundsAssumption DEF SInv
  <2>2. edits' \in 0 .. MaxEdits
    <3>1. edits' = edits \/ (edits < MaxEdits /\ edits' = edits + 1)
      BY KeepsStep DEF Keeps
    <3> QED BY <2>1, <3>1
  <2>3. wasHit' = wasHit \/ wasHit' \in BOOLEAN
    BY KeepsStep DEF Keeps
  <2>4. panicked' = panicked \/ panicked' = TRUE
    BY KeepsStep DEF Keeps
  <2> QED BY <2>1, <2>2, <2>3, <2>4
<1>3. CASE ~panicked'
  <2>1. IsChain(slot', stack', Len(stack'))
    BY <1>3 DEF IInv, RecorderChain
  <2>2. slot' \in Seq(Range(slot')) /\ Range(slot') \subseteq 1 .. Len(stack')
    BY <2>1 DEF IsChain
  <2>3. slot' \in Seq(1 .. Len(stack'))
    BY <2>2
  <2> QED BY <1>2, <2>3 DEF SInv
<1>4. CASE slot' = slot /\ stack' = stack
  BY <1>2, <1>4 DEF SInv
<1>5. CASE InsertPanic
  <2>1. Running /\ ~panicked /\ slot' = Detached /\ stack' = stack
    BY <1>5 DEF InsertPanic
  <2> DEFINE rest == Front(stack)
  <2>2. IsChain(Detached, rest, Len(rest)) /\ Len(rest) = Len(stack) - 1
    BY <1>1, <2>1, Shorter, Shortened DEF IInv, RecorderChain, Running, Detached, Top, FramesInv, Shaped
  <2> HIDE DEF rest
  <2>3. Len(stack) \in Nat
    BY <1>1, Elements DEF FramesInv, Shaped
  <2>4. Range(Detached) \subseteq 1 .. Len(stack) /\ Detached \in Seq(Range(Detached))
    BY <2>2, <2>3 DEF IsChain
  <2>5. slot' \in Seq(1 .. Len(stack'))
    BY <2>1, <2>4
  <2> QED BY <1>2, <2>5 DEF SInv
<1>6. ~panicked' \/ (slot' = slot /\ stack' = stack) \/ InsertPanic
  BY KeepsStep DEF Keeps
<1> QED BY <1>3, <1>4, <1>5, <1>6

(* Functions are called with arguments there are *)
KeysKnown ==
  \A f \in Funs, k \in Args : \A obs :
    Body(f, k, obs).op = "call" => Body(f, k, obs).key \in Args

(* Frames and the keys they stand for *)
KeysIn(frames) == \A d \in DOMAIN frames : frames[d].key \in Args

(* Entries and what eviction looks at *)
EntriesAged(entries) == \A e \in entries : e.key \in Args /\ e.age \in 0 .. MaxAge

(* A call with an argument there is *)
LEMMA KeysCall ==
  ASSUME IInv, KInv, ~panicked, NEW fun \in Funs, NEW key \in Args, NEW id, Call(fun, key, id)
  PROVE  KInv'
<1>1. /\ FramesInv(stack) /\ KeysIn(stack) /\ DOMAIN caches = Funs
      /\ \A f \in Funs : EntriesAged(caches[f])
  BY DEF IInv, KInv, KeysIn, EntriesAged, CachesShaped
<1>2. ASSUME NEW old, FramesInv(old), NEW new, Same(old, new), KeysIn(old) PROVE KeysIn(new)
  <2>1. DOMAIN old = 1 .. Len(old) /\ DOMAIN new = 1 .. Len(old)
    BY <1>2, Elements DEF FramesInv, Shaped, Same
  <2> QED BY <1>2, <2>1 DEF KeysIn, Same
<1>3. KeysIn(stack')
  <2>1. CASE Same(stack, stack')
    BY <1>1, <1>2, <2>1
  <2>2. ASSUME NEW mid, NEW mode, FramesInv(mid), Same(stack, mid),
               stack' = Append(mid, Frame(fun, key, id, mode))
        PROVE  KeysIn(stack')
    <3> DEFINE f == Frame(fun, key, id, mode)
    <3>1. mid \in Seq(Range(mid)) /\ DOMAIN mid = 1 .. Len(mid) /\ Len(mid) \in Nat
      BY <2>2, Elements DEF FramesInv, Shaped
    <3>2. f.key = key
      BY DEF Frame
    <3> HIDE DEF f
    <3>3. /\ DOMAIN stack' = 1 .. Len(mid) + 1 /\ stack'[Len(mid) + 1] = f
          /\ \A d \in 1 .. Len(mid) : stack'[d] = mid[d]
      BY <2>2, <3>1, Appended DEF f
    <3>4. KeysIn(mid)
      BY <1>1, <1>2, <2>2
    <3>5. \A d \in 1 .. Len(mid) + 1 : d = Len(mid) + 1 \/ d \in DOMAIN mid
      BY <3>1
    <3> QED BY <3>1, <3>2, <3>3, <3>4, <3>5 DEF KeysIn
  <2> QED BY <2>1, <2>2, CallFrames
<1>4. \A f \in Funs : EntriesAged(caches'[f])
  <2>1. ASSUME NEW e \in caches[fun], caches' = [caches EXCEPT ![fun] = (@ \ {e}) \cup {[e EXCEPT !.age = 0]}]
        PROVE  \A f \in Funs : EntriesAged(caches'[f])
    <3> DEFINE y == [e EXCEPT !.age = 0]
    <3>1. y.key = e.key /\ y.age = 0
      <4>1. DOMAIN e = EntryFields
        BY DEF IInv, CachesShaped, EntriesShaped
      <4> QED BY <4>1 DEF EntryFields
    <3>2. 0 \in 0 .. MaxAge
      BY BoundsAssumption
    <3> HIDE DEF y
    <3>3. EntriesAged((caches[fun] \ {e}) \cup {y})
      BY <1>1, <3>1, <3>2 DEF EntriesAged
    <3>4. caches' = [caches EXCEPT ![fun] = (caches[fun] \ {e}) \cup {y}]
      BY <2>1 DEF y
    <3> QED BY <1>1, <3>3, <3>4
  <2>2. CASE Hit(fun, key, id)
    <3>1. PICK e \in Hits(fun, key, id) :
            caches' = [caches EXCEPT ![fun] = (@ \ {e}) \cup {[e EXCEPT !.age = 0]}]
      BY <2>2 DEF Hit
    <3>2. e \in caches[fun]
      BY DEF Hits, Matching, OfKey
    <3> QED BY <2>1, <3>1, <3>2
  <2>3. CASE PureHit(fun, key)
    <3>1. PICK e \in OfKey(caches[fun], key) :
            caches' = [caches EXCEPT ![fun] = (@ \ {e}) \cup {[e EXCEPT !.age = 0]}]
      BY <2>3 DEF PureHit
    <3>2. e \in caches[fun]
      BY DEF OfKey
    <3> QED BY <2>1, <3>1, <3>2
  <2>4. CASE caches' = caches
    BY <1>1, <2>4
  <2> QED BY <2>2, <2>3, <2>4 DEF Call, Miss, LookupPanic, PureMiss, Bypass
<1> QED BY <1>3, <1>4 DEF KInv, KeysIn, EntriesAged

(* Keys and ages, at every step *)
LEMMA KeysStep ==
  ASSUME CallsKnown, KeysKnown, IInv, KInv, [Next]_vars
  PROVE  KInv'
<1>1. /\ FramesInv(stack) /\ KeysIn(stack) /\ DOMAIN caches = Funs /\ MaxAge \in Nat
      /\ \A f \in Funs : EntriesAged(caches[f])
  BY BoundsAssumption DEF IInv, KInv, KeysIn, EntriesAged, CachesShaped
<1>2. ASSUME Same(stack, stack') \/ (Same(Front(stack), stack') /\ Running),
             \A f \in Funs : EntriesAged(caches'[f])
      PROVE  KInv'
  <2>1. DOMAIN stack = 1 .. Len(stack) /\ Len(stack) \in Nat
    BY <1>1, Elements DEF FramesInv, Shaped
  <2>2. CASE Same(stack, stack')
    <3>1. DOMAIN stack' = 1 .. Len(stack)
      BY <2>1, <2>2, Elements DEF Same
    <3> QED BY <1>1, <1>2, <2>1, <2>2, <3>1 DEF KInv, KeysIn, EntriesAged, Same
  <2>3. CASE Same(Front(stack), stack') /\ Running
    <3>1. /\ Len(stack) \in Nat \ {0} /\ Len(Front(stack)) = Len(stack) - 1
          /\ \A i \in 1 .. Len(stack) - 1 : Front(stack)[i] = stack[i]
      BY <1>1, <2>3, Innermost, Shortened DEF FramesInv, Shaped, Running
    <3>2. DOMAIN stack' = 1 .. Len(stack) - 1
      BY <2>3, <3>1, Elements DEF Same
    <3>3. \A i \in 1 .. Len(stack) - 1 : stack'[i].key = Front(stack)[i].key /\ i \in DOMAIN stack
      BY <2>1, <2>3, <3>1 DEF Same
    <3> QED BY <1>1, <1>2, <3>1, <3>2, <3>3 DEF KInv, KeysIn, EntriesAged
  <2> QED BY <1>2, <2>2, <2>3
<1>3. Same(stack, stack)
  BY <1>1, NothingHeard DEF Heard
<1>4. CASE UNCHANGED vars
  <2>1. stack' = stack /\ caches' = caches
    BY <1>4 DEF vars
  <2> QED BY <2>1 DEF KInv
<1>5. CASE TopCall
  <2>1. ~panicked /\ \E f \in Funs, k \in Args : \E id : Call(f, k, id)
    BY <1>5 DEF TopCall
  <2> QED BY <2>1, KeysCall
<1>6. CASE Edit \/ EvictAnswers \/ ReadPanic \/ InsertPanic
  <2>1. stack' = stack /\ caches' = caches
    BY <1>6 DEF Edit, EvictAnswers, ReadPanic, InsertPanic
  <2> QED BY <2>1 DEF KInv
<1>7. ASSUME NEW m \in 0 .. MaxAge, Evict(m) PROVE KInv'
  <2>1. /\ stack' = stack
        /\ \A f \in Funs : caches'[f] =
             {[e EXCEPT !.age = @ + 1] : e \in {x \in caches[f] : x.age + 1 <= m}}
    BY <1>7 DEF Evict
  <2>2. ASSUME NEW f \in Funs, NEW g \in caches'[f] PROVE g.key \in Args /\ g.age \in 0 .. MaxAge
    <3>1. PICK e \in caches[f] : e.age + 1 <= m /\ g = [e EXCEPT !.age = @ + 1]
      BY <2>1, <2>2
    <3>2. DOMAIN e = EntryFields
      BY DEF IInv, CachesShaped, EntriesShaped
    <3>3. g.key = e.key /\ g.age = e.age + 1
      BY <3>1, <3>2 DEF EntryFields
    <3>4. e.key \in Args /\ e.age \in 0 .. MaxAge
      BY <1>1 DEF EntriesAged
    <3> QED BY <1>1, <3>1, <3>3, <3>4
  <2> QED BY <1>1, <2>1, <2>2 DEF KInv, KeysIn
<1>8. CASE BodyRead \/ BodyWrite
  <2>1. \E mid, v : FramesInv(mid) /\ Same(stack, mid) /\ stack' = Deliver(mid, v)
    BY <1>8, BodyHears DEF Heard
  <2>2. PICK mid, v : FramesInv(mid) /\ Same(stack, mid) /\ stack' = Deliver(mid, v)
    BY <2>1
  <2>3. FramesInv(stack') /\ Same(mid, stack')
    BY <2>2, Delivered
  <2>4. Same(stack, stack')
    BY <2>2, <2>3 DEF Same
  <2>5. caches' = caches
    BY <1>8 DEF BodyRead, BodyWrite
  <2> QED BY <1>1, <1>2, <2>4, <2>5
<1>9. CASE BodyCall
  <2>1. /\ NextOp.op = "call" /\ ~panicked /\ Running
        /\ \E id : Call(NextOp.fun, NextOp.key, id)
    BY <1>9 DEF BodyCall
  <2>2. Top.fun \in Funs /\ Top.key \in Args
    BY <1>1, <2>1, Innermost DEF KeysIn
  <2>3. NextOp.fun \in Funs /\ NextOp.key \in Args
    BY <2>1, <2>2 DEF CallsKnown, KeysKnown, NextOp
  <2> QED BY <2>1, <2>3, KeysCall
<1>10. CASE BypassReturn \/ InsertReturn \/ InsertSwallow
  <2>1. /\ ~panicked /\ Running /\ stack' = Deliver(Front(stack), NextOp.value)
        /\ caches' = caches \/ caches' = Inserted
    BY <1>10 DEF BypassReturn, InsertReturn, InsertSwallow, Close, Complete
  <2>2. FramesInv(Front(stack))
    BY <1>1, <2>1, Shorter DEF IInv, RecorderChain, Running
  <2>3. FramesInv(stack') /\ Same(Front(stack), stack')
    BY <2>1, <2>2, Delivered
  <2>4. ASSUME NEW path, caches' = [caches EXCEPT ![Top.fun] = @ \cup {NewEntry(path)}]
        PROVE  \A f \in Funs : EntriesAged(caches'[f])
    <3> DEFINE y == NewEntry(path)
    <3>1. y.key = Top.key /\ y.age = 0 /\ 0 \in 0 .. MaxAge /\ Top.key \in Args /\ Top.fun \in Funs
      BY <1>1, <2>1, Innermost DEF NewEntry, KeysIn
    <3> HIDE DEF y
    <3>2. EntriesAged(caches[Top.fun] \cup {y})
      BY <1>1, <3>1 DEF EntriesAged
    <3>3. caches' = [caches EXCEPT ![Top.fun] = caches[Top.fun] \cup {y}]
      BY <2>4 DEF y
    <3> QED BY <1>1, <3>1, <3>2, <3>3
  <2>5. \A f \in Funs : EntriesAged(caches'[f])
    BY <1>1, <2>1, <2>4 DEF Inserted, Tree
  <2> QED BY <1>2, <2>1, <2>3, <2>5
<1> QED BY <1>4, <1>5, <1>6, <1>7, <1>8, <1>9, <1>10 DEF Next

(* A call that completes leaves one around it, or is the last top-level one *)
LEMMA CompletesLast ==
  ASSUME NEW frames, FramesInv(frames), NEW fun, NEW key, NEW before, NEW val, NEW hit, NEW path,
         Complete(frames, fun, key, before, val, hit, path)
  PROVE  Running' \/ last'.op = "call"
<1>1. CASE frames = <<>>
  BY <1>1 DEF Complete
<1>2. CASE frames # <<>>
  <2>1. Same(frames, stack')
    BY Delivered DEF Complete
  <2>2. Len(frames) \in Nat \ {0}
    BY <1>2, Shortened DEF FramesInv, Shaped
  <2>3. stack' # <<>>
    BY <2>1, <2>2 DEF Same
  <2> QED BY <2>3 DEF Running
<1> QED BY <1>1, <1>2

(* A call leaves something running, completes, or panics and changes nothing *)
LEMMA CallLeaves ==
  ASSUME IInv, ~panicked, NEW fun \in Funs, NEW key, NEW id, Call(fun, key, id)
  PROVE  Running' \/ last'.op = "call" \/ UNCHANGED <<stack, caches, last>>
<1>1. FramesInv(stack)
  BY DEF IInv
<1>2. CASE Hit(fun, key, id)
  <2>1. PICK e, mid : /\ Heard(stack, Hearing(fun, key, id), e.mutable, mid)
                      /\ Complete(mid, fun, key, value, e.value, TRUE, e.path)
    BY <1>2, HitHears
  <2> QED BY <2>1, CompletesLast DEF Heard
<1>3. CASE PureHit(fun, key)
  <2>1. \E e : Complete(stack, fun, key, value, e.value, TRUE, <<>>)
    BY <1>3 DEF PureHit
  <2> QED BY <1>1, <2>1, CompletesLast
<1>4. CASE Miss(fun, key, id) \/ PureMiss(fun, key, id) \/ Bypass(fun, key, id)
  <2>1. ASSUME NEW mid, NEW f, FramesInv(mid), stack' = Append(mid, f) PROVE Running'
    <3>1. mid \in Seq(Range(mid)) /\ Len(mid) \in Nat
      BY <2>1, Elements DEF FramesInv, Shaped
    <3>2. Len(stack') = Len(mid) + 1
      BY <2>1, <3>1, Appended
    <3>3. stack' # <<>>
      BY <3>1, <3>2
    <3> QED BY <3>3 DEF Running
  <2>2. CASE Miss(fun, key, id)
    <3>1. FramesInv(Told(fun, key, id))
      BY <1>1, <2>2, ToldHeard DEF Miss, Heard, IInv, RecorderChain
    <3> QED BY <2>1, <2>2, <3>1 DEF Miss
  <2>3. CASE PureMiss(fun, key, id) \/ Bypass(fun, key, id)
    BY <1>1, <2>1, <2>3 DEF PureMiss, Bypass
  <2> QED BY <1>4, <2>2, <2>3
<1>5. CASE LookupPanic(fun, key, id)
  BY <1>5 DEF LookupPanic
<1> QED BY <1>2, <1>3, <1>4, <1>5 DEF Call

(* Eviction leaves what is young enough, and so do all steps up to the     *)
(* next call or edit that completes.                                       *)
LEMMA EvictedStep ==
  ASSUME CallsKnown, IInv, KInv, EvictedByAge, [Next]_vars
  PROVE  EvictedByAge'
<1>1. ASSUME Running' \/ last'.op # "evict" \/ UNCHANGED <<stack, caches, last>>
      PROVE  EvictedByAge'
  BY <1>1 DEF EvictedByAge, Running
<1>2. FramesInv(stack)
  BY DEF IInv
<1>3. CASE TopCall
  <2>1. ~panicked /\ \E f \in Funs, k \in Args : \E id : Call(f, k, id)
    BY <1>3 DEF TopCall
  <2> QED BY <1>1, <2>1, CallLeaves
<1>4. CASE BodyCall
  <2>1. /\ NextOp.op = "call" /\ ~panicked /\ Running
        /\ \E id : Call(NextOp.fun, NextOp.key, id)
    BY <1>4 DEF BodyCall
  <2>2. Top.fun \in Funs
    BY <1>2, <2>1, Innermost DEF FramesInv, Shaped, Running, Top
  <2>3. NextOp.fun \in Funs
    BY <2>1, <2>2 DEF CallsKnown, NextOp
  <2> QED BY <1>1, <2>1, <2>3, CallLeaves
<1>5. CASE Edit \/ EvictAnswers
  BY <1>1, <1>5 DEF Edit, EvictAnswers
<1>6. ASSUME NEW m \in 0 .. MaxAge, Evict(m) PROVE EvictedByAge'
  <2>1. /\ last' = [op |-> "evict", maxAge |-> m]
        /\ \A f \in Funs : caches'[f] =
             {[e EXCEPT !.age = @ + 1] : e \in {x \in caches[f] : x.age + 1 <= m}}
    BY <1>6 DEF Evict
  <2>2. ASSUME NEW f \in Funs, NEW g \in caches'[f] PROVE g.age \in 1 .. m
    <3>1. PICK e \in caches[f] : e.age + 1 <= m /\ g = [e EXCEPT !.age = @ + 1]
      BY <2>1, <2>2
    <3>2. DOMAIN e = EntryFields
      BY DEF IInv, CachesShaped, EntriesShaped
    <3>3. g.age = e.age + 1
      BY <3>1, <3>2 DEF EntryFields
    <3>4. e.age \in 0 .. MaxAge /\ MaxAge \in Nat
      BY BoundsAssumption DEF KInv, EntriesAged
    <3> QED BY <3>1, <3>3, <3>4
  <2> QED BY <2>1, <2>2 DEF EvictedByAge
<1>7. CASE BodyRead \/ BodyWrite
  <2>1. \E mid, v : FramesInv(mid) /\ Same(stack, mid) /\ stack' = Deliver(mid, v)
    BY <1>7, BodyHears DEF Heard
  <2>2. PICK mid, v : FramesInv(mid) /\ Same(stack, mid) /\ stack' = Deliver(mid, v)
    BY <2>1
  <2>3. Len(stack') = Len(stack)
    BY <2>2, Delivered DEF Same
  <2>4. Running
    BY <1>7 DEF BodyRead, BodyWrite
  <2>5. Len(stack) \in Nat \ {0}
    BY <1>2, <2>4, Innermost DEF FramesInv, Shaped, Running
  <2>6. stack' # <<>>
    BY <2>3, <2>5
  <2> QED BY <1>1, <2>6 DEF Running
<1>8. CASE BypassReturn \/ InsertReturn \/ InsertSwallow
  <2>1. /\ ~panicked /\ Running
        /\ Complete(Front(stack), Top.fun, Top.key, Top.before, NextOp.value, FALSE, <<>>)
    BY <1>8 DEF BypassReturn, InsertReturn, InsertSwallow, Close
  <2>2. FramesInv(Front(stack))
    BY <1>2, <2>1, Shorter DEF IInv, RecorderChain, Running
  <2> QED BY <1>1, <2>1, <2>2, CompletesLast
<1>9. CASE ReadPanic \/ UNCHANGED vars
  BY <1>1, <1>9 DEF ReadPanic, vars
<1>10. CASE InsertPanic
  <2>1. stack' = stack /\ Running
    BY <1>10 DEF InsertPanic
  <2> QED BY <1>1, <2>1 DEF Running
<1> QED BY <1>3, <1>4, <1>5, <1>6, <1>7, <1>8, <1>9, <1>10 DEF Next

(* The invariant that types follow from, of programs whose operations,     *)
(* calls and keys are those there are.                                     *)
LEMMA TypesAlways ==
  ASSUME OperationsKnown, CallsKnown, KeysKnown
  PROVE  Spec => [](IInv /\ VInv /\ NInv /\ SInv /\ KInv /\ EvictedByAge)
<1>1. Init => NInv /\ SInv /\ KInv /\ EvictedByAge
  <2> SUFFICES ASSUME Init PROVE NInv /\ SInv /\ KInv /\ EvictedByAge
    OBVIOUS
  <2>1. /\ stack = <<>> /\ slot = <<>> /\ accelerators = <<>> /\ view = 0 /\ nextId = 1
        /\ edits = 0 /\ wasHit = FALSE /\ panicked = FALSE
        /\ \A f \in Funs : caches[f] = {}
    BY DEF Init
  <2>2. DOMAIN <<>> = {} /\ Len(<<>>) = 0 /\ <<>> \in Seq(Range(<<>>))
    OBVIOUS
  <2>3. NInv
    BY <2>1, <2>2 DEF NInv
  <2>4. SInv
    <3>1. slot \in Seq(1 .. Len(stack))
      BY <2>1
    <3>2. edits \in 0 .. MaxEdits
      BY <2>1, BoundsAssumption
    <3>3. wasHit \in BOOLEAN /\ panicked \in BOOLEAN
      BY <2>1
    <3> QED BY <3>1, <3>2, <3>3 DEF SInv
  <2>5. KInv
    BY <2>1, <2>2 DEF KInv
  <2>6. EvictedByAge
    BY DEF Init, EvictedByAge
  <2> QED BY <2>3, <2>4, <2>5, <2>6
<1>2. IInv /\ IInv' /\ VInv /\ NInv /\ SInv /\ KInv /\ EvictedByAge /\ [Next]_vars
        => NInv' /\ SInv' /\ KInv' /\ EvictedByAge'
  BY InstancesStep, SlotStep, KeysStep, EvictedStep
<1> QED BY <1>1, <1>2, KnownAlways, PTL DEF Spec

(* The shape of the state is as TypeOK says: recorders belong to running   *)
(* calls, answers to instances handed out, and eviction leaves no entry    *)
(* older than it was told.                                                 *)
THEOREM TypesCorrect ==
  ASSUME OperationsKnown, CallsKnown, KeysKnown
  PROVE  Spec => []TypeOK
<1>1. IInv /\ VInv /\ NInv /\ SInv /\ KInv /\ EvictedByAge => TypeOK
  <2> SUFFICES ASSUME IInv, VInv, NInv, SInv, KInv, EvictedByAge PROVE TypeOK
    OBVIOUS
  <2>1. value \in States
    BY DEF VInv
  <2>2. \A f \in Funs : \A e \in caches[f] : CallsOf(e.path) \subseteq Reads
    BY DEF VInv, EntriesKnown
  <2>3. DOMAIN caches = Funs
    BY DEF IInv, CachesShaped
  <2>4. /\ view \in Nat /\ nextId \in Nat /\ view < nextId /\ Len(accelerators) <= nextId
        /\ \A i \in DOMAIN accelerators : DOMAIN accelerators[i] \subseteq Reads
    BY DEF NInv
  <2>5. \A f \in Funs : \A e \in caches[f] : e.key \in Args /\ e.age \in 0 .. MaxAge
    BY DEF KInv
  <2> QED BY <2>1, <2>2, <2>3, <2>4, <2>5 DEF TypeOK, SInv
<1> QED BY <1>1, TypesAlways, PTL

-----------------------------------------------------------------------------
(* Answers.                                                                *)

(* The instances from lo on have the answers of the current value *)
AnswersOn(lo) == \A id \in Nat : id >= lo => Current(id)

(* The value answers as it did, or there is nothing left to compare it to *)
LEMMA AnswersStay ==
  ASSUME NEW lo \in Nat, AnswersOn(lo), accelerators' = accelerators,
         \A c \in Reads : Result(c, value') = Result(c, value)
  PROVE  AnswersOn(lo)'
BY DEF AnswersOn, Current, HasAnswer, Answer

(* An instance not handed out has no answers *)
LEMMA AnswersNew ==
  ASSUME NInv, NEW lo \in Nat, nextId <= lo
  PROVE  AnswersOn(lo)
<1> SUFFICES ASSUME NEW id \in Nat, id >= lo, NEW c \in Reads, HasAnswer(accelerators, id, c)
             PROVE  FALSE
  BY DEF AnswersOn, Current
<1>1. id < Len(accelerators) /\ Len(accelerators) <= nextId
  BY DEF HasAnswer, NInv
<1>2. Len(accelerators) \in Nat /\ nextId \in Nat
  BY Elements DEF NInv
<1> QED BY <1>1, <1>2

(* Writing changes nothing that is read *)
LEMMA CallNeutral ==
  ASSUME OperationsKnown, Neutral, IInv, VInv, ~panicked,
         NEW fun \in Funs, NEW key, NEW id, Call(fun, key, id)
  PROVE  \A c \in Reads : Result(c, value') = Result(c, value)
<1>1. CASE Hit(fun, key, id)
  <2>1. PICK e \in Hits(fun, key, id) : value' = Replay(e.mutable, value)
    BY <1>1 DEF Hit
  <2>2. e \in caches[fun]
    BY DEF Hits, Matching, OfKey
  <2>3. e.mutable \in Seq(Writes) /\ value \in States
    BY <2>2 DEF VInv, EntriesKnown
  <2> QED BY <2>1, <2>3, ReplayKnown
<1>2. CASE ~Hit(fun, key, id)
  <2>1. value' = value
    BY <1>2 DEF Call, Miss, LookupPanic, PureHit, PureMiss, Bypass
  <2> QED BY <2>1
<1> QED BY <1>1, <1>2

(* What a call asks, its instance remembers as the value answers it *)
LEMMA AnswersCall ==
  ASSUME OperationsKnown, Neutral, IInv, VInv, NInv, ~panicked, ~Original,
         NEW fun \in Funs, NEW key, NEW id \in Nat, Call(fun, key, id),
         NEW lo \in Nat, id >= lo, AnswersOn(lo), nextId <= nextId', nextId' \in Nat, id < nextId'
  PROVE  AnswersOn(lo)'
<1>1. \A c \in Reads : Result(c, value') = Result(c, value)
  BY CallNeutral
<1>2. CASE accelerators' = accelerators
  BY <1>1, <1>2, AnswersStay
<1>3. CASE Remember(fun, key, id)
  <2>1. \A j \in Nat : \A c \in Reads : HasAnswer(accelerators', j, c) =>
          \/ j = id /\ Answer(accelerators', j, c) = Validate(id, c)
          \/ HasAnswer(accelerators, j, c)
             /\ Answer(accelerators', j, c) = Answer(accelerators, j, c)
    BY <1>3, Remembered
  <2>2. \A c \in Reads : Validate(id, c) = Result(c, value)
    BY DEF Validate, AnswersOn, Current
  <2>3. ASSUME NEW j \in Nat, j >= lo, NEW c \in Reads, HasAnswer(accelerators', j, c)
        PROVE  Answer(accelerators', j, c) = Result(c, value')
    <3>1. CASE j = id /\ Answer(accelerators', j, c) = Validate(id, c)
      BY <1>1, <2>2, <3>1
    <3>2. CASE HasAnswer(accelerators, j, c)
               /\ Answer(accelerators', j, c) = Answer(accelerators, j, c)
      BY <1>1, <2>3, <3>2 DEF AnswersOn, Current
    <3> QED BY <2>1, <2>3, <3>1, <3>2
  <2> QED BY <2>3 DEF AnswersOn, Current
<1> QED BY <1>2, <1>3 DEF Call, Hit, Miss, LookupPanic, PureHit, PureMiss, Bypass

(* Lookups that keep answers are only used where what immutable calls      *)
(* observe never changes behind an instance: no mutable call changes it,   *)
(* and a changed value is wrapped anew, at once or by the next call.       *)
ChangesSeen == Original \/ (Neutral /\ Rewrap # "never")

(* The view that the step of a running call leaves alone *)
LEMMA AnswersRunning ==
  ASSUME AInv, NInv, ~Original, Running, accelerators' = accelerators, view' = view,
         \A c \in Reads : Result(c, value') = Result(c, value)
  PROVE  AInv'
<1>1. view \in Nat /\ AnswersOn(view)
  BY DEF NInv, AInv, AnswersOn
<1>2. AnswersOn(view)'
  <2> DEFINE lo == view
  <2>1. lo \in Nat /\ AnswersOn(lo)
    BY <1>1
  <2> HIDE DEF lo
  <2>2. \A id \in Nat : id >= lo => Current(id)'
    BY <1>1, <2>1 DEF AnswersOn, Current, HasAnswer, Answer
  <2>3. \A id \in Nat : id >= view' => Current(id)'
    BY <2>2 DEF lo
  <2> QED BY <2>3 DEF AnswersOn
<1> QED BY <1>2 DEF AInv, AnswersOn

(* The answers that may be used are the current ones, at every step *)
LEMMA AnswersStep ==
  ASSUME OperationsKnown, CallsKnown, ChangesSeen,
         IInv, VInv, NInv, AInv, [Next]_vars
  PROVE  AInv'
<1>0. /\ FramesInv(stack) /\ view \in Nat /\ nextId \in Nat /\ view < nextId /\ value \in States
      /\ IdsIn(stack, view, nextId - 1)
  BY DEF IInv, NInv, VInv, IdsIn
<1>1. CASE UNCHANGED vars
  <2>1. /\ stack' = stack /\ accelerators' = accelerators /\ view' = view /\ value' = value
    BY <1>1 DEF vars
  <2> QED BY <2>1 DEF AInv, Running, Current, HasAnswer, Answer
<1>2. CASE Original
  <2>1. accelerators = <<>>
    BY <1>2 DEF AInv
  <2>2. accelerators' = accelerators \/ accelerators' = EvictAccelerators(accelerators)
    <3>1. ASSUME NEW fun, NEW key, NEW id, Call(fun, key, id) PROVE accelerators' = accelerators
      BY <1>2, <3>1 DEF Call, Hit, Miss, LookupPanic, PureHit, PureMiss, Bypass, Remember
    <3>2. CASE TopCall
      BY <3>1, <3>2 DEF TopCall
    <3>3. CASE BodyCall
      BY <3>1, <3>3 DEF BodyCall
    <3>4. CASE EvictAnswers
      BY <3>4 DEF EvictAnswers
    <3>5. CASE Edit \/ \E m \in 0 .. MaxAge : Evict(m)
      BY <3>5 DEF Edit, Evict
    <3>6. CASE BodyRead \/ ReadPanic \/ BodyWrite
      BY <3>6 DEF BodyRead, ReadPanic, BodyWrite
    <3>7. CASE BypassReturn \/ InsertReturn \/ InsertSwallow \/ InsertPanic
      BY <3>7 DEF BypassReturn, InsertReturn, InsertSwallow, InsertPanic, Close
    <3>8. CASE UNCHANGED vars
      BY <3>8 DEF vars
    <3> QED BY <3>2, <3>3, <3>4, <3>5, <3>6, <3>7, <3>8 DEF Next
  <2>3. EvictAccelerators(<<>>) = <<>>
    <3> DEFINE new == EvictAccelerators(<<>>)
    <3>1. new = [i \in 1 .. 0 |-> new[i]]
      BY DEF EvictAccelerators
    <3> HIDE DEF new
    <3>2. new \in Seq(Range(new)) /\ Len(new) = 0
      BY <3>1, FunctionIsSeq
    <3>3. new = <<>>
      BY <3>2
    <3> QED BY <3>3 DEF new
  <2>4. accelerators' = <<>>
    BY <2>1, <2>2, <2>3
  <2> QED BY <1>2, <2>4 DEF AInv
<1>3. CASE TopCall /\ ~Original
  <2>1. /\ ~panicked /\ stack = <<>>
        /\ \/ Rewrap = "call" /\ view' = nextId /\ nextId' = nextId + 1
           \/ Rewrap = "edit" /\ view' = view /\ nextId' = nextId
    BY <1>3, RewrapAssumption DEF TopCall, Running, ChangesSeen
  <2>2. PICK fun \in Funs, key \in Args : Call(fun, key, view')
    BY <1>3 DEF TopCall
  <2>3. PICK lo \in Nat : lo = view'
    BY <1>0, <2>1
  <2>4. AnswersOn(lo)
    <3>1. CASE Rewrap = "call" /\ view' = nextId
      <4>1. nextId <= lo
        BY <1>0, <2>3, <3>1
      <4> QED BY <4>1, AnswersNew
    <3>2. CASE Rewrap = "edit" /\ view' = view
      BY <1>3, <2>3, <3>2 DEF AInv, AnswersOn
    <3> QED BY <2>1, <3>1, <3>2
  <2>5. nextId <= nextId' /\ nextId' \in Nat /\ lo < nextId' /\ lo >= lo
    BY <1>0, <2>1, <2>3
  <2>6. Call(fun, key, lo)
    BY <2>2, <2>3
  <2>7. AnswersOn(lo)'
    BY <1>3, <2>1, <2>4, <2>5, <2>6, AnswersCall DEF ChangesSeen
  <2>8. \A id \in Nat : id >= view' => Current(id)'
    BY <2>3, <2>7 DEF AnswersOn
  <2> QED BY <1>3, <2>8 DEF AInv
<1>4. CASE Edit /\ ~Original
  <2>1. CASE Rewrap = "edit"
    <3>1. accelerators' = accelerators /\ view' = nextId
      BY <1>4, <2>1 DEF Edit
    <3>2. PICK lo \in Nat : lo = nextId
      BY <1>0
    <3>3. ASSUME NEW id \in Nat, id >= lo, NEW c \in Reads PROVE ~HasAnswer(accelerators, id, c)
      <4>1. Len(accelerators) \in Nat /\ Len(accelerators) <= lo
        BY <3>2, Elements DEF NInv
      <4> QED BY <3>3, <4>1 DEF HasAnswer
    <3>4. \A id \in Nat : id >= view' => Current(id)'
      BY <3>1, <3>2, <3>3 DEF Current, HasAnswer
    <3> QED BY <1>4, <3>4 DEF AInv
  <2>2. CASE Rewrap # "edit"
    BY <1>4, <2>2 DEF Edit, AInv, Running
  <2> QED BY <2>1, <2>2
<1>5. CASE EvictAnswers /\ ~Original
  <2> DEFINE new == EvictAccelerators(accelerators)
  <2>1. accelerators' = new
    BY <1>5 DEF EvictAnswers
  <2>2. DOMAIN accelerators = 1 .. Len(accelerators) /\ Len(accelerators) \in Nat
    BY Elements DEF NInv
  <2>3. /\ new = [i \in 1 .. Len(accelerators) |-> new[i]]
        /\ \A i \in 1 .. Len(accelerators) : new[i] = NoAnswers
    BY <2>2 DEF EvictAccelerators
  <2>4. DOMAIN NoAnswers = {}
    BY DEF NoAnswers
  <2> HIDE DEF new
  <2>5. Len(new) = Len(accelerators)
    BY <2>2, <2>3, FunctionIsSeq
  <2>6. ASSUME NEW id \in Nat, NEW c \in Reads PROVE ~HasAnswer(new, id, c)
    <3>1. id < Len(new) => new[id + 1] = NoAnswers
      BY <2>2, <2>3, <2>5
    <3> QED BY <2>4, <3>1 DEF HasAnswer
  <2>7. \A id \in Nat : Current(id)'
    BY <2>1, <2>6 DEF Current
  <2>8. view' \in Nat
    BY <1>0, <1>5 DEF EvictAnswers
  <2> QED BY <1>5, <2>7, <2>8 DEF AInv
<1>6. CASE \E m \in 0 .. MaxAge : Evict(m)
  <2>1. stack' = stack /\ accelerators' = accelerators /\ view' = view /\ value' = value
    BY <1>6 DEF Evict
  <2> QED BY <2>1 DEF AInv, Running, Current, HasAnswer, Answer
<1>7. CASE (BodyRead \/ ReadPanic \/ InsertPanic) /\ ~Original
  <2>1. Running /\ accelerators' = accelerators /\ view' = view /\ value' = value
    BY <1>7 DEF BodyRead, ReadPanic, InsertPanic
  <2> QED BY <1>7, <2>1, AnswersRunning
<1>8. CASE BodyWrite /\ ~Original
  <2>1. /\ Running /\ accelerators' = accelerators /\ view' = view
        /\ NextOp.op = "write" /\ value' = Effect(NextOp.call, value)
    BY <1>8 DEF BodyWrite
  <2>2. NextOp.call \in Writes
    BY <1>0, <2>1, Innermost DEF OperationsKnown, NextOp
  <2>3. \A c \in Reads : Result(c, value') = Result(c, value)
    BY <1>0, <1>8, <2>1, <2>2 DEF Neutral, ChangesSeen
  <2> QED BY <1>8, <2>1, <2>3, AnswersRunning
<1>9. CASE BodyCall /\ ~Original
  <2>1. NextOp.op = "call" /\ ~panicked /\ Running /\ view' = view
    BY <1>9 DEF BodyCall
  <2>2. NextOp.fun \in Funs
    BY <1>0, <2>1, Innermost DEF CallsKnown, NextOp
  <2>3. PICK lo \in Nat : lo = view
    BY <1>0
  <2>4. AnswersOn(lo)
    BY <1>9, <2>1, <2>3 DEF AInv, AnswersOn
  <2>5. \E id \in Nat : id >= lo /\ id < nextId' /\ nextId <= nextId' /\ nextId' \in Nat
                        /\ Call(NextOp.fun, NextOp.key, id)
    <3>1. CASE nextId' = nextId + 1 /\ Call(NextOp.fun, NextOp.key, nextId)
      <4>1. nextId \in Nat /\ nextId >= lo /\ nextId < nextId' /\ nextId <= nextId' /\ nextId' \in Nat
        BY <1>0, <2>3, <3>1
      <4> QED BY <3>1, <4>1
    <3>2. CASE nextId' = nextId /\ Call(NextOp.fun, NextOp.key, Top.id)
      <4>1. Top.id \in view .. nextId - 1
        BY <1>0, <2>1, Innermost DEF IdsIn
      <4>2. Top.id \in Nat /\ Top.id >= lo /\ Top.id < nextId' /\ nextId <= nextId' /\ nextId' \in Nat
        BY <1>0, <2>3, <3>2, <4>1
      <4> QED BY <3>2, <4>2
    <3> QED BY <1>9, <3>1, <3>2 DEF BodyCall
  <2>6. AnswersOn(lo)'
    BY <1>9, <2>1, <2>2, <2>4, <2>5, AnswersCall DEF ChangesSeen
  <2>7. \A id \in Nat : id >= view' => Current(id)'
    BY <2>1, <2>3, <2>6 DEF AnswersOn
  <2> QED BY <1>9, <2>7 DEF AInv
<1>10. CASE (BypassReturn \/ InsertReturn \/ InsertSwallow) /\ ~Original
  <2>1. Running /\ accelerators' = accelerators /\ view' = view /\ value' = value
    BY <1>10 DEF BypassReturn, InsertReturn, InsertSwallow, Close, Complete
  <2> QED BY <1>10, <2>1, AnswersRunning
<1> QED BY <1>1, <1>2, <1>3, <1>4, <1>5, <1>6, <1>7, <1>8, <1>9, <1>10 DEF Next

(* So they are the current ones always *)
LEMMA AnswersAlways ==
  ASSUME OperationsKnown, CallsKnown, ChangesSeen
  PROVE  Spec => [](IInv /\ VInv /\ NInv /\ AInv)
<1>1. Init => NInv
  <2> SUFFICES ASSUME Init PROVE NInv
    OBVIOUS
  <2>1. /\ stack = <<>> /\ accelerators = <<>> /\ view = 0 /\ nextId = 1
    BY DEF Init
  <2>2. DOMAIN <<>> = {} /\ Len(<<>>) = 0 /\ <<>> \in Seq(Range(<<>>))
    OBVIOUS
  <2> QED BY <2>1, <2>2 DEF NInv
<1>2. Init => AInv
  <2>1. Len(<<>>) = 0 /\ \A id \in Nat : ~(id < 0)
    OBVIOUS
  <2> QED BY <2>1 DEF Init, AInv, Current, HasAnswer
<1>3. IInv /\ VInv /\ NInv /\ [Next]_vars => NInv'
  BY InstancesStep
<1>4. IInv /\ VInv /\ NInv /\ AInv /\ [Next]_vars => AInv'
  BY AnswersStep
<1> QED BY <1>1, <1>2, <1>3, <1>4, KnownAlways, PTL DEF Spec

(* No accelerator answers for a value that is gone: whatever a lookup may  *)
(* take from one is what the value itself would say (accelerate.mbt, and   *)
(* the ids that Tracked::new hands out).                                   *)
THEOREM AnswersAreCurrent ==
  ASSUME OperationsKnown, CallsKnown, ChangesSeen
  PROVE  Spec => []AnswersCurrent
<1>1. IInv /\ NInv /\ AInv => AnswersCurrent
  <2> SUFFICES ASSUME IInv, NInv, AInv,
                      NEW id \in {stack[d].id : d \in DOMAIN stack}
                                   \cup (IF Rewrap = "call" THEN {} ELSE {view}),
                      NEW c \in Reads, HasAnswer(accelerators, id, c)
               PROVE  Answer(accelerators, id, c) = Result(c, value)
    BY DEF AnswersCurrent
  <2>1. CASE Original
    <3>1. accelerators = <<>> /\ Len(<<>>) = 0
      BY <2>1 DEF AInv
    <3>2. id \in Nat
      <4>1. \A a, b \in Nat : \A i \in a .. b - 1 : i \in Nat
        OBVIOUS
      <4> QED BY <4>1 DEF NInv
    <3> QED BY <3>1, <3>2 DEF HasAnswer
  <2>2. CASE ~Original
    <3>1. id \in Nat /\ id >= view
      <4>1. \A a, b \in Nat : \A i \in a .. b - 1 : i \in Nat /\ i >= a
        OBVIOUS
      <4> QED BY <4>1 DEF NInv
    <3>2. Running \/ Rewrap = "edit"
      <4>1. CASE Rewrap = "call"
        <5>1. PICK d \in DOMAIN stack : id = stack[d].id
          BY <4>1
        <5>2. DOMAIN <<>> = {}
          OBVIOUS
        <5> QED BY <5>1, <5>2 DEF Running
      <4>2. CASE Rewrap = "edit"
        BY <4>2
      <4> QED BY <2>2, <4>1, <4>2, RewrapAssumption DEF ChangesSeen
    <3> QED BY <2>2, <3>1, <3>2 DEF AInv, Current
  <2> QED BY <2>1, <2>2
<1> QED BY <1>1, AnswersAlways, PTL

-----------------------------------------------------------------------------
(* Hits.                                                                   *)

(* The instance id answers as the value does *)
Truthful(id) == \A c \in Reads : Validate(id, c) = Result(c, value)

(* An entry that matches such answers matches the value *)
LEMMA HitAnswers ==
  ASSUME IInv, VInv, NEW fun \in Funs, NEW key, NEW id, Truthful(id), NEW e \in Hits(fun, key, id)
  PROVE  \A q \in Range(e.path) : q.call \in Reads /\ Result(q.call, value) = q.ret
<1> SUFFICES ASSUME NEW q \in Range(e.path)
             PROVE  q.call \in Reads /\ Result(q.call, value) = q.ret
  OBVIOUS
<1>1. e \in caches[fun] /\ Oracle(fun, id)[q.call] = q.ret
  BY DEF Hits, Matching, OfKey, Matches
<1>2. q.call \in CallsOf(e.path) /\ CallsOf(e.path) \subseteq Reads
  BY <1>1 DEF VInv, EntriesKnown, CallsOf
<1>3. q.call \in UNION {CallsOf(g.path) : g \in caches[fun]}
  BY <1>1, <1>2
<1>4. Oracle(fun, id)[q.call] = Validate(id, q.call)
  BY <1>3 DEF Oracle
<1> QED BY <1>1, <1>2, <1>4 DEF Truthful

(* What a call leaves in last: a hit whose path the value answers *)
LEMMA ReplayCall ==
  ASSUME IInv, VInv, HitsReplay, ~panicked, NEW fun \in Funs, NEW key, NEW id, Truthful(id),
         Call(fun, key, id)
  PROVE  HitsReplay'
<1>1. CASE Hit(fun, key, id)
  <2>1. PICK e, mid :
          /\ e \in Hits(fun, key, id) /\ e \in caches[fun] /\ e.mutable \in Seq(Range(e.mutable))
          /\ caches' = [caches EXCEPT ![fun] = (@ \ {e}) \cup {[e EXCEPT !.age = 0]}]
          /\ value' = Replay(e.mutable, value)
          /\ Heard(stack, Hearing(fun, key, id), e.mutable, mid)
          /\ stack' = Deliver(mid, e.value)
          /\ Complete(mid, fun, key, value, e.value, TRUE, e.path)
    BY <1>1, HitHears
  <2>2. \A q \in Range(e.path) : Result(q.call, value) = q.ret
    BY <2>1, HitAnswers
  <2>3. last' = last \/ (last'.before = value /\ last'.path = e.path)
    BY <2>1 DEF Complete
  <2> QED BY <2>2, <2>3 DEF HitsReplay
<1>2. CASE PureHit(fun, key)
  <2>1. last' = last \/ last'.path = <<>>
    BY <1>2 DEF PureHit, Complete
  <2>2. Range(<<>>) = {}
    BY DEF Range
  <2> QED BY <2>1, <2>2 DEF HitsReplay
<1>3. CASE ~Hit(fun, key, id) /\ ~PureHit(fun, key)
  <2>1. last' = last
    BY <1>3 DEF Call, Miss, LookupPanic, PureMiss, Bypass
  <2> QED BY <2>1 DEF HitsReplay
<1> QED BY <1>1, <1>2, <1>3

(* The instance of a top-level call is a truthful one, and that of a nested *)
(* call.                                                                    *)
LEMMA TopTruthful ==
  ASSUME ChangesSeen, NInv, AInv, TopCall
  PROVE  Truthful(view')
<1>1. view \in Nat /\ nextId \in Nat
  BY DEF NInv
<1>2. CASE Original
  BY <1>2 DEF Truthful, Validate
<1>3. CASE ~Original /\ Rewrap = "call"
  <2>1. view' = nextId
    BY <1>3 DEF TopCall
  <2>2. AnswersOn(nextId)
    BY <1>1, AnswersNew
  <2>3. nextId >= nextId
    BY <1>1
  <2> QED BY <1>1, <2>1, <2>2, <2>3 DEF AnswersOn, Current, Truthful, Validate
<1>4. CASE ~Original /\ Rewrap = "edit"
  <2>1. view' = view
    BY <1>4 DEF TopCall
  <2>2. view >= view
    BY <1>1
  <2> QED BY <1>1, <1>4, <2>1, <2>2 DEF AInv, Current, Truthful, Validate
<1> QED BY <1>2, <1>3, <1>4, RewrapAssumption DEF ChangesSeen

(* A nested call is looked up on an instance whose answers are true *)
LEMMA NestedTruthful ==
  ASSUME NInv, AInv, Running, NEW id, id = Top.id \/ id = nextId, FramesInv(stack)
  PROVE  Truthful(id)
<1>1. CASE Original
  BY <1>1 DEF Truthful, Validate
<1>2. CASE ~Original
  <2>1. view \in Nat /\ nextId \in Nat /\ view < nextId /\ Top.id \in view .. nextId - 1
    BY Innermost DEF NInv
  <2>2. id \in Nat /\ id >= view
    BY <2>1
  <2> QED BY <1>2, <2>2 DEF AInv, Current, Truthful, Validate
<1> QED BY <1>1, <1>2

(* A hit was one that a look at the value would have been, whatever came after *)
LEMMA ReplayStep ==
  ASSUME CallsKnown, ChangesSeen, IInv, VInv, NInv, AInv, HitsReplay, [Next]_vars
  PROVE  HitsReplay'
<1>0. FramesInv(stack)
  BY DEF IInv
<1>1. ASSUME last' = last PROVE HitsReplay'
  BY <1>1 DEF HitsReplay
<1>2. CASE UNCHANGED vars
  BY <1>1, <1>2 DEF vars
<1>3. CASE TopCall
  <2>1. ~panicked /\ \E f \in Funs, k \in Args : Call(f, k, view')
    BY <1>3 DEF TopCall
  <2> QED BY <1>3, <2>1, TopTruthful, ReplayCall
<1>4. CASE BodyCall
  <2>1. NextOp.op = "call" /\ ~panicked /\ Running
    BY <1>4 DEF BodyCall
  <2>2. NextOp.fun \in Funs
    BY <1>0, <2>1, Innermost DEF CallsKnown, NextOp
  <2>3. PICK id : (id = Top.id \/ id = nextId) /\ Call(NextOp.fun, NextOp.key, id)
    BY <1>4 DEF BodyCall
  <2>4. Truthful(id)
    BY <1>0, <2>1, <2>3, NestedTruthful
  <2> QED BY <2>1, <2>2, <2>3, <2>4, ReplayCall
<1>5. CASE Edit \/ EvictAnswers \/ \E m \in 0 .. MaxAge : Evict(m)
  BY <1>5 DEF Edit, EvictAnswers, Evict, HitsReplay
<1>6. CASE BodyRead \/ ReadPanic \/ BodyWrite \/ InsertPanic
  BY <1>1, <1>6 DEF BodyRead, ReadPanic, BodyWrite, InsertPanic
<1>7. CASE BypassReturn \/ InsertReturn \/ InsertSwallow
  <2>1. Complete(Front(stack), Top.fun, Top.key, Top.before, NextOp.value, FALSE, <<>>)
    BY <1>7 DEF BypassReturn, InsertReturn, InsertSwallow, Close
  <2>2. last' = last \/ last'.path = <<>>
    BY <2>1 DEF Complete
  <2>3. Range(<<>>) = {}
    BY DEF Range
  <2> QED BY <2>2, <2>3 DEF HitsReplay
<1> QED BY <1>2, <1>3, <1>4, <1>5, <1>6, <1>7 DEF Next

(* A hit is taken only when every call its entry recorded gets the         *)
(* recorded answer from the tracked value as it is at the lookup           *)
(* (Cache::lookup through the accelerators).                               *)
THEOREM HitsAreTrue ==
  ASSUME OperationsKnown, CallsKnown, ChangesSeen
  PROVE  Spec => []HitsReplay
<1>1. Init => HitsReplay
  BY DEF Init, HitsReplay
<1>2. IInv /\ VInv /\ NInv /\ AInv /\ HitsReplay /\ [Next]_vars => HitsReplay'
  BY ReplayStep
<1> QED BY <1>1, <1>2, AnswersAlways, PTL DEF Spec

(* No body makes a call that can hit on recorded reads, unless the lookup  *)
(* tells the recorders around of them.                                     *)
HitsTold ==
  \/ Original
  \/ \A f \in Funs : \A k, obs :
       LET op == Body(f, k, obs) IN
         op.op = "call" => op.fun \in Pure \/ <<op.fun, op.key>> \in Bypassed

(* The lookup of the original tells every recorder around of the recorded  *)
(* calls of the entry it hits on (TrackedMut in comemo's track.rs), and    *)
(* there is nothing to tell of a hit of memoize_pure.                      *)
THEOREM HitsAreRecorded ==
  ASSUME CallsKnown, HitsTold
  PROVE  Spec => NestedReadsRecorded
<1>1. IInv /\ [Next]_vars => [NestedHitRecorded]_vars
  <2> SUFFICES ASSUME IInv, BodyCall, ~panicked', Len(stack') = Len(stack)
               PROVE  \E e \in Hits(NextOp.fun, NextOp.key,
                                    IF NextOp.reborrow THEN nextId ELSE Top.id) :
                        \A d \in Range(slot) :
                          Range(e.path) \subseteq Range(stack'[d].con.immutable)
    BY DEF NestedHitRecorded
  <2> DEFINE id == IF NextOp.reborrow THEN nextId ELSE Top.id
             fun == NextOp.fun
             key == NextOp.key
  <2>1. FramesInv(stack) /\ Running /\ ~panicked /\ NextOp.op = "call" /\ Call(fun, key, id)
    BY DEF IInv, BodyCall
  <2>2. fun \in Funs /\ (Original \/ fun \in Pure \/ ~Memoized(fun, key))
    <3>1. Top.fun \in Funs
      BY <2>1, Innermost
    <3> QED BY <2>1, <3>1 DEF CallsKnown, HitsTold, NextOp, Memoized
  <2> HIDE DEF fun, key, id
  <2>3. Len(stack) \in Nat /\ DOMAIN stack = 1 .. Len(stack) /\ stack \in Seq(Range(stack))
    BY <2>1, Elements DEF FramesInv, Shaped
  <2>4. CASE Hit(fun, key, id)
    <3>1. PICK e, mid :
            /\ e \in Hits(fun, key, id) /\ e \in caches[fun] /\ e.mutable \in Seq(Range(e.mutable))
            /\ caches' = [caches EXCEPT ![fun] = (@ \ {e}) \cup {[e EXCEPT !.age = 0]}]
            /\ value' = Replay(e.mutable, value)
            /\ Heard(stack, Hearing(fun, key, id), e.mutable, mid)
            /\ stack' = Deliver(mid, e.value)
            /\ Complete(mid, fun, key, value, e.value, TRUE, e.path)
      BY <2>1, <2>2, <2>4, HitHears
    <3>2. Range(e.path) \subseteq Range(Walk(fun, key, id))
      BY <2>2, <3>1, WalkShape DEF IInv, CachesShaped, OneEntryMatches, AllPart
    <3>3. ASSUME NEW d \in Range(slot) PROVE Range(e.path) \subseteq Range(stack'[d].con.immutable)
      <4>1. d \in 1 .. Len(stack)
        BY <2>3 DEF IInv, SlotNamesRecorded
      <4>2. Hears(stack[d].con, Hearing(fun, key, id), e.mutable, mid[d].con)
        BY <3>1, <4>1 DEF Heard
      <4>3. Range(mid[d].con.immutable)
              = Range(stack[d].con.immutable) \cup Range(Hearing(fun, key, id))
        <5> DEFINE con == stack[d].con
                   new == mid[d].con
                   pairs == Hearing(fun, key, id)
                   calls == e.mutable
        <5>1. Hears(con, pairs, calls, new)
          BY <4>2
        <5> HIDE DEF con, new, pairs, calls
        <5>2. /\ IsConstraint(new)
              /\ Range(new.immutable) = Range(con.immutable) \cup Range(pairs)
              /\ new.mutable = con.mutable \o calls
          BY <5>1, HearsWhat
        <5> QED BY <5>2 DEF con, new, pairs
      <4>4. FramesInv(mid) /\ Len(mid) = Len(stack)
        BY <3>1 DEF Heard, Same
      <4>5. stack'[d].con = mid[d].con
        BY <3>1, <4>1, <4>4, DeliverOnly
      <4>6. Original
        BY <2>2, <2>4 DEF Hit
      <4> QED BY <3>2, <4>3, <4>5, <4>6 DEF Hearing
    <3> QED BY <3>1, <3>3 DEF fun, key, id
  <2>5. CASE PureHit(fun, key)
    <3>1. PICK e \in OfKey(caches[fun], key) : e.path = <<>>
      BY <2>5 DEF PureHit
    <3>2. Range(e.path) = {}
      BY <3>1 DEF Range
    <3>3. e \in Hits(fun, key, id)
      BY <3>2 DEF Hits, Matching, Matches
    <3> QED BY <3>2, <3>3 DEF fun, key, id
  <2>6. ~LookupPanic(fun, key, id)
    BY DEF LookupPanic
  <2>7. ~(Miss(fun, key, id) \/ PureMiss(fun, key, id) \/ Bypass(fun, key, id))
    <3>1. CASE Miss(fun, key, id)
      <4>1. FramesInv(Told(fun, key, id)) /\ Same(stack, Told(fun, key, id))
        BY <2>1, <2>2, <3>1, ToldKeeps DEF Miss
      <4>2. stack' = Append(Told(fun, key, id), Frame(fun, key, id, "recorded"))
        BY <3>1 DEF Miss
      <4>3. Len(stack') = Len(Told(fun, key, id)) + 1
        BY <4>1, <4>2, Appended DEF FramesInv, Shaped
      <4> QED BY <2>3, <4>1, <4>3 DEF Same
    <3>2. CASE PureMiss(fun, key, id) \/ Bypass(fun, key, id)
      <4>1. \E mode : stack' = Append(stack, Frame(fun, key, id, mode))
        BY <3>2 DEF PureMiss, Bypass
      <4>2. Len(stack') = Len(stack) + 1
        BY <2>3, <4>1, Appended
      <4> QED BY <2>3, <4>2
    <3> QED BY <3>1, <3>2
  <2> QED BY <2>1, <2>4, <2>5, <2>6, <2>7 DEF Call
<1> QED BY <1>1, Invariant, PTL DEF Spec, NestedReadsRecorded
=============================================================================
