---------------------------- MODULE MemoizeProofs ---------------------------
(***************************************************************************)
(* The invariants of the memoization runtime, for every program and every  *)
(* history of calls, edits and evictions.                                  *)
(***************************************************************************)
EXTENDS MemoizeInvariants, DecisionPathTheorems, TLAPS

(* What a program must be like: its functions call memoized functions *)
CallsKnown ==
  \A f \in Funs : \A k, obs :
    Body(f, k, obs).op = "call" => Body(f, k, obs).fun \in Funs

-----------------------------------------------------------------------------
(* Frames.  Telling recorders and delivering results leave the running     *)
(* calls the same but for what they have recorded and observed.            *)

Same(old, new) ==
  /\ new \in Seq(Range(new)) /\ Len(new) = Len(old)
  /\ \A d \in 1 .. Len(old) :
       /\ DOMAIN new[d] = FrameFields
       /\ new[d].fun = old[d].fun /\ new[d].key = old[d].key
       /\ new[d].id = old[d].id /\ new[d].mode = old[d].mode
       /\ new[d].prev = old[d].prev /\ new[d].before = old[d].before

(* A chain depends on nothing but the modes of the frames below it *)
LEMMA ChainByModes ==
  ASSUME NEW old, NEW new, NEW n, NEW s, IsChain(s, old, n),
         \A d \in 1 .. n : new[d].mode = old[d].mode
  PROVE  IsChain(s, new, n)
BY DEF IsChain

(* The recorders of a chain get new constraints that nest as the old ones  *)
LEMMA Retold ==
  ASSUME NEW frames, FramesInv(frames), IsChain(slot, frames, Len(frames)),
         NEW c, NEW new,
         new = [d \in DOMAIN frames |->
                  IF Records(d) THEN [frames[d] EXCEPT !.con = c[d]] ELSE frames[d]],
         \A d \in Range(slot) : IsConstraint(c[d]),
         \A d, e \in Range(slot) : d < e =>
           /\ Range(c[e].immutable) \subseteq Range(c[d].immutable)
           /\ IsSuffix(c[e].mutable, c[d].mutable)
  PROVE  FramesInv(new) /\ Same(frames, new)
<1>1. /\ frames \in Seq(Range(frames)) /\ Len(frames) \in Nat /\ DOMAIN frames = 1 .. Len(frames)
  BY Elements DEF FramesInv, Shaped
<1>2. new = [d \in 1 .. Len(frames) |-> new[d]]
  BY <1>1
<1>3. new \in Seq(Range(new)) /\ Len(new) = Len(frames) /\ DOMAIN new = 1 .. Len(frames)
  BY <1>1, <1>2, FunctionIsSeq
<1>4. ASSUME NEW d \in 1 .. Len(frames)
      PROVE  /\ DOMAIN frames[d] = FrameFields /\ DOMAIN new[d] = FrameFields
             /\ new[d].fun = frames[d].fun /\ new[d].key = frames[d].key
             /\ new[d].id = frames[d].id /\ new[d].mode = frames[d].mode
             /\ new[d].prev = frames[d].prev /\ new[d].before = frames[d].before
             /\ new[d].con = IF d \in Range(slot) THEN c[d] ELSE frames[d].con
  <2>1. DOMAIN frames[d] = FrameFields
    BY <1>1 DEF FramesInv, Shaped
  <2>2. new[d] = IF d \in Range(slot) THEN [frames[d] EXCEPT !.con = c[d]] ELSE frames[d]
    BY <1>1 DEF Records
  <2> QED BY <2>1, <2>2 DEF FrameFields
<1>5. Same(frames, new)
  BY <1>3, <1>4 DEF Same
<1>6. Range(slot) = {d \in 1 .. Len(frames) : frames[d].mode = "recorded"}
  BY DEF IsChain
<1>7. Shaped(new)
  <2> SUFFICES ASSUME NEW d \in 1 .. Len(frames)
               PROVE  /\ DOMAIN new[d] = FrameFields
                      /\ new[d].fun \in Funs
                      /\ new[d].mode = "bypassed" <=> ~Memoized(new[d].fun, new[d].key)
                      /\ new[d].mode = "recorded" => new[d].fun \notin Pure
                      /\ IsConstraint(new[d].con)
                      /\ new[d].mode # "recorded" => new[d].con = EmptyConstraint
    BY <1>3 DEF Shaped
  <2>1. /\ frames[d].fun \in Funs
        /\ frames[d].mode = "bypassed" <=> ~Memoized(frames[d].fun, frames[d].key)
        /\ frames[d].mode = "recorded" => frames[d].fun \notin Pure
        /\ IsConstraint(frames[d].con)
        /\ frames[d].mode # "recorded" => frames[d].con = EmptyConstraint
    BY <1>1 DEF FramesInv, Shaped
  <2>2. d \in Range(slot) => frames[d].mode = "recorded"
    BY <1>6
  <2>3. /\ DOMAIN new[d] = FrameFields
        /\ new[d].fun = frames[d].fun
        /\ new[d].key = frames[d].key
        /\ new[d].mode = frames[d].mode
        /\ IsConstraint(new[d].con)
        /\ d \notin Range(slot) => new[d].con = frames[d].con
    BY <1>4, <2>1, SMTT(20)
  <2> QED BY <2>1, <2>2, <2>3
<1>8. DetachRestores(new)
  <2> SUFFICES ASSUME NEW d \in 1 .. Len(frames), new[d].mode = "recorded"
               PROVE  IsChain(new[d].prev, new, d - 1)
    BY <1>3 DEF DetachRestores
  <2>1. IsChain(frames[d].prev, frames, d - 1)
    <3>1. d \in DOMAIN frames /\ frames[d].mode = "recorded"
      BY <1>1, <1>4
    <3> QED BY <3>1 DEF FramesInv, DetachRestores
  <2>2. \A i \in 1 .. d - 1 : new[i].mode = frames[i].mode
    BY <1>1, <1>4
  <2>3. IsChain(frames[d].prev, new, d - 1)
    BY <2>1, <2>2, ChainByModes
  <2> QED BY <1>4, <2>3
<1>9. Enclosed(new)
  <2> SUFFICES ASSUME NEW d \in 1 .. Len(frames), NEW e \in 1 .. Len(frames),
                      d < e, new[d].mode = "recorded", new[e].mode = "recorded"
               PROVE  /\ Range(new[e].con.immutable) \subseteq Range(new[d].con.immutable)
                      /\ IsSuffix(new[e].con.mutable, new[d].con.mutable)
    BY <1>3 DEF Enclosed
  <2>1. d \in Range(slot) /\ e \in Range(slot)
    BY <1>4, <1>6
  <2>2. new[d].con = c[d] /\ new[e].con = c[e]
    BY <1>4, <2>1
  <2> QED BY <2>1, <2>2
<1> QED BY <1>5, <1>7, <1>8, <1>9 DEF FramesInv

(* A recorded read reaches every running recorder, and nothing else *)
LEMMA ReadTold ==
  ASSUME NEW frames, FramesInv(frames), IsChain(slot, frames, Len(frames)),
         NEW call, NEW ret, \A d \in Range(slot) : ~Differs(frames[d].con, call, ret)
  PROVE  /\ FramesInv(RecordRead(frames, call, ret))
         /\ Same(frames, RecordRead(frames, call, ret))
<1> DEFINE c == [d \in DOMAIN frames |-> RecordImmutable(frames[d].con, call, ret)]
<1>1. RecordRead(frames, call, ret) =
        [d \in DOMAIN frames |->
           IF Records(d) THEN [frames[d] EXCEPT !.con = c[d]] ELSE frames[d]]
  BY DEF RecordRead
<1>2. DOMAIN frames = 1 .. Len(frames)
  BY Elements DEF FramesInv, Shaped
<1>3. \A d \in Range(slot) :
        /\ d \in DOMAIN frames /\ frames[d].mode = "recorded"
        /\ IsConstraint(frames[d].con) /\ ~Differs(frames[d].con, call, ret)
  BY <1>2 DEF IsChain, FramesInv, Shaped
<1>4. \A d \in Range(slot) :
        /\ IsConstraint(c[d]) /\ c[d].mutable = frames[d].con.mutable
        /\ Range(c[d].immutable) =
             Range(frames[d].con.immutable) \cup {[call |-> call, ret |-> ret]}
  BY <1>3, RecordOne
<1> HIDE DEF c
<1>5. \A d, e \in Range(slot) : d < e =>
        /\ Range(c[e].immutable) \subseteq Range(c[d].immutable)
        /\ IsSuffix(c[e].mutable, c[d].mutable)
  BY <1>3, <1>4 DEF FramesInv, Enclosed
<1> QED BY <1>1, <1>4, <1>5, Retold

(* So do the pairs of a walk *)
LEMMA WalkTold ==
  ASSUME NEW frames, FramesInv(frames), IsChain(slot, frames, Len(frames)),
         NEW pairs, IsPairs(pairs),
         \A q \in Range(pairs), d \in Range(slot) : ~Differs(frames[d].con, q.call, q.ret),
         \A p, q \in Range(pairs) : p.call = q.call => p.ret = q.ret
  PROVE  /\ FramesInv(RecordReads(frames, pairs))
         /\ Same(frames, RecordReads(frames, pairs))
<1> DEFINE c == [d \in DOMAIN frames |-> RecordAll(frames[d].con, pairs)]
<1>1. RecordReads(frames, pairs) =
        [d \in DOMAIN frames |->
           IF Records(d) THEN [frames[d] EXCEPT !.con = c[d]] ELSE frames[d]]
  BY DEF RecordReads
<1>2. DOMAIN frames = 1 .. Len(frames)
  BY Elements DEF FramesInv, Shaped
<1>3. \A d \in Range(slot) :
        /\ d \in DOMAIN frames /\ frames[d].mode = "recorded"
        /\ IsConstraint(frames[d].con)
  BY <1>2 DEF IsChain, FramesInv, Shaped
<1>4. \A d \in Range(slot) :
        /\ IsConstraint(c[d]) /\ c[d].mutable = frames[d].con.mutable
        /\ Range(c[d].immutable) = Range(frames[d].con.immutable) \cup Range(pairs)
  BY <1>3, RecordWalk DEF Tells
<1> HIDE DEF c
<1>5. \A d, e \in Range(slot) : d < e =>
        /\ Range(c[e].immutable) \subseteq Range(c[d].immutable)
        /\ IsSuffix(c[e].mutable, c[d].mutable)
  BY <1>3, <1>4 DEF FramesInv, Enclosed
<1> QED BY <1>1, <1>4, <1>5, Retold

(* So do writes, those of a replayed entry in order *)
LEMMA WritesTold ==
  ASSUME NEW frames, FramesInv(frames), IsChain(slot, frames, Len(frames)),
         NEW calls, calls \in Seq(Range(calls))
  PROVE  /\ FramesInv(RecordWrites(frames, calls))
         /\ Same(frames, RecordWrites(frames, calls))
<1> DEFINE c == [d \in DOMAIN frames |-> RecordMutable(frames[d].con, calls)]
<1>1. RecordWrites(frames, calls) =
        [d \in DOMAIN frames |->
           IF Records(d) THEN [frames[d] EXCEPT !.con = c[d]] ELSE frames[d]]
  BY DEF RecordWrites
<1>2. DOMAIN frames = 1 .. Len(frames)
  BY Elements DEF FramesInv, Shaped
<1>3. \A d \in Range(slot) :
        /\ d \in DOMAIN frames /\ frames[d].mode = "recorded"
        /\ IsConstraint(frames[d].con)
  BY <1>2 DEF IsChain, FramesInv, Shaped
<1>4. \A d \in Range(slot) :
        /\ IsConstraint(c[d]) /\ c[d].immutable = frames[d].con.immutable
        /\ c[d].mutable = frames[d].con.mutable \o calls
  BY <1>3, RecordMutables
<1> HIDE DEF c
<1>5. \A d, e \in Range(slot) : d < e =>
        /\ Range(c[e].immutable) \subseteq Range(c[d].immutable)
        /\ IsSuffix(c[e].mutable, c[d].mutable)
  <2> SUFFICES ASSUME NEW d \in Range(slot), NEW e \in Range(slot), d < e
               PROVE  /\ Range(c[e].immutable) \subseteq Range(c[d].immutable)
                      /\ IsSuffix(c[e].mutable, c[d].mutable)
    OBVIOUS
  <2>1. /\ Range(frames[e].con.immutable) \subseteq Range(frames[d].con.immutable)
        /\ IsSuffix(frames[e].con.mutable, frames[d].con.mutable)
    BY <1>3 DEF FramesInv, Enclosed
  <2>2. /\ frames[d].con.mutable \in Seq(Range(frames[d].con.mutable))
        /\ frames[e].con.mutable \in Seq(Range(frames[e].con.mutable))
    BY <1>3 DEF IsConstraint
  <2> QED BY <2>1, <2>2, <1>4, SuffixGrows
<1> QED BY <1>1, <1>4, <1>5, Retold

(* Frames that differ in what they have observed only *)
LEMMA Alike ==
  ASSUME NEW frames, FramesInv(frames), NEW new, Same(frames, new),
         \A d \in 1 .. Len(frames) : new[d].con = frames[d].con
  PROVE  FramesInv(new)
<1>1. /\ frames \in Seq(Range(frames)) /\ Len(frames) \in Nat /\ DOMAIN frames = 1 .. Len(frames)
  BY Elements DEF FramesInv, Shaped
<1>2. new \in Seq(Range(new)) /\ DOMAIN new = 1 .. Len(frames)
  BY Elements DEF Same
<1>3. Shaped(new)
  BY <1>1, <1>2 DEF FramesInv, Shaped, Same
<1>4. DetachRestores(new)
  <2> SUFFICES ASSUME NEW d \in 1 .. Len(frames), new[d].mode = "recorded"
               PROVE  IsChain(new[d].prev, new, d - 1)
    BY <1>2 DEF DetachRestores
  <2>1. IsChain(frames[d].prev, frames, d - 1)
    BY <1>1 DEF FramesInv, DetachRestores, Same
  <2>2. \A i \in 1 .. d - 1 : new[i].mode = frames[i].mode
    BY <1>1 DEF Same
  <2>3. IsChain(frames[d].prev, new, d - 1)
    BY <2>1, <2>2, ChainByModes
  <2> QED BY <2>3 DEF Same
<1>5. Enclosed(new)
  BY <1>1, <1>2 DEF FramesInv, Enclosed, Same
<1> QED BY <1>3, <1>4, <1>5 DEF FramesInv

(* A delivered value changes the observations of the innermost call *)
LEMMA Delivered ==
  ASSUME NEW frames, FramesInv(frames), NEW val
  PROVE  FramesInv(Deliver(frames, val)) /\ Same(frames, Deliver(frames, val))
<1>1. /\ frames \in Seq(Range(frames)) /\ Len(frames) \in Nat /\ DOMAIN frames = 1 .. Len(frames)
      /\ \A d \in 1 .. Len(frames) : DOMAIN frames[d] = FrameFields
  BY Elements DEF FramesInv, Shaped
<1>2. Same(frames, frames)
  BY <1>1 DEF Same
<1>3. CASE frames = <<>>
  BY <1>2, <1>3 DEF Deliver
<1>4. CASE frames # <<>>
  <2> DEFINE new == [frames EXCEPT ![Len(frames)].obs = Append(@, val)]
  <2>1. new = [d \in 1 .. Len(frames) |-> new[d]]
    BY <1>1
  <2>2. new \in Seq(Range(new)) /\ Len(new) = Len(frames)
    BY <1>1, <2>1, FunctionIsSeq
  <2>3. \A d \in 1 .. Len(frames) :
          /\ DOMAIN new[d] = FrameFields
          /\ new[d].fun = frames[d].fun /\ new[d].key = frames[d].key
          /\ new[d].id = frames[d].id /\ new[d].mode = frames[d].mode
          /\ new[d].prev = frames[d].prev /\ new[d].before = frames[d].before
          /\ new[d].con = frames[d].con
    BY <1>1 DEF FrameFields
  <2>4. Same(frames, new)
    BY <2>2, <2>3 DEF Same
  <2>5. FramesInv(new)
    BY <2>3, <2>4, Alike
  <2>6. Deliver(frames, val) = new
    BY <1>4 DEF Deliver
  <2> QED BY <2>4, <2>5, <2>6
<1> QED BY <1>3, <1>4

(* Without the innermost call, the invariant holds of the others, and the  *)
(* recorders that detach leaves are theirs.                                *)
LEMMA Shorter ==
  ASSUME NEW frames, FramesInv(frames), frames # <<>>,
         IsChain(slot, frames, Len(frames))
  PROVE  /\ FramesInv(Front(frames))
         /\ IsChain(IF Last(frames).mode = "recorded" THEN Last(frames).prev ELSE slot,
                    Front(frames), Len(Front(frames)))
<1> DEFINE new == Front(frames)
           n == Len(frames)
<1>1. /\ frames \in Seq(Range(frames)) /\ n \in Nat \ {0} /\ DOMAIN frames = 1 .. n
  BY Elements, Shortened DEF FramesInv, Shaped
<1>2. /\ new \in Seq(Range(new)) /\ Len(new) = n - 1 /\ DOMAIN new = 1 .. n - 1
      /\ \A i \in 1 .. n - 1 : new[i] = frames[i]
      /\ Last(frames) = frames[n]
  BY <1>1, Shortened
<1> HIDE DEF new
<1>3. Shaped(new)
  BY <1>1, <1>2 DEF FramesInv, Shaped
<1>4. DetachRestores(new)
  <2> SUFFICES ASSUME NEW d \in 1 .. n - 1, new[d].mode = "recorded"
               PROVE  IsChain(new[d].prev, new, d - 1)
    BY <1>2 DEF DetachRestores
  <2>1. IsChain(frames[d].prev, frames, d - 1)
    BY <1>1, <1>2 DEF FramesInv, DetachRestores
  <2>2. \A i \in 1 .. d - 1 : new[i].mode = frames[i].mode
    BY <1>1, <1>2
  <2>3. IsChain(frames[d].prev, new, d - 1)
    BY <2>1, <2>2, ChainByModes
  <2> QED BY <1>2, <2>3
<1>5. Enclosed(new)
  <2> SUFFICES ASSUME NEW d \in 1 .. n - 1, NEW e \in 1 .. n - 1, d < e,
                      new[d].mode = "recorded", new[e].mode = "recorded"
               PROVE  /\ Range(new[e].con.immutable) \subseteq Range(new[d].con.immutable)
                      /\ IsSuffix(new[e].con.mutable, new[d].con.mutable)
    BY <1>2 DEF Enclosed
  <2>1. d \in 1 .. n /\ e \in 1 .. n /\ new[d] = frames[d] /\ new[e] = frames[e]
    BY <1>1, <1>2
  <2> QED BY <1>1, <2>1 DEF FramesInv, Enclosed
<1>6. \A i \in 1 .. n - 1 : new[i].mode = frames[i].mode
  BY <1>2
<1>7. CASE Last(frames).mode = "recorded"
  <2>1. IsChain(frames[n].prev, frames, n - 1)
    BY <1>1, <1>2, <1>7 DEF FramesInv, DetachRestores
  <2>2. IsChain(frames[n].prev, new, n - 1)
    BY <2>1, <1>6, ChainByModes
  <2> QED BY <1>2, <1>3, <1>4, <1>5, <1>7, <2>2 DEF FramesInv, new
<1>8. CASE Last(frames).mode # "recorded"
  <2>1. IsChain(slot, frames, n - 1)
    BY <1>1, <1>2, <1>8 DEF IsChain
  <2>2. IsChain(slot, new, n - 1)
    BY <2>1, <1>6, ChainByModes
  <2> QED BY <1>2, <1>3, <1>4, <1>5, <1>8, <2>2 DEF FramesInv, new
<1> QED BY <1>7, <1>8

(* A call that starts: its constraint is empty, and its recorder, if it    *)
(* has one, is the innermost.                                              *)
LEMMA Pushed ==
  ASSUME NEW frames, FramesInv(frames), IsChain(slot, frames, Len(frames)),
         NEW fun \in Funs, NEW key, NEW id, NEW mode,
         mode = "bypassed" <=> ~Memoized(fun, key),
         mode = "recorded" => fun \notin Pure
  PROVE  LET new == Append(frames, Frame(fun, key, id, mode)) IN
           /\ FramesInv(new)
           /\ IsChain(IF mode = "recorded" THEN <<Len(frames) + 1>> \o slot ELSE slot,
                      new, Len(new))
<1> DEFINE f == Frame(fun, key, id, mode)
           new == Append(frames, f)
           n == Len(frames)
<1>1. /\ frames \in Seq(Range(frames)) /\ n \in Nat /\ DOMAIN frames = 1 .. n
  BY Elements DEF FramesInv, Shaped
<1>2. /\ new \in Seq(Range(new)) /\ Len(new) = n + 1 /\ DOMAIN new = 1 .. n + 1
      /\ \A i \in 1 .. n : new[i] = frames[i]
      /\ new[n + 1] = f
  BY <1>1, Appended
<1>3. /\ DOMAIN f = FrameFields /\ f.fun = fun /\ f.key = key /\ f.mode = mode
      /\ f.con = EmptyConstraint /\ f.prev = slot
  BY DEF Frame, FrameFields
<1>4. /\ EmptyConstraint.immutable = <<>> /\ EmptyConstraint.mutable = <<>>
      /\ Range(<<>>) = {} /\ <<>> \in Seq({})
      /\ EmptyConstraint = [immutable |-> EmptyConstraint.immutable,
                            mutable |-> EmptyConstraint.mutable]
  BY DEF EmptyConstraint, Range
<1>5. IsConstraint(EmptyConstraint)
  BY <1>4 DEF IsConstraint, IsPairs
<1> HIDE DEF f, new
<1>6. Shaped(new)
  <2> SUFFICES ASSUME NEW d \in 1 .. n + 1
               PROVE  /\ DOMAIN new[d] = FrameFields
                      /\ new[d].fun \in Funs
                      /\ new[d].mode = "bypassed" <=> ~Memoized(new[d].fun, new[d].key)
                      /\ new[d].mode = "recorded" => new[d].fun \notin Pure
                      /\ IsConstraint(new[d].con)
                      /\ new[d].mode # "recorded" => new[d].con = EmptyConstraint
    BY <1>2 DEF Shaped
  <2>1. CASE d = n + 1
    BY <1>2, <1>3, <1>5, <2>1
  <2>2. CASE d # n + 1
    <3>1. d \in 1 .. n /\ new[d] = frames[d]
      BY <1>1, <1>2, <2>2
    <3> QED BY <1>1, <3>1 DEF FramesInv, Shaped
  <2> QED BY <2>1, <2>2
<1>7. \A i \in 1 .. n : new[i].mode = frames[i].mode
  BY <1>2
<1>8. DetachRestores(new)
  <2> SUFFICES ASSUME NEW d \in 1 .. n + 1, new[d].mode = "recorded"
               PROVE  IsChain(new[d].prev, new, d - 1)
    BY <1>2 DEF DetachRestores
  <2>1. CASE d = n + 1
    <3>1. IsChain(slot, new, n)
      BY <1>7, ChainByModes
    <3> QED BY <1>1, <1>2, <1>3, <2>1, <3>1
  <2>2. CASE d # n + 1
    <3>1. d \in 1 .. n /\ new[d] = frames[d]
      BY <1>1, <1>2, <2>2
    <3>2. IsChain(frames[d].prev, frames, d - 1)
      BY <1>1, <3>1 DEF FramesInv, DetachRestores
    <3>3. \A i \in 1 .. d - 1 : new[i].mode = frames[i].mode
      BY <1>1, <1>7, <3>1
    <3>4. IsChain(frames[d].prev, new, d - 1)
      BY <3>2, <3>3, ChainByModes
    <3> QED BY <3>1, <3>4
  <2> QED BY <2>1, <2>2
<1>9. Enclosed(new)
  <2> SUFFICES ASSUME NEW d \in 1 .. n + 1, NEW e \in 1 .. n + 1, d < e,
                      new[d].mode = "recorded", new[e].mode = "recorded"
               PROVE  /\ Range(new[e].con.immutable) \subseteq Range(new[d].con.immutable)
                      /\ IsSuffix(new[e].con.mutable, new[d].con.mutable)
    BY <1>2 DEF Enclosed
  <2>1. d \in 1 .. n /\ new[d] = frames[d]
    BY <1>1, <1>2
  <2>2. CASE e = n + 1
    <3>1. frames[d].con.mutable \in Seq(Range(frames[d].con.mutable))
      BY <1>1, <2>1 DEF FramesInv, Shaped, IsConstraint
    <3>2. IsSuffix(<<>>, frames[d].con.mutable)
      BY <3>1, EmptySuffix
    <3> QED BY <1>2, <1>3, <1>4, <2>1, <2>2, <3>2
  <2>3. CASE e # n + 1
    <3>1. e \in 1 .. n /\ new[e] = frames[e]
      BY <1>1, <1>2, <2>3
    <3> QED BY <1>1, <2>1, <3>1 DEF FramesInv, Enclosed
  <2> QED BY <2>2, <2>3
<1>10. CASE mode = "recorded"
  <2> DEFINE one == <<n + 1>>
             s == one \o slot
  <2>1. /\ slot \in Seq(Range(slot)) /\ Len(slot) \in Nat /\ DOMAIN slot = 1 .. Len(slot)
        /\ Range(slot) = {d \in 1 .. n : frames[d].mode = "recorded"}
        /\ \A i, j \in DOMAIN slot : i < j => slot[i] > slot[j]
    BY Elements DEF IsChain
  <2>2. /\ one \in Seq(Range(one)) /\ Len(one) = 1 /\ one[1] = n + 1
        /\ Range(one) = {n + 1}
    BY DEF Range
  <2> HIDE DEF one
  <2>3. /\ s \in Seq(Range(s)) /\ DOMAIN s = 1 .. 1 + Len(slot)
        /\ \A i \in 1 .. 1 : s[i] = one[i]
        /\ \A i \in 1 .. Len(slot) : s[1 + i] = slot[i]
        /\ Range(s) = {n + 1} \cup Range(slot)
    <3>1. slot \in Seq(Range(slot)) /\ one \in Seq(Range(one))
      BY <2>1, <2>2
    <3>2. /\ s \in Seq(Range(s))
          /\ DOMAIN s = 1 .. Len(one) + Len(slot)
          /\ \A i \in 1 .. Len(one) : s[i] = one[i]
          /\ \A i \in 1 .. Len(slot) : s[Len(one) + i] = slot[i]
          /\ Range(s) = Range(one) \cup Range(slot)
      BY <3>1, Joined
    <3> QED BY <2>2, <3>2
  <2>4. s[1] = n + 1
    BY <2>2, <2>3
  <2> HIDE DEF s
  <2>5. Range(s) = {d \in 1 .. n + 1 : new[d].mode = "recorded"}
    BY <1>1, <1>2, <1>3, <1>7, <1>10, <2>1, <2>3
  <2>6. ASSUME NEW i \in DOMAIN s, NEW j \in DOMAIN s, i < j PROVE s[i] > s[j]
    <3>1. j - 1 \in 1 .. Len(slot) /\ s[j] = slot[j - 1]
      <4>1. j - 1 \in 1 .. Len(slot) /\ 1 + (j - 1) = j
        BY <2>1, <2>3, <2>6
      <4> QED BY <4>1, <2>3
    <3>2. slot[j - 1] \in 1 .. n
      BY <2>1, <3>1, Elements
    <3>3. CASE i = 1
      BY <1>1, <2>4, <3>1, <3>2, <3>3
    <3>4. CASE i # 1
      <4>1. i - 1 \in 1 .. Len(slot) /\ 1 + (i - 1) = i /\ i - 1 < j - 1
        BY <2>1, <2>3, <2>6, <3>4, SMTT(20)
      <4>2. s[i] = slot[i - 1]
        BY <4>1, <2>3
      <4> QED BY <2>1, <3>1, <4>1, <4>2
    <3> QED BY <3>3, <3>4
  <2>7. IsChain(s, new, n + 1)
    BY <2>3, <2>5, <2>6 DEF IsChain
  <2> QED BY <1>2, <1>6, <1>8, <1>9, <1>10, <2>7 DEF FramesInv, s, one, new, f
<1>11. CASE mode # "recorded"
  <2>1. IsChain(slot, new, n + 1)
    BY <1>1, <1>2, <1>3, <1>7, <1>11 DEF IsChain
  <2> QED BY <1>2, <1>6, <1>8, <1>9, <1>11, <2>1 DEF FramesInv, new, f
<1> QED BY <1>10, <1>11

-----------------------------------------------------------------------------
(* Lookups. *)

(* The questions a lookup asks lie on one way into the tree: the walk is a *)
(* sequence of calls with the answers they get now, and it goes through    *)
(* every entry that matches.                                               *)
LEMMA WalkShape ==
  ASSUME NEW fun \in Funs, NEW key, NEW id,
         EntriesShaped(caches[fun]), AllPart(caches[fun])
  PROVE  /\ IsPairs(Walk(fun, key, id))
         /\ \A q \in Range(Walk(fun, key, id)) : q.ret = Validate(id, q.call)
         /\ \A e \in Hits(fun, key, id) : Range(e.path) \subseteq Range(Walk(fun, key, id))
         /\ \A n \in 1 .. Len(Walk(fun, key, id)) :
              \E e \in OfKey(caches[fun], key) :
                /\ n \in 1 .. Len(e.path) /\ e.path[n].call = Walk(fun, key, id)[n].call
                /\ \A i \in 1 .. n - 1 : e.path[i] = Walk(fun, key, id)[i]
<1> DEFINE tree == caches[fun]
           oracle == Oracle(fun, id)
           asked == Asked(fun, key, id)
           lens == {Len(x.at) + 1 : x \in asked}
           Ask(n) == (CHOOSE x \in asked : Len(x.at) = n - 1).call
           walk == Walk(fun, key, id)
<1>1. \A e \in tree : IsPairs(e.path)
  BY DEF EntriesShaped
<1>2. \A e \in tree : /\ e.path \in Seq(Range(e.path)) /\ Len(e.path) \in Nat
                      /\ DOMAIN e.path = 1 .. Len(e.path)
                      /\ \A i \in 1 .. Len(e.path) : e.path[i] \in Range(e.path)
  BY <1>1, Elements DEF IsPairs
<1>3. walk = [n \in lens |-> [call |-> Ask(n), ret |-> Validate(id, Ask(n))]]
  BY DEF Walk
<1>4. ASSUME NEW e \in OfKey(tree, key), NEW n \in 1 .. Len(e.path),
             \A i \in 1 .. n - 1 : oracle[e.path[i].call] = e.path[i].ret
      PROVE  [at |-> Prefix(e.path, n - 1), call |-> e.path[n].call] \in asked
  <2> DEFINE x == [at |-> Prefix(e.path, n - 1), call |-> e.path[n].call]
  <2>1. e \in tree
    BY DEF OfKey
  <2>2. n \in DOMAIN e.path /\ n - 1 \in 0 .. Len(e.path)
    BY <1>2, <2>1
  <2>3. x \in Questions(tree, key)
    BY <2>2 DEF Questions
  <2>4. Range(Prefix(e.path, n - 1)) = {e.path[i] : i \in 1 .. n - 1}
    BY <1>2, <2>1, <2>2, PrefixShape
  <2> QED BY <1>4, <2>3, <2>4 DEF Asked
<1>5. ASSUME NEW x \in asked
      PROVE  \E e \in OfKey(tree, key) : \E n \in 1 .. Len(e.path) :
               /\ x = [at |-> Prefix(e.path, n - 1), call |-> e.path[n].call]
               /\ Len(x.at) = n - 1
               /\ \A i \in 1 .. n - 1 : oracle[e.path[i].call] = e.path[i].ret
  <2>1a. PICK e \in OfKey(tree, key) :
           x \in {[at |-> Prefix(e.path, n - 1), call |-> e.path[n].call] : n \in DOMAIN e.path}
    <3>1. x \in Questions(tree, key)
      BY DEF Asked
    <3> QED BY <3>1 DEF Questions
  <2>1. PICK n \in DOMAIN e.path :
          x = [at |-> Prefix(e.path, n - 1), call |-> e.path[n].call]
    BY <2>1a
  <2>2. e \in tree
    BY DEF OfKey
  <2>3. n \in 1 .. Len(e.path) /\ n - 1 \in 0 .. Len(e.path)
    BY <1>2, <2>2
  <2>4. /\ Len(Prefix(e.path, n - 1)) = n - 1
        /\ Range(Prefix(e.path, n - 1)) = {e.path[i] : i \in 1 .. n - 1}
    BY <1>2, <2>2, <2>3, PrefixShape
  <2>5. \A q \in Range(x.at) : oracle[q.call] = q.ret
    BY DEF Asked
  <2>6. x.at = Prefix(e.path, n - 1)
    BY <2>1
  <2>7. \A i \in 1 .. n - 1 : oracle[e.path[i].call] = e.path[i].ret
    BY <2>4, <2>5, <2>6
  <2> QED BY <2>1, <2>3, <2>4, <2>6, <2>7
<1>6. PICK b \in Nat : \A e \in tree : Len(e.path) <= b
  BY <1>2, PathsBounded DEF EntriesShaped
<1> HIDE DEF asked, walk, oracle, tree
<1>7. lens \subseteq Nat \ {0} /\ \A n \in lens : n <= b
  <2> SUFFICES ASSUME NEW x \in asked
               PROVE  Len(x.at) + 1 \in Nat \ {0} /\ Len(x.at) + 1 <= b
    OBVIOUS
  <2>1. PICK e \in OfKey(tree, key) : \E n \in 1 .. Len(e.path) : Len(x.at) = n - 1
    BY <1>5
  <2>2. e \in tree
    BY DEF OfKey
  <2> QED BY <1>2, <1>6, <2>1, <2>2
<1>8. ASSUME NEW n \in lens, NEW k \in 1 .. n PROVE k \in lens
  <2>1. PICK x \in asked : n = Len(x.at) + 1
    OBVIOUS
  <2>2a. PICK e \in OfKey(tree, key) : \E m \in 1 .. Len(e.path) :
           /\ Len(x.at) = m - 1
           /\ \A i \in 1 .. m - 1 : oracle[e.path[i].call] = e.path[i].ret
    BY <1>5
  <2>2. PICK m \in 1 .. Len(e.path) :
          /\ Len(x.at) = m - 1
          /\ \A i \in 1 .. m - 1 : oracle[e.path[i].call] = e.path[i].ret
    BY <2>2a
  <2>3. e \in tree
    BY DEF OfKey
  <2>4. m = n /\ k \in 1 .. Len(e.path) /\ k - 1 \in 0 .. Len(e.path)
    BY <1>2, <2>1, <2>2, <2>3
  <2>5. \A i \in 1 .. k - 1 : oracle[e.path[i].call] = e.path[i].ret
    BY <2>2, <2>4
  <2> DEFINE y == [at |-> Prefix(e.path, k - 1), call |-> e.path[k].call]
  <2>6. y \in asked
    BY <1>4, <2>4, <2>5
  <2>7. Len(y.at) + 1 = k
    <3>1. Len(Prefix(e.path, k - 1)) = k - 1
      BY <1>2, <2>3, <2>4, PrefixShape
    <3> QED BY <3>1
  <2> QED BY <2>6, <2>7
<1> HIDE DEF lens
<1>9. PICK L \in Nat : lens = 1 .. L
  <2>1. CASE lens = {}
    <3>1. lens = 1 .. 0
      BY <2>1
    <3> QED BY <3>1
  <2>2. CASE lens # {}
    <3>1. lens \subseteq Nat
      BY <1>7
    <3>2. PICK m \in lens : \A j \in lens : j <= m
      BY <1>7, <2>2, <3>1, GreatestNat
    <3>3. lens = 1 .. m
      <4>1. \A k \in 1 .. m : k \in lens
        BY <1>8
      <4>2. \A k \in lens : k \in Nat \ {0} /\ k <= m
        BY <1>7, <3>2
      <4>3. m \in Nat \ {0}
        BY <1>7
      <4>4. \A k \in lens : k \in 1 .. m
        BY <4>2, <4>3
      <4> QED BY <4>1, <4>4
    <3> QED BY <1>7, <3>3
  <2> QED BY <2>1, <2>2
<1> HIDE DEF Ask
<1>10. /\ walk \in Seq(Range(walk)) /\ Len(walk) = L /\ DOMAIN walk = 1 .. L
  <2>1. walk = [n \in 1 .. L |-> walk[n]]
    BY <1>3, <1>9
  <2> QED BY <2>1, FunctionIsSeq
<1>11. \A n \in 1 .. L : walk[n] = [call |-> Ask(n), ret |-> Validate(id, Ask(n))]
  BY <1>3, <1>9
<1>12. Range(walk) = {walk[n] : n \in 1 .. L}
  BY <1>10 DEF Range
<1>13. IsPairs(walk)
  BY <1>10, <1>11, <1>12 DEF IsPairs
<1>14. ASSUME NEW q \in Range(walk) PROVE q.ret = Validate(id, q.call)
  <2>1. PICK n \in 1 .. L : q = walk[n]
    BY <1>12
  <2>2. q = [call |-> Ask(n), ret |-> Validate(id, Ask(n))]
    BY <1>11, <2>1
  <2> QED BY <2>2
<1>15. ASSUME NEW e \in OfKey(tree, key), NEW i \in 1 .. Len(e.path),
              \A j \in 1 .. i : oracle[e.path[j].call] = e.path[j].ret
       PROVE  i \in 1 .. L /\ walk[i] = e.path[i]
  <2>2. e \in tree
    BY DEF OfKey
  <2>3. \A j \in 1 .. i : oracle[e.path[j].call] = e.path[j].ret
    BY <1>15
  <2> DEFINE x == [at |-> Prefix(e.path, i - 1), call |-> e.path[i].call]
  <2>4. x \in asked
    <3>1. \A j \in 1 .. i - 1 : oracle[e.path[j].call] = e.path[j].ret
      BY <1>2, <2>2, <2>3
    <3> QED BY <1>4, <3>1
  <2>5. Len(x.at) = i - 1
    <3>1. i - 1 \in 0 .. Len(e.path)
      BY <1>2, <2>2
    <3>2. Len(Prefix(e.path, i - 1)) = i - 1
      BY <1>2, <2>2, <3>1, PrefixShape
    <3> QED BY <3>2
  <2> HIDE DEF x
  <2>6. i \in lens
    <3>1. Len(x.at) + 1 = i
      BY <1>2, <2>2, <2>5
    <3> QED BY <2>4, <3>1 DEF lens
  <2>7. PICK y \in asked : Len(y.at) = i - 1 /\ Ask(i) = y.call
    BY <2>4, <2>5 DEF Ask
  <2>8a. PICK g \in OfKey(tree, key) : \E m \in 1 .. Len(g.path) :
           /\ y = [at |-> Prefix(g.path, m - 1), call |-> g.path[m].call]
           /\ Len(y.at) = m - 1
           /\ \A j \in 1 .. m - 1 : oracle[g.path[j].call] = g.path[j].ret
    BY <1>5
  <2>8. PICK m \in 1 .. Len(g.path) :
          /\ y = [at |-> Prefix(g.path, m - 1), call |-> g.path[m].call]
          /\ Len(y.at) = m - 1
          /\ \A j \in 1 .. m - 1 : oracle[g.path[j].call] = g.path[j].ret
    BY <2>8a
  <2>9. g \in tree
    BY DEF OfKey
  <2>10. m = i /\ Ask(i) = g.path[i].call
    BY <1>2, <2>2, <2>7, <2>8, <2>9
  <2>11. e.path[i].call = g.path[i].call
    <3>1. \A j \in 1 .. i - 1 : /\ oracle[e.path[j].call] = e.path[j].ret
                                /\ oracle[g.path[j].call] = g.path[j].ret
      <4>1. \A j \in 1 .. i - 1 : oracle[e.path[j].call] = e.path[j].ret
        BY <1>2, <2>2, <2>3
      <4>2. \A j \in 1 .. i - 1 : oracle[g.path[j].call] = g.path[j].ret
        BY <2>8, <2>10
      <4> QED BY <4>1, <4>2
    <3>2. i \in 1 .. Len(g.path)
      BY <2>10
    <3>3. AllPart(tree) /\ \A h \in tree : IsPairs(h.path)
      BY <1>1 DEF tree
    <3> HIDE DEF tree
    <3> QED BY <3>1, <3>2, <3>3, OneWay, SMTT(20)
  <2>12. Validate(id, e.path[i].call) = e.path[i].ret
    <3>1. e.path[i].call \in UNION {CallsOf(h.path) : h \in tree}
      BY <1>2, <2>2 DEF CallsOf
    <3>2. oracle[e.path[i].call] = Validate(id, e.path[i].call)
      BY <3>1 DEF oracle, Oracle, tree
    <3> QED BY <2>3, <3>2
  <2>13. e.path[i] = [call |-> e.path[i].call, ret |-> e.path[i].ret]
    BY <1>1, <1>2, <2>2 DEF IsPairs
  <2>14. i \in 1 .. L
    BY <1>9, <2>6
  <2>15. walk[i] = [call |-> Ask(i), ret |-> Validate(id, Ask(i))]
    BY <1>11, <2>14
  <2>16. walk[i] = e.path[i]
    BY <2>10, <2>11, <2>12, <2>13, <2>15
  <2> QED BY <2>14, <2>16
<1>16. ASSUME NEW e \in Hits(fun, key, id) PROVE Range(e.path) \subseteq Range(walk)
  <2>1. e \in tree
    BY DEF Hits, Matching, OfKey, tree
  <2>2. Range(e.path) = {e.path[i] : i \in 1 .. Len(e.path)}
    BY <1>2, <2>1 DEF Range
  <2>3. e \in OfKey(tree, key) /\ \A q \in Range(e.path) : oracle[q.call] = q.ret
    BY DEF Hits, Matching, Matches, tree, oracle
  <2>4. ASSUME NEW i \in 1 .. Len(e.path) PROVE e.path[i] \in Range(walk)
    <3>1. \A j \in 1 .. i : oracle[e.path[j].call] = e.path[j].ret
      BY <1>2, <2>1, <2>3
    <3> QED BY <1>12, <1>15, <2>3, <3>1
  <2> QED BY <2>2, <2>4
<1>17. ASSUME NEW n \in 1 .. L
       PROVE  \E e \in OfKey(tree, key) :
                /\ n \in 1 .. Len(e.path) /\ e.path[n].call = walk[n].call
                /\ \A i \in 1 .. n - 1 : e.path[i] = walk[i]
  <2>1. \E x \in asked : Len(x.at) = n - 1
    <3>1. PICK x \in asked : n = Len(x.at) + 1
      BY <1>9 DEF lens
    <3>2. PICK e \in OfKey(tree, key) : \E m \in 1 .. Len(e.path) : Len(x.at) = m - 1
      BY <1>5
    <3>3. e \in tree
      BY DEF OfKey
    <3> QED BY <1>2, <3>1, <3>2, <3>3
  <2>2. PICK y \in asked : Len(y.at) = n - 1 /\ Ask(n) = y.call
    BY <2>1 DEF Ask
  <2>3a. PICK e \in OfKey(tree, key) : \E m \in 1 .. Len(e.path) :
           /\ y = [at |-> Prefix(e.path, m - 1), call |-> e.path[m].call]
           /\ Len(y.at) = m - 1
           /\ \A j \in 1 .. m - 1 : oracle[e.path[j].call] = e.path[j].ret
    BY <1>5
  <2>3. PICK m \in 1 .. Len(e.path) :
          /\ y = [at |-> Prefix(e.path, m - 1), call |-> e.path[m].call]
          /\ Len(y.at) = m - 1
          /\ \A j \in 1 .. m - 1 : oracle[e.path[j].call] = e.path[j].ret
    BY <2>3a
  <2>4. e \in tree
    BY DEF OfKey
  <2>5. m = n /\ Ask(n) = e.path[n].call
    BY <1>2, <2>2, <2>3, <2>4
  <2>6. n \in 1 .. Len(e.path) /\ e.path[n].call = walk[n].call
    <3>1. walk[n] = [call |-> Ask(n), ret |-> Validate(id, Ask(n))]
      BY <1>11
    <3>2. walk[n].call = Ask(n)
      BY <3>1
    <3> QED BY <2>5, <3>2
  <2>7. ASSUME NEW i \in 1 .. n - 1 PROVE e.path[i] = walk[i]
    <3>1. i \in 1 .. Len(e.path)
      BY <1>2, <2>4, <2>6
    <3>2. \A j \in 1 .. i : oracle[e.path[j].call] = e.path[j].ret
      BY <2>3, <2>5
    <3> QED BY <1>15, <3>1, <3>2
  <2> QED BY <2>6, <2>7
<1>18. Len(walk) = L
  BY <1>10
<1> HIDE DEF walk
<1>19. \A n \in 1 .. Len(walk) :
         \E e \in OfKey(tree, key) :
           /\ n \in 1 .. Len(e.path) /\ e.path[n].call = walk[n].call
           /\ \A i \in 1 .. n - 1 : e.path[i] = walk[i]
  BY <1>17, <1>18
<1> QED BY <1>13, <1>14, <1>16, <1>19 DEF walk, tree

(* Telling the recorders of a walk that contradicts none of them *)
LEMMA ToldKeeps ==
  ASSUME IInv, ~panicked, NEW fun \in Funs, NEW key, NEW id, ~Contradicted(fun, key, id)
  PROVE  FramesInv(Told(fun, key, id)) /\ Same(stack, Told(fun, key, id))
<1>1. FramesInv(stack) /\ IsChain(slot, stack, Len(stack))
  BY DEF IInv, RecorderChain
<1>2. CASE Original
  <2> DEFINE walk == Walk(fun, key, id)
  <2>1. EntriesShaped(caches[fun]) /\ AllPart(caches[fun])
    BY DEF IInv, CachesShaped, OneEntryMatches, AllPart
  <2>2. IsPairs(walk) /\ \A q \in Range(walk) : q.ret = Validate(id, q.call)
    BY <2>1, WalkShape
  <2>3. \A q \in Range(walk), d \in Range(slot) : ~Differs(stack[d].con, q.call, q.ret)
    BY <1>2 DEF Contradicted
  <2> HIDE DEF walk
  <2>4. \A p, q \in Range(walk) : p.call = q.call => p.ret = q.ret
    BY <2>2
  <2>5. FramesInv(RecordReads(stack, walk)) /\ Same(stack, RecordReads(stack, walk))
    BY <1>1, <2>2, <2>3, <2>4, WalkTold
  <2> QED BY <1>2, <2>5 DEF Told, walk
<1>3. CASE ~Original
  <2>1. Told(fun, key, id) = stack
    BY <1>3 DEF Told
  <2>2. Same(stack, stack)
    BY <1>1, Elements DEF Same, FramesInv, Shaped
  <2> QED BY <1>1, <2>1, <2>2
<1> QED BY <1>2, <1>3

-----------------------------------------------------------------------------
(* Entries.  Refreshing, ageing and inserting keep them apart. *)

(* The entry of a hit gets the age 0 *)
LEMMA Refreshed ==
  ASSUME NEW entries, EntriesShaped(entries), AllPart(entries), NEW e \in entries
  PROVE  LET new == (entries \ {e}) \cup {[e EXCEPT !.age = 0]}
         IN EntriesShaped(new) /\ AllPart(new)
<1> DEFINE y == [e EXCEPT !.age = 0]
           new == (entries \ {e}) \cup {y}
<1>1. DOMAIN e = EntryFields
  BY DEF EntriesShaped
<1>2. /\ DOMAIN y = EntryFields /\ y.path = e.path /\ y.key = e.key /\ y.mutable = e.mutable
  BY <1>1 DEF EntryFields
<1>3. IsFiniteSet(new)
  BY FS_RemoveElement, FS_AddElement DEF EntriesShaped
<1> HIDE DEF y
<1>4. EntriesShaped(new)
  BY <1>2, <1>3 DEF EntriesShaped
<1>5. AllPart(new)
  <2> SUFFICES ASSUME NEW g \in new, NEW h \in new, g # h, g.key = h.key
               PROVE  Diverge(g.path, h.path)
    BY DEF AllPart
  <2>1. CASE g # y /\ h # y
    BY <2>1 DEF AllPart
  <2>2. CASE g = y
    <3>1. h \in entries /\ h # e
      BY <2>2
    <3>2. Diverge(e.path, h.path)
      BY <1>2, <2>2, <3>1 DEF AllPart
    <3> QED BY <1>2, <2>2, <3>2
  <2>3. CASE h = y
    <3>1. g \in entries /\ g # e
      BY <2>3
    <3>2. Diverge(g.path, e.path)
      BY <1>2, <2>3, <3>1 DEF AllPart
    <3> QED BY <1>2, <2>3, <3>2
  <2> QED BY <2>1, <2>2, <2>3
<1> QED BY <1>4, <1>5 DEF y

(* Those that survive an eviction are one older *)
LEMMA Aged ==
  ASSUME NEW entries, EntriesShaped(entries), AllPart(entries), NEW maxAge
  PROVE  LET new == {[e EXCEPT !.age = @ + 1] : e \in {x \in entries : x.age + 1 <= maxAge}}
         IN EntriesShaped(new) /\ AllPart(new)
<1> DEFINE kept == {x \in entries : x.age + 1 <= maxAge}
           Older(e) == [e EXCEPT !.age = @ + 1]
           new == {Older(e) : e \in kept}
<1>1. \A e \in kept : /\ e \in entries /\ DOMAIN Older(e) = EntryFields
                      /\ Older(e).path = e.path /\ Older(e).key = e.key
                      /\ Older(e).mutable = e.mutable
  BY DEF EntriesShaped, EntryFields
<1>2. IsFiniteSet(new)
  <2>1. IsFiniteSet(kept)
    BY FS_Subset DEF EntriesShaped
  <2> DEFINE older == [e \in kept |-> Older(e)]
  <2>2. older \in Surjection(kept, new)
    <3>1. older \in [kept -> new]
      OBVIOUS
    <3>2. \A y \in new : \E e \in kept : older[e] = y
      OBVIOUS
    <3> QED BY <3>1, <3>2 DEF Surjection
  <2> HIDE DEF older, new, kept
  <2> QED BY <2>1, <2>2, FS_Surjection
<1> HIDE DEF Older
<1>3. EntriesShaped(new)
  <2> SUFFICES ASSUME NEW e \in kept
               PROVE  /\ DOMAIN Older(e) = EntryFields
                      /\ IsPairs(Older(e).path)
                      /\ Older(e).mutable \in Seq(Range(Older(e).mutable))
    BY <1>2 DEF EntriesShaped
  <2> QED BY <1>1 DEF EntriesShaped
<1>4. AllPart(new)
  <2> SUFFICES ASSUME NEW e \in kept, NEW g \in kept, Older(e) # Older(g),
                      Older(e).key = Older(g).key
               PROVE  Diverge(Older(e).path, Older(g).path)
    BY DEF AllPart
  <2> QED BY <1>1 DEF AllPart
<1> QED BY <1>3, <1>4 DEF Older

(* An insertion that fits the tree *)
LEMMA Added ==
  ASSUME NEW entries, EntriesShaped(entries), AllPart(entries),
         NEW key, NEW s, IsPairs(s),
         ~AlreadyThere(entries, key, s), ~LacksCall(entries, key, s),
         NEW y, DOMAIN y = EntryFields, y.key = key, y.path = NewPath(entries, key, s),
         y.mutable \in Seq(Range(y.mutable))
  PROVE  EntriesShaped(entries \cup {y}) /\ AllPart(entries \cup {y})
<1>1. IsFiniteSet(entries) /\ \A e \in entries : IsPairs(e.path)
  BY DEF EntriesShaped
<1>2. /\ IsPairs(y.path)
      /\ \A g \in OfKey(entries, key) : Diverge(y.path, g.path)
  BY <1>1, InsertionFits
<1>3. IsFiniteSet(entries \cup {y})
  BY <1>1, FS_AddElement
<1>4. EntriesShaped(entries \cup {y})
  BY <1>2, <1>3 DEF EntriesShaped
<1>5. \A g \in entries : g.key = key => Diverge(y.path, g.path) /\ Diverge(g.path, y.path)
  <2> SUFFICES ASSUME NEW g \in entries, g.key = key
               PROVE  Diverge(y.path, g.path) /\ Diverge(g.path, y.path)
    OBVIOUS
  <2>1. Diverge(y.path, g.path)
    BY <1>2 DEF OfKey
  <2>2. Diverge(g.path, y.path)
    BY <2>1 DEF Diverge
  <2> QED BY <2>1, <2>2
<1>6. AllPart(entries \cup {y})
  BY <1>5 DEF AllPart
<1> QED BY <1>4, <1>6

(* The caches with one of them replaced *)
LEMMA CacheReplaced ==
  ASSUME CachesShaped, OneEntryMatches, NEW fun \in Funs, NEW new,
         EntriesShaped(new), AllPart(new), caches' = [caches EXCEPT ![fun] = new]
  PROVE  CachesShaped' /\ OneEntryMatches'
<1>1. DOMAIN caches' = Funs
  BY DEF CachesShaped
<1>2. \A f \in Funs : EntriesShaped(caches'[f]) /\ AllPart(caches'[f])
  <2> SUFFICES ASSUME NEW f \in Funs
               PROVE  EntriesShaped(caches'[f]) /\ AllPart(caches'[f])
    OBVIOUS
  <2>1. EntriesShaped(caches[f]) /\ AllPart(caches[f])
    BY DEF CachesShaped, OneEntryMatches, AllPart
  <2>2. caches'[f] = IF f = fun THEN new ELSE caches[f]
    BY DEF CachesShaped
  <2> QED BY <2>1, <2>2
<1> QED BY <1>1, <1>2 DEF CachesShaped, OneEntryMatches, AllPart

(* The entry hit on is made young *)
LEMMA HitKeeps ==
  ASSUME CachesShaped, OneEntryMatches, NEW fun \in Funs, NEW e \in caches[fun],
         caches' = [caches EXCEPT ![fun] = (@ \ {e}) \cup {[e EXCEPT !.age = 0]}]
  PROVE  CachesShaped' /\ OneEntryMatches'
<1> DEFINE new == (caches[fun] \ {e}) \cup {[e EXCEPT !.age = 0]}
<1>1. EntriesShaped(caches[fun]) /\ AllPart(caches[fun])
  BY DEF CachesShaped, OneEntryMatches, AllPart
<1>2. EntriesShaped(new) /\ AllPart(new)
  BY <1>1, Refreshed
<1>3. caches' = [caches EXCEPT ![fun] = new]
  BY DEF CachesShaped
<1> HIDE DEF new
<1> QED BY <1>2, <1>3, CacheReplaced

(* What Cache::insert leaves, however the constraint of the call fits *)
LEMMA InsertKeeps ==
  ASSUME IInv, Running, caches' = Inserted
  PROVE  CachesShaped' /\ OneEntryMatches'
<1>1. CachesShaped /\ OneEntryMatches
  BY DEF IInv
<1>2. CASE AlreadyThere(Tree, Top.key, Top.con.immutable) \/ Torn
  <2>1. caches' = caches
    BY <1>2 DEF Inserted
  <2> QED BY <1>1, <2>1 DEF CachesShaped, OneEntryMatches
<1>3. CASE ~(AlreadyThere(Tree, Top.key, Top.con.immutable) \/ Torn)
  <2> DEFINE s == Top.con.immutable
             y == NewEntry(NewPath(Tree, Top.key, s))
             fun == Top.fun
             new == caches[fun] \cup {y}
  <2>1. fun \in Funs /\ IsConstraint(Top.con)
    <3>1. stack \in Seq(Range(stack)) /\ stack # <<>>
      BY DEF IInv, FramesInv, Shaped, Running
    <3>2. Len(stack) \in DOMAIN stack /\ Top = stack[Len(stack)]
      BY <3>1, Shortened, Elements DEF Top
    <3> QED BY <3>2 DEF IInv, FramesInv, Shaped
  <2>2. IsPairs(s) /\ Top.con.mutable \in Seq(Range(Top.con.mutable))
    BY <2>1 DEF IsConstraint
  <2>3. /\ DOMAIN y = EntryFields /\ y.key = Top.key /\ y.path = NewPath(Tree, Top.key, s)
        /\ y.mutable = Top.con.mutable
    BY DEF NewEntry, EntryFields
  <2>4. EntriesShaped(Tree) /\ AllPart(Tree)
    BY <1>1, <2>1 DEF CachesShaped, OneEntryMatches, AllPart, Tree
  <2> HIDE DEF y
  <2>5. EntriesShaped(Tree \cup {y}) /\ AllPart(Tree \cup {y})
    <3>1. ~AlreadyThere(Tree, Top.key, s) /\ ~LacksCall(Tree, Top.key, s)
      BY <1>3 DEF Torn
    <3>2. y.mutable \in Seq(Range(y.mutable))
      BY <2>2, <2>3
    <3> QED BY <2>2, <2>3, <2>4, <3>1, <3>2, Added
  <2>6. EntriesShaped(new) /\ AllPart(new)
    BY <2>5 DEF Tree
  <2>7. caches' = [caches EXCEPT ![fun] = new]
    BY <1>3, <1>1, <2>1 DEF Inserted, y, CachesShaped
  <2> HIDE DEF new, fun
  <2> QED BY <1>1, <2>1, <2>6, <2>7, CacheReplaced
<1> QED BY <1>2, <1>3

-----------------------------------------------------------------------------
(* The steps. *)

(* Frames that run the same calls have the same chain of recorders *)
LEMMA ChainSame ==
  ASSUME NEW frames, NEW new, NEW s, Same(frames, new), IsChain(s, frames, Len(frames))
  PROVE  IsChain(s, new, Len(new))
<1>1. Len(new) = Len(frames) /\ \A d \in 1 .. Len(frames) : new[d].mode = frames[d].mode
  BY DEF Same
<1>2. IsChain(s, new, Len(frames))
  BY <1>1, ChainByModes
<1> QED BY <1>1, <1>2

(* The parts give the whole *)
LEMMA Parts ==
  ASSUME FramesInv(stack'), IsChain(slot', stack', Len(stack')),
         CachesShaped', OneEntryMatches'
  PROVE  IInv'
<1>1. SlotNamesRecorded'
  BY Elements DEF SlotNamesRecorded, IsChain, FramesInv, Shaped
<1>2. RecorderChain'
  BY DEF RecorderChain
<1> QED BY <1>1, <1>2 DEF IInv

(* A step that leaves the running calls, their recorders and the caches    *)
(* alone, whatever it says of panicked.                                    *)
LEMMA Untouched ==
  ASSUME IInv, stack' = stack, slot' = slot, caches' = caches,
         ~panicked' => ~panicked
  PROVE  IInv'
<1>1. FramesInv(stack')
  BY DEF IInv
<1>2. SlotNamesRecorded'
  BY DEF IInv, SlotNamesRecorded
<1>3. RecorderChain'
  BY DEF IInv, RecorderChain
<1>4. CachesShaped' /\ OneEntryMatches'
  BY DEF IInv, CachesShaped, OneEntryMatches
<1> QED BY <1>1, <1>2, <1>3, <1>4 DEF IInv

(* A call of a memoized function, hit, missed or bypassed, keeps the invariant *)
(* (src/lib/memoize.mbt:46-93)                                                 *)
LEMMA CallKeeps ==
  ASSUME IInv, ~panicked, NEW fun \in Funs, NEW key, NEW id, Call(fun, key, id)
  PROVE  IInv'
<1>1. /\ FramesInv(stack) /\ IsChain(slot, stack, Len(stack))
      /\ CachesShaped /\ OneEntryMatches
  BY DEF IInv, RecorderChain
<1>2. CASE Hit(fun, key, id)
  <2> DEFINE told == Told(fun, key, id)
  <2>1. FramesInv(told) /\ Same(stack, told)
    BY <1>2, ToldKeeps DEF Hit
  <2>2. PICK e \in Hits(fun, key, id) :
          /\ caches' = [caches EXCEPT ![fun] = (@ \ {e}) \cup {[e EXCEPT !.age = 0]}]
          /\ stack' = Deliver(RecordWrites(told, e.mutable), e.value)
          /\ slot' = slot
    BY <1>2 DEF Hit, Complete
  <2>3. e \in caches[fun]
    BY DEF Hits, Matching, OfKey
  <2>4. CachesShaped' /\ OneEntryMatches'
    BY <1>1, <2>2, <2>3, HitKeeps
  <2> HIDE DEF told
  <2>5. IsChain(slot, told, Len(told))
    BY <1>1, <2>1, ChainSame
  <2> DEFINE written == RecordWrites(told, e.mutable)
  <2>6. FramesInv(written) /\ Same(told, written)
    <3>1. e.mutable \in Seq(Range(e.mutable))
      BY <1>1, <2>3 DEF CachesShaped, EntriesShaped
    <3> QED BY <2>1, <2>5, <3>1, WritesTold
  <2> HIDE DEF written
  <2>7. IsChain(slot, written, Len(written))
    BY <2>5, <2>6, ChainSame
  <2> DEFINE delivered == Deliver(written, e.value)
  <2>8. FramesInv(delivered) /\ Same(written, delivered)
    BY <2>6, Delivered
  <2> HIDE DEF delivered
  <2>9. IsChain(slot, delivered, Len(delivered))
    BY <2>7, <2>8, ChainSame
  <2>10. stack' = delivered /\ slot' = slot
    BY <2>2 DEF delivered, written
  <2>11. FramesInv(stack') /\ IsChain(slot', stack', Len(stack'))
    BY <2>8, <2>9, <2>10
  <2> QED BY <2>4, <2>11, Parts
<1>3. CASE Miss(fun, key, id)
  <2> DEFINE told == Told(fun, key, id)
  <2>1. FramesInv(told) /\ Same(stack, told)
    BY <1>3, ToldKeeps DEF Miss
  <2>2. /\ stack' = Append(told, Frame(fun, key, id, "recorded"))
        /\ slot' = <<Len(stack) + 1>> \o slot /\ caches' = caches
        /\ Memoized(fun, key) /\ fun \notin Pure
    BY <1>3 DEF Miss
  <2> HIDE DEF told
  <2>3. IsChain(slot, told, Len(told)) /\ Len(told) = Len(stack)
    BY <1>1, <2>1, ChainSame DEF Same
  <2> DEFINE mode == "recorded"
             new == Append(told, Frame(fun, key, id, mode))
  <2>4. /\ mode = "bypassed" <=> ~Memoized(fun, key)
        /\ mode = "recorded" => fun \notin Pure
    BY <2>2
  <2> HIDE DEF mode
  <2>5. /\ FramesInv(new)
        /\ IsChain(IF mode = "recorded" THEN <<Len(told) + 1>> \o slot ELSE slot, new, Len(new))
    BY <2>1, <2>3, <2>4, Pushed
  <2> HIDE DEF new
  <2>6. stack' = new /\ slot' = <<Len(told) + 1>> \o slot
    BY <2>2, <2>3 DEF new, mode
  <2>7. FramesInv(stack') /\ IsChain(slot', stack', Len(stack'))
    BY <2>5, <2>6 DEF mode
  <2>8. CachesShaped' /\ OneEntryMatches'
    BY <1>1, <2>2 DEF CachesShaped, OneEntryMatches
  <2> QED BY <2>7, <2>8, Parts
<1>4. CASE LookupPanic(fun, key, id)
  BY <1>4, Untouched DEF LookupPanic
<1>5. CASE PureHit(fun, key)
  <2>1. PICK e \in OfKey(caches[fun], key) :
          /\ caches' = [caches EXCEPT ![fun] = (@ \ {e}) \cup {[e EXCEPT !.age = 0]}]
          /\ stack' = Deliver(stack, e.value)
          /\ slot' = slot
    BY <1>5 DEF PureHit, Complete
  <2>2. e \in caches[fun]
    BY DEF OfKey
  <2>3. CachesShaped' /\ OneEntryMatches'
    BY <1>1, <2>1, <2>2, HitKeeps
  <2> DEFINE delivered == Deliver(stack, e.value)
  <2>4. FramesInv(delivered) /\ Same(stack, delivered)
    BY <1>1, Delivered
  <2> HIDE DEF delivered
  <2>5. IsChain(slot, delivered, Len(delivered))
    BY <1>1, <2>4, ChainSame
  <2>6. FramesInv(stack') /\ IsChain(slot', stack', Len(stack'))
    BY <2>1, <2>4, <2>5 DEF delivered
  <2> QED BY <2>3, <2>6, Parts
<1>6. ASSUME NEW mode \in {"pure", "bypassed"},
             stack' = Append(stack, Frame(fun, key, id, mode)),
             mode = "bypassed" <=> ~Memoized(fun, key),
             slot' = slot, caches' = caches
      PROVE  IInv'
  <2> DEFINE new == Append(stack, Frame(fun, key, id, mode))
  <2>1. mode = "recorded" => fun \notin Pure
    OBVIOUS
  <2>2. /\ FramesInv(new)
        /\ IsChain(IF mode = "recorded" THEN <<Len(stack) + 1>> \o slot ELSE slot, new, Len(new))
    BY <1>1, <1>6, <2>1, Pushed
  <2> HIDE DEF new
  <2>3. stack' = new /\ mode # "recorded"
    BY <1>6 DEF new
  <2>4. FramesInv(stack') /\ IsChain(slot', stack', Len(stack'))
    BY <1>6, <2>2, <2>3
  <2>5. CachesShaped' /\ OneEntryMatches'
    BY <1>1, <1>6 DEF CachesShaped, OneEntryMatches
  <2> QED BY <2>4, <2>5, Parts
<1>7. CASE PureMiss(fun, key, id)
  BY <1>6, <1>7 DEF PureMiss
<1>8. CASE Bypass(fun, key, id)
  BY <1>6, <1>8 DEF Bypass
<1> QED BY <1>2, <1>3, <1>4, <1>5, <1>7, <1>8 DEF Call

(* The end of a call: the recorders that detach leaves are those of the    *)
(* calls around it.                                                        *)
LEMMA Returned ==
  ASSUME IInv, ~panicked, Running, NEW v,
         stack' = Deliver(Front(stack), v), slot' = Detached
  PROVE  FramesInv(stack') /\ IsChain(slot', stack', Len(stack'))
<1> DEFINE rest == Front(stack)
           new == Deliver(rest, v)
<1>1. FramesInv(stack) /\ IsChain(slot, stack, Len(stack)) /\ stack # <<>>
  BY DEF IInv, RecorderChain, Running
<1>2. FramesInv(rest) /\ IsChain(Detached, rest, Len(rest))
  BY <1>1, Shorter DEF Detached, Top
<1> HIDE DEF rest
<1>3. FramesInv(new) /\ Same(rest, new)
  BY <1>2, Delivered
<1> HIDE DEF new
<1>4. IsChain(Detached, new, Len(new))
  BY <1>2, <1>3, ChainSame
<1> QED BY <1>3, <1>4 DEF new, rest

(* Every step keeps the invariant *)
LEMMA StepKeeps ==
  ASSUME CallsKnown, IInv, [Next]_vars
  PROVE  IInv'
<1>1. CASE UNCHANGED vars
  BY <1>1, Untouched DEF vars
<1>2. CASE TopCall
  <2>1. PICK fun \in Funs, key \in Args : Call(fun, key, view')
    BY <1>2 DEF TopCall
  <2> QED BY <1>2, <2>1, CallKeeps DEF TopCall
<1>3. CASE Edit
  BY <1>3, Untouched DEF Edit
<1>4. CASE EvictAnswers
  BY <1>4, Untouched DEF EvictAnswers
<1>5. ASSUME NEW m \in 0 .. MaxAge, Evict(m) PROVE IInv'
  <2>1. FramesInv(stack) /\ IsChain(slot, stack, Len(stack)) /\ CachesShaped /\ OneEntryMatches
    BY <1>5 DEF IInv, RecorderChain, Evict
  <2>2. FramesInv(stack') /\ IsChain(slot', stack', Len(stack'))
    BY <1>5, <2>1 DEF Evict
  <2>3. \A f \in Funs : EntriesShaped(caches'[f]) /\ AllPart(caches'[f])
    <3> SUFFICES ASSUME NEW f \in Funs
                 PROVE  EntriesShaped(caches'[f]) /\ AllPart(caches'[f])
      OBVIOUS
    <3>1. caches'[f] = {[e EXCEPT !.age = @ + 1] : e \in {x \in caches[f] : x.age + 1 <= m}}
      BY <1>5 DEF Evict
    <3>2. EntriesShaped(caches[f]) /\ AllPart(caches[f])
      BY <2>1 DEF CachesShaped, OneEntryMatches, AllPart
    <3> DEFINE new == {[e EXCEPT !.age = @ + 1] : e \in {x \in caches[f] : x.age + 1 <= m}}
    <3>3. EntriesShaped(new) /\ AllPart(new)
      BY <3>2, Aged
    <3> HIDE DEF new
    <3>4. caches'[f] = new
      BY <3>1 DEF new
    <3> QED BY <3>3, <3>4
  <2>4. DOMAIN caches' = Funs
    BY <1>5 DEF Evict
  <2>5. CachesShaped' /\ OneEntryMatches'
    BY <2>3, <2>4 DEF CachesShaped, OneEntryMatches, AllPart
  <2> QED BY <2>2, <2>5, Parts
<1>6. CASE BodyRead
  <2> DEFINE told == RecordRead(stack, NextOp.call, Seen)
             new == Deliver(told, Seen)
  <2>1. /\ FramesInv(stack) /\ IsChain(slot, stack, Len(stack)) /\ CachesShaped /\ OneEntryMatches
        /\ stack' = new /\ slot' = slot /\ caches' = caches
        /\ \A d \in Range(slot) : ~Differs(stack[d].con, NextOp.call, Seen)
    BY <1>6 DEF IInv, RecorderChain, BodyRead, Impure
  <2>2. FramesInv(told) /\ Same(stack, told)
    BY <2>1, ReadTold
  <2> HIDE DEF told
  <2>3. IsChain(slot, told, Len(told))
    BY <2>1, <2>2, ChainSame
  <2>4. FramesInv(new) /\ Same(told, new)
    BY <2>2, Delivered
  <2> HIDE DEF new
  <2>5. IsChain(slot, new, Len(new))
    BY <2>3, <2>4, ChainSame
  <2>6. FramesInv(stack') /\ IsChain(slot', stack', Len(stack'))
    BY <2>1, <2>4, <2>5
  <2>7. CachesShaped' /\ OneEntryMatches'
    BY <2>1 DEF CachesShaped, OneEntryMatches
  <2> QED BY <2>6, <2>7, Parts
<1>7. CASE ReadPanic
  BY <1>7, Untouched DEF ReadPanic
<1>8. CASE BodyWrite
  <2> DEFINE calls == <<NextOp.call>>
             told == RecordWrites(stack, calls)
             new == Deliver(told, Unit)
  <2>1. /\ FramesInv(stack) /\ IsChain(slot, stack, Len(stack)) /\ CachesShaped /\ OneEntryMatches
        /\ stack' = new /\ slot' = slot /\ caches' = caches
    BY <1>8 DEF IInv, RecorderChain, BodyWrite
  <2>2. calls \in Seq(Range(calls))
    BY DEF Range
  <2> HIDE DEF calls
  <2>3. FramesInv(told) /\ Same(stack, told)
    BY <2>1, <2>2, WritesTold
  <2> HIDE DEF told
  <2>4. IsChain(slot, told, Len(told))
    BY <2>1, <2>3, ChainSame
  <2>5. FramesInv(new) /\ Same(told, new)
    BY <2>3, Delivered
  <2> HIDE DEF new
  <2>6. IsChain(slot, new, Len(new))
    BY <2>4, <2>5, ChainSame
  <2>7. FramesInv(stack') /\ IsChain(slot', stack', Len(stack'))
    BY <2>1, <2>5, <2>6
  <2>8. CachesShaped' /\ OneEntryMatches'
    BY <2>1 DEF CachesShaped, OneEntryMatches
  <2> QED BY <2>7, <2>8, Parts
<1>9. CASE BodyCall
  <2>1. NextOp.op = "call" /\ ~panicked /\ Running
    BY <1>9 DEF BodyCall
  <2>2. Top.fun \in Funs
    <3>1. stack \in Seq(Range(stack)) /\ stack # <<>>
      BY <2>1 DEF IInv, FramesInv, Shaped, Running
    <3>2. Len(stack) \in DOMAIN stack /\ Top = stack[Len(stack)]
      BY <3>1, Shortened, Elements DEF Top
    <3> QED BY <3>2 DEF IInv, FramesInv, Shaped
  <2>3. NextOp.fun \in Funs
    BY <2>1, <2>2 DEF CallsKnown, NextOp
  <2>4. Call(NextOp.fun, NextOp.key, nextId) \/ Call(NextOp.fun, NextOp.key, Top.id)
    BY <1>9 DEF BodyCall
  <2> QED BY <2>1, <2>3, <2>4, CallKeeps
<1>10. CASE BypassReturn
  <2>1. /\ ~panicked /\ Running /\ stack' = Deliver(Front(stack), NextOp.value)
        /\ slot' = Detached /\ caches' = caches
    BY <1>10 DEF BypassReturn, Complete, Detached
  <2>2. FramesInv(stack') /\ IsChain(slot', stack', Len(stack'))
    BY <2>1, Returned
  <2>3. CachesShaped' /\ OneEntryMatches'
    BY <2>1 DEF IInv, CachesShaped, OneEntryMatches
  <2> QED BY <2>2, <2>3, Parts
<1>11. CASE InsertReturn \/ InsertSwallow
  <2>1. /\ ~panicked /\ Running /\ stack' = Deliver(Front(stack), NextOp.value)
        /\ slot' = Detached /\ caches' = Inserted
    BY <1>11 DEF InsertReturn, InsertSwallow, Close, Complete
  <2>2. FramesInv(stack') /\ IsChain(slot', stack', Len(stack'))
    BY <2>1, Returned
  <2>3. CachesShaped' /\ OneEntryMatches'
    BY <2>1, InsertKeeps
  <2> QED BY <2>2, <2>3, Parts
<1>12. CASE InsertPanic
  <2>1. /\ FramesInv(stack) /\ IsChain(slot, stack, Len(stack)) /\ stack # <<>>
        /\ CachesShaped /\ OneEntryMatches
        /\ stack' = stack /\ slot' = Detached /\ caches' = caches /\ panicked'
    BY <1>12 DEF IInv, RecorderChain, InsertPanic, Running
  <2> DEFINE rest == Front(stack)
  <2>2. IsChain(Detached, rest, Len(rest))
    BY <2>1, Shorter DEF Detached, Top
  <2>3. /\ DOMAIN stack = 1 .. Len(stack) /\ Len(stack) \in Nat \ {0}
        /\ Len(rest) = Len(stack) - 1 /\ \A i \in 1 .. Len(rest) : rest[i] = stack[i]
    BY <2>1, Elements, Shortened DEF FramesInv, Shaped
  <2> HIDE DEF rest
  <2>4. \A d \in Range(Detached) : d \in DOMAIN stack /\ stack[d].mode = "recorded"
    BY <2>2, <2>3 DEF IsChain
  <2>5. SlotNamesRecorded'
    BY <2>1, <2>4 DEF SlotNamesRecorded
  <2>6. FramesInv(stack') /\ RecorderChain'
    BY <2>1 DEF RecorderChain
  <2>7. CachesShaped' /\ OneEntryMatches'
    BY <2>1 DEF CachesShaped, OneEntryMatches
  <2> QED BY <2>5, <2>6, <2>7 DEF IInv
<1> QED
  BY <1>1, <1>2, <1>3, <1>4, <1>5, <1>6, <1>7, <1>8, <1>9, <1>10, <1>11, <1>12 DEF Next

(* The invariant holds before the first call *)
LEMMA InitHolds == Init => IInv
<1> SUFFICES ASSUME Init PROVE IInv
  OBVIOUS
<1>1. /\ stack = <<>> /\ slot = <<>> /\ Range(<<>>) = {} /\ DOMAIN <<>> = {} /\ Len(<<>>) = 0
      /\ <<>> \in Seq({})
  BY DEF Init, Range
<1>2. FramesInv(stack) /\ IsChain(slot, stack, Len(stack)) /\ SlotNamesRecorded
  BY <1>1 DEF FramesInv, Shaped, DetachRestores, Enclosed, IsChain, SlotNamesRecorded
<1>3. CachesShaped /\ OneEntryMatches
  BY FS_EmptySet DEF Init, CachesShaped, EntriesShaped, OneEntryMatches
<1> QED BY <1>2, <1>3 DEF IInv, RecorderChain

(* Whatever the functions do, as long as they call memoized functions: the *)
(* inductive invariant of the runtime holds, for every set of functions,   *)
(* arguments, answers and bounds, and for both kinds of lookup.            *)
THEOREM Invariant == ASSUME CallsKnown PROVE Spec => []IInv
<1>1. Init => IInv
  BY InitHolds
<1>2. IInv /\ [Next]_vars => IInv'
  BY StepKeeps
<1> QED BY <1>1, <1>2, PTL DEF Spec

-----------------------------------------------------------------------------
(* What the invariant gives. *)

(* attach and detach nest like the calls do: the recorders attached are    *)
(* exactly those of the running calls (tracked.mbt).                       *)
THEOREM RecordersNest == ASSUME CallsKnown PROVE Spec => []RecorderChain
<1>1. IInv => RecorderChain
  BY DEF IInv
<1> QED BY <1>1, Invariant, PTL

(* An enclosing recorded call has recorded all that the calls inside it    *)
(* have (MergedSink of tracked.mbt).                                       *)
THEOREM EnclosingHaveRecorded == ASSUME CallsKnown PROVE Spec => []EnclosingRecords
<1>1. IInv => EnclosingRecords
  BY DEF IInv, FramesInv, Enclosed, SlotNamesRecorded, EnclosingRecords
<1> QED BY <1>1, Invariant, PTL

(* No state of the tracked value matches two entries of one key: what a    *)
(* lookup returns does not depend on the order of the tree.                *)
THEOREM AtMostOneMatches == ASSUME CallsKnown PROVE Spec => []OneEntryMatches
<1>1. IInv => OneEntryMatches
  BY DEF IInv
<1> QED BY <1>1, Invariant, PTL

(* What Complete says when it hands a value to the calls around            *)
LEMMA Completed ==
  ASSUME NEW frames, FramesInv(frames), NEW fun, NEW key, NEW before, NEW val, NEW hit,
         NEW path, Complete(frames, fun, key, before, val, hit, path)
  PROVE  \/ stack' # <<>>
         \/ stack' = <<>> /\ last'.op = "call" /\ last'.hit = hit
            /\ last'.fun = fun /\ last'.key = key
<1>1. CASE frames = <<>>
  BY <1>1 DEF Complete, Deliver
<1>2. CASE frames # <<>>
  <2>1. Same(frames, stack')
    BY Delivered DEF Complete
  <2>2. frames \in Seq(Range(frames)) /\ Len(frames) # 0
    <3>1. frames \in Seq(Range(frames))
      BY DEF FramesInv, Shaped
    <3> QED BY <1>2, <3>1, EmptySeq
  <2>3. Len(stack') # 0
    BY <2>1, <2>2 DEF Same
  <2>4. Len(<<>>) = 0
    OBVIOUS
  <2> QED BY <2>3, <2>4
<1> QED BY <1>1, <1>2

(* The hit flag changes with the outermost call only in the end: what a    *)
(* call adds to it, a nested one or its own lookup, its own end overwrites *)
LEMMA FlagStep ==
  ASSUME CallsKnown, IInv, HitFlagExact, [Next]_vars
  PROVE  HitFlagExact'
<1>0. FramesInv(stack)
  BY DEF IInv
<1>1. CASE UNCHANGED vars
  BY <1>1 DEF vars, HitFlagExact, Running
<1>2. ASSUME NEW fun \in Funs, NEW key, NEW id, ~panicked, Call(fun, key, id)
      PROVE  HitFlagExact'
  <2>1. CASE Hit(fun, key, id)
    <3> DEFINE told == Told(fun, key, id)
    <3>1. FramesInv(told) /\ Same(stack, told)
      BY <1>2, <2>1, ToldKeeps DEF Hit
    <3>2. PICK e \in Hits(fun, key, id) :
            Complete(RecordWrites(told, e.mutable), fun, key, value, e.value, TRUE, e.path)
      BY <2>1 DEF Hit
    <3> HIDE DEF told
    <3> DEFINE written == RecordWrites(told, e.mutable)
    <3>3. FramesInv(written)
      <4>1. e \in caches[fun]
        BY DEF Hits, Matching, OfKey
      <4>2. e.mutable \in Seq(Range(e.mutable))
        BY <4>1 DEF IInv, CachesShaped, EntriesShaped
      <4>3. IsChain(slot, told, Len(told))
        BY <1>2, <3>1, ChainSame DEF IInv, RecorderChain
      <4> QED BY <3>1, <4>2, <4>3, WritesTold
    <3> HIDE DEF written
    <3>4. Complete(written, fun, key, value, e.value, TRUE, e.path) /\ wasHit' = TRUE
      BY <2>1, <3>2 DEF Hit, written
    <3>5. \/ stack' # <<>>
          \/ stack' = <<>> /\ last'.op = "call" /\ last'.hit = TRUE
             /\ last'.fun = fun /\ last'.key = key
      BY <3>3, <3>4, Completed
    <3> QED BY <3>4, <3>5 DEF HitFlagExact, Running
  <2>2. CASE Miss(fun, key, id)
    <3>1. FramesInv(Told(fun, key, id))
      BY <1>2, <2>2, ToldKeeps DEF Miss
    <3>2. Told(fun, key, id) \in Seq(Range(Told(fun, key, id)))
      BY <3>1 DEF FramesInv, Shaped
    <3>3. stack' = Append(Told(fun, key, id), Frame(fun, key, id, "recorded"))
      BY <2>2 DEF Miss
    <3>4. Len(stack') = Len(Told(fun, key, id)) + 1 /\ Len(Told(fun, key, id)) \in Nat
      BY <3>2, <3>3, Appended, Elements
    <3>5. stack' # <<>>
      BY <3>4
    <3> QED BY <3>5 DEF HitFlagExact, Running
  <2>3. CASE LookupPanic(fun, key, id)
    BY <2>3 DEF LookupPanic, HitFlagExact, Running
  <2>4. CASE PureHit(fun, key)
    <3>1. PICK e \in OfKey(caches[fun], key) :
            Complete(stack, fun, key, value, e.value, TRUE, <<>>)
      BY <2>4 DEF PureHit
    <3>2. \/ stack' # <<>>
          \/ stack' = <<>> /\ last'.op = "call" /\ last'.hit = TRUE
             /\ last'.fun = fun /\ last'.key = key
      BY <1>0, <3>1, Completed
    <3> QED BY <2>4, <3>2 DEF PureHit, HitFlagExact, Running
  <2>5. ASSUME NEW mode, stack' = Append(stack, Frame(fun, key, id, mode))
        PROVE  HitFlagExact'
    <3>1. stack \in Seq(Range(stack))
      BY <1>0 DEF FramesInv, Shaped
    <3>2. Len(stack') = Len(stack) + 1 /\ Len(stack) \in Nat
      BY <2>5, <3>1, Appended, Elements
    <3>3. stack' # <<>>
      BY <3>2
    <3> QED BY <3>3 DEF HitFlagExact, Running
  <2>6. CASE PureMiss(fun, key, id)
    BY <2>5, <2>6 DEF PureMiss
  <2>7. CASE Bypass(fun, key, id)
    BY <2>5, <2>7 DEF Bypass
  <2> QED BY <1>2, <2>1, <2>2, <2>3, <2>4, <2>6, <2>7 DEF Call
<1>3. CASE TopCall
  BY <1>2, <1>3 DEF TopCall
<1>4. CASE BodyCall
  <2>1. NextOp.op = "call" /\ ~panicked /\ Running
    BY <1>4 DEF BodyCall
  <2>2. Top.fun \in Funs
    <3>1. stack \in Seq(Range(stack)) /\ stack # <<>>
      BY <1>0, <2>1 DEF FramesInv, Shaped, Running
    <3>2. Len(stack) \in DOMAIN stack /\ Top = stack[Len(stack)]
      BY <3>1, Shortened, Elements DEF Top
    <3> QED BY <1>0, <3>2 DEF FramesInv, Shaped
  <2>3. NextOp.fun \in Funs
    BY <2>1, <2>2 DEF CallsKnown, NextOp
  <2> QED BY <1>2, <1>4, <2>1, <2>3 DEF BodyCall
<1>5. CASE Edit \/ EvictAnswers \/ \E m \in 0 .. MaxAge : Evict(m)
  BY <1>5 DEF Edit, EvictAnswers, Evict, HitFlagExact
<1>6. CASE BodyRead
  <2>1. Running /\ stack' = Deliver(RecordRead(stack, NextOp.call, Seen), Seen)
    BY <1>6 DEF BodyRead
  <2>2. /\ IsChain(slot, stack, Len(stack))
        /\ \A d \in Range(slot) : ~Differs(stack[d].con, NextOp.call, Seen)
    BY <1>6 DEF BodyRead, Impure, IInv, RecorderChain
  <2> DEFINE told == RecordRead(stack, NextOp.call, Seen)
  <2>3. FramesInv(told) /\ Same(stack, told)
    BY <1>0, <2>2, ReadTold
  <2> HIDE DEF told
  <2>4. Same(told, stack')
    BY <2>1, <2>3, Delivered DEF told
  <2>5. Len(stack') = Len(stack)
    BY <2>3, <2>4 DEF Same
  <2>6. Len(stack) # 0
    BY <1>0, <2>1, EmptySeq DEF Running, FramesInv, Shaped
  <2>7. stack' # <<>>
    BY <2>5, <2>6
  <2> QED BY <2>7 DEF HitFlagExact, Running
<1>7. CASE ReadPanic \/ InsertPanic
  BY <1>7 DEF ReadPanic, InsertPanic, HitFlagExact, Running
<1>8. CASE BodyWrite
  <2> DEFINE calls == <<NextOp.call>>
             told == RecordWrites(stack, calls)
  <2>1. Running /\ stack' = Deliver(told, Unit)
    BY <1>8 DEF BodyWrite
  <2>2. calls \in Seq(Range(calls)) /\ IsChain(slot, stack, Len(stack))
    BY <1>8 DEF Range, IInv, RecorderChain, BodyWrite
  <2> HIDE DEF calls
  <2>3. FramesInv(told) /\ Same(stack, told)
    BY <1>0, <2>2, WritesTold
  <2> HIDE DEF told
  <2>4. Same(told, stack')
    BY <2>1, <2>3, Delivered
  <2>5. Len(stack') = Len(stack)
    BY <2>3, <2>4 DEF Same
  <2>6. Len(stack) # 0
    BY <1>0, <2>1, EmptySeq DEF Running, FramesInv, Shaped
  <2>7. stack' # <<>>
    BY <2>5, <2>6
  <2> QED BY <2>7 DEF HitFlagExact, Running
<1>9. CASE BypassReturn \/ InsertReturn \/ InsertSwallow
  <2>1. /\ ~panicked /\ Running
        /\ Complete(Front(stack), Top.fun, Top.key, Top.before, NextOp.value, FALSE, <<>>)
        /\ Top.mode = "bypassed" \/ wasHit' = FALSE
    BY <1>9 DEF BypassReturn, InsertReturn, InsertSwallow, Close, RegisterMiss
  <2>2. FramesInv(Front(stack))
    BY <1>0, <2>1, Shorter DEF IInv, RecorderChain, Running
  <2>3. \/ stack' # <<>>
        \/ stack' = <<>> /\ last'.op = "call" /\ last'.hit = FALSE
           /\ last'.fun = Top.fun /\ last'.key = Top.key
    BY <2>1, <2>2, Completed
  <2>4. Top.mode = "bypassed" => ~Memoized(Top.fun, Top.key)
    <3>1. stack \in Seq(Range(stack)) /\ stack # <<>>
      BY <1>0, <2>1 DEF FramesInv, Shaped, Running
    <3>2. Len(stack) \in DOMAIN stack /\ Top = stack[Len(stack)]
      BY <3>1, Shortened, Elements DEF Top
    <3> QED BY <1>0, <3>2 DEF FramesInv, Shaped
  <2> QED BY <2>1, <2>3, <2>4 DEF HitFlagExact, Running, Memoized
<1> QED BY <1>1, <1>3, <1>4, <1>5, <1>6, <1>7, <1>8, <1>9 DEF Next

(* last_was_hit() tells of the outermost call, whatever the calls nested   *)
(* in it did (testing.mbt, and register_miss after the insertion).         *)
THEOREM FlagOfOutermost == ASSUME CallsKnown PROVE Spec => []HitFlagExact
<1>1. Init => HitFlagExact
  BY DEF Init, HitFlagExact
<1>2. IInv /\ HitFlagExact /\ [Next]_vars => HitFlagExact'
  BY FlagStep
<1> QED BY <1>1, <1>2, Invariant, PTL DEF Spec
=============================================================================
