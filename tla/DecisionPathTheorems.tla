------------------------ MODULE DecisionPathTheorems ------------------------
(***************************************************************************)
(* What holds of sequences, of constraints and of the paths of a call tree *)
(* whatever is in them: recording extends a constraint by pairs it did not *)
(* have, in the order it is told of them; entries that part at questions   *)
(* they answer differently have one question to ask at a time on a walk;   *)
(* and an insertion that fits the tree gives a path that parts from all    *)
(* others, and asks in their order and then in that of its sequence        *)
(* (src/lib/constraint.mbt, src/lib/tree.mbt).                             *)
(***************************************************************************)
EXTENDS DecisionPaths, Constraint, SequencesExt, SequenceTheorems, FiniteSetTheorems,
        WellFoundedInduction, TLAPS

-----------------------------------------------------------------------------
(* Sequences of anything: s \in Seq(Range(s)) says that s is a sequence and *)
(* nothing of what is in it.                                               *)

(* A set of natural numbers has a least one *)
LEMMA LeastNat ==
  ASSUME NEW S, S \subseteq Nat, S # {}
  PROVE  \E i \in S : \A j \in S : i <= j
<1>1. PICK i \in S : \A j \in S : <<j, i>> \notin OpToRel(<, Nat)
  BY NatLessThanWellFounded, WFMin
<1>2. \A j \in S : ~ (j < i)
  BY <1>1 DEF OpToRel
<1> QED BY <1>2

(* What holds at 0 and passes from each number to the next, up to n, holds *)
(* at n.                                                                   *)
LEMMA CountUp ==
  ASSUME NEW n \in Nat, NEW P, 0 \in P,
         \A i \in 0 .. n - 1 : i \in P => i + 1 \in P
  PROVE  n \in P
<1> SUFFICES ASSUME n \notin P PROVE FALSE
  OBVIOUS
<1> DEFINE S == {i \in 0 .. n : i \notin P}
<1>1. S \subseteq Nat /\ S # {}
  OBVIOUS
<1>2. PICK i \in S : \A j \in S : i <= j
  BY <1>1, LeastNat
<1>3. i # 0 /\ i - 1 \in 0 .. n - 1
  OBVIOUS
<1>4. i - 1 \in P
  BY <1>2, <1>3
<1> QED BY <1>3, <1>4

(* A nonempty set of numbers below a bound has a greatest one *)
LEMMA GreatestNat ==
  ASSUME NEW S, S \subseteq Nat, S # {}, NEW b \in Nat, \A i \in S : i <= b
  PROVE  \E i \in S : \A j \in S : j <= i
<1> DEFINE T == {n \in Nat : \E i \in S : n = b - i}
<1>1. T \subseteq Nat /\ T # {}
  <2>1. PICK i \in S : TRUE
    OBVIOUS
  <2>2. i \in Nat /\ i <= b
    OBVIOUS
  <2>3. b - i \in Nat
    BY <2>2
  <2>4. b - i \in T
    BY <2>3
  <2> QED BY <2>4
<1>2. PICK t \in T : \A u \in T : t <= u
  BY <1>1, LeastNat
<1>3. PICK i \in S : t = b - i
  OBVIOUS
<1>4. \A j \in S : b - j \in T
  OBVIOUS
<1> QED BY <1>2, <1>3, <1>4

(* The elements of a sequence, and the sequence as a function *)
LEMMA Elements ==
  ASSUME NEW s, s \in Seq(Range(s))
  PROVE  /\ Len(s) \in Nat
         /\ DOMAIN s = 1 .. Len(s)
         /\ \A i \in 1 .. Len(s) : s[i] \in Range(s)
         /\ s = [i \in 1 .. Len(s) |-> s[i]]
BY DEF Range

(* A function on 1 .. n is a sequence *)
LEMMA FunctionIsSeq ==
  ASSUME NEW s, NEW n \in Nat, s = [i \in 1 .. n |-> s[i]]
  PROVE  s \in Seq(Range(s)) /\ Len(s) = n /\ DOMAIN s = 1 .. n
<1>1. DOMAIN s = 1 .. n
  OBVIOUS
<1>2. \A i \in 1 .. n : s[i] \in Range(s)
  BY <1>1 DEF Range
<1>3. s \in [1 .. n -> Range(s)]
  BY <1>1, <1>2
<1>4. s \in Seq(Range(s))
  BY <1>3, SeqDef
<1> QED BY <1>3, <1>4, LenProperties

(* A sequence with one more element *)
LEMMA Appended ==
  ASSUME NEW s, s \in Seq(Range(s)), NEW e
  PROVE  /\ Append(s, e) \in Seq(Range(Append(s, e)))
         /\ Len(Append(s, e)) = Len(s) + 1
         /\ DOMAIN Append(s, e) = 1 .. Len(s) + 1
         /\ \A i \in 1 .. Len(s) : Append(s, e)[i] = s[i]
         /\ Append(s, e)[Len(s) + 1] = e
         /\ Range(Append(s, e)) = Range(s) \cup {e}
<1> DEFINE S == Range(s) \cup {e}
           t == Append(s, e)
<1>1. s \in Seq(S)
  BY SeqMonotonic
<1>2. /\ t \in Seq(S) /\ Len(t) = Len(s) + 1
      /\ \A i \in 1 .. Len(s) : t[i] = s[i]
      /\ t[Len(s) + 1] = e
  BY <1>1, AppendProperties
<1>3. t = [i \in 1 .. Len(t) |-> t[i]] /\ Len(t) \in Nat
  BY <1>2, LenProperties
<1>4. t \in Seq(Range(t)) /\ DOMAIN t = 1 .. Len(s) + 1
  BY <1>2, <1>3, FunctionIsSeq
<1>5. Len(s) \in Nat /\ DOMAIN s = 1 .. Len(s)
  BY Elements
<1>6. Range(t) = S
  <2>1. Range(t) \subseteq S
    BY <1>2, <1>4, <1>5 DEF Range
  <2>2. e \in Range(t)
    BY <1>2, <1>4, <1>5 DEF Range
  <2>3. \A x \in Range(s) : x \in Range(t)
    BY <1>2, <1>4, <1>5 DEF Range
  <2> QED BY <2>1, <2>2, <2>3
<1> QED BY <1>2, <1>4, <1>6

(* A sequence without its last element *)
LEMMA Shortened ==
  ASSUME NEW s, s \in Seq(Range(s)), s # <<>>
  PROVE  /\ Len(s) \in Nat \ {0}
         /\ Front(s) \in Seq(Range(Front(s)))
         /\ Len(Front(s)) = Len(s) - 1
         /\ DOMAIN Front(s) = 1 .. Len(s) - 1
         /\ \A i \in 1 .. Len(s) - 1 : Front(s)[i] = s[i]
         /\ Last(s) = s[Len(s)]
<1>1. Len(s) \in Nat \ {0}
  BY EmptySeq
<1>2. Front(s) = [i \in 1 .. Len(s) - 1 |-> s[i]]
  BY <1>1 DEF Front
<1>3. Front(s) = [i \in 1 .. Len(s) - 1 |-> Front(s)[i]]
  BY <1>2
<1>4. Len(s) - 1 \in Nat
  BY <1>1
<1> QED BY <1>1, <1>2, <1>3, <1>4, FunctionIsSeq DEF Last

(* Two sequences, one after the other *)
LEMMA Joined ==
  ASSUME NEW s, s \in Seq(Range(s)), NEW t, t \in Seq(Range(t))
  PROVE  /\ s \o t \in Seq(Range(s \o t))
         /\ Len(s \o t) = Len(s) + Len(t)
         /\ DOMAIN (s \o t) = 1 .. Len(s) + Len(t)
         /\ \A i \in 1 .. Len(s) : (s \o t)[i] = s[i]
         /\ \A i \in 1 .. Len(t) : (s \o t)[Len(s) + i] = t[i]
         /\ Range(s \o t) = Range(s) \cup Range(t)
<1> DEFINE S == Range(s) \cup Range(t)
           u == s \o t
<1>1. s \in Seq(S) /\ t \in Seq(S)
  BY SeqMonotonic
<1>2. /\ u \in Seq(S) /\ Len(u) = Len(s) + Len(t)
      /\ \A i \in 1 .. Len(s) + Len(t) :
           u[i] = IF i <= Len(s) THEN s[i] ELSE t[i - Len(s)]
  BY <1>1, ConcatProperties
<1>3. u = [i \in 1 .. Len(u) |-> u[i]] /\ Len(u) \in Nat
  BY <1>2, LenProperties
<1>4. u \in Seq(Range(u)) /\ DOMAIN u = 1 .. Len(s) + Len(t)
  BY <1>2, <1>3, FunctionIsSeq
<1>5. /\ Len(s) \in Nat /\ DOMAIN s = 1 .. Len(s)
      /\ Len(t) \in Nat /\ DOMAIN t = 1 .. Len(t)
  BY Elements
<1>6. /\ \A i \in 1 .. Len(s) : u[i] = s[i]
      /\ \A i \in 1 .. Len(t) : u[Len(s) + i] = t[i]
  BY <1>2, <1>5
<1>7. Range(u) = S
  <2>1. Range(u) \subseteq S
    <3>1. \A i \in 1 .. Len(u) : u[i] \in S
      BY <1>2, ElementOfSeq
    <3> QED BY <3>1, <1>2, <1>4 DEF Range
  <2>2. Range(s) \subseteq Range(u)
    BY <1>4, <1>5, <1>6 DEF Range
  <2>3. \A i \in 1 .. Len(t) : t[i] \in Range(u)
    <3>1. \A i \in 1 .. Len(t) : Len(s) + i \in DOMAIN u
      BY <1>4, <1>5
    <3> QED BY <3>1, <1>6 DEF Range
  <2>4. Range(t) \subseteq Range(u)
    BY <2>3, <1>5 DEF Range
  <2> QED BY <2>1, <2>2, <2>4
<1> QED BY <1>2, <1>4, <1>6, <1>7

(* What it is to be a suffix, element by element *)
LEMMA SuffixByIndex ==
  ASSUME NEW s, s \in Seq(Range(s)), NEW t, t \in Seq(Range(t))
  PROVE  IsSuffix(s, t) <=>
           /\ Len(s) <= Len(t)
           /\ \A i \in 1 .. Len(s) : s[i] = t[Len(t) - Len(s) + i]
<1>0. Len(s) \in Nat /\ Len(t) \in Nat /\ DOMAIN s = 1 .. Len(s) /\ DOMAIN t = 1 .. Len(t)
  BY Elements
<1>1. Reverse(s) = [i \in 1 .. Len(s) |-> s[(Len(s) - i) + 1]]
  BY DEF Reverse
<1>2. Reverse(t) = [i \in 1 .. Len(t) |-> t[(Len(t) - i) + 1]]
  BY DEF Reverse
<1>3. Len(Reverse(s)) = Len(s) /\ Len(Reverse(t)) = Len(t)
  BY <1>0, <1>1, <1>2, FunctionIsSeq
<1>4. ASSUME Len(s) <= Len(t)
      PROVE  SubSeq(Reverse(s), 1, Len(s)) = SubSeq(Reverse(t), 1, Len(s)) <=>
               \A i \in 1 .. Len(s) : Reverse(s)[i] = Reverse(t)[i]
  <2>1. SubSeq(Reverse(s), 1, Len(s)) = [i \in 1 .. Len(s) |-> Reverse(s)[i]]
    BY <1>0, <1>1
  <2>2. SubSeq(Reverse(t), 1, Len(s)) = [i \in 1 .. Len(s) |-> Reverse(t)[i]]
    BY <1>0, <1>2, <1>4
  <2> QED BY <2>1, <2>2
<1>5. ASSUME Len(s) <= Len(t)
      PROVE  (\A i \in 1 .. Len(s) : Reverse(s)[i] = Reverse(t)[i]) <=>
               \A i \in 1 .. Len(s) : s[i] = t[Len(t) - Len(s) + i]
  <2>1. \A i \in 1 .. Len(s) :
          /\ Reverse(s)[i] = s[(Len(s) - i) + 1]
          /\ Reverse(t)[i] = t[(Len(t) - i) + 1]
    BY <1>0, <1>1, <1>2, <1>5
  <2>2. \A i \in 1 .. Len(s) :
          /\ (Len(s) - i) + 1 \in 1 .. Len(s)
          /\ (Len(s) - ((Len(s) - i) + 1)) + 1 = i
          /\ (Len(t) - ((Len(s) - i) + 1)) + 1 = Len(t) - Len(s) + i
          /\ (Len(t) - i) + 1 = Len(t) - Len(s) + ((Len(s) - i) + 1)
    BY <1>0
  <2>3. ASSUME \A i \in 1 .. Len(s) : Reverse(s)[i] = Reverse(t)[i], NEW i \in 1 .. Len(s)
        PROVE  s[i] = t[Len(t) - Len(s) + i]
    <3> DEFINE j == (Len(s) - i) + 1
    <3>1. j \in 1 .. Len(s) /\ Reverse(s)[j] = Reverse(t)[j]
      BY <2>2, <2>3
    <3>2. Reverse(s)[j] = s[i]
      BY <3>1, <2>1, <2>2
    <3>3. Reverse(t)[j] = t[Len(t) - Len(s) + i]
      BY <3>1, <2>1, <2>2
    <3> QED BY <3>1, <3>2, <3>3
  <2>4. ASSUME \A i \in 1 .. Len(s) : s[i] = t[Len(t) - Len(s) + i], NEW i \in 1 .. Len(s)
        PROVE  Reverse(s)[i] = Reverse(t)[i]
    <3> DEFINE j == (Len(s) - i) + 1
    <3>1. j \in 1 .. Len(s) /\ s[j] = t[Len(t) - Len(s) + j]
      BY <2>2, <2>4
    <3> QED BY <3>1, <2>1, <2>2
  <2> QED BY <2>3, <2>4
<1> QED BY <1>3, <1>4, <1>5 DEF IsSuffix, IsPrefix

(* Suffixes stay suffixes when both sequences grow by the same elements *)
LEMMA SuffixGrows ==
  ASSUME NEW s, s \in Seq(Range(s)), NEW t, t \in Seq(Range(t)),
         NEW u, u \in Seq(Range(u)), IsSuffix(s, t)
  PROVE  IsSuffix(s \o u, t \o u)
<1> DEFINE su == s \o u
           tu == t \o u
<1>1. /\ su \in Seq(Range(su)) /\ Len(su) = Len(s) + Len(u)
      /\ \A i \in 1 .. Len(s) : su[i] = s[i]
      /\ \A i \in 1 .. Len(u) : su[Len(s) + i] = u[i]
  BY Joined
<1>2. /\ tu \in Seq(Range(tu)) /\ Len(tu) = Len(t) + Len(u)
      /\ \A i \in 1 .. Len(t) : tu[i] = t[i]
      /\ \A i \in 1 .. Len(u) : tu[Len(t) + i] = u[i]
  BY Joined
<1>3. Len(s) \in Nat /\ Len(t) \in Nat /\ Len(u) \in Nat
  BY Elements
<1>4. Len(s) <= Len(t) /\ \A i \in 1 .. Len(s) : s[i] = t[Len(t) - Len(s) + i]
  BY SuffixByIndex
<1> HIDE DEF su, tu
<1>5. ASSUME NEW i \in 1 .. Len(su) PROVE su[i] = tu[Len(tu) - Len(su) + i]
  <2>1. CASE i <= Len(s)
    <3>1. i \in 1 .. Len(s) /\ Len(t) - Len(s) + i \in 1 .. Len(t)
      BY <2>1, <1>3, <1>4
    <3>2. Len(tu) - Len(su) + i = Len(t) - Len(s) + i
      BY <1>1, <1>2, <1>3
    <3>3. su[i] = s[i] /\ tu[Len(t) - Len(s) + i] = t[Len(t) - Len(s) + i]
      BY <3>1, <1>1, <1>2
    <3> QED BY <3>1, <3>2, <3>3, <1>4
  <2>2. CASE i > Len(s)
    <3> DEFINE j == i - Len(s)
    <3>1. j \in 1 .. Len(u) /\ i = Len(s) + j /\ Len(tu) - Len(su) + i = Len(t) + j
      BY <2>2, <1>1, <1>2, <1>3
    <3>2. su[Len(s) + j] = u[j] /\ tu[Len(t) + j] = u[j]
      BY <3>1, <1>1, <1>2
    <3> QED BY <3>1, <3>2
  <2> QED BY <2>1, <2>2, <1>1, <1>3
<1>6. IsSuffix(su, tu)
  <2>1. IsSuffix(su, tu) <=>
          /\ Len(su) <= Len(tu)
          /\ \A i \in 1 .. Len(su) : su[i] = tu[Len(tu) - Len(su) + i]
    BY <1>1, <1>2, SuffixByIndex
  <2>2. Len(su) <= Len(tu)
    BY <1>1, <1>2, <1>3, <1>4
  <2> QED BY <2>1, <2>2, <1>5
<1> QED BY <1>6 DEF su, tu

(* The empty sequence is a suffix of every sequence *)
LEMMA EmptySuffix ==
  ASSUME NEW t, t \in Seq(Range(t))
  PROVE  IsSuffix(<<>>, t)
<1>1. <<>> \in Seq(Range(<<>>)) /\ Len(<<>>) = 0
  BY EmptySeq
<1>2. IsSuffix(<<>>, t) <=>
        /\ Len(<<>>) <= Len(t)
        /\ \A i \in 1 .. Len(<<>>) : <<>>[i] = t[Len(t) - Len(<<>>) + i]
  BY <1>1, SuffixByIndex
<1>3. Len(t) \in Nat
  BY Elements
<1> QED BY <1>1, <1>2, <1>3

(* Sequences are equal when their elements are *)
LEMMA SameElements ==
  ASSUME NEW s, s \in Seq(Range(s)), NEW t, t \in Seq(Range(t)),
         Len(s) = Len(t), \A i \in 1 .. Len(s) : s[i] = t[i]
  PROVE  s = t
<1>1. s = [i \in 1 .. Len(s) |-> s[i]] /\ t = [i \in 1 .. Len(t) |-> t[i]]
  BY Elements
<1> QED BY <1>1

-----------------------------------------------------------------------------
(* What recording does to a constraint (src/lib/constraint.mbt). *)

(* The constraints that recording pair after pair leads through *)
LeadsToAll(con, pairs, told) ==
  /\ told[0] = con
  /\ \A n \in 1 .. Len(pairs) :
       told[n] = RecordImmutable(told[n - 1], pairs[n].call, pairs[n].ret)
  /\ RecordAll(con, pairs) = told[Len(pairs)]

(* RecordAll is the last of them *)
LEMMA RecordAllSteps ==
  ASSUME NEW con, NEW pairs, pairs \in Seq(Range(pairs))
  PROVE  \E told : LeadsToAll(con, pairs, told)
<1> DEFINE Next(c, n) == RecordImmutable(c, pairs[n].call, pairs[n].ret)
           L == Len(pairs)
           Upto(i, g) == g = [n \in 0 .. i |-> IF n = 0 THEN con ELSE Next(g[n - 1], n)]
           P == {i \in 0 .. L : \E g : Upto(i, g)}
<1> HIDE DEF Next
<1>1. L \in Nat
  BY Elements
<1>2. 0 \in P
  <2> DEFINE g == [n \in 0 .. 0 |-> con]
  <2>1. Upto(0, g)
    OBVIOUS
  <2> HIDE DEF g
  <2> QED BY <2>1, <1>1
<1>3. ASSUME NEW i \in 0 .. L - 1, i \in P PROVE i + 1 \in P
  <2>1. PICK g : Upto(i, g)
    BY <1>3
  <2> DEFINE h == [n \in 0 .. i + 1 |-> IF n = i + 1 THEN Next(g[i], i + 1) ELSE g[n]]
  <2>2. \A n \in 0 .. i + 1 : h[n] = IF n = 0 THEN con ELSE Next(h[n - 1], n)
    <3> TAKE n \in 0 .. i + 1
    <3>1. CASE n = i + 1
      BY <3>1, <1>1
    <3>2. CASE n # i + 1
      <4>1. n \in 0 .. i /\ h[n] = g[n]
        BY <3>2
      <4>2. n # 0 => h[n - 1] = g[n - 1]
        BY <4>1
      <4>3. g[n] = IF n = 0 THEN con ELSE Next(g[n - 1], n)
        BY <2>1, <4>1
      <4> QED BY <4>1, <4>2, <4>3
    <3> QED BY <3>1, <3>2
  <2>3. Upto(i + 1, h)
    BY <2>2
  <2> HIDE DEF h
  <2> QED BY <2>3, <1>1
<1>4. PICK g : Upto(L, g)
  <2>1. L \in P
    BY <1>1, <1>2, <1>3, CountUp
  <2> QED BY <2>1
<1> DEFINE told == CHOOSE f : Upto(L, f)
<1>5. Upto(L, told)
  BY <1>4
<1>6. RecordAll(con, pairs) = told[L]
  BY DEF RecordAll, Next
<1> HIDE DEF told
<1>7. \A n \in 0 .. L : told[n] = IF n = 0 THEN con ELSE Next(told[n - 1], n)
  BY <1>5
<1>8. told[0] = con /\ \A n \in 1 .. L : told[n] = Next(told[n - 1], n)
  BY <1>7, <1>1
<1>9. LeadsToAll(con, pairs, told)
  BY <1>6, <1>8 DEF Next, LeadsToAll
<1> QED BY <1>9

(* One pair more, if its call was not recorded before with another return  *)
LEMMA RecordOne ==
  ASSUME NEW con, IsConstraint(con), NEW call, NEW ret, ~Differs(con, call, ret)
  PROVE  LET new == RecordImmutable(con, call, ret) IN
           /\ IsConstraint(new)
           /\ new.mutable = con.mutable
           /\ Range(new.immutable) = Range(con.immutable) \cup {[call |-> call, ret |-> ret]}
<1> DEFINE new == RecordImmutable(con, call, ret)
           pair == [call |-> call, ret |-> ret]
<1>1. CASE call \in Recorded(con.immutable)
  <2>1. new = con
    BY <1>1 DEF RecordImmutable
  <2>2. PICK p \in Range(con.immutable) : p.call = call
    BY <1>1 DEF Recorded
  <2>3. p = pair
    BY <2>2 DEF Differs, IsConstraint, IsPairs
  <2> QED BY <2>1, <2>2, <2>3
<1>2. CASE call \notin Recorded(con.immutable)
  <2> DEFINE seq == Append(con.immutable, pair)
  <2>1. new = [immutable |-> seq, mutable |-> con.mutable]
    BY <1>2 DEF RecordImmutable, IsConstraint
  <2>2. seq \in Seq(Range(seq)) /\ Range(seq) = Range(con.immutable) \cup {pair}
    BY Appended DEF IsConstraint, IsPairs
  <2>3. IsPairs(seq)
    BY <2>2 DEF IsConstraint, IsPairs
  <2> HIDE DEF seq, new
  <2>4. IsConstraint(new)
    BY <2>1, <2>3 DEF IsConstraint
  <2> QED BY <2>1, <2>2, <2>4 DEF new
<1> QED BY <1>1, <1>2

(* A walk told to a constraint that contradicts none of it adds its pairs, *)
(* new is con told of the pairs in turn: those it did not have stand after *)
(* the ones it had, and behind each of them all told before it.            *)
Tells(con, pairs, new) ==
  /\ IsConstraint(new)
  /\ new.mutable = con.mutable
  /\ Range(new.immutable) = Range(con.immutable) \cup Range(pairs)
  /\ Len(con.immutable) <= Len(new.immutable)
  /\ \A i \in 1 .. Len(con.immutable) : new.immutable[i] = con.immutable[i]
  /\ \A j \in Len(con.immutable) + 1 .. Len(new.immutable) :
       \E i \in 1 .. Len(pairs) :
         /\ new.immutable[j] = pairs[i]
         /\ \A h \in 1 .. i - 1 : \E m \in 1 .. j - 1 : new.immutable[m] = pairs[h]

(* RecordAll tells of pairs that contradict neither the constraint nor     *)
(* each other.                                                             *)
LEMMA RecordWalk ==
  ASSUME NEW con, IsConstraint(con), NEW pairs, IsPairs(pairs),
         \A q \in Range(pairs) : ~Differs(con, q.call, q.ret),
         \A p, q \in Range(pairs) : p.call = q.call => p.ret = q.ret
  PROVE  Tells(con, pairs, RecordAll(con, pairs))
<1>0. pairs \in Seq(Range(pairs))
  BY DEF IsPairs
<1>0a. PICK told : LeadsToAll(con, pairs, told)
  BY <1>0, RecordAllSteps
<1>1. /\ told[0] = con
      /\ \A n \in 1 .. Len(pairs) :
           told[n] = RecordImmutable(told[n - 1], pairs[n].call, pairs[n].ret)
      /\ RecordAll(con, pairs) = told[Len(pairs)]
  BY <1>0a DEF LeadsToAll
<1>2. /\ Len(pairs) \in Nat /\ DOMAIN pairs = 1 .. Len(pairs)
      /\ con.immutable \in Seq(Range(con.immutable)) /\ Len(con.immutable) \in Nat
      /\ DOMAIN con.immutable = 1 .. Len(con.immutable)
  BY <1>0, Elements DEF IsConstraint, IsPairs
<1> DEFINE c == con.immutable
           Behind(t, j, n) ==
             \E i \in 1 .. n :
               /\ t[j] = pairs[i]
               /\ \A h \in 1 .. i - 1 : \E m \in 1 .. j - 1 : t[m] = pairs[h]
           Done(con1, n) ==
             /\ IsConstraint(con1)
             /\ con1.mutable = con.mutable
             /\ Range(con1.immutable) = Range(c) \cup {pairs[i] : i \in 1 .. n}
             /\ Len(c) <= Len(con1.immutable)
             /\ \A i \in 1 .. Len(c) : con1.immutable[i] = c[i]
             /\ \A j \in Len(c) + 1 .. Len(con1.immutable) : Behind(con1.immutable, j, n)
           P == {n \in 0 .. Len(pairs) : Done(told[n], n)}
<1>3. 0 \in P
  <2>1. Done(con, 0)
    BY <1>2
  <2> QED BY <1>1, <1>2, <2>1
<1>4. ASSUME NEW i \in 0 .. Len(pairs) - 1, i \in P PROVE i + 1 \in P
  <2> DEFINE q == pairs[i + 1]
             old == told[i]
             new == told[i + 1]
             t == old.immutable
             u == new.immutable
  <2>0. Done(old, i)
    BY <1>4
  <2>1. i + 1 \in 1 .. Len(pairs) /\ (i + 1) - 1 = i /\ i \in Nat
    BY <1>2
  <2>2. new = RecordImmutable(old, q.call, q.ret)
    BY <1>1, <2>1
  <2>3. q \in Range(pairs) /\ q = [call |-> q.call, ret |-> q.ret]
    BY <2>1, <1>2 DEF Range, IsPairs
  <2>4. \A p \in Range(t) : p \in Range(con.immutable) \/ p \in Range(pairs)
    <3>1. \A j \in 1 .. i : pairs[j] \in Range(pairs)
      <4>1. \A j \in 1 .. i : j \in 1 .. Len(pairs)
        BY <1>2, <2>1
      <4> QED BY <1>2, <4>1 DEF Range
    <3> QED BY <3>1, <2>0
  <2>5. ~Differs(old, q.call, q.ret)
    BY <2>3, <2>4 DEF Differs
  <2>6. IsConstraint(old)
    BY <2>0
  <2> HIDE DEF Done, P
  <2>7. /\ IsConstraint(RecordImmutable(old, q.call, q.ret))
        /\ RecordImmutable(old, q.call, q.ret).mutable = old.mutable
        /\ Range(RecordImmutable(old, q.call, q.ret).immutable)
             = Range(t) \cup {[call |-> q.call, ret |-> q.ret]}
    BY <2>5, <2>6, RecordOne
  <2>8. IsConstraint(new) /\ new.mutable = old.mutable /\ Range(u) = Range(t) \cup {q}
    BY <2>2, <2>3, <2>7
  <2>9. /\ t \in Seq(Range(t)) /\ Len(t) \in Nat /\ DOMAIN t = 1 .. Len(t)
    BY <2>6, Elements DEF IsConstraint, IsPairs
  <2>10. {pairs[j] : j \in 1 .. i + 1} = {pairs[j] : j \in 1 .. i} \cup {q}
    BY <2>1
  <2>11. Range(u) = Range(c) \cup {pairs[j] : j \in 1 .. i + 1}
    BY <2>0, <2>8, <2>10 DEF Done
  <2>12. CASE q.call \in Recorded(t)
    <3>1. new = old
      BY <2>2, <2>12 DEF RecordImmutable
    <3>2. \A j \in Len(c) + 1 .. Len(t) : Behind(t, j, i)
      BY <2>0 DEF Done
    <3>3. ASSUME NEW j \in Len(c) + 1 .. Len(t) PROVE Behind(t, j, i + 1)
      <4>1. PICK k \in 1 .. i :
              /\ t[j] = pairs[k]
              /\ \A h \in 1 .. k - 1 : \E m \in 1 .. j - 1 : t[m] = pairs[h]
        BY <3>2
      <4>2. k \in 1 .. i + 1
        BY <2>1
      <4> QED BY <4>1, <4>2
    <3>4. Done(new, i + 1)
      BY <2>0, <2>8, <2>11, <3>1, <3>3 DEF Done
    <3> QED BY <2>1, <3>4, <1>2 DEF P
  <2>13. CASE q.call \notin Recorded(t)
    <3>1. new = [old EXCEPT !.immutable = Append(t, q)]
      BY <2>2, <2>3, <2>13 DEF RecordImmutable
    <3>2. u = Append(t, q)
      BY <2>6, <3>1 DEF IsConstraint
    <3>3. /\ Len(u) = Len(t) + 1 /\ u[Len(t) + 1] = q
          /\ \A j \in 1 .. Len(t) : u[j] = t[j]
      BY <2>9, <3>2, Appended
    <3> HIDE DEF u
    <3>4. Len(c) <= Len(t) /\ \A j \in 1 .. Len(c) : t[j] = c[j]
      BY <2>0 DEF Done
    <3>5. ASSUME NEW j \in Len(c) + 1 .. Len(u) PROVE Behind(u, j, i + 1)
      <4>1. CASE j = Len(t) + 1
        <5>1. i + 1 \in 1 .. i + 1 /\ u[j] = pairs[i + 1]
          BY <2>1, <3>3, <4>1
        <5>2. ASSUME NEW h \in 1 .. (i + 1) - 1 PROVE \E m \in 1 .. j - 1 : u[m] = pairs[h]
          <6>1. pairs[h] \in Range(t)
            BY <2>0, <2>1 DEF Done
          <6>2. PICK m \in 1 .. Len(t) : t[m] = pairs[h]
            BY <2>9, <6>1 DEF Range
          <6> QED BY <2>9, <3>3, <4>1, <6>2
        <5> QED BY <5>1, <5>2
      <4>2. CASE j # Len(t) + 1
        <5>1. j \in Len(c) + 1 .. Len(t)
          BY <1>2, <2>9, <3>3, <4>2
        <5>2. PICK k \in 1 .. i :
                /\ t[j] = pairs[k]
                /\ \A h \in 1 .. k - 1 : \E m \in 1 .. j - 1 : t[m] = pairs[h]
          BY <2>0, <5>1 DEF Done
        <5>3. j \in 1 .. Len(t) /\ \A m \in 1 .. j - 1 : m \in 1 .. Len(t)
          BY <1>2, <2>9, <5>1
        <5>4. u[j] = pairs[k]
          BY <3>3, <5>2, <5>3
        <5>5. \A h \in 1 .. k - 1 : \E m \in 1 .. j - 1 : u[m] = pairs[h]
          BY <3>3, <5>2, <5>3
        <5>6. k \in 1 .. i + 1
          BY <2>1
        <5> QED BY <5>4, <5>5, <5>6
      <4> QED BY <4>1, <4>2
    <3>6. Len(c) <= Len(u) /\ \A j \in 1 .. Len(c) : u[j] = c[j]
      <4>1. \A j \in 1 .. Len(c) : j \in 1 .. Len(t)
        BY <1>2, <2>9, <3>4
      <4> QED BY <1>2, <2>9, <3>3, <3>4, <4>1
    <3>7. Done(new, i + 1)
      BY <2>0, <2>8, <2>11, <3>5, <3>6 DEF Done, u
    <3> QED BY <2>1, <3>7, <1>2 DEF P
  <2> QED BY <2>12, <2>13
<1>5. Done(told[Len(pairs)], Len(pairs))
  <2> HIDE DEF Done
  <2>1. Len(pairs) \in P
    <3> HIDE DEF P
    <3> QED BY <1>2, <1>3, <1>4, CountUp
  <2> QED BY <2>1
<1>6. Range(pairs) = {pairs[i] : i \in 1 .. Len(pairs)}
  BY <1>2 DEF Range
<1>7. Tells(con, pairs, told[Len(pairs)])
  <2> DEFINE all == told[Len(pairs)]
  <2>1. Done(all, Len(pairs))
    BY <1>5
  <2> HIDE DEF all
  <2>2. IsConstraint(all) /\ all.mutable = con.mutable
    BY <2>1
  <2>3. Range(all.immutable) = Range(con.immutable) \cup Range(pairs)
    BY <1>6, <2>1
  <2>4. /\ Len(con.immutable) <= Len(all.immutable)
        /\ \A i \in 1 .. Len(con.immutable) : all.immutable[i] = con.immutable[i]
    BY <2>1
  <2>5. ASSUME NEW j \in Len(con.immutable) + 1 .. Len(all.immutable)
        PROVE  Behind(all.immutable, j, Len(pairs))
    BY <2>1
  <2>6. Tells(con, pairs, all)
    <3> HIDE DEF Done
    <3> QED BY <2>2, <2>3, <2>4, <2>5 DEF Tells
  <2> QED BY <2>6 DEF all
<1> QED BY <1>1, <1>7

(* Writes go to the end of the mutable calls *)
LEMMA RecordMutables ==
  ASSUME NEW con, IsConstraint(con), NEW calls, calls \in Seq(Range(calls))
  PROVE  LET new == RecordMutable(con, calls) IN
           /\ IsConstraint(new)
           /\ new.immutable = con.immutable
           /\ new.mutable = con.mutable \o calls
<1> DEFINE new == RecordMutable(con, calls)
           seq == con.mutable \o calls
<1>0. con = [immutable |-> con.immutable, mutable |-> con.mutable]
  BY DEF IsConstraint
<1>1. new = [immutable |-> con.immutable, mutable |-> seq]
  <2>1. new = [con EXCEPT !.mutable = seq]
    BY DEF RecordMutable
  <2> HIDE DEF new, seq
  <2> QED BY <1>0, <2>1
<1>2. seq \in Seq(Range(seq))
  BY Joined DEF IsConstraint
<1> HIDE DEF new, seq
<1>3. IsConstraint(new)
  <2>1. IsPairs(con.immutable)
    BY DEF IsConstraint
  <2>2. /\ new = [immutable |-> new.immutable, mutable |-> new.mutable]
        /\ new.immutable = con.immutable /\ new.mutable = seq
    BY <1>1
  <2> QED BY <2>1, <2>2, <1>2 DEF IsConstraint
<1> QED BY <1>1, <1>3 DEF new, seq

-----------------------------------------------------------------------------
(* The paths of the entries. *)

(* The entries part: no two of one key can match the same world *)
AllPart(entries) ==
  \A e, g \in entries : e # g /\ e.key = g.key => Diverge(e.path, g.path)

(* Without goes through the sequence once *)
LEMMA WithoutSteps ==
  ASSUME NEW s, s \in Seq(Range(s)), NEW set
  PROVE  \E left : /\ left[0] = <<>>
                   /\ \A n \in 1 .. Len(s) :
                        left[n] = IF s[n] \in set THEN left[n - 1] ELSE Append(left[n - 1], s[n])
                   /\ Without(s, set) = left[Len(s)]
<1> DEFINE Next(t, n) == IF s[n] \in set THEN t ELSE Append(t, s[n])
           L == Len(s)
           Upto(i, g) == g = [n \in 0 .. i |-> IF n = 0 THEN <<>> ELSE Next(g[n - 1], n)]
           P == {i \in 0 .. L : \E g : Upto(i, g)}
<1>1. L \in Nat /\ DOMAIN s = 1 .. L
  BY Elements
<1>2. 0 \in P
  <2> DEFINE g == [n \in 0 .. 0 |-> <<>>]
  <2>1. Upto(0, g)
    OBVIOUS
  <2> HIDE DEF g
  <2> QED BY <2>1, <1>1
<1>3. ASSUME NEW i \in 0 .. L - 1, i \in P PROVE i + 1 \in P
  <2> HIDE DEF Next
  <2>1. PICK g : Upto(i, g)
    BY <1>3
  <2> DEFINE h == [n \in 0 .. i + 1 |-> IF n = i + 1 THEN Next(g[i], i + 1) ELSE g[n]]
  <2>2. \A n \in 0 .. i + 1 : h[n] = IF n = 0 THEN <<>> ELSE Next(h[n - 1], n)
    <3> TAKE n \in 0 .. i + 1
    <3>1. CASE n = i + 1
      BY <3>1, <1>1
    <3>2. CASE n # i + 1
      <4>1. n \in 0 .. i /\ h[n] = g[n]
        BY <3>2
      <4>2. n # 0 => h[n - 1] = g[n - 1]
        BY <4>1
      <4>3. g[n] = IF n = 0 THEN <<>> ELSE Next(g[n - 1], n)
        BY <2>1, <4>1
      <4> QED BY <4>1, <4>2, <4>3
    <3> QED BY <3>1, <3>2
  <2>3. Upto(i + 1, h)
    BY <2>2
  <2> HIDE DEF h
  <2> QED BY <2>3, <1>1
<1>4. PICK g : Upto(L, g)
  <2> HIDE DEF Next
  <2>1. L \in P
    BY <1>1, <1>2, <1>3, CountUp
  <2> QED BY <2>1
<1> DEFINE left == CHOOSE f : Upto(L, f)
<1>5. Upto(L, left)
  <2> HIDE DEF Next
  <2> QED BY <1>4
<1>6. Without(s, set) = left[L]
  BY DEF Without
<1> HIDE DEF left
<1>7. \A n \in 0 .. L : left[n] = IF n = 0 THEN <<>> ELSE Next(left[n - 1], n)
  <2> HIDE DEF Next
  <2> QED BY <1>5
<1>8. left[0] = <<>> /\ \A n \in 1 .. L : left[n] = Next(left[n - 1], n)
  BY <1>1, <1>7
<1> QED BY <1>6, <1>8

(* What w has of s comes after all that is before it in s and not in set *)
KeepsOrder(w, s, set) ==
  \A m \in 1 .. Len(w) : \E k \in 1 .. Len(s) :
    /\ w[m] = s[k]
    /\ \A h \in 1 .. k - 1 : s[h] \in set \/ \E l \in 1 .. m - 1 : w[l] = s[h]

(* Without removes what it says, keeps the rest and makes nothing up *)
LEMMA WithoutKeeps ==
  ASSUME NEW s, s \in Seq(Range(s)), NEW set
  PROVE  LET w == Without(s, set) IN
           /\ w \in Seq(Range(w))
           /\ Range(w) = Range(s) \ set
           /\ KeepsOrder(w, s, set)
<1> DEFINE L == Len(s)
<1>1. L \in Nat /\ DOMAIN s = 1 .. L
  BY Elements
<1>2. PICK left : /\ left[0] = <<>>
                  /\ \A n \in 1 .. L :
                       left[n] = IF s[n] \in set THEN left[n - 1] ELSE Append(left[n - 1], s[n])
                  /\ Without(s, set) = left[L]
  BY WithoutSteps
<1> DEFINE Kept(t, n) == \A m \in 1 .. Len(t) : \E k \in 1 .. n :
             /\ t[m] = s[k]
             /\ \A h \in 1 .. k - 1 : s[h] \in set \/ \E l \in 1 .. m - 1 : t[l] = s[h]
           Right(n) == /\ left[n] \in Seq(Range(left[n]))
                       /\ Range(left[n]) = {s[i] : i \in 1 .. n} \ set
                       /\ Kept(left[n], n)
           R == {n \in 0 .. L : Right(n)}
<1>3. 0 \in R
  <2>1. left[0] = <<>>
    BY <1>2
  <2>2. <<>> \in Seq(Range(<<>>)) /\ Range(<<>>) = {}
    BY EmptySeq DEF Range
  <2>3. {s[i] : i \in 1 .. 0} = {} /\ Kept(<<>>, 0)
    OBVIOUS
  <2>4. Right(0)
    BY <2>1, <2>2, <2>3
  <2> QED BY <2>4, <1>1
<1>4. ASSUME NEW i \in 0 .. L - 1, i \in R PROVE i + 1 \in R
  <2>1. i + 1 \in 1 .. L /\ i + 1 \in 0 .. L /\ (i + 1) - 1 = i /\ i \in Nat
    BY <1>1
  <2> DEFINE old == left[i]
             new == left[i + 1]
  <2>2. new = IF s[i + 1] \in set THEN old ELSE Append(old, s[i + 1])
    BY <1>2, <2>1
  <2>3. {s[j] : j \in 1 .. i + 1} = {s[j] : j \in 1 .. i} \cup {s[i + 1]}
    OBVIOUS
  <2>4. /\ old \in Seq(Range(old)) /\ Range(old) = {s[j] : j \in 1 .. i} \ set
        /\ Kept(old, i)
    BY <1>4
  <2> HIDE DEF old, new
  <2>5. Range(new) = {s[j] : j \in 1 .. i + 1} \ set /\ new \in Seq(Range(new)) /\ Kept(new, i + 1)
    <3>1. CASE s[i + 1] \in set
      <4>1. Kept(old, i + 1)
        BY <2>1, <2>4
      <4> QED BY <4>1, <3>1, <2>2, <2>3, <2>4
    <3>2. CASE s[i + 1] \notin set
      <4>1. new = Append(old, s[i + 1])
        BY <3>2, <2>2
      <4>2. /\ new \in Seq(Range(new)) /\ Len(new) = Len(old) + 1
            /\ \A l \in 1 .. Len(old) : new[l] = old[l]
            /\ new[Len(old) + 1] = s[i + 1]
            /\ Range(new) = Range(old) \cup {s[i + 1]}
        <5>1. old \in Seq(Range(old))
          BY <2>4
        <5> HIDE DEF Kept
        <5> QED BY <4>1, <5>1, Appended
      <4>3. Len(old) \in Nat /\ DOMAIN old = 1 .. Len(old)
        BY <2>4, Elements
      <4>4. ASSUME NEW m \in 1 .. Len(new)
            PROVE  \E k \in 1 .. i + 1 :
                     /\ new[m] = s[k]
                     /\ \A h \in 1 .. k - 1 : s[h] \in set \/ \E l \in 1 .. m - 1 : new[l] = s[h]
        <5>1. CASE m = Len(old) + 1
          <6>1. ASSUME NEW h \in 1 .. i, s[h] \notin set PROVE \E l \in 1 .. m - 1 : new[l] = s[h]
            <7>1. s[h] \in Range(old)
              BY <2>4, <6>1
            <7>2. PICK l \in 1 .. Len(old) : old[l] = s[h]
              BY <7>1, <4>3 DEF Range
            <7> QED BY <7>2, <4>2, <4>3, <5>1
          <6> WITNESS i + 1 \in 1 .. i + 1
          <6> QED BY <6>1, <5>1, <4>2, <2>1
        <5>2. CASE m # Len(old) + 1
          <6>1. m \in 1 .. Len(old) /\ new[m] = old[m]
            BY <5>2, <4>2, <4>3
          <6>2. PICK k \in 1 .. i :
                  /\ old[m] = s[k]
                  /\ \A h \in 1 .. k - 1 : s[h] \in set \/ \E l \in 1 .. m - 1 : old[l] = s[h]
            BY <6>1, <2>4
          <6>3. \A l \in 1 .. m - 1 : new[l] = old[l]
            BY <6>1, <4>2, <4>3
          <6>4. \A h \in 1 .. k - 1 : s[h] \in set \/ \E l \in 1 .. m - 1 : new[l] = s[h]
            BY <6>2, <6>3
          <6>5. k \in 1 .. i + 1
            BY <2>1
          <6> QED BY <6>1, <6>2, <6>4, <6>5
        <5> QED BY <5>1, <5>2
      <4>5. Kept(new, i + 1)
        BY <4>4
      <4> QED BY <4>2, <4>5, <3>2, <2>3, <2>4
    <3> QED BY <3>1, <3>2
  <2>6. i + 1 \in 0 .. L
    BY <2>1
  <2> HIDE DEF Kept
  <2> QED BY <2>5, <2>6 DEF new
<1>5. Right(L)
  <2> HIDE DEF Right
  <2>1. L \in R
    BY <1>1, <1>3, <1>4, CountUp
  <2> QED BY <2>1
<1>6. Range(s) = {s[i] : i \in 1 .. L}
  BY <1>1 DEF Range
<1> QED BY <1>2, <1>5, <1>6 DEF KeepsOrder

(* What is left turns on which elements are in the set, not on the set *)
LEMMA WithoutAlike ==
  ASSUME NEW s, s \in Seq(Range(s)), NEW t, t \in Seq(Range(t)), Len(s) = Len(t),
         NEW A, NEW B,
         \A n \in 1 .. Len(s) : (s[n] \in A <=> t[n] \in B) /\ (s[n] \notin A => s[n] = t[n])
  PROVE  Without(s, A) = Without(t, B)
<1>1. Len(s) \in Nat
  BY Elements
<1>2. PICK left : /\ left[0] = <<>>
                  /\ \A n \in 1 .. Len(s) :
                       left[n] = IF s[n] \in A THEN left[n - 1] ELSE Append(left[n - 1], s[n])
                  /\ Without(s, A) = left[Len(s)]
  BY WithoutSteps
<1>3. PICK rest : /\ rest[0] = <<>>
                  /\ \A n \in 1 .. Len(t) :
                       rest[n] = IF t[n] \in B THEN rest[n - 1] ELSE Append(rest[n - 1], t[n])
                  /\ Without(t, B) = rest[Len(t)]
  BY WithoutSteps
<1> DEFINE P == {n \in 0 .. Len(s) : left[n] = rest[n]}
<1>4. 0 \in P
  BY <1>1, <1>2, <1>3
<1>5. ASSUME NEW i \in 0 .. Len(s) - 1, i \in P PROVE i + 1 \in P
  <2>1. i + 1 \in 1 .. Len(s) /\ i + 1 \in 0 .. Len(s) /\ (i + 1) - 1 = i
    BY <1>1
  <2>2. left[i + 1] = IF s[i + 1] \in A THEN left[i] ELSE Append(left[i], s[i + 1])
    BY <1>2, <2>1
  <2>3. rest[i + 1] = IF t[i + 1] \in B THEN rest[i] ELSE Append(rest[i], t[i + 1])
    BY <1>3, <2>1
  <2>4. left[i] = rest[i]
    BY <1>5
  <2> QED BY <2>1, <2>2, <2>3, <2>4
<1> HIDE DEF P
<1>6. Len(s) \in P
  BY <1>1, <1>4, <1>5, CountUp
<1> QED BY <1>2, <1>3, <1>6 DEF P

(* One element more *)
LEMMA WithoutAppended ==
  ASSUME NEW s, s \in Seq(Range(s)), NEW e, NEW set
  PROVE  Without(Append(s, e), set)
           = IF e \in set THEN Without(s, set) ELSE Append(Without(s, set), e)
<1> DEFINE t == Append(s, e)
<1>1. Len(s) \in Nat
  BY Elements
<1>2. /\ t \in Seq(Range(t)) /\ Len(t) = Len(s) + 1
      /\ \A i \in 1 .. Len(s) : t[i] = s[i]
      /\ t[Len(s) + 1] = e
  BY Appended
<1> HIDE DEF t
<1>3. PICK left : /\ left[0] = <<>>
                  /\ \A n \in 1 .. Len(s) :
                       left[n] = IF s[n] \in set THEN left[n - 1] ELSE Append(left[n - 1], s[n])
                  /\ Without(s, set) = left[Len(s)]
  BY WithoutSteps
<1>4. PICK rest : /\ rest[0] = <<>>
                  /\ \A n \in 1 .. Len(t) :
                       rest[n] = IF t[n] \in set THEN rest[n - 1] ELSE Append(rest[n - 1], t[n])
                  /\ Without(t, set) = rest[Len(t)]
  BY <1>2, WithoutSteps
<1> DEFINE P == {n \in 0 .. Len(s) : left[n] = rest[n]}
<1>5. 0 \in P
  BY <1>1, <1>3, <1>4
<1>6. ASSUME NEW i \in 0 .. Len(s) - 1, i \in P PROVE i + 1 \in P
  <2>1. i + 1 \in 1 .. Len(s) /\ i + 1 \in 1 .. Len(t) /\ i + 1 \in 0 .. Len(s) /\ (i + 1) - 1 = i
    BY <1>1, <1>2
  <2>2. left[i + 1] = IF s[i + 1] \in set THEN left[i] ELSE Append(left[i], s[i + 1])
    BY <1>3, <2>1
  <2>3. rest[i + 1] = IF t[i + 1] \in set THEN rest[i] ELSE Append(rest[i], t[i + 1])
    BY <1>4, <2>1
  <2>4. left[i] = rest[i] /\ t[i + 1] = s[i + 1]
    BY <1>2, <1>6, <2>1
  <2> QED BY <2>1, <2>2, <2>3, <2>4
<1> HIDE DEF P
<1>7. Len(s) \in P
  BY <1>1, <1>5, <1>6, CountUp
<1>8. Len(t) \in 1 .. Len(t) /\ Len(t) - 1 = Len(s) /\ t[Len(t)] = e
  BY <1>1, <1>2
<1>9. rest[Len(t)] = IF e \in set THEN rest[Len(s)] ELSE Append(rest[Len(s)], e)
  BY <1>4, <1>8
<1> QED BY <1>3, <1>4, <1>7, <1>9 DEF P, t

(* Leaving out twice *)
LEMMA WithoutTwice ==
  ASSUME NEW s, s \in Seq(Range(s)), NEW A, NEW B
  PROVE  Without(Without(s, A), B) = Without(s, A \cup B)
<1>1. Len(s) \in Nat
  BY Elements
<1>2. PICK left : /\ left[0] = <<>>
                  /\ \A n \in 1 .. Len(s) :
                       left[n] = IF s[n] \in A THEN left[n - 1] ELSE Append(left[n - 1], s[n])
                  /\ Without(s, A) = left[Len(s)]
  BY WithoutSteps
<1>3. PICK both : /\ both[0] = <<>>
                  /\ \A n \in 1 .. Len(s) :
                       both[n] = IF s[n] \in A \cup B THEN both[n - 1] ELSE Append(both[n - 1], s[n])
                  /\ Without(s, A \cup B) = both[Len(s)]
  BY WithoutSteps
<1> DEFINE Right(n) == left[n] \in Seq(Range(left[n])) /\ Without(left[n], B) = both[n]
           P == {n \in 0 .. Len(s) : Right(n)}
<1>4. 0 \in P
  <2>1. <<>> \in Seq(Range(<<>>)) /\ Len(<<>>) = 0
    BY EmptySeq DEF Range
  <2>2. PICK none : none[0] = <<>> /\ Without(<<>>, B) = none[Len(<<>>)]
    <3> DEFINE z == <<>>
    <3>1. z \in Seq(Range(z))
      BY <2>1
    <3> HIDE DEF z
    <3>2. \E none : none[0] = <<>> /\ Without(z, B) = none[Len(z)]
      BY <3>1, WithoutSteps
    <3> QED BY <3>2 DEF z
  <2>3. Right(0)
    BY <1>2, <1>3, <2>1, <2>2
  <2> HIDE DEF Right
  <2> QED BY <1>1, <2>3
<1>5. ASSUME NEW i \in 0 .. Len(s) - 1, i \in P PROVE i + 1 \in P
  <2> DEFINE e == s[i + 1]
  <2>1. i + 1 \in 1 .. Len(s) /\ i + 1 \in 0 .. Len(s) /\ (i + 1) - 1 = i
    BY <1>1
  <2>2. left[i + 1] = IF e \in A THEN left[i] ELSE Append(left[i], e)
    BY <1>2, <2>1
  <2>3. both[i + 1] = IF e \in A \cup B THEN both[i] ELSE Append(both[i], e)
    BY <1>3, <2>1
  <2>4. left[i] \in Seq(Range(left[i])) /\ Without(left[i], B) = both[i]
    BY <1>5
  <2> HIDE DEF e
  <2>5. Right(i + 1)
    <3>1. CASE e \in A
      BY <3>1, <2>2, <2>3, <2>4
    <3>2. CASE e \notin A
      <4>1. left[i + 1] = Append(left[i], e)
        BY <3>2, <2>2
      <4>2. left[i + 1] \in Seq(Range(left[i + 1]))
        BY <4>1, <2>4, Appended
      <4>3. Without(Append(left[i], e), B)
              = IF e \in B THEN Without(left[i], B) ELSE Append(Without(left[i], B), e)
        BY <2>4, WithoutAppended
      <4> QED BY <4>1, <4>2, <4>3, <3>2, <2>3, <2>4
    <3> QED BY <3>1, <3>2
  <2> HIDE DEF Right
  <2> QED BY <2>1, <2>5
<1> HIDE DEF P
<1>6. Len(s) \in P
  BY <1>1, <1>4, <1>5, CountUp
<1> QED BY <1>2, <1>3, <1>6 DEF P

(* What is left begins with the first element that is not left out *)
LEMMA WithoutFirst ==
  ASSUME NEW s, s \in Seq(Range(s)), NEW set, NEW i \in 1 .. Len(s),
         s[i] \notin set, \A h \in 1 .. i - 1 : s[h] \in set
  PROVE  Without(s, set) # <<>> /\ Head(Without(s, set)) = s[i]
<1> DEFINE w == Without(s, set)
<1>1. Len(s) \in Nat /\ DOMAIN s = 1 .. Len(s)
  BY Elements
<1>2. w \in Seq(Range(w)) /\ Range(w) = Range(s) \ set /\ KeepsOrder(w, s, set)
  BY WithoutKeeps
<1> HIDE DEF w
<1>3. s[i] \in Range(w)
  BY <1>1, <1>2 DEF Range
<1>4. Len(w) \in Nat \ {0} /\ w # <<>>
  <2>1. Len(w) \in Nat /\ DOMAIN w = 1 .. Len(w)
    BY <1>2, Elements
  <2> QED BY <2>1, <1>3, <1>2, EmptySeq DEF Range
<1>5. 1 \in 1 .. Len(w) /\ w[1] \in Range(w)
  BY <1>2, <1>4, Elements
<1>6. PICK k \in 1 .. Len(s) :
        /\ w[1] = s[k]
        /\ \A h \in 1 .. k - 1 : s[h] \in set \/ \E l \in 1 .. 1 - 1 : w[l] = s[h]
  BY <1>2, <1>5 DEF KeepsOrder
<1>7. \A h \in 1 .. k - 1 : s[h] \in set
  BY <1>6
<1>8. s[k] \notin set
  BY <1>2, <1>5, <1>6
<1>9. ~(k < i) /\ ~(i < k)
  BY <1>1, <1>7, <1>8
<1>10. k = i
  BY <1>9, <1>1
<1>11. Head(w) = w[1]
  BY <1>2, <1>4
<1> QED BY <1>4, <1>6, <1>10, <1>11 DEF w

(* The first n elements of a sequence *)
LEMMA PrefixShape ==
  ASSUME NEW p, p \in Seq(Range(p)), NEW n \in 0 .. Len(p)
  PROVE  /\ Prefix(p, n) = [i \in 1 .. n |-> p[i]]
         /\ Prefix(p, n) \in Seq(Range(Prefix(p, n)))
         /\ Len(Prefix(p, n)) = n
         /\ Range(Prefix(p, n)) = {p[i] : i \in 1 .. n}
         /\ Range(Prefix(p, n)) \subseteq Range(p)
<1>1. Len(p) \in Nat /\ DOMAIN p = 1 .. Len(p)
  BY Elements
<1>2. n \in Nat
  BY <1>1
<1>3. Prefix(p, n) = [i \in 1 .. n |-> p[i]]
  BY <1>1 DEF Prefix
<1>4. Prefix(p, n) = [i \in 1 .. n |-> Prefix(p, n)[i]]
  BY <1>3
<1>5. /\ Prefix(p, n) \in Seq(Range(Prefix(p, n)))
      /\ Len(Prefix(p, n)) = n /\ DOMAIN Prefix(p, n) = 1 .. n
  BY <1>2, <1>4, FunctionIsSeq
<1>6. Range(Prefix(p, n)) = {p[i] : i \in 1 .. n}
  BY <1>3 DEF Range
<1>7. \A i \in 1 .. n : p[i] \in Range(p)
  BY <1>1 DEF Range
<1> QED BY <1>3, <1>5, <1>6, <1>7

(* Equal prefixes are equally long and agree element by element *)
LEMMA SamePrefix ==
  ASSUME NEW p, p \in Seq(Range(p)), NEW n \in 0 .. Len(p),
         NEW q, q \in Seq(Range(q)), NEW m \in 0 .. Len(q)
  PROVE  Prefix(p, n) = Prefix(q, m) <=> n = m /\ \A i \in 1 .. n : p[i] = q[i]
<1>1. Prefix(p, n) = [i \in 1 .. n |-> p[i]] /\ Len(Prefix(p, n)) = n
  BY PrefixShape
<1>2. Prefix(q, m) = [i \in 1 .. m |-> q[i]] /\ Len(Prefix(q, m)) = m
  BY PrefixShape
<1> QED BY <1>1, <1>2

(* The paths of finitely many entries have a bound *)
LEMMA PathsBounded ==
  ASSUME NEW entries, IsFiniteSet(entries),
         \A e \in entries : e.path \in Seq(Range(e.path))
  PROVE  \E b \in Nat : \A e \in entries : Len(e.path) <= b
<1>1. \A e \in entries : Len(e.path) \in Nat
  BY Elements
<1> DEFINE n == Cardinality(entries)
<1>2. n \in Nat /\ ExistsBijection(1 .. n, entries)
  BY FS_CardinalityType
<1>3. PICK f \in [1 .. n -> entries] : \A e \in entries : \E i \in 1 .. n : f[i] = e
  BY <1>2 DEF ExistsBijection, Bijection, Surjection
<1> DEFINE Bounded(i) == \E b \in Nat : \A j \in 1 .. i : Len(f[j].path) <= b
           P == {i \in 0 .. n : Bounded(i)}
<1> HIDE DEF n
<1>4. 0 \in P
  BY <1>2
<1>5. ASSUME NEW i \in 0 .. n - 1, i \in P PROVE i + 1 \in P
  <2>1. PICK b \in Nat : \A j \in 1 .. i : Len(f[j].path) <= b
    BY <1>5
  <2>2. i + 1 \in 1 .. n
    BY <1>2
  <2>3. Len(f[i + 1].path) \in Nat
    BY <2>2, <1>1
  <2>4. PICK c \in Nat : b <= c /\ Len(f[i + 1].path) <= c
    <3>1. CASE b <= Len(f[i + 1].path)
      BY <3>1, <2>3
    <3>2. CASE ~(b <= Len(f[i + 1].path))
      BY <3>2, <2>3
    <3> QED BY <3>1, <3>2
  <2>5. \A j \in 1 .. i + 1 : Len(f[j].path) <= c
    <3> TAKE j \in 1 .. i + 1
    <3>1. CASE j = i + 1
      BY <3>1, <2>4
    <3>2. CASE j # i + 1
      <4>1. j \in 1 .. i /\ j \in 1 .. n
        BY <3>2, <1>2
      <4>2. Len(f[j].path) \in Nat /\ Len(f[j].path) <= b
        BY <4>1, <1>1, <2>1
      <4> QED BY <4>2, <2>4
    <3> QED BY <3>1, <3>2
  <2>6. Bounded(i + 1)
    BY <2>5
  <2> HIDE DEF Bounded
  <2> QED BY <2>2, <2>6
<1>6. Bounded(n)
  <2> HIDE DEF Bounded
  <2>1. n \in P
    BY <1>2, <1>4, <1>5, CountUp
  <2> QED BY <2>1
<1> QED BY <1>3, <1>6

(* The element that is left last, taken as well *)
LEMMA WithoutLast ==
  ASSUME NEW s, s \in Seq(Range(s)), NEW set, NEW k \in 1 .. Len(s),
         s[k] \notin set,
         \A i \in 1 .. k - 1 : s[i] # s[k],
         \A i \in k + 1 .. Len(s) : s[i] \in set
  PROVE  Without(s, set) = Append(Without(s, set \cup {s[k]}), s[k])
<1> DEFINE B == set \cup {s[k]}
<1>1. Len(s) \in Nat
  BY Elements
<1>2. PICK left : /\ left[0] = <<>>
                  /\ \A n \in 1 .. Len(s) :
                       left[n] = IF s[n] \in set THEN left[n - 1] ELSE Append(left[n - 1], s[n])
                  /\ Without(s, set) = left[Len(s)]
  BY WithoutSteps
<1>3. PICK rest : /\ rest[0] = <<>>
                  /\ \A n \in 1 .. Len(s) :
                       rest[n] = IF s[n] \in B THEN rest[n - 1] ELSE Append(rest[n - 1], s[n])
                  /\ Without(s, B) = rest[Len(s)]
  BY WithoutSteps
<1> DEFINE Right(n) == left[n] = IF n < k THEN rest[n] ELSE Append(rest[n], s[k])
           P == {n \in 0 .. Len(s) : Right(n)}
<1>4. 0 \in P
  BY <1>1, <1>2, <1>3
<1>5. ASSUME NEW i \in 0 .. Len(s) - 1, i \in P PROVE i + 1 \in P
  <2>1. i + 1 \in 1 .. Len(s) /\ i + 1 \in 0 .. Len(s) /\ (i + 1) - 1 = i
    BY <1>1
  <2>2. left[i + 1] = IF s[i + 1] \in set THEN left[i] ELSE Append(left[i], s[i + 1])
    BY <1>2, <2>1
  <2>3. rest[i + 1] = IF s[i + 1] \in B THEN rest[i] ELSE Append(rest[i], s[i + 1])
    BY <1>3, <2>1
  <2>4. Right(i)
    BY <1>5
  <2>5. CASE i + 1 < k
    <3>1. i + 1 \in 1 .. k - 1 /\ i < k
      BY <2>1, <2>5
    <3>2. s[i + 1] \in B <=> s[i + 1] \in set
      BY <3>1
    <3>3. left[i + 1] = rest[i + 1]
      BY <2>2, <2>3, <2>4, <3>1, <3>2
    <3> QED BY <2>1, <2>5, <3>3
  <2>6. CASE i + 1 = k
    <3>1. i < k /\ ~(i + 1 < k)
      BY <2>1, <2>6
    <3>2. left[i + 1] = Append(rest[i], s[k]) /\ rest[i + 1] = rest[i]
      BY <2>2, <2>3, <2>4, <2>6, <3>1
    <3> QED BY <2>1, <3>1, <3>2
  <2>7. CASE i + 1 > k
    <3>1. i + 1 \in k + 1 .. Len(s) /\ ~(i < k) /\ ~(i + 1 < k)
      BY <2>1, <2>7
    <3>2. s[i + 1] \in set /\ s[i + 1] \in B
      BY <3>1
    <3>3. left[i + 1] = left[i] /\ rest[i + 1] = rest[i]
      BY <2>2, <2>3, <3>2
    <3>4. Right(i + 1)
      BY <2>4, <3>1, <3>3
    <3> QED BY <2>1, <3>4
  <2> QED BY <2>1, <2>5, <2>6, <2>7
<1>6. Right(Len(s))
  <2> HIDE DEF Right
  <2>1. Len(s) \in P
    BY <1>1, <1>4, <1>5, CountUp
  <2> QED BY <2>1
<1>7. ~(Len(s) < k)
  BY <1>1
<1> QED BY <1>2, <1>3, <1>6, <1>7

(* Nothing is left when all is taken, and all when nothing is *)
LEMMA WithoutExtremes ==
  ASSUME NEW s, s \in Seq(Range(s)), NEW set
  PROVE  /\ Range(s) \subseteq set => Without(s, set) = <<>>
         /\ Without(s, {}) = s
<1>1. Len(s) \in Nat
  BY Elements
<1>2. ASSUME Range(s) \subseteq set PROVE Without(s, set) = <<>>
  <2>1. /\ Without(s, set) \in Seq(Range(Without(s, set)))
        /\ Range(Without(s, set)) = {}
    BY <1>2, WithoutKeeps
  <2> DEFINE w == Without(s, set)
  <2> HIDE DEF w
  <2>2. Len(w) \in Nat /\ w = [i \in 1 .. Len(w) |-> w[i]]
        /\ \A i \in 1 .. Len(w) : w[i] \in Range(w)
    BY <2>1, Elements DEF w
  <2>3. Len(w) = 0
    BY <2>1, <2>2 DEF w
  <2>4. w \in Seq(Range(w))
    BY <2>1 DEF w
  <2>5. w = <<>>
    BY <2>3, <2>4
  <2> QED BY <2>5 DEF w
<1>3. Without(s, {}) = s
  <2>1. PICK left : /\ left[0] = <<>>
                    /\ \A n \in 1 .. Len(s) :
                         left[n] = IF s[n] \in {} THEN left[n - 1] ELSE Append(left[n - 1], s[n])
                    /\ Without(s, {}) = left[Len(s)]
    BY WithoutSteps
  <2> DEFINE P == {n \in 0 .. Len(s) : left[n] = Prefix(s, n)}
  <2>2. 0 \in P
    <3>1. Prefix(s, 0) = <<>>
      BY DEF Prefix
    <3> QED BY <1>1, <2>1, <3>1
  <2>3. ASSUME NEW i \in 0 .. Len(s) - 1, i \in P PROVE i + 1 \in P
    <3>1. i + 1 \in 1 .. Len(s) /\ i + 1 \in 0 .. Len(s) /\ (i + 1) - 1 = i /\ i \in 0 .. Len(s)
      BY <1>1
    <3>2. left[i + 1] = Append(left[i], s[i + 1])
      BY <2>1, <3>1
    <3>3. left[i] = Prefix(s, i)
      BY <2>3
    <3> DEFINE p == Prefix(s, i)
               q == Prefix(s, i + 1)
    <3>4. /\ p \in Seq(Range(p)) /\ Len(p) = i /\ p = [j \in 1 .. i |-> s[j]]
          /\ q \in Seq(Range(q)) /\ Len(q) = i + 1 /\ q = [j \in 1 .. i + 1 |-> s[j]]
      BY <3>1, PrefixShape
    <3> HIDE DEF p, q
    <3>5. /\ Append(p, s[i + 1]) \in Seq(Range(Append(p, s[i + 1])))
          /\ Len(Append(p, s[i + 1])) = i + 1
          /\ \A j \in 1 .. i : Append(p, s[i + 1])[j] = p[j]
          /\ Append(p, s[i + 1])[i + 1] = s[i + 1]
      <4> DEFINE e == s[i + 1]
      <4>1. p \in Seq(Range(p)) /\ Len(p) = i
        BY <3>4
      <4> HIDE DEF e
      <4>2. /\ Append(p, e) \in Seq(Range(Append(p, e)))
            /\ Len(Append(p, e)) = i + 1
            /\ \A j \in 1 .. i : Append(p, e)[j] = p[j]
            /\ Append(p, e)[i + 1] = e
        BY <4>1, Appended
      <4> QED BY <4>2 DEF e
    <3>6. \A j \in 1 .. i + 1 : Append(p, s[i + 1])[j] = q[j]
      BY <3>1, <3>4, <3>5
    <3>7. Append(p, s[i + 1]) = q
      BY <3>4, <3>5, <3>6, SameElements
    <3> QED BY <3>1, <3>2, <3>3, <3>7 DEF p, q
  <2> HIDE DEF P
  <2>4. Len(s) \in P
    BY <1>1, <2>2, <2>3, CountUp
  <2>5. Prefix(s, Len(s)) = s
    <3>1. Len(s) \in 0 .. Len(s)
      BY <1>1
    <3>2. Prefix(s, Len(s)) = [i \in 1 .. Len(s) |-> s[i]]
      BY <3>1, PrefixShape
    <3> QED BY <3>2, Elements
  <2> QED BY <2>1, <2>4, <2>5 DEF P
<1> QED BY <1>2, <1>3

(* A prefix of a longer sequence's prefix, and the whole *)
LEMMA PrefixOfPrefix ==
  ASSUME NEW p, p \in Seq(Range(p)), NEW m \in 0 .. Len(p), NEW j \in 0 .. m
  PROVE  Prefix(Prefix(p, m), j) = Prefix(p, j)
<1>0. Len(p) \in Nat
  BY Elements
<1>1. /\ Prefix(p, m) = [i \in 1 .. m |-> p[i]]
      /\ Prefix(p, m) \in Seq(Range(Prefix(p, m)))
      /\ Len(Prefix(p, m)) = m
  BY PrefixShape
<1>2. j \in 0 .. Len(p) /\ j \in 0 .. Len(Prefix(p, m))
  BY <1>0, <1>1
<1>3. \A i \in 1 .. j : Prefix(p, m)[i] = p[i]
  BY <1>1
<1> QED BY <1>1, <1>2, <1>3, SamePrefix

(* The longest prefix is the whole, and no prefix changes an element *)
LEMMA PrefixElements ==
  ASSUME NEW p, p \in Seq(Range(p))
  PROVE  /\ Prefix(p, Len(p)) = p
         /\ \A m \in 0 .. Len(p) : \A i \in 1 .. m : Prefix(p, m)[i] = p[i]
<1>1. Len(p) \in 0 .. Len(p)
  BY Elements
<1>2. \A m \in 0 .. Len(p) : Prefix(p, m) = [i \in 1 .. m |-> p[i]]
  BY PrefixShape
<1>3. Prefix(p, Len(p)) = p
  BY <1>1, <1>2, Elements
<1> QED BY <1>2, <1>3

(* The furthest that a sequence gets: a node it follows, and no deeper one *)
LEMMA LongestFollowed ==
  ASSUME NEW entries, IsFiniteSet(entries), NEW key, NEW s,
         \A e \in entries : e.path \in Seq(Range(e.path)),
         OfKey(entries, key) # {}
  PROVE  \E e \in OfKey(entries, key) : \E n \in 0 .. Len(e.path) :
           /\ Follows(Prefix(e.path, n), s)
           /\ \A g \in OfKey(entries, key) : \A m \in 0 .. Len(g.path) :
                Follows(Prefix(g.path, m), s) => m <= n
<1>1. PICK b \in Nat : \A e \in entries : Len(e.path) <= b
  BY PathsBounded
<1>2. \A e \in entries : Len(e.path) \in Nat
  BY Elements
<1> DEFINE Deep(n) == \E e \in OfKey(entries, key) :
                        n \in 0 .. Len(e.path) /\ Follows(Prefix(e.path, n), s)
           S == {n \in 0 .. b : Deep(n)}
<1>3. S # {}
  <2>1. PICK e \in OfKey(entries, key) : TRUE
    OBVIOUS
  <2>2. e \in entries /\ 0 \in 0 .. Len(e.path)
    BY <1>2 DEF OfKey
  <2>3. Range(Prefix(e.path, 0)) = {e.path[i] : i \in 1 .. 0}
    BY <2>2, PrefixShape
  <2>4. Follows(Prefix(e.path, 0), s)
    BY <2>3 DEF Follows
  <2>5. Deep(0)
    BY <2>2, <2>4
  <2> HIDE DEF Deep
  <2> QED BY <2>5
<1>4. S \subseteq Nat /\ \A n \in S : n <= b
  OBVIOUS
<1>5. PICK n \in S : \A m \in S : m <= n
  <2> HIDE DEF S
  <2> QED BY <1>3, <1>4, GreatestNat
<1>6. ASSUME NEW g \in OfKey(entries, key), NEW m \in 0 .. Len(g.path),
             Follows(Prefix(g.path, m), s)
      PROVE  m <= n
  <2>1. g \in entries
    BY DEF OfKey
  <2>2. m \in 0 .. b
    BY <2>1, <1>1, <1>2
  <2>3. Deep(m)
    BY <1>6
  <2> QED BY <2>2, <2>3, <1>5
<1>7. Deep(n)
  BY <1>5
<1> QED BY <1>6, <1>7

(* Entries that share the way to a question ask the same question there *)
LEMMA SameQuestion ==
  ASSUME NEW entries, AllPart(entries), \A e \in entries : IsPairs(e.path),
         NEW key, NEW e \in OfKey(entries, key), NEW g \in OfKey(entries, key),
         NEW n \in 1 .. Len(e.path), n \in 1 .. Len(g.path),
         Prefix(e.path, n - 1) = Prefix(g.path, n - 1)
  PROVE  e.path[n].call = g.path[n].call
<1> DEFINE p == e.path
           q == g.path
<1>1. p \in Seq(Range(p)) /\ q \in Seq(Range(q))
  BY DEF OfKey, IsPairs
<1>2. /\ Len(p) \in Nat /\ DOMAIN p = 1 .. Len(p)
      /\ Len(q) \in Nat /\ DOMAIN q = 1 .. Len(q)
  BY <1>1, Elements
<1>3. \A i \in 1 .. n - 1 : p[i] = q[i]
  <2>1. n - 1 \in 0 .. Len(p) /\ n - 1 \in 0 .. Len(q)
    BY <1>2
  <2> QED BY <2>1, <1>1, SamePrefix
<1>4. CASE e = g
  BY <1>4
<1>5. CASE e # g
  <2>1. e \in entries /\ g \in entries /\ e.key = g.key
    BY DEF OfKey
  <2>2. Diverge(p, q)
    BY <1>5, <2>1 DEF AllPart
  <2>3. PICK m \in DOMAIN p \cap DOMAIN q :
          /\ Prefix(p, m - 1) = Prefix(q, m - 1)
          /\ p[m].call = q[m].call
          /\ p[m].ret # q[m].ret
    BY <2>2 DEF Diverge
  <2>4. m \in 1 .. Len(p) /\ m \in 1 .. Len(q)
    BY <2>3, <1>2
  <2>5. \A i \in 1 .. m - 1 : p[i] = q[i]
    <3>1. m - 1 \in 0 .. Len(p) /\ m - 1 \in 0 .. Len(q)
      BY <2>4, <1>2
    <3> QED BY <3>1, <1>1, <2>3, SamePrefix
  <2>6. CASE m < n
    <3>1. m \in 1 .. n - 1
      BY <2>4, <2>6, <1>2
    <3> QED BY <3>1, <1>3, <2>3
  <2>7. CASE m = n
    BY <2>7, <2>3
  <2>8. CASE m > n
    <3>1. n \in 1 .. m - 1
      BY <2>4, <2>8, <1>2
    <3> QED BY <3>1, <2>5
  <2> QED BY <2>4, <2>6, <2>7, <2>8, <1>2
<1> QED BY <1>4, <1>5

(* A sequence that fits a tree which has entries leaves it somewhere: it   *)
(* gives a question an answer that no entry has.                           *)
LEMMA SomewhereDivergent ==
  ASSUME NEW entries, IsFiniteSet(entries), \A e \in entries : IsPairs(e.path),
         NEW key, OfKey(entries, key) # {}, NEW s,
         ~AlreadyThere(entries, key, s), ~LacksCall(entries, key, s)
  PROVE  Divergences(entries, key, s) # {}
<1>0. \A e \in entries : e.path \in Seq(Range(e.path))
  BY DEF IsPairs
<1>1. PICK e \in OfKey(entries, key) : \E n \in 0 .. Len(e.path) :
         /\ Follows(Prefix(e.path, n), s)
         /\ \A g \in OfKey(entries, key) : \A m \in 0 .. Len(g.path) :
              Follows(Prefix(g.path, m), s) => m <= n
  BY <1>0, LongestFollowed
<1> DEFINE p == e.path
<1>2. PICK n \in 0 .. Len(p) :
         /\ Follows(Prefix(p, n), s)
         /\ \A g \in OfKey(entries, key) : \A m \in 0 .. Len(g.path) :
              Follows(Prefix(g.path, m), s) => m <= n
  BY <1>1
<1>3. p \in Seq(Range(p)) /\ Len(p) \in Nat /\ DOMAIN p = 1 .. Len(p)
  BY <1>0, Elements DEF OfKey
<1>4. n # Len(p)
  <2> SUFFICES ASSUME n = Len(p) PROVE FALSE
    OBVIOUS
  <2>1. Prefix(p, n) = p
    BY <1>3, PrefixShape, Elements
  <2> QED BY <2>1, <1>2 DEF AlreadyThere
<1>5. n + 1 \in 1 .. Len(p) /\ (n + 1) - 1 = n
  BY <1>3, <1>4
<1> DEFINE x == [at |-> Prefix(p, n), call |-> p[n + 1].call]
<1>6. x \in Questions(entries, key)
  BY <1>3, <1>5 DEF Questions
<1>7. x \in Reached(entries, key, s)
  BY <1>6, <1>2 DEF Reached
<1>8. PICK r \in Range(s) : r.call = x.call
  BY <1>7 DEF LacksCall, CallsOf
<1> DEFINE d == Append(x.at, r)
<1>9. /\ x.at \in Seq(Range(x.at)) /\ Len(x.at) = n
  BY <1>3, PrefixShape
<1>10. Len(d) = n + 1 /\ Range(d) = Range(x.at) \cup {r}
  BY <1>9, Appended
<1>11. Follows(d, s)
  BY <1>10, <1>2 DEF Follows
<1> HIDE DEF x
<1>12. ASSUME NEW g \in OfKey(entries, key), NEW m \in 0 .. Len(g.path), d = Prefix(g.path, m)
       PROVE  FALSE
  <2>1. g.path \in Seq(Range(g.path))
    BY <1>0 DEF OfKey
  <2>2. m = n + 1
    BY <2>1, <1>10, <1>12, PrefixShape
  <2>3. Follows(Prefix(g.path, m), s)
    BY <1>11, <1>12
  <2> QED BY <2>2, <2>3, <1>2, <1>3
<1>13. d \notin Nodes(entries, key)
  <2> HIDE DEF d
  <2> QED BY <1>12 DEF Nodes
<1>14. d \in Divergences(entries, key, s)
  BY <1>7, <1>8, <1>13 DEF Divergences
<1> QED BY <1>14

(* A path that begins where a sequence left the tree parts from every path *)
(* of the tree.                                                            *)
LEMMA DivergencesPart ==
  ASSUME NEW entries, AllPart(entries), \A e \in entries : IsPairs(e.path),
         NEW key, NEW s, IsPairs(s),
         NEW d \in Divergences(entries, key, s),
         NEW t, t \in Seq(Range(t)),
         NEW g \in OfKey(entries, key)
  PROVE  Diverge(d \o t, g.path)
<1>1. PICK x \in Reached(entries, key, s) : \E r \in Range(s) :
        r.call = x.call /\ d = Append(x.at, r) /\ d \notin Nodes(entries, key)
  BY DEF Divergences
<1>2. PICK r \in Range(s) : r.call = x.call /\ d = Append(x.at, r) /\ d \notin Nodes(entries, key)
  BY <1>1
<1>3. PICK e \in OfKey(entries, key) : \E n \in DOMAIN e.path :
        x = [at |-> Prefix(e.path, n - 1), call |-> e.path[n].call]
  BY DEF Reached, Questions
<1> DEFINE p == e.path
           q == g.path
<1>4. PICK n \in DOMAIN p : x = [at |-> Prefix(p, n - 1), call |-> p[n].call]
  BY <1>3
<1>5. /\ p \in Seq(Range(p)) /\ Len(p) \in Nat /\ DOMAIN p = 1 .. Len(p)
      /\ q \in Seq(Range(q)) /\ Len(q) \in Nat /\ DOMAIN q = 1 .. Len(q)
  BY Elements DEF OfKey, IsPairs
<1>6. n \in 1 .. Len(p) /\ n - 1 \in 0 .. Len(p)
  BY <1>4, <1>5
<1>7. /\ x.at \in Seq(Range(x.at)) /\ Len(x.at) = n - 1
      /\ x.at = [i \in 1 .. n - 1 |-> p[i]]
  BY <1>4, <1>5, <1>6, PrefixShape
<1>8. /\ d \in Seq(Range(d)) /\ Len(d) = n /\ d[n] = r
      /\ \A i \in 1 .. n - 1 : d[i] = p[i]
  BY <1>2, <1>6, <1>7, Appended
<1> DEFINE u == d \o t
<1>9. /\ u \in Seq(Range(u)) /\ Len(u) = n + Len(t) /\ Len(t) \in Nat
      /\ DOMAIN u = 1 .. n + Len(t)
      /\ \A i \in 1 .. n : u[i] = d[i]
  BY <1>8, Joined, Elements
<1> SUFFICES Diverge(u, q)
  OBVIOUS
<1> HIDE DEF u
<1>10. u[n] = r /\ \A i \in 1 .. n - 1 : u[i] = p[i]
  BY <1>6, <1>8, <1>9
<1>11. ASSUME NEW f \in OfKey(entries, key), n \in 1 .. Len(f.path),
              \A i \in 1 .. n - 1 : f.path[i] = p[i], f.path[n].call = p[n].call
       PROVE  Diverge(u, f.path)
  <2> DEFINE w == f.path
  <2>1. w \in Seq(Range(w)) /\ Len(w) \in Nat /\ DOMAIN w = 1 .. Len(w)
    BY Elements DEF OfKey, IsPairs
  <2>2. r # w[n]
    <3> SUFFICES ASSUME r = w[n] PROVE FALSE
      OBVIOUS
    <3>0. n \in 0 .. Len(w)
      BY <1>11, <2>1
    <3>1. Prefix(w, n) = [i \in 1 .. n |-> w[i]]
      BY <3>0, <2>1, PrefixShape
    <3>2. d = [i \in 1 .. n |-> d[i]]
      BY <1>8, Elements
    <3>3. \A i \in 1 .. n : d[i] = w[i]
      BY <1>6, <1>8, <1>11, SMTT(20)
    <3>4. d = Prefix(w, n)
      BY <3>1, <3>2, <3>3
    <3>5. Prefix(w, n) \in Nodes(entries, key)
      BY <3>0 DEF Nodes
    <3> QED BY <3>4, <3>5, <1>2
  <2>3. w[n].ret # r.ret
    <3>0. w[n] \in Range(w) /\ IsPairs(w)
      BY <1>11, <2>1, Elements DEF OfKey
    <3>1. w[n] = [call |-> w[n].call, ret |-> w[n].ret]
      BY <3>0 DEF IsPairs
    <3>2. r = [call |-> r.call, ret |-> r.ret]
      BY DEF IsPairs
    <3>3. r.call = w[n].call
      BY <1>2, <1>4, <1>11
    <3> QED BY <3>1, <3>2, <3>3, <2>2
  <2>4. Prefix(u, n - 1) = Prefix(w, n - 1)
    <3>1. n - 1 \in 0 .. Len(u) /\ n - 1 \in 0 .. Len(w)
      BY <1>6, <1>9, <1>11, <2>1
    <3>2. \A i \in 1 .. n - 1 : u[i] = w[i]
      BY <1>10, <1>11
    <3>3. Prefix(u, n - 1) = [i \in 1 .. n - 1 |-> u[i]]
      BY <3>1, <1>9, PrefixShape
    <3>4. Prefix(w, n - 1) = [i \in 1 .. n - 1 |-> w[i]]
      BY <3>1, <2>1, PrefixShape
    <3> QED BY <3>2, <3>3, <3>4
  <2>5. n \in DOMAIN u \cap DOMAIN w
    BY <1>6, <1>9, <1>11, <2>1
  <2>6. u[n].call = w[n].call /\ u[n].ret # w[n].ret
    BY <1>2, <1>4, <1>10, <1>11, <2>3
  <2> QED BY <2>4, <2>5, <2>6 DEF Diverge
<1>12. CASE e = g
  BY <1>6, <1>11, <1>12
<1>13. CASE e # g
  <2>1. e \in entries /\ g \in entries /\ e.key = g.key
    BY DEF OfKey
  <2>2. Diverge(p, q)
    BY <1>13, <2>1 DEF AllPart
  <2>3. PICK m \in DOMAIN p \cap DOMAIN q :
          /\ Prefix(p, m - 1) = Prefix(q, m - 1)
          /\ p[m].call = q[m].call
          /\ p[m].ret # q[m].ret
    BY <2>2 DEF Diverge
  <2>4. m \in 1 .. Len(p) /\ m \in 1 .. Len(q)
    BY <2>3, <1>5
  <2>5. \A i \in 1 .. m - 1 : p[i] = q[i]
    <3>1. m - 1 \in 0 .. Len(p) /\ m - 1 \in 0 .. Len(q)
      BY <2>4, <1>5
    <3> QED BY <3>1, <1>5, <2>3, SamePrefix
  <2>6. CASE m < n
    <3>1. m \in 1 .. n - 1 /\ m \in DOMAIN u
      BY <2>4, <2>6, <1>6, <1>9
    <3>2. u[m] = p[m]
      BY <3>1, <1>10
    <3>3. \A i \in 1 .. m - 1 : u[i] = q[i]
      <4>1. \A i \in 1 .. m - 1 : i \in 1 .. n - 1
        BY <3>1, <1>6
      <4> QED BY <4>1, <2>5, <1>10
    <3>4. Prefix(u, m - 1) = Prefix(q, m - 1)
      <4>1. m - 1 \in 0 .. Len(u) /\ m - 1 \in 0 .. Len(q)
        BY <2>4, <2>6, <1>5, <1>6, <1>9
      <4>2. Prefix(u, m - 1) = [i \in 1 .. m - 1 |-> u[i]]
        BY <4>1, <1>9, PrefixShape
      <4>3. Prefix(q, m - 1) = [i \in 1 .. m - 1 |-> q[i]]
        BY <4>1, <1>5, PrefixShape
      <4> QED BY <3>3, <4>2, <4>3
    <3> QED BY <3>1, <3>2, <3>4, <2>3, <2>4, <1>5 DEF Diverge
  <2>7. CASE m = n
    BY <2>7, <2>3, <2>4, <2>5, <1>11
  <2>8. CASE m > n
    <3>1. n \in 1 .. m - 1 /\ n \in 1 .. Len(q)
      BY <2>4, <2>8, <1>5, <1>6
    <3>2. \A i \in 1 .. n - 1 : i \in 1 .. m - 1
      BY <3>1, <2>4, <1>5
    <3> QED BY <3>1, <3>2, <2>5, <1>11
  <2> QED BY <2>4, <2>6, <2>7, <2>8, <1>6, <1>5
<1> QED BY <1>12, <1>13

(* What Cache::insert adds: the path of a sequence that fits has the pairs *)
(* of the sequence and parts from every path of the tree.                  *)
LEMMA InsertionFits ==
  ASSUME NEW entries, IsFiniteSet(entries), AllPart(entries),
         \A e \in entries : IsPairs(e.path),
         NEW key, NEW s, IsPairs(s),
         ~AlreadyThere(entries, key, s), ~LacksCall(entries, key, s)
  PROVE  /\ IsPairs(NewPath(entries, key, s))
         /\ Range(NewPath(entries, key, s)) = Range(s)
         /\ \A g \in OfKey(entries, key) : Diverge(NewPath(entries, key, s), g.path)
<1>1. CASE OfKey(entries, key) = {}
  BY <1>1 DEF NewPath
<1>2. CASE OfKey(entries, key) # {}
  <2> DEFINE d == CHOOSE p \in Divergences(entries, key, s) : TRUE
             t == Without(s, Range(d))
             u == d \o t
  <2>1. d \in Divergences(entries, key, s)
    BY <1>2, SomewhereDivergent
  <2>2. NewPath(entries, key, s) = u
    BY <1>2 DEF NewPath
  <2> HIDE DEF d
  <2>3. s \in Seq(Range(s))
    BY DEF IsPairs
  <2>4. t \in Seq(Range(t)) /\ Range(t) = Range(s) \ Range(d)
    BY <2>3, WithoutKeeps
  <2> HIDE DEF t
  <2>5. PICK x \in Reached(entries, key, s) : \E r \in Range(s) : d = Append(x.at, r)
    BY <2>1 DEF Divergences
  <2>6. PICK r \in Range(s) : d = Append(x.at, r)
    BY <2>5
  <2>7. x.at \in Seq(Range(x.at)) /\ Range(x.at) \subseteq Range(s)
    <3>1. PICK e \in OfKey(entries, key) : \E n \in DOMAIN e.path :
            x = [at |-> Prefix(e.path, n - 1), call |-> e.path[n].call]
      BY DEF Reached, Questions
    <3>2. PICK n \in DOMAIN e.path : x.at = Prefix(e.path, n - 1)
      BY <3>1
    <3>3. e.path \in Seq(Range(e.path)) /\ Len(e.path) \in Nat /\ n \in 1 .. Len(e.path)
      BY Elements DEF OfKey, IsPairs
    <3>4. n - 1 \in 0 .. Len(e.path)
      BY <3>3
    <3>5. x.at \in Seq(Range(x.at))
      BY <3>2, <3>3, <3>4, PrefixShape
    <3> QED BY <3>5 DEF Reached, Follows
  <2>8. d \in Seq(Range(d)) /\ Range(d) \subseteq Range(s)
    BY <2>6, <2>7, Appended
  <2>9. u \in Seq(Range(u)) /\ Range(u) = Range(d) \cup Range(t)
    BY <2>4, <2>8, Joined
  <2>10. Range(u) = Range(s)
    BY <2>4, <2>8, <2>9
  <2>11. IsPairs(u)
    BY <2>9, <2>10 DEF IsPairs
  <2>12. \A g \in OfKey(entries, key) : Diverge(u, g.path)
    BY <2>1, <2>4, DivergencesPart
  <2> QED BY <2>2, <2>10, <2>11, <2>12
<1> QED BY <1>1, <1>2

(* A new path asks on as an entry before it did, up to where they part,    *)
(* and then in the order of s.                                             *)
LEMMA InsertionOrder ==
  ASSUME NEW entries, IsFiniteSet(entries), AllPart(entries),
         \A e \in entries : IsPairs(e.path),
         NEW key, NEW s, IsPairs(s),
         ~AlreadyThere(entries, key, s), ~LacksCall(entries, key, s)
  PROVE  LET u == NewPath(entries, key, s) IN
           \A n \in 1 .. Len(u) :
             \/ \E e \in OfKey(entries, key) :
                  /\ n \in 1 .. Len(e.path) /\ e.path[n].call = u[n].call
                  /\ \A i \in 1 .. n - 1 : e.path[i] = u[i]
             \/ \E k \in 1 .. Len(s) :
                  /\ u[n] = s[k]
                  /\ \A h \in 1 .. k - 1 : \E l \in 1 .. n - 1 : u[l] = s[h]
<1>1. s \in Seq(Range(s)) /\ Len(s) \in Nat /\ DOMAIN s = 1 .. Len(s)
  BY Elements DEF IsPairs
<1>2. CASE OfKey(entries, key) = {}
  <2>1. NewPath(entries, key, s) = s
    BY <1>2 DEF NewPath
  <2> QED BY <1>1, <2>1
<1>3. CASE OfKey(entries, key) # {}
  <2> DEFINE d == CHOOSE p \in Divergences(entries, key, s) : TRUE
             t == Without(s, Range(d))
             u == d \o t
  <2>1. d \in Divergences(entries, key, s)
    BY <1>3, SomewhereDivergent
  <2>2. NewPath(entries, key, s) = u
    BY <1>3 DEF NewPath
  <2> HIDE DEF d
  <2>3. /\ t \in Seq(Range(t))
        /\ \A m \in 1 .. Len(t) : \E k \in 1 .. Len(s) :
             /\ t[m] = s[k]
             /\ \A h \in 1 .. k - 1 : s[h] \in Range(d) \/ \E l \in 1 .. m - 1 : t[l] = s[h]
    <3>1. t \in Seq(Range(t)) /\ KeepsOrder(t, s, Range(d))
      BY <1>1, WithoutKeeps
    <3> HIDE DEF t
    <3> QED BY <3>1 DEF KeepsOrder
  <2> HIDE DEF t
  <2>4. PICK x \in Reached(entries, key, s) :
          \E r \in {q \in Range(s) : q.call = x.call} : d = Append(x.at, r)
    BY <2>1 DEF Divergences
  <2>5. PICK r \in Range(s) : r.call = x.call /\ d = Append(x.at, r)
    BY <2>4
  <2>6. PICK e \in OfKey(entries, key) : \E n \in DOMAIN e.path :
          x = [at |-> Prefix(e.path, n - 1), call |-> e.path[n].call]
    BY DEF Reached, Questions
  <2>7. PICK n \in DOMAIN e.path : x.at = Prefix(e.path, n - 1) /\ x.call = e.path[n].call
    BY <2>6
  <2>8. e.path \in Seq(Range(e.path)) /\ Len(e.path) \in Nat /\ n \in 1 .. Len(e.path)
    BY Elements DEF OfKey, IsPairs
  <2>9. /\ x.at \in Seq(Range(x.at)) /\ Len(x.at) = n - 1
        /\ x.at = [i \in 1 .. n - 1 |-> e.path[i]]
    <3> DEFINE p == e.path
               m == n - 1
    <3>1. m \in 0 .. Len(p) /\ p \in Seq(Range(p))
      BY <2>8
    <3> HIDE DEF p, m
    <3>2. /\ Prefix(p, m) = [i \in 1 .. m |-> p[i]]
          /\ Prefix(p, m) \in Seq(Range(Prefix(p, m))) /\ Len(Prefix(p, m)) = m
      BY <3>1, PrefixShape
    <3> QED BY <2>7, <3>2 DEF p, m
  <2>10. /\ d \in Seq(Range(d)) /\ Len(d) = n /\ DOMAIN d = 1 .. n /\ d[n] = r
         /\ \A i \in 1 .. n - 1 : d[i] = e.path[i]
    BY <2>5, <2>8, <2>9, Appended
  <2>11. /\ Len(t) \in Nat /\ Len(u) = n + Len(t)
         /\ \A i \in 1 .. n : u[i] = d[i]
         /\ \A i \in 1 .. Len(t) : u[n + i] = t[i]
    <3>1. Len(t) \in Nat
      BY <2>3, Elements
    <3>2. d \in Seq(Range(d)) /\ t \in Seq(Range(t))
      BY <2>3, <2>10
    <3>3. /\ Len(d \o t) = Len(d) + Len(t)
          /\ \A i \in 1 .. Len(d) : (d \o t)[i] = d[i]
      BY <3>2, Joined
    <3>4. \A i \in 1 .. Len(t) : (d \o t)[Len(d) + i] = t[i]
      BY <3>2, Joined
    <3> QED BY <2>10, <3>1, <3>3, <3>4
  <2> HIDE DEF u
  <2>12. ASSUME NEW i \in 1 .. n
         PROVE  /\ i \in 1 .. Len(e.path) /\ e.path[i].call = u[i].call
                /\ \A j \in 1 .. i - 1 : e.path[j] = u[j]
    <3>1. e.path[i].call = u[i].call
      BY <2>5, <2>7, <2>10, <2>11, <2>8
    <3>2. ASSUME NEW j \in 1 .. i - 1 PROVE e.path[j] = u[j]
      <4>1. j \in 1 .. n - 1 /\ j \in 1 .. n
        BY <2>8
      <4> QED BY <4>1, <2>10, <2>11
    <3> QED BY <3>1, <3>2, <2>8
  <2>13. ASSUME NEW m \in 1 .. Len(t)
         PROVE  \E k \in 1 .. Len(s) :
                  /\ u[n + m] = s[k]
                  /\ \A h \in 1 .. k - 1 : \E l \in 1 .. (n + m) - 1 : u[l] = s[h]
    <3>1. PICK k \in 1 .. Len(s) :
            /\ t[m] = s[k]
            /\ \A h \in 1 .. k - 1 : s[h] \in Range(d) \/ \E l \in 1 .. m - 1 : t[l] = s[h]
      BY <2>3
    <3>2. ASSUME NEW h \in 1 .. k - 1 PROVE \E l \in 1 .. (n + m) - 1 : u[l] = s[h]
      <4>1. CASE s[h] \in Range(d)
        <5>1. PICK l \in 1 .. n : d[l] = s[h]
          BY <4>1, <2>10 DEF Range
        <5>2. l \in 1 .. (n + m) - 1 /\ u[l] = s[h]
          <6>1. n \in Nat /\ m \in Nat \ {0}
            BY <2>8, <2>11
          <6>2. l \in 1 .. (n + m) - 1
            BY <6>1
          <6> QED BY <6>2, <5>1, <2>11
        <5> QED BY <5>2
      <4>2. CASE \E l \in 1 .. m - 1 : t[l] = s[h]
        <5>1. PICK l \in 1 .. m - 1 : t[l] = s[h]
          BY <4>2
        <5>2. n + l \in 1 .. (n + m) - 1 /\ u[n + l] = s[h]
          <6>1. n \in Nat /\ m \in Nat /\ l \in Nat /\ l \in 1 .. Len(t)
            BY <2>8, <2>11
          <6>2. n + l \in 1 .. (n + m) - 1
            BY <6>1
          <6> QED BY <6>1, <6>2, <5>1, <2>11
        <5> QED BY <5>2
      <4> QED BY <4>1, <4>2, <3>1
    <3> QED BY <3>1, <3>2, <2>11
  <2>14. ASSUME NEW i \in 1 .. Len(u) PROVE i \in 1 .. n \/ \E m \in 1 .. Len(t) : i = n + m
    <3>1. i \notin 1 .. n => i - n \in 1 .. Len(t) /\ i = n + (i - n)
      BY <2>8, <2>11
    <3> QED BY <3>1
  <2> QED BY <2>2, <2>12, <2>13, <2>14
<1> QED BY <1>2, <1>3

(* One world leads one way: entries whose answers agree with the same      *)
(* oracle share their paths as far as they do.                             *)
LEMMA OneWay ==
  ASSUME NEW entries, AllPart(entries), \A e \in entries : IsPairs(e.path),
         NEW key, NEW e \in OfKey(entries, key), NEW g \in OfKey(entries, key),
         NEW n \in 1 .. Len(e.path), n \in 1 .. Len(g.path), NEW oracle,
         \A i \in 1 .. n - 1 : /\ oracle[e.path[i].call] = e.path[i].ret
                               /\ oracle[g.path[i].call] = g.path[i].ret
  PROVE  /\ Prefix(e.path, n - 1) = Prefix(g.path, n - 1)
         /\ e.path[n].call = g.path[n].call
<1> DEFINE p == e.path
           q == g.path
           P == {i \in 0 .. n - 1 : Prefix(p, i) = Prefix(q, i)}
<1>1. IsPairs(p) /\ IsPairs(q)
  BY DEF OfKey
<1>2. /\ p \in Seq(Range(p)) /\ Len(p) \in Nat /\ DOMAIN p = 1 .. Len(p)
      /\ \A i \in 1 .. Len(p) : p[i] \in Range(p)
      /\ q \in Seq(Range(q)) /\ Len(q) \in Nat /\ DOMAIN q = 1 .. Len(q)
      /\ \A i \in 1 .. Len(q) : q[i] \in Range(q)
  BY <1>1, Elements DEF IsPairs
<1>3. 0 \in P
  <2>1. 0 \in 0 .. Len(p) /\ 0 \in 0 .. Len(q)
    BY <1>2
  <2>2. Prefix(p, 0) = Prefix(q, 0)
    BY <2>1, <1>2, SamePrefix
  <2> QED BY <2>2, <1>2
<1>4. ASSUME NEW i \in 0 .. (n - 1) - 1, i \in P PROVE i + 1 \in P
  <2>1. /\ i + 1 \in 1 .. n - 1 /\ i + 1 \in 1 .. Len(p) /\ i + 1 \in 1 .. Len(q)
        /\ i \in 0 .. Len(p) /\ i \in 0 .. Len(q) /\ (i + 1) - 1 = i
        /\ i + 1 \in 0 .. Len(p) /\ i + 1 \in 0 .. Len(q) /\ i + 1 \in 0 .. n - 1
    BY <1>2
  <2>2. Prefix(p, (i + 1) - 1) = Prefix(q, (i + 1) - 1)
    BY <1>4, <2>1
  <2>3. p[i + 1].call = q[i + 1].call
    BY <2>1, <2>2, SameQuestion
  <2>4. oracle[p[i + 1].call] = p[i + 1].ret /\ oracle[q[i + 1].call] = q[i + 1].ret
    BY <2>1
  <2>5. p[i + 1].ret = q[i + 1].ret
    BY <2>3, <2>4
  <2>6. p[i + 1] = q[i + 1]
    <3>1. p[i + 1] = [call |-> p[i + 1].call, ret |-> p[i + 1].ret]
      BY <1>1, <1>2, <2>1 DEF IsPairs
    <3>2. q[i + 1] = [call |-> q[i + 1].call, ret |-> q[i + 1].ret]
      BY <1>1, <1>2, <2>1 DEF IsPairs
    <3> QED BY <2>3, <2>5, <3>1, <3>2
  <2>7. \A j \in 1 .. i : p[j] = q[j]
    BY <1>2, <1>4, <2>1, SamePrefix
  <2>8. \A j \in 1 .. i + 1 : p[j] = q[j]
    BY <2>1, <2>6, <2>7
  <2>9. Prefix(p, i + 1) = Prefix(q, i + 1)
    <3> DEFINE k == i + 1
    <3>1. k \in 0 .. Len(p) /\ k \in 0 .. Len(q) /\ \A j \in 1 .. k : p[j] = q[j]
      BY <2>1, <2>8
    <3>2. p \in Seq(Range(p)) /\ q \in Seq(Range(q))
      BY <1>2
    <3> HIDE DEF k, p, q
    <3>3. Prefix(p, k) = Prefix(q, k)
      BY <3>1, <3>2, SamePrefix
    <3> QED BY <3>3 DEF k, p, q
  <2> QED BY <2>1, <2>9
<1>5. n - 1 \in Nat
  BY <1>2
<1> HIDE DEF P
<1>6. n - 1 \in P
  BY <1>3, <1>4, <1>5, CountUp
<1> QED BY <1>6, SameQuestion DEF P
=============================================================================
