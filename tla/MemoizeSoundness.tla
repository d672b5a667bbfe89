-------------------------- MODULE MemoizeSoundness --------------------------
(***************************************************************************)
(* That memoization cannot be seen, for every program whose functions have *)
(* read what they change before they change it: what the running calls     *)
(* have recorded leads a run from scratch to where they are, so an entry   *)
(* does what a run would, no function that only reads is taken for impure, *)
(* and every top-level call is one of DirectExecution.                     *)
(***************************************************************************)
EXTENDS MemoizeAnswers, MemoizeProperties

-----------------------------------------------------------------------------
(* Runs from scratch.                                                      *)

(* The configurations that a run goes through *)
LEMMA MovesSteps ==
  ASSUME NEW c, NEW n \in Nat
  PROVE  \E at : /\ at[0] = c
                 /\ \A i \in 1 .. n : at[i] = Direct!Move(at[i - 1])
                 /\ Direct!Moves(c, n) = at[n]
<1> DEFINE Step(t) == Direct!Move(t)
           Upto(i, g) == g = [m \in 0 .. i |-> IF m = 0 THEN c ELSE Step(g[m - 1])]
           P == {i \in 0 .. n : \E g : Upto(i, g)}
<1> HIDE DEF Step
<1>1. 0 \in P
  <2> DEFINE g == [m \in 0 .. 0 |-> c]
  <2>1. Upto(0, g)
    OBVIOUS
  <2> HIDE DEF g
  <2> QED BY <2>1
<1>2. ASSUME NEW i \in 0 .. n - 1, i \in P PROVE i + 1 \in P
  <2>1. PICK g : Upto(i, g)
    BY <1>2
  <2> DEFINE h == [m \in 0 .. i + 1 |-> IF m = i + 1 THEN Step(g[i]) ELSE g[m]]
  <2>2. \A m \in 0 .. i + 1 : h[m] = IF m = 0 THEN c ELSE Step(h[m - 1])
    <3> TAKE m \in 0 .. i + 1
    <3>1. CASE m = i + 1
      BY <3>1
    <3>2. CASE m # i + 1
      <4>1. m \in 0 .. i /\ h[m] = g[m]
        BY <3>2
      <4>2. m # 0 => h[m - 1] = g[m - 1]
        BY <4>1
      <4>3. g[m] = IF m = 0 THEN c ELSE Step(g[m - 1])
        BY <2>1, <4>1
      <4> QED BY <4>1, <4>2, <4>3
    <3> QED BY <3>1, <3>2
  <2>3. Upto(i + 1, h)
    BY <2>2
  <2> HIDE DEF h
  <2> QED BY <2>3
<1>3. PICK g : Upto(n, g)
  <2>1. n \in P
    BY <1>1, <1>2, CountUp
  <2> QED BY <2>1
<1> DEFINE at == CHOOSE f : Upto(n, f)
<1>4. Upto(n, at)
  BY <1>3
<1>5. Direct!Moves(c, n) = at[n]
  BY DEF Direct!Moves, Step
<1> HIDE DEF at
<1>6. \A m \in 0 .. n : at[m] = IF m = 0 THEN c ELSE Step(at[m - 1])
  BY <1>4
<1>7. at[0] = c /\ \A i \in 1 .. n : at[i] = Step(at[i - 1])
  BY <1>6
<1> QED BY <1>5, <1>7 DEF Step

(* One move after the others *)
LEMMA MovesOn ==
  /\ \A c : Direct!Moves(c, 0) = c
  /\ \A c : \A n \in Nat : Direct!Moves(c, n + 1) = Direct!Move(Direct!Moves(c, n))
<1>1. ASSUME NEW c PROVE Direct!Moves(c, 0) = c
  <2>1. PICK at : /\ at[0] = c
                  /\ \A i \in 1 .. 0 : at[i] = Direct!Move(at[i - 1])
                  /\ Direct!Moves(c, 0) = at[0]
    BY MovesSteps
  <2> QED BY <2>1
<1>2. ASSUME NEW c, NEW n \in Nat
      PROVE  Direct!Moves(c, n + 1) = Direct!Move(Direct!Moves(c, n))
  <2>1. PICK f : /\ f[0] = c
                 /\ \A i \in 1 .. n : f[i] = Direct!Move(f[i - 1])
                 /\ Direct!Moves(c, n) = f[n]
    BY MovesSteps
  <2>2. n + 1 \in Nat
    OBVIOUS
  <2>3. PICK g : /\ g[0] = c
                 /\ \A i \in 1 .. n + 1 : g[i] = Direct!Move(g[i - 1])
                 /\ Direct!Moves(c, n + 1) = g[n + 1]
    BY <2>2, MovesSteps
  <2> DEFINE P == {i \in 0 .. n : g[i] = f[i]}
  <2>4. 0 \in P
    BY <2>1, <2>3
  <2>5. ASSUME NEW i \in 0 .. n - 1, i \in P PROVE i + 1 \in P
    <3>1. i + 1 \in 1 .. n /\ i + 1 \in 1 .. n + 1 /\ (i + 1) - 1 = i /\ i + 1 \in 0 .. n
      OBVIOUS
    <3>2. f[i + 1] = Direct!Move(f[i]) /\ g[i + 1] = Direct!Move(g[i]) /\ g[i] = f[i]
      BY <2>1, <2>3, <2>5, <3>1
    <3> QED BY <3>1, <3>2
  <2> HIDE DEF P
  <2>6. n \in P
    BY <2>4, <2>5, CountUp
  <2>7. g[n] = f[n]
    BY <2>6 DEF P
  <2>8. n + 1 \in 1 .. n + 1 /\ (n + 1) - 1 = n
    OBVIOUS
  <2> QED BY <2>1, <2>3, <2>7, <2>8
<1> QED BY <1>1, <1>2

(* Moves after moves *)
LEMMA MovesAdd ==
  ASSUME NEW c, NEW m \in Nat, NEW n \in Nat
  PROVE  Direct!Moves(c, m + n) = Direct!Moves(Direct!Moves(c, m), n)
<1> DEFINE d == Direct!Moves(c, m)
           P == {i \in 0 .. n : Direct!Moves(c, m + i) = Direct!Moves(d, i)}
<1>1. 0 \in P
  BY MovesOn
<1>2. ASSUME NEW i \in 0 .. n - 1, i \in P PROVE i + 1 \in P
  <2>1. Direct!Moves(c, m + i) = Direct!Moves(d, i) /\ i \in Nat /\ m + i \in Nat
    BY <1>2
  <2>2. /\ Direct!Moves(d, i + 1) = Direct!Move(Direct!Moves(d, i))
        /\ Direct!Moves(c, (m + i) + 1) = Direct!Move(Direct!Moves(c, m + i))
    BY <2>1, MovesOn
  <2>3. (m + i) + 1 = m + (i + 1) /\ i + 1 \in 0 .. n
    OBVIOUS
  <2> QED BY <2>1, <2>2, <2>3
<1> HIDE DEF P
<1>3. n \in P
  BY <1>1, <1>2, CountUp
<1> QED BY <1>3 DEF P

(* A run from c gets to d; it asks call on the way *)
Reaches(c, d) == \E n \in Nat : Direct!Moves(c, n) = d
Asks(c, call) == \E n \in Nat : call \in Direct!Moves(c, n).asked

(* A run gets to where it is and to where a move takes it; runs continue *)
LEMMA ReachesOn ==
  /\ \A c : Reaches(c, c)
  /\ \A c : Reaches(c, Direct!Move(c))
  /\ \A c, d, e : Reaches(c, d) /\ Reaches(d, e) => Reaches(c, e)
  /\ \A c, d, call : Reaches(c, d) /\ Asks(d, call) => Asks(c, call)
<1>1. \A c : Reaches(c, c)
  BY MovesOn DEF Reaches
<1>2. ASSUME NEW c PROVE Reaches(c, Direct!Move(c))
  <2>1. Direct!Moves(c, 0 + 1) = Direct!Move(Direct!Moves(c, 0)) /\ Direct!Moves(c, 0) = c
    BY MovesOn
  <2>2. 0 + 1 \in Nat
    OBVIOUS
  <2> QED BY <2>1, <2>2 DEF Reaches
<1>3. ASSUME NEW c, NEW d, NEW e, Reaches(c, d), Reaches(d, e) PROVE Reaches(c, e)
  <2>1. PICK m \in Nat : Direct!Moves(c, m) = d
    BY <1>3 DEF Reaches
  <2>2. PICK n \in Nat : Direct!Moves(d, n) = e
    BY <1>3 DEF Reaches
  <2>3. Direct!Moves(c, m + n) = e /\ m + n \in Nat
    BY <2>1, <2>2, MovesAdd
  <2> QED BY <2>3 DEF Reaches
<1>4. ASSUME NEW c, NEW d, NEW call, Reaches(c, d), Asks(d, call) PROVE Asks(c, call)
  <2>1. PICK m \in Nat : Direct!Moves(c, m) = d
    BY <1>4 DEF Reaches
  <2>2. PICK n \in Nat : call \in Direct!Moves(d, n).asked
    BY <1>4 DEF Asks
  <2>3. Direct!Moves(c, m + n) = Direct!Moves(d, n) /\ m + n \in Nat
    BY <2>1, MovesAdd
  <2> QED BY <2>2, <2>3 DEF Asks
<1> QED BY <1>1, <1>2, <1>3, <1>4

-----------------------------------------------------------------------------
(* Configurations.                                                         *)

OpenFrame(x) == x = [fun |-> x.fun, key |-> x.key, obs |-> x.obs] /\ x.fun \in Funs

OpenFrames(frames) ==
  frames \in Seq(Range(frames)) /\ \A i \in 1 .. Len(frames) : OpenFrame(frames[i])

Configuration(frames, state, asked, val) ==
  [frames |-> frames, state |-> state, asked |-> asked, value |-> val]

IsConfiguration(c) ==
  c = Configuration(c.frames, c.state, c.asked, c.value) /\ OpenFrames(c.frames)

(* What the innermost call asks for *)
Asking(frames) == Body(Last(frames).fun, Last(frames).key, Last(frames).obs)

(* Seeing something *)
LEMMA Observed ==
  ASSUME NEW frames, OpenFrames(frames), NEW v
  PROVE  LET new == Direct!Observe(frames, v) IN
           /\ OpenFrames(new) /\ Len(new) = Len(frames)
           /\ frames = <<>> => new = <<>>
           /\ \A i \in 1 .. Len(frames) :
                new[i] = IF i = Len(frames) THEN [frames[i] EXCEPT !.obs = Append(@, v)]
                         ELSE frames[i]
<1> DEFINE new == Direct!Observe(frames, v)
<1>0. frames \in Seq(Range(frames)) /\ \A i \in 1 .. Len(frames) : OpenFrame(frames[i])
  BY DEF OpenFrames
<1>1. Len(frames) \in Nat /\ DOMAIN frames = 1 .. Len(frames)
  BY <1>0, Elements
<1>2. CASE frames = <<>>
  BY <1>0, <1>2 DEF Direct!Observe, OpenFrames
<1>3. CASE frames # <<>>
  <2>1. Len(frames) \in 1 .. Len(frames)
    BY <1>0, <1>1, <1>3, EmptySeq
  <2>2. new = [frames EXCEPT ![Len(frames)].obs = Append(@, v)]
    BY <1>3 DEF Direct!Observe
  <2>3. \A i \in 1 .. Len(frames) :
          new[i] = IF i = Len(frames) THEN [frames[i] EXCEPT !.obs = Append(@, v)]
                   ELSE frames[i]
    BY <1>1, <2>1, <2>2
  <2>4. new = [i \in 1 .. Len(frames) |-> new[i]]
    BY <1>1, <2>2
  <2> HIDE DEF new
  <2>5. new \in Seq(Range(new)) /\ Len(new) = Len(frames)
    BY <1>1, <2>4, FunctionIsSeq
  <2>6. ASSUME NEW i \in 1 .. Len(frames) PROVE OpenFrame(new[i])
    <3>1. OpenFrame(frames[i])
      BY <1>0
    <3> DEFINE x == frames[i]
               y == [x EXCEPT !.obs = Append(@, v)]
    <3>2. x = [fun |-> x.fun, key |-> x.key, obs |-> x.obs] /\ x.fun \in Funs
      BY <3>1 DEF OpenFrame
    <3> HIDE DEF x
    <3>3. y = [fun |-> x.fun, key |-> x.key, obs |-> Append(x.obs, v)]
      <4>1. PICK f, k, o : x = [fun |-> f, key |-> k, obs |-> o]
        BY <3>2
      <4> QED BY <4>1, SMTT(20)
    <3>4. y.fun = x.fun /\ y.key = x.key /\ y.obs = Append(x.obs, v)
      BY <3>3
    <3> HIDE DEF y
    <3>5. OpenFrame(y)
      BY <3>2, <3>3, <3>4 DEF OpenFrame
    <3> QED BY <2>3, <3>1, <3>5 DEF x, y
  <2>7. OpenFrames(new)
    BY <2>5, <2>6 DEF OpenFrames
  <2> QED BY <1>3, <2>3, <2>5, <2>7 DEF new
<1> QED BY <1>2, <1>3

(* The parts of a configuration *)
LEMMA ConfigurationParts ==
  ASSUME NEW frames, NEW state, NEW asked, NEW val
  PROVE  LET c == Configuration(frames, state, asked, val) IN
           /\ c.frames = frames /\ c.state = state /\ c.asked = asked /\ c.value = val
           /\ OpenFrames(frames) => IsConfiguration(c)
<1> DEFINE c == Configuration(frames, state, asked, val)
<1>1. c.frames = frames /\ c.state = state /\ c.asked = asked /\ c.value = val
  BY DEF Configuration
<1>2. c = Configuration(c.frames, c.state, c.asked, c.value)
  BY <1>1
<1> QED BY <1>1, <1>2 DEF IsConfiguration

(* What a move does, by what is asked for *)
LEMMA MoveParts ==
  ASSUME NEW c, IsConfiguration(c), c.frames # <<>>
  PROVE  LET op == Asking(c.frames) IN
           /\ op.op = "read" =>
                Direct!Move(c) = Configuration(Direct!Observe(c.frames, Result(op.call, c.state)),
                                               c.state, c.asked \cup {op.call}, c.value)
           /\ op.op = "write" =>
                Direct!Move(c) = Configuration(Direct!Observe(c.frames, Unit),
                                               Effect(op.call, c.state), c.asked, c.value)
           /\ op.op = "call" =>
                Direct!Move(c) = Configuration(Append(c.frames, Direct!Opened(op.fun, op.key)),
                                               c.state, c.asked, c.value)
           /\ op.op = "return" =>
                Direct!Move(c) = Configuration(Direct!Observe(Front(c.frames), op.value),
                                               c.state, c.asked,
                                               IF Len(c.frames) = 1 THEN op.value ELSE c.value)
<1> DEFINE op == Asking(c.frames)
<1>1. c = [frames |-> c.frames, state |-> c.state, asked |-> c.asked, value |-> c.value]
  BY DEF IsConfiguration, Configuration
<1>2. /\ op.op = "read" =>
           Direct!Move(c) = [c EXCEPT !.frames = Direct!Observe(@, Result(op.call, c.state)),
                                      !.asked = @ \cup {op.call}]
      /\ op.op = "write" =>
           Direct!Move(c) = [c EXCEPT !.frames = Direct!Observe(@, Unit),
                                      !.state = Effect(op.call, @)]
      /\ op.op = "call" =>
           Direct!Move(c) = [c EXCEPT !.frames = Append(@, Direct!Opened(op.fun, op.key))]
      /\ op.op = "return" =>
           Direct!Move(c) = [c EXCEPT !.frames = Direct!Observe(Front(@), op.value),
                                      !.value = IF Len(c.frames) = 1 THEN op.value ELSE @]
  BY DEF Direct!Move, Asking, Last, Front, Direct!Last, Direct!Front
<1> HIDE DEF op
<1>3. ASSUME op.op = "read"
      PROVE  Direct!Move(c) = Configuration(Direct!Observe(c.frames, Result(op.call, c.state)),
                                            c.state, c.asked \cup {op.call}, c.value)
  BY <1>1, <1>2, <1>3 DEF Configuration
<1>4. ASSUME op.op = "write"
      PROVE  Direct!Move(c) = Configuration(Direct!Observe(c.frames, Unit),
                                            Effect(op.call, c.state), c.asked, c.value)
  BY <1>1, <1>2, <1>4 DEF Configuration
<1>5. ASSUME op.op = "call"
      PROVE  Direct!Move(c) = Configuration(Append(c.frames, Direct!Opened(op.fun, op.key)),
                                            c.state, c.asked, c.value)
  BY <1>1, <1>2, <1>5 DEF Configuration
<1>6. ASSUME op.op = "return"
      PROVE  Direct!Move(c) = Configuration(Direct!Observe(Front(c.frames), op.value),
                                            c.state, c.asked,
                                            IF Len(c.frames) = 1 THEN op.value ELSE c.value)
  BY <1>1, <1>2, <1>6 DEF Configuration
<1> QED BY <1>3, <1>4, <1>5, <1>6 DEF op

(* A call that begins *)
LEMMA OpenedFrame ==
  ASSUME NEW fun \in Funs, NEW key
  PROVE  /\ OpenFrame(Direct!Opened(fun, key))
         /\ OpenFrames(<<Direct!Opened(fun, key)>>)
         /\ \A frames : OpenFrames(frames) => OpenFrames(Append(frames, Direct!Opened(fun, key)))
<1> DEFINE x == Direct!Opened(fun, key)
<1>1. x.fun = fun /\ x.key = key /\ x.obs = <<>> /\ x = [fun |-> fun, key |-> key, obs |-> <<>>]
  BY DEF Direct!Opened
<1> HIDE DEF x
<1>2. OpenFrame(x)
  BY <1>1 DEF OpenFrame
<1>3. OpenFrames(<<x>>)
  BY <1>2 DEF OpenFrames, Range
<1>4. ASSUME NEW frames, OpenFrames(frames) PROVE OpenFrames(Append(frames, x))
  <2> DEFINE new == Append(frames, x)
  <2>1. frames \in Seq(Range(frames)) /\ \A i \in 1 .. Len(frames) : OpenFrame(frames[i])
    BY <1>4 DEF OpenFrames
  <2>2. /\ new \in Seq(Range(new)) /\ Len(new) = Len(frames) + 1 /\ Len(frames) \in Nat
        /\ \A i \in 1 .. Len(frames) : new[i] = frames[i]
        /\ new[Len(frames) + 1] = x
    BY <2>1, Appended, Elements
  <2> HIDE DEF new
  <2>3. \A i \in 1 .. Len(frames) + 1 : i \in 1 .. Len(frames) \/ i = Len(frames) + 1
    BY <2>2
  <2>4. OpenFrames(new)
    BY <1>2, <2>1, <2>2, <2>3 DEF OpenFrames
  <2> QED BY <2>4 DEF new
<1> QED BY <1>2, <1>3, <1>4 DEF x

(* Without the innermost call *)
LEMMA OpenShorter ==
  ASSUME NEW frames, OpenFrames(frames), frames # <<>>
  PROVE  /\ OpenFrames(Front(frames)) /\ Len(frames) \in Nat \ {0}
         /\ Len(Front(frames)) = Len(frames) - 1
         /\ \A i \in 1 .. Len(frames) - 1 : Front(frames)[i] = frames[i]
         /\ Last(frames) = frames[Len(frames)] /\ Last(frames).fun \in Funs
<1>1. frames \in Seq(Range(frames)) /\ \A i \in 1 .. Len(frames) : OpenFrame(frames[i])
  BY DEF OpenFrames
<1> DEFINE new == Front(frames)
<1>2. /\ Len(frames) \in Nat \ {0} /\ new \in Seq(Range(new)) /\ Len(new) = Len(frames) - 1
      /\ \A i \in 1 .. Len(frames) - 1 : new[i] = frames[i]
      /\ Last(frames) = frames[Len(frames)]
  BY <1>1, Shortened
<1> HIDE DEF new
<1>3. \A i \in 1 .. Len(frames) - 1 : i \in 1 .. Len(frames)
  BY <1>2
<1>4. OpenFrames(new)
  BY <1>1, <1>2, <1>3 DEF OpenFrames
<1>5. Last(frames).fun \in Funs
  <2>1. Len(frames) \in 1 .. Len(frames)
    BY <1>2
  <2>2. OpenFrame(frames[Len(frames)])
    BY <1>1, <2>1
  <2> QED BY <1>2, <2>2 DEF OpenFrame
<1> QED BY <1>2, <1>4, <1>5 DEF new

(* A move leads to a configuration and forgets nothing that was asked *)
LEMMA MoveKeeps ==
  ASSUME OperationsKnown, CallsKnown, NEW c, IsConfiguration(c)
  PROVE  /\ IsConfiguration(Direct!Move(c)) /\ c.asked \subseteq Direct!Move(c).asked
         /\ c.frames = <<>> => Direct!Move(c) = c
<1>1. CASE c.frames = <<>>
  BY <1>1 DEF Direct!Move
<1>2. CASE c.frames # <<>>
  <2> DEFINE op == Asking(c.frames)
             F == c.frames
  <2>0. OpenFrames(F)
    BY DEF IsConfiguration
  <2>1. /\ op.op = "read" =>
             Direct!Move(c) = Configuration(Direct!Observe(c.frames, Result(op.call, c.state)),
                                            c.state, c.asked \cup {op.call}, c.value)
        /\ op.op = "write" =>
             Direct!Move(c) = Configuration(Direct!Observe(c.frames, Unit),
                                            Effect(op.call, c.state), c.asked, c.value)
        /\ op.op = "call" =>
             Direct!Move(c) = Configuration(Append(c.frames, Direct!Opened(op.fun, op.key)),
                                            c.state, c.asked, c.value)
        /\ op.op = "return" =>
             Direct!Move(c) = Configuration(Direct!Observe(Front(c.frames), op.value),
                                            c.state, c.asked,
                                            IF Len(c.frames) = 1 THEN op.value ELSE c.value)
    BY <1>2, MoveParts
  <2>2. OpenFrames(Front(F)) /\ Last(F).fun \in Funs
    BY <1>2, <2>0, OpenShorter
  <2>3. op.op \in {"read", "write", "call", "return"}
    BY <2>2 DEF Asking, OperationsKnown
  <2>4. op.op = "call" => op.fun \in Funs
    BY <2>2 DEF Asking, CallsKnown
  <2>5. \A v : OpenFrames(Direct!Observe(F, v)) /\ OpenFrames(Direct!Observe(Front(F), v))
    BY <2>0, <2>2, Observed
  <2>6. op.op = "call" => OpenFrames(Append(F, Direct!Opened(op.fun, op.key)))
    BY <2>0, <2>4, OpenedFrame
  <2> HIDE DEF op
  <2>7. PICK frames, state, asked, val :
          /\ Direct!Move(c) = Configuration(frames, state, asked, val)
          /\ OpenFrames(frames) /\ c.asked \subseteq asked
    <3>1. CASE op.op = "read"
      BY <2>1, <2>5, <3>1
    <3>2. CASE op.op = "write"
      BY <2>1, <2>5, <3>2
    <3>3. CASE op.op = "call"
      BY <2>1, <2>6, <3>3
    <3>4. CASE op.op = "return"
      BY <2>1, <2>5, <3>4
    <3> QED BY <2>3, <3>1, <3>2, <3>3, <3>4
  <2> QED BY <1>2, <2>7, ConfigurationParts
<1> QED BY <1>1, <1>2

(* nor do moves *)
LEMMA MovesKeep ==
  ASSUME OperationsKnown, CallsKnown, NEW c, IsConfiguration(c), NEW n \in Nat
  PROVE  /\ IsConfiguration(Direct!Moves(c, n)) /\ c.asked \subseteq Direct!Moves(c, n).asked
         /\ c.frames = <<>> => Direct!Moves(c, n) = c
<1> DEFINE P == {i \in 0 .. n :
                   /\ IsConfiguration(Direct!Moves(c, i))
                   /\ c.asked \subseteq Direct!Moves(c, i).asked
                   /\ c.frames = <<>> => Direct!Moves(c, i) = c}
<1>1. 0 \in P
  BY MovesOn
<1>2. ASSUME NEW i \in 0 .. n - 1, i \in P PROVE i + 1 \in P
  <2> DEFINE d == Direct!Moves(c, i)
  <2>1. i \in Nat /\ i + 1 \in 0 .. n
    OBVIOUS
  <2>2. /\ IsConfiguration(d) /\ c.asked \subseteq d.asked
        /\ c.frames = <<>> => d = c
    BY <1>2
  <2>3. Direct!Moves(c, i + 1) = Direct!Move(d)
    BY <2>1, MovesOn
  <2> HIDE DEF d
  <2>4. /\ IsConfiguration(Direct!Move(d)) /\ d.asked \subseteq Direct!Move(d).asked
        /\ d.frames = <<>> => Direct!Move(d) = d
    BY <2>2, MoveKeeps
  <2> QED BY <2>1, <2>2, <2>3, <2>4
<1> HIDE DEF P
<1>3. n \in P
  BY <1>1, <1>2, CountUp
<1> QED BY <1>3 DEF P

(* What a run asks, it has asked when it is over *)
LEMMA AskedInTheEnd ==
  ASSUME OperationsKnown, CallsKnown, NEW c, IsConfiguration(c),
         NEW d, Reaches(c, d), d.frames = <<>>, NEW call, Asks(c, call)
  PROVE  call \in d.asked
<1>1. PICK n \in Nat : Direct!Moves(c, n) = d
  BY DEF Reaches
<1>2. PICK m \in Nat : call \in Direct!Moves(c, m).asked
  BY DEF Asks
<1>3. CASE m <= n
  <2>1. PICK k \in Nat : n = m + k
    <3>1. n - m \in Nat /\ n = m + (n - m)
      BY <1>3
    <3> QED BY <3>1
  <2> DEFINE e == Direct!Moves(c, m)
  <2>2. Direct!Moves(e, k) = d
    BY <1>1, <2>1, MovesAdd
  <2>3. IsConfiguration(e)
    BY MovesKeep
  <2>4. call \in e.asked
    BY <1>2
  <2> HIDE DEF e
  <2>5. e.asked \subseteq Direct!Moves(e, k).asked
    BY <2>3, MovesKeep
  <2> QED BY <2>2, <2>4, <2>5
<1>4. CASE n <= m
  <2>1. PICK k \in Nat : m = n + k
    <3>1. m - n \in Nat /\ m = n + (m - n)
      BY <1>4
    <3> QED BY <3>1
  <2>2. Direct!Moves(c, m) = Direct!Moves(d, k)
    BY <1>1, <2>1, MovesAdd
  <2>3. IsConfiguration(d)
    BY <1>1, MovesKeep
  <2>4. Direct!Moves(d, k) = d
    BY <2>3, MovesKeep
  <2> QED BY <1>2, <2>2, <2>4
<1> QED BY <1>3, <1>4

-----------------------------------------------------------------------------
(* What functions and writes have to be like.                              *)

(* A memoized function that reads what it changes has read it before *)
ReadsFirst ==
  \A f \in Funs : \A key : Memoized(f, key) => \A n \in Nat : FreshReads(f, key, n)

(* An answer is the same after a replay if it was before *)
LEMMA SameAnswers ==
  ASSUME OperationsKnown, Uniform, NEW calls \in Seq(Writes),
         NEW s \in States, NEW t \in States, NEW c \in Reads, Result(c, s) = Result(c, t)
  PROVE  Result(c, Replay(calls, s)) = Result(c, Replay(calls, t))
<1>1. calls \in Seq(Range(calls)) /\ Len(calls) \in Nat /\ \A n \in 1 .. Len(calls) : calls[n] \in Writes
  BY DEF Range
<1>2. PICK f : /\ f[0] = s
               /\ \A n \in 1 .. Len(calls) : f[n] = Effect(calls[n], f[n - 1])
               /\ Replay(calls, s) = f[Len(calls)]
  BY <1>1, ReplaySteps
<1>3. PICK g : /\ g[0] = t
               /\ \A n \in 1 .. Len(calls) : g[n] = Effect(calls[n], g[n - 1])
               /\ Replay(calls, t) = g[Len(calls)]
  BY <1>1, ReplaySteps
<1> DEFINE P == {n \in 0 .. Len(calls) :
                   f[n] \in States /\ g[n] \in States /\ Result(c, f[n]) = Result(c, g[n])}
<1>4. 0 \in P
  BY <1>1, <1>2, <1>3
<1>5. ASSUME NEW n \in 0 .. Len(calls) - 1, n \in P PROVE n + 1 \in P
  <2> DEFINE k == n + 1
  <2>1. k \in 1 .. Len(calls) /\ k - 1 = n /\ k \in 0 .. Len(calls)
    BY <1>1
  <2> HIDE DEF k
  <2>2. f[k] = Effect(calls[k], f[n]) /\ g[k] = Effect(calls[k], g[n]) /\ calls[k] \in Writes
    BY <1>1, <1>2, <1>3, <2>1
  <2>3. f[n] \in States /\ g[n] \in States /\ Result(c, f[n]) = Result(c, g[n])
    BY <1>5
  <2>4. f[k] \in States /\ g[k] \in States
    BY <2>2, <2>3 DEF OperationsKnown
  <2>5. Result(c, f[k]) = Result(c, g[k])
    BY <2>2, <2>3 DEF Uniform
  <2> QED BY <2>1, <2>4, <2>5 DEF k
<1> HIDE DEF P
<1>6. Len(calls) \in P
  BY <1>1, <1>4, <1>5, CountUp
<1> QED BY <1>2, <1>3, <1>6 DEF P

(* A run from c asks call, and the first time it does it gets the answer *)
(* that it would have got in c.                                          *)
FirstAsks(c, call) ==
  \E n \in Nat :
    LET d == Direct!Moves(c, n)
    IN call \in Direct!Move(d).asked \ d.asked /\ Result(call, d.state) = Result(call, c.state)

(* It asks call then, and so it does in a run that was asked for as much before *)
LEMMA FirstAsksOn ==
  /\ \A c, call : FirstAsks(c, call) => Asks(c, call)
  /\ \A c, d, call : Reaches(c, d) /\ FirstAsks(d, call) /\ Result(call, d.state) = Result(call, c.state)
                        => FirstAsks(c, call)
<1>1. ASSUME NEW c, NEW call, FirstAsks(c, call) PROVE Asks(c, call)
  <2>1. PICK n \in Nat : call \in Direct!Move(Direct!Moves(c, n)).asked
    BY <1>1 DEF FirstAsks
  <2>2. call \in Direct!Moves(c, n + 1).asked /\ n + 1 \in Nat
    BY <2>1, MovesOn
  <2> QED BY <2>2 DEF Asks
<1>2. ASSUME NEW c, NEW d, NEW call, Reaches(c, d), FirstAsks(d, call),
             Result(call, d.state) = Result(call, c.state)
      PROVE  FirstAsks(c, call)
  <2>1. PICK m \in Nat : Direct!Moves(c, m) = d
    BY <1>2 DEF Reaches
  <2>2. PICK n \in Nat : LET e == Direct!Moves(d, n) IN
          /\ call \in Direct!Move(e).asked \ e.asked
          /\ Result(call, e.state) = Result(call, d.state)
    BY <1>2 DEF FirstAsks
  <2>3. Direct!Moves(c, m + n) = Direct!Moves(d, n) /\ m + n \in Nat
    BY <2>1, MovesAdd
  <2> DEFINE e == Direct!Moves(d, n)
  <2> HIDE DEF e
  <2>4. /\ call \in Direct!Move(e).asked \ e.asked
        /\ Result(call, e.state) = Result(call, c.state)
        /\ Direct!Moves(c, m + n) = e
    BY <1>2, <2>2, <2>3 DEF e
  <2> QED BY <2>3, <2>4 DEF FirstAsks
<1> QED BY <1>1, <1>2

(* What a memoized function asks it asks a first time *)
LEMMA FirstAsked ==
  ASSUME OperationsKnown, CallsKnown, ReadsFirst, NEW fun \in Funs, NEW key, Memoized(fun, key),
         NEW s \in States, NEW call, Asks(Direct!Start(fun, key, s), call)
  PROVE  FirstAsks(Direct!Start(fun, key, s), call)
<1> DEFINE c == Direct!Start(fun, key, s)
<1>1. PICK m \in Nat : call \in Direct!Moves(c, m).asked
  BY DEF Asks
<1>2. c.asked = {} /\ c.state = s
  BY DEF Direct!Start
<1> HIDE DEF c
<1> DEFINE P == {i \in 0 .. m : call \notin Direct!Moves(c, i).asked}
<1>3. 0 \in P
  BY <1>2, MovesOn
<1>4. PICK i \in 0 .. m - 1 : i \in P /\ i + 1 \notin P
  <2>1. SUFFICES ASSUME \A i \in 0 .. m - 1 : i \in P => i + 1 \in P PROVE FALSE
    OBVIOUS
  <2> HIDE DEF P
  <2>2. m \in P
    BY <1>3, <2>1, CountUp
  <2> QED BY <1>1, <2>2 DEF P
<1> DEFINE d == Direct!Moves(c, i)
<1>5. i \in Nat /\ i + 1 \in 0 .. m
  OBVIOUS
<1>6. call \notin d.asked /\ call \in Direct!Moves(c, i + 1).asked
  BY <1>4, <1>5
<1>7. Direct!Moves(c, i + 1) = Direct!Move(d)
  BY <1>5, MovesOn
<1>8. call \in Direct!Move(d).asked \ d.asked
  BY <1>6, <1>7
<1>9. Result(call, d.state) = Result(call, s)
  BY <1>5, <1>8 DEF ReadsFirst, FreshReads, c
<1> HIDE DEF d
<1>10. FirstAsks(c, call)
  BY <1>2, <1>5, <1>8, <1>9 DEF FirstAsks, d
<1> QED BY <1>10 DEF c

(* What a move does to the tracked value, and what it asks *)
LEMMA MoveDoes ==
  ASSUME OperationsKnown, CallsKnown, NEW c, IsConfiguration(c)
  PROVE  /\ Direct!Move(c).state = c.state
              \/ \E w \in Writes : Direct!Move(c).state = Effect(w, c.state)
         /\ Direct!Move(c).asked \ c.asked \subseteq Reads
<1>1. CASE c.frames = <<>>
  BY <1>1 DEF Direct!Move
<1>2. CASE c.frames # <<>>
  <2> DEFINE op == Asking(c.frames)
             d == Direct!Move(c)
  <2>1. Last(c.frames).fun \in Funs
    BY <1>2, OpenShorter DEF IsConfiguration
  <2>2. /\ op.op \in {"read", "write", "call", "return"}
        /\ op.op = "read" => op.call \in Reads
        /\ op.op = "write" => op.call \in Writes
    BY <2>1 DEF Asking, OperationsKnown
  <2>3. /\ op.op = "read" => \E F, v : d = Configuration(F, c.state, c.asked \cup {op.call}, v)
        /\ op.op = "write" => \E F, v : d = Configuration(F, Effect(op.call, c.state), c.asked, v)
        /\ op.op \in {"call", "return"} => \E F, v : d = Configuration(F, c.state, c.asked, v)
    BY <1>2, MoveParts
  <2> HIDE DEF op, d
  <2>4. /\ op.op = "read" => d.state = c.state /\ d.asked = c.asked \cup {op.call}
        /\ op.op = "write" => d.state = Effect(op.call, c.state) /\ d.asked = c.asked
        /\ op.op \in {"call", "return"} => d.state = c.state /\ d.asked = c.asked
    BY <2>3, ConfigurationParts
  <2> QED BY <2>2, <2>4 DEF d
<1> QED BY <1>1, <1>2

(* Mutable calls that no immutable call observes are the simplest case *)
LEMMA NeutralReads ==
  ASSUME OperationsKnown, CallsKnown, Neutral
  PROVE  Uniform /\ ReadsFirst
<1>1. Uniform
  BY DEF Uniform, Neutral
<1>2. ASSUME NEW f \in Funs, NEW key, NEW s \in States, NEW n \in Nat
      PROVE  LET c == Direct!Moves(Direct!Start(f, key, s), n)
             IN \A call \in Direct!Move(c).asked \ c.asked : Result(call, c.state) = Result(call, s)
  <2> DEFINE c == Direct!Start(f, key, s)
             AnswersAlike(t) == t \in States /\ \A call \in Reads : Result(call, t) = Result(call, s)
             P == {i \in 0 .. n : AnswersAlike(Direct!Moves(c, i).state)}
  <2>1. IsConfiguration(c) /\ c.state = s
    <3>1. c = Configuration(<<Direct!Opened(f, key)>>, s, {}, Unit)
      BY DEF Direct!Start, Configuration
    <3>2. OpenFrames(<<Direct!Opened(f, key)>>)
      BY OpenedFrame
    <3> HIDE DEF c
    <3> QED BY <3>1, <3>2, ConfigurationParts
  <2> HIDE DEF c
  <2>2. 0 \in P
    BY <2>1, MovesOn
  <2>3. ASSUME NEW i \in 0 .. n - 1, i \in P PROVE i + 1 \in P
    <3> DEFINE d == Direct!Moves(c, i)
               e == Direct!Move(d)
    <3>1. i \in Nat /\ i + 1 \in 0 .. n
      OBVIOUS
    <3>2. Direct!Moves(c, i + 1) = e /\ IsConfiguration(d)
      BY <2>1, <3>1, MovesOn, MovesKeep
    <3>3. AnswersAlike(d.state)
      BY <2>3
    <3> HIDE DEF d
    <3>4. e.state = d.state \/ \E w \in Writes : e.state = Effect(w, d.state)
      BY <3>2, MoveDoes
    <3> HIDE DEF e
    <3>5. AnswersAlike(e.state)
      BY <3>3, <3>4 DEF OperationsKnown, Neutral
    <3> HIDE DEF AnswersAlike
    <3> QED BY <3>1, <3>2, <3>5
  <2> HIDE DEF P
  <2>4. n \in P
    BY <2>2, <2>3, CountUp
  <2> DEFINE d == Direct!Moves(c, n)
  <2>5. AnswersAlike(d.state)
    BY <2>4 DEF P
  <2>6. IsConfiguration(d)
    BY <2>1, MovesKeep
  <2> HIDE DEF d
  <2>7. Direct!Move(d).asked \ d.asked \subseteq Reads
    BY <2>6, MoveDoes
  <2>8. \A call \in Direct!Move(d).asked \ d.asked : Result(call, d.state) = Result(call, s)
    BY <2>5, <2>7
  <2> QED BY <2>8 DEF d, c
<1> QED BY <1>1, <1>2 DEF ReadsFirst, FreshReads

-----------------------------------------------------------------------------
(* A run inside another.                                                   *)

(* The configuration of a run that is made by the innermost call of outer, *)
(* once the calls of asked were made.                                      *)
Under(outer, asked, c) ==
  Configuration(IF c.frames = <<>> THEN Direct!Observe(outer, c.value) ELSE outer \o c.frames,
                c.state, asked \cup c.asked, Unit)

(* Frames on top of others *)
LEMMA FramesJoined ==
  ASSUME NEW outer, OpenFrames(outer), NEW frames, OpenFrames(frames), frames # <<>>
  PROVE  LET all == outer \o frames IN
           /\ OpenFrames(all) /\ Len(all) = Len(outer) + Len(frames) /\ all # <<>>
           /\ Last(all) = Last(frames)
           /\ Front(all) = outer \o Front(frames)
           /\ \A x : Append(all, x) = outer \o Append(frames, x)
           /\ \A v : Direct!Observe(all, v) = outer \o Direct!Observe(frames, v)
<1> DEFINE all == outer \o frames
<1>1. /\ outer \in Seq(Range(outer)) /\ \A i \in 1 .. Len(outer) : OpenFrame(outer[i])
      /\ frames \in Seq(Range(frames)) /\ \A i \in 1 .. Len(frames) : OpenFrame(frames[i])
  BY DEF OpenFrames
<1>2. /\ Len(outer) \in Nat /\ Len(frames) \in Nat \ {0} /\ DOMAIN frames = 1 .. Len(frames)
      /\ Last(frames) = frames[Len(frames)]
  BY <1>1, Elements, OpenShorter
<1>3. /\ all \in Seq(Range(all)) /\ Len(all) = Len(outer) + Len(frames)
      /\ DOMAIN all = 1 .. Len(outer) + Len(frames)
      /\ \A i \in 1 .. Len(outer) : all[i] = outer[i]
      /\ \A i \in 1 .. Len(frames) : all[Len(outer) + i] = frames[i]
  BY <1>1, Joined
<1> HIDE DEF all
<1>4. ASSUME NEW i \in 1 .. Len(outer) + Len(frames)
      PROVE  i \in 1 .. Len(outer) \/ \E j \in 1 .. Len(frames) : i = Len(outer) + j
  <2>1. CASE i <= Len(outer)
    BY <1>2, <2>1
  <2>2. CASE ~(i <= Len(outer))
    <3>1. i - Len(outer) \in 1 .. Len(frames) /\ i = Len(outer) + (i - Len(outer))
      BY <1>2, <2>2
    <3> QED BY <3>1
  <2> QED BY <2>1, <2>2
<1>5. OpenFrames(all)
  BY <1>1, <1>3, <1>4 DEF OpenFrames
<1>6. Len(all) # 0
  BY <1>2, <1>3
<1>7. all # <<>>
  BY <1>6
<1>8. Last(all) = Last(frames)
  <2>1. Last(all) = all[Len(all)]
    BY <1>5, <1>7, OpenShorter
  <2>2. Len(frames) \in 1 .. Len(frames)
    BY <1>2
  <2>3. all[Len(outer) + Len(frames)] = frames[Len(frames)]
    BY <1>3, <2>2
  <2> QED BY <1>2, <1>3, <2>1, <2>3
<1>9. Front(all) = outer \o Front(frames)
  <2> DEFINE f == Front(frames)
             a == Front(all)
             b == outer \o f
  <2>1. /\ OpenFrames(f) /\ Len(f) = Len(frames) - 1
        /\ \A i \in 1 .. Len(frames) - 1 : f[i] = frames[i]
    BY OpenShorter
  <2>2. /\ OpenFrames(a) /\ Len(a) = Len(all) - 1
        /\ \A i \in 1 .. Len(all) - 1 : a[i] = all[i]
    BY <1>5, <1>7, OpenShorter
  <2> HIDE DEF f, a
  <2>3. /\ b \in Seq(Range(b)) /\ Len(b) = Len(outer) + Len(f)
        /\ DOMAIN b = 1 .. Len(outer) + Len(f)
        /\ \A i \in 1 .. Len(outer) : b[i] = outer[i]
        /\ \A i \in 1 .. Len(f) : b[Len(outer) + i] = f[i]
        /\ Range(b) = Range(outer) \cup Range(f)
    <3>1. f \in Seq(Range(f))
      BY <2>1 DEF OpenFrames
    <3> QED BY <1>1, <3>1, Joined
  <2> HIDE DEF b
  <2>4. Len(a) = Len(b)
    BY <1>2, <1>3, <2>1, <2>2, <2>3
  <2>5. ASSUME NEW i \in 1 .. Len(a) PROVE a[i] = b[i]
    <3>1. i \in 1 .. Len(all) - 1 /\ i \in 1 .. Len(outer) + Len(frames)
      BY <1>2, <1>3, <2>2
    <3>2. CASE i \in 1 .. Len(outer)
      BY <1>3, <2>2, <2>3, <3>1, <3>2
    <3>3. ASSUME NEW j \in 1 .. Len(frames), i = Len(outer) + j PROVE a[i] = b[i]
      <4>1. j \in 1 .. Len(frames) - 1
        BY <1>2, <1>3, <3>1, <3>3
      <4> QED BY <1>3, <2>1, <2>2, <2>3, <3>1, <3>3, <4>1
    <3> QED BY <1>4, <3>1, <3>2, <3>3
  <2>6. a = b
    <3>1. a = [i \in 1 .. Len(a) |-> a[i]] /\ b = [i \in 1 .. Len(b) |-> b[i]]
      BY <2>2, <2>3, Elements DEF OpenFrames
    <3> QED BY <2>4, <2>5, <3>1
  <2> QED BY <2>6 DEF a, b, f
<1>10. ASSUME NEW x PROVE Append(all, x) = outer \o Append(frames, x)
  <2> DEFINE S == Range(outer) \cup Range(frames) \cup {x}
  <2>1. outer \in Seq(S) /\ frames \in Seq(S) /\ x \in S
    <3>1. \A i \in 1 .. Len(outer) : outer[i] \in S
      BY <1>1, Elements
    <3>2. \A i \in 1 .. Len(frames) : frames[i] \in S
      BY <1>1, Elements
    <3> HIDE DEF S
    <3>3. outer \in Seq(S)
      BY <1>1, <3>1
    <3>4. frames \in Seq(S)
      BY <1>1, <3>2
    <3>5. x \in S
      BY DEF S
    <3> QED BY <3>3, <3>4, <3>5
  <2> HIDE DEF S
  <2>2. Append(outer \o frames, x) = outer \o Append(frames, x)
    BY <2>1
  <2> QED BY <2>2 DEF all
<1>11. ASSUME NEW v PROVE Direct!Observe(all, v) = outer \o Direct!Observe(frames, v)
  <2> DEFINE f == Direct!Observe(frames, v)
             a == Direct!Observe(all, v)
             b == outer \o f
  <2>1. /\ OpenFrames(f) /\ Len(f) = Len(frames)
        /\ \A i \in 1 .. Len(frames) :
             f[i] = IF i = Len(frames) THEN [frames[i] EXCEPT !.obs = Append(@, v)] ELSE frames[i]
    BY Observed
  <2>2. /\ OpenFrames(a) /\ Len(a) = Len(all)
        /\ \A i \in 1 .. Len(all) :
             a[i] = IF i = Len(all) THEN [all[i] EXCEPT !.obs = Append(@, v)] ELSE all[i]
    BY <1>5, Observed
  <2> HIDE DEF f, a
  <2>3. /\ b \in Seq(Range(b)) /\ Len(b) = Len(outer) + Len(f)
        /\ DOMAIN b = 1 .. Len(outer) + Len(f)
        /\ \A i \in 1 .. Len(outer) : b[i] = outer[i]
        /\ \A i \in 1 .. Len(f) : b[Len(outer) + i] = f[i]
        /\ Range(b) = Range(outer) \cup Range(f)
    <3>1. f \in Seq(Range(f))
      BY <2>1 DEF OpenFrames
    <3> QED BY <1>1, <3>1, Joined
  <2> HIDE DEF b
  <2>4. Len(a) = Len(b)
    BY <1>3, <2>1, <2>2, <2>3
  <2>5. ASSUME NEW i \in 1 .. Len(a) PROVE a[i] = b[i]
    <3>1. i \in 1 .. Len(outer) + Len(frames) /\ i \in 1 .. Len(all)
      BY <1>3, <2>2
    <3>2. CASE i \in 1 .. Len(outer)
      <4>1. i # Len(all)
        BY <1>2, <1>3, <3>2
      <4> QED BY <1>3, <2>2, <2>3, <3>1, <3>2, <4>1
    <3>3. ASSUME NEW j \in 1 .. Len(frames), i = Len(outer) + j PROVE a[i] = b[i]
      <4>1. i = Len(all) <=> j = Len(frames)
        <5>1. \A m, n, k \in Nat : m + n = m + k <=> n = k
          OBVIOUS
        <5>2. j \in Nat
          OBVIOUS
        <5> DEFINE m == Len(outer)
                   k == Len(frames)
        <5>3. m \in Nat /\ k \in Nat /\ Len(all) = m + k /\ i = m + j
          BY <1>2, <1>3, <3>3
        <5> HIDE DEF m, k
        <5>4. m + j = m + k <=> j = k
          BY <5>1, <5>2, <5>3
        <5> QED BY <5>3, <5>4 DEF k
      <4>2. all[i] = frames[j] /\ b[i] = f[j]
        BY <1>3, <2>1, <2>3, <3>3
      <4> QED BY <2>1, <2>2, <3>1, <4>1, <4>2
    <3> QED BY <1>4, <3>1, <3>2, <3>3
  <2>6. a = b
    <3>1. a = [i \in 1 .. Len(a) |-> a[i]] /\ b = [i \in 1 .. Len(b) |-> b[i]]
      BY <2>2, <2>3, Elements DEF OpenFrames
    <3> QED BY <2>4, <2>5, <3>1
  <2> QED BY <2>6 DEF a, b, f
<1> QED BY <1>3, <1>5, <1>7, <1>8, <1>9, <1>10, <1>11 DEF all

(* It moves as the run does by itself *)
LEMMA MoveUnder ==
  ASSUME OperationsKnown, NEW outer, OpenFrames(outer), outer # <<>>, NEW asked,
         NEW c, IsConfiguration(c), c.frames # <<>>
  PROVE  Direct!Move(Under(outer, asked, c)) = Under(outer, asked, Direct!Move(c))
<1> DEFINE F == c.frames
           all == outer \o F
           op == Asking(F)
           A == asked \cup c.asked
           U == Configuration(all, c.state, A, Unit)
<1>1. OpenFrames(F)
  BY DEF IsConfiguration
<1>2. /\ OpenFrames(all) /\ Len(all) = Len(outer) + Len(F) /\ all # <<>>
      /\ Last(all) = Last(F)
      /\ Front(all) = outer \o Front(F)
      /\ \A x : Append(all, x) = outer \o Append(F, x)
      /\ \A v : Direct!Observe(all, v) = outer \o Direct!Observe(F, v)
  <2>1. F # <<>>
    OBVIOUS
  <2> HIDE DEF F
  <2>2. OpenFrames(all) /\ Len(all) = Len(outer) + Len(F)
    BY <1>1, <2>1, FramesJoined
  <2>3. all # <<>>
    BY <1>1, <2>1, FramesJoined
  <2>4. Last(all) = Last(F)
    BY <1>1, <2>1, FramesJoined
  <2>5. Front(all) = outer \o Front(F)
    BY <1>1, <2>1, FramesJoined
  <2>6. \A x : Append(all, x) = outer \o Append(F, x)
    BY <1>1, <2>1, FramesJoined
  <2>7. \A v : Direct!Observe(all, v) = outer \o Direct!Observe(F, v)
    BY <1>1, <2>1, FramesJoined
  <2> QED BY <2>2, <2>3, <2>4, <2>5, <2>6, <2>7
<1>3. Under(outer, asked, c) = U
  BY DEF Under
<1>4. Asking(all) = op
  BY <1>2 DEF Asking
<1>5. /\ Len(outer) \in Nat \ {0} /\ Len(F) \in Nat \ {0}
      /\ OpenFrames(Front(F)) /\ Len(Front(F)) = Len(F) - 1 /\ Last(F).fun \in Funs
  BY <1>1, OpenShorter
<1>6. op.op \in {"read", "write", "call", "return"}
  BY <1>5 DEF Asking, OperationsKnown
<1> HIDE DEF all
<1>7. /\ U.frames = all /\ U.state = c.state /\ U.asked = A /\ U.value = Unit
      /\ IsConfiguration(U)
  BY <1>2, ConfigurationParts
<1> HIDE DEF U
<1>8. /\ op.op = "read" =>
           Direct!Move(c) = Configuration(Direct!Observe(c.frames, Result(op.call, c.state)),
                                          c.state, c.asked \cup {op.call}, c.value)
      /\ op.op = "write" =>
           Direct!Move(c) = Configuration(Direct!Observe(c.frames, Unit),
                                          Effect(op.call, c.state), c.asked, c.value)
      /\ op.op = "call" =>
           Direct!Move(c) = Configuration(Append(c.frames, Direct!Opened(op.fun, op.key)),
                                          c.state, c.asked, c.value)
      /\ op.op = "return" =>
           Direct!Move(c) = Configuration(Direct!Observe(Front(c.frames), op.value),
                                          c.state, c.asked,
                                          IF Len(c.frames) = 1 THEN op.value ELSE c.value)
  BY MoveParts
<1>9. /\ op.op = "read" =>
           Direct!Move(U) = Configuration(Direct!Observe(all, Result(op.call, c.state)),
                                          c.state, A \cup {op.call}, Unit)
      /\ op.op = "write" =>
           Direct!Move(U) = Configuration(Direct!Observe(all, Unit),
                                          Effect(op.call, c.state), A, Unit)
      /\ op.op = "call" =>
           Direct!Move(U) = Configuration(Append(all, Direct!Opened(op.fun, op.key)),
                                          c.state, A, Unit)
      /\ op.op = "return" =>
           Direct!Move(U) = Configuration(Direct!Observe(Front(all), op.value),
                                          c.state, A,
                                          IF Len(all) = 1 THEN op.value ELSE Unit)
  <2> DEFINE G == U.frames
             pq == Asking(G)
  <2>1. /\ pq.op = "read" =>
             Direct!Move(U) = Configuration(Direct!Observe(G, Result(pq.call, U.state)),
                                            U.state, U.asked \cup {pq.call}, U.value)
        /\ pq.op = "write" =>
             Direct!Move(U) = Configuration(Direct!Observe(G, Unit),
                                            Effect(pq.call, U.state), U.asked, U.value)
        /\ pq.op = "call" =>
             Direct!Move(U) = Configuration(Append(G, Direct!Opened(pq.fun, pq.key)),
                                            U.state, U.asked, U.value)
        /\ pq.op = "return" =>
             Direct!Move(U) = Configuration(Direct!Observe(Front(G), pq.value),
                                            U.state, U.asked,
                                            IF Len(G) = 1 THEN pq.value ELSE U.value)
    BY <1>2, <1>7, MoveParts
  <2>2. pq = op /\ G = all
    BY <1>4, <1>7
  <2> HIDE DEF pq, G, op, A
  <2> QED BY <1>7, <2>1, <2>2
<1> HIDE DEF op
<1>10. \A frames, state, more, val : frames # <<>> =>
         Under(outer, asked, Configuration(frames, state, more, val))
           = Configuration(outer \o frames, state, asked \cup more, Unit)
  <2> TAKE frames, state, more, val
  <2> DEFINE d == Configuration(frames, state, more, val)
  <2>1. d.frames = frames /\ d.state = state /\ d.asked = more
    BY ConfigurationParts
  <2> HIDE DEF d
  <2>2. frames # <<>> => Under(outer, asked, d)
                           = Configuration(outer \o frames, state, asked \cup more, Unit)
    BY <2>1 DEF Under
  <2> QED BY <2>2 DEF d
<1>11. \A frames, v : OpenFrames(frames) /\ frames # <<>> => Direct!Observe(frames, v) # <<>>
  <2>1. ASSUME NEW frames, NEW v, OpenFrames(frames), frames # <<>>,
               Direct!Observe(frames, v) = <<>>
        PROVE  FALSE
    <3>1. Len(Direct!Observe(frames, v)) = Len(frames)
      BY <2>1, Observed
    <3>2. Len(frames) = 0
      BY <2>1, <3>1
    <3>3. Len(frames) # 0
      BY <2>1, OpenShorter
    <3> QED BY <3>2, <3>3
  <2> QED BY <2>1
<1>12. CASE op.op = "read"
  <2> DEFINE ret == Result(op.call, c.state)
  <2>1. Direct!Observe(F, ret) # <<>>
    BY <1>1, <1>11
  <2>2. Under(outer, asked, Direct!Move(c))
          = Configuration(outer \o Direct!Observe(F, ret), c.state,
                          asked \cup (c.asked \cup {op.call}), Unit)
    BY <1>8, <1>10, <1>12, <2>1
  <2>3. A \cup {op.call} = asked \cup (c.asked \cup {op.call})
    OBVIOUS
  <2> QED BY <1>2, <1>3, <1>9, <1>12, <2>2, <2>3
<1>13. CASE op.op = "write"
  <2>1. Direct!Observe(F, Unit) # <<>>
    BY <1>1, <1>11
  <2>2. Under(outer, asked, Direct!Move(c))
          = Configuration(outer \o Direct!Observe(F, Unit), Effect(op.call, c.state), A, Unit)
    BY <1>8, <1>10, <1>13, <2>1
  <2> QED BY <1>2, <1>3, <1>9, <1>13, <2>2
<1>14. CASE op.op = "call"
  <2> DEFINE x == Direct!Opened(op.fun, op.key)
  <2> DEFINE new == Append(F, x)
  <2>1. new # <<>>
    <3>1. F \in Seq(Range(F))
      BY <1>1 DEF OpenFrames
    <3>2. Len(new) = Len(F) + 1
      BY <3>1, Appended
    <3> HIDE DEF new
    <3>3. Len(new) # 0
      BY <1>5, <3>2
    <3> QED BY <3>3
  <2>2. Direct!Move(c) = Configuration(new, c.state, c.asked, c.value)
    BY <1>8, <1>14
  <2>3. Direct!Move(U) = Configuration(outer \o new, c.state, A, Unit)
    BY <1>2, <1>9, <1>14
  <2> HIDE DEF new
  <2>4. Under(outer, asked, Direct!Move(c)) = Configuration(outer \o new, c.state, A, Unit)
    BY <1>10, <2>1, <2>2
  <2> QED BY <1>3, <2>3, <2>4
<1>15. CASE op.op = "return"
  <2>0. Len(all) # 1
    BY <1>2, <1>5
  <2>1. Direct!Move(U) = Configuration(Direct!Observe(Front(all), op.value), c.state, A, Unit)
    BY <1>9, <1>15, <2>0
  <2>2. CASE Len(F) = 1
    <3>1. Front(F) = <<>>
      <4>1. Len(Front(F)) = 0 /\ Front(F) \in Seq(Range(Front(F)))
        BY <1>5, <2>2 DEF OpenFrames
      <4> QED BY <4>1
    <3>2. Direct!Observe(Front(F), op.value) = <<>>
      BY <3>1 DEF Direct!Observe
    <3>3. Direct!Move(c) = Configuration(<<>>, c.state, c.asked, op.value)
      BY <1>8, <1>15, <2>2, <3>2
    <3>4. Under(outer, asked, Direct!Move(c))
            = Configuration(Direct!Observe(outer, op.value), c.state, A, Unit)
      <4> DEFINE m == Direct!Move(c)
      <4>1. m.frames = <<>> /\ m.state = c.state /\ m.asked = c.asked /\ m.value = op.value
        BY <3>3, ConfigurationParts
      <4> QED BY <4>1 DEF Under
    <3>5. Front(all) = outer
      <4>1. outer \in Seq(Range(outer))
        BY DEF OpenFrames
      <4>2. outer \o <<>> = outer
        BY <4>1
      <4> QED BY <1>2, <3>1, <4>2
    <3> QED BY <1>3, <2>1, <3>4, <3>5
  <2>3. CASE Len(F) # 1
    <3>1. Front(F) # <<>>
      <4>1. Len(Front(F)) # 0
        BY <1>5, <2>3
      <4> QED BY <4>1
    <3>2. Direct!Observe(Front(F), op.value) # <<>>
      BY <1>5, <1>11, <3>1
    <3>3. Direct!Move(c) = Configuration(Direct!Observe(Front(F), op.value), c.state, c.asked, c.value)
      BY <1>8, <1>15, <2>3
    <3>4. Under(outer, asked, Direct!Move(c))
            = Configuration(outer \o Direct!Observe(Front(F), op.value), c.state, A, Unit)
      BY <1>10, <3>2, <3>3
    <3>5. Direct!Observe(outer \o Front(F), op.value)
            = outer \o Direct!Observe(Front(F), op.value)
      BY <1>5, <3>1, FramesJoined
    <3> QED BY <1>2, <1>3, <2>1, <3>4, <3>5
  <2> QED BY <2>2, <2>3
<1> QED BY <1>6, <1>12, <1>13, <1>14, <1>15

(* and gets to where it does, asking what it asks *)
LEMMA ReachesUnder ==
  ASSUME OperationsKnown, CallsKnown, NEW outer, OpenFrames(outer), outer # <<>>, NEW asked,
         NEW c, IsConfiguration(c)
  PROVE  /\ \A d : Reaches(c, d) => Reaches(Under(outer, asked, c), Under(outer, asked, d))
         /\ \A call : Asks(c, call) => Asks(Under(outer, asked, c), call)
<1> DEFINE U(d) == Under(outer, asked, d)
<1>1. ASSUME NEW n \in Nat PROVE Reaches(U(c), U(Direct!Moves(c, n)))
  <2> DEFINE P == {i \in 0 .. n : Reaches(U(c), U(Direct!Moves(c, i)))}
  <2>1. 0 \in P
    <3>1. Direct!Moves(c, 0) = c
      BY MovesOn
    <3> QED BY <3>1, ReachesOn
  <2>2. ASSUME NEW i \in 0 .. n - 1, i \in P PROVE i + 1 \in P
    <3> DEFINE d == Direct!Moves(c, i)
    <3>1. i \in Nat /\ i + 1 \in 0 .. n
      OBVIOUS
    <3>2. Reaches(U(c), U(d))
      BY <2>2
    <3>3. Direct!Moves(c, i + 1) = Direct!Move(d)
      BY <3>1, MovesOn
    <3>4. IsConfiguration(d)
      BY <3>1, MovesKeep
    <3> HIDE DEF d
    <3>5. Reaches(U(d), U(Direct!Move(d)))
      <4>1. CASE d.frames = <<>>
        <5>1. Direct!Move(d) = d
          BY <3>4, <4>1, MoveKeeps
        <5> QED BY <5>1, ReachesOn
      <4>2. CASE d.frames # <<>>
        <5>1. Direct!Move(U(d)) = U(Direct!Move(d))
          BY <3>4, <4>2, MoveUnder
        <5>2. Reaches(U(d), Direct!Move(U(d)))
          BY ReachesOn
        <5> QED BY <5>1, <5>2
      <4> QED BY <4>1, <4>2
    <3> HIDE DEF U
    <3>6. Reaches(U(c), U(Direct!Move(d)))
      BY <3>2, <3>5, ReachesOn
    <3> QED BY <3>1, <3>3, <3>6
  <2> HIDE DEF P
  <2>3. n \in P
    BY <2>1, <2>2, CountUp
  <2> QED BY <2>3 DEF P
<1>2. ASSUME NEW d, Reaches(c, d) PROVE Reaches(U(c), U(d))
  <2>1. PICK n \in Nat : Direct!Moves(c, n) = d
    BY <1>2 DEF Reaches
  <2> QED BY <1>1, <2>1
<1>3. ASSUME NEW call, Asks(c, call) PROVE Asks(U(c), call)
  <2>1. PICK n \in Nat : call \in Direct!Moves(c, n).asked
    BY <1>3 DEF Asks
  <2> DEFINE d == Direct!Moves(c, n)
  <2>2. Reaches(U(c), U(d))
    BY <1>1
  <2>3. call \in U(d).asked
    BY <2>1, ConfigurationParts DEF Under
  <2>4. PICK m \in Nat : Direct!Moves(U(c), m) = U(d)
    BY <2>2 DEF Reaches
  <2> HIDE DEF U, d
  <2> QED BY <2>3, <2>4 DEF Asks
<1> QED BY <1>2, <1>3

(* A call that was not made before is made for the first time under the others *)
LEMMA FirstUnder ==
  ASSUME OperationsKnown, CallsKnown, NEW outer, OpenFrames(outer), outer # <<>>, NEW asked,
         NEW c, IsConfiguration(c), NEW call, call \notin asked, FirstAsks(c, call)
  PROVE  FirstAsks(Under(outer, asked, c), call)
<1> DEFINE U(d) == Under(outer, asked, d)
<1>1. PICK n \in Nat : LET d == Direct!Moves(c, n) IN
        call \in Direct!Move(d).asked \ d.asked /\ Result(call, d.state) = Result(call, c.state)
  BY DEF FirstAsks
<1> DEFINE d == Direct!Moves(c, n)
<1>2. IsConfiguration(d)
  BY MovesKeep
<1>3. Reaches(c, d)
  BY DEF Reaches
<1>4. call \in Direct!Move(d).asked /\ call \notin d.asked /\ Result(call, d.state) = Result(call, c.state)
  BY <1>1
<1> HIDE DEF d
<1>5. d.frames # <<>>
  BY <1>2, <1>4, MoveKeeps
<1>6. Direct!Move(U(d)) = U(Direct!Move(d))
  BY <1>2, <1>5, MoveUnder
<1>7. Reaches(U(c), U(d))
  BY <1>3, ReachesUnder
<1>8. \A e : U(e).state = e.state /\ U(e).asked = asked \cup e.asked
  BY ConfigurationParts DEF Under
<1> HIDE DEF U
<1>9. PICK m \in Nat : Direct!Moves(U(c), m) = U(d)
  BY <1>7 DEF Reaches
<1>10. /\ call \in Direct!Move(U(d)).asked \ U(d).asked
       /\ Result(call, U(d).state) = Result(call, U(c).state)
  BY <1>4, <1>6, <1>8
<1>11. FirstAsks(U(c), call)
  BY <1>9, <1>10 DEF FirstAsks
<1> QED BY <1>11 DEF U

-----------------------------------------------------------------------------
(* The running calls as a run from scratch would have them: those from d   *)
(* on, of which it needs no more than what they have observed.             *)

Bare(x) == [fun |-> x.fun, key |-> x.key, obs |-> x.obs]

Mirror(frames, d) == [i \in 1 .. Len(frames) - d + 1 |-> Bare(frames[d + i - 1])]

At(frames, d, state, asked) == Configuration(Mirror(frames, d), state, asked, Unit)

Plain(frames) ==
  frames \in Seq(Range(frames)) /\ \A i \in 1 .. Len(frames) : frames[i].fun \in Funs

(* Nothing in them differs that a run would notice *)
SameCalls(old, new) ==
  /\ Plain(new) /\ Len(new) = Len(old)
  /\ \A i \in 1 .. Len(old) : Bare(new[i]) = Bare(old[i])

(* The mirrored calls are open calls, and do next what the running ones do *)
LEMMA Mirrored ==
  ASSUME NEW frames, Plain(frames), NEW d \in 1 .. Len(frames)
  PROVE  /\ OpenFrames(Mirror(frames, d)) /\ Mirror(frames, d) # <<>>
         /\ Len(frames) \in Nat \ {0} /\ Len(Mirror(frames, d)) = Len(frames) - d + 1
         /\ \A i \in 1 .. Len(frames) - d + 1 : Mirror(frames, d)[i] = Bare(frames[d + i - 1])
         /\ Last(Mirror(frames, d)) = Bare(frames[Len(frames)])
         /\ LET x == frames[Len(frames)]
            IN Asking(Mirror(frames, d)) = Body(x.fun, x.key, x.obs)
<1> DEFINE M == Mirror(frames, d)
           n == Len(frames) - d + 1
<1>1. Len(frames) \in Nat
  BY Elements DEF Plain
<1>2. n \in Nat \ {0} /\ Len(frames) \in Nat \ {0} /\ d \in Nat
  BY <1>1
<1>3. /\ M = [i \in 1 .. n |-> M[i]] /\ \A i \in 1 .. n : M[i] = Bare(frames[d + i - 1])
  BY DEF Mirror
<1> HIDE DEF M
<1>4. M \in Seq(Range(M)) /\ Len(M) = n
  <2> HIDE DEF n
  <2> QED BY <1>2, <1>3, FunctionIsSeq
<1>5. ASSUME NEW i \in 1 .. n PROVE OpenFrame(M[i])
  <2>1. d + i - 1 \in 1 .. Len(frames)
    BY <1>1
  <2> DEFINE x == frames[d + i - 1]
  <2>2. x.fun \in Funs
    BY <2>1 DEF Plain
  <2>3. M[i] = Bare(x)
    BY <1>3
  <2> HIDE DEF x
  <2> QED BY <2>2, <2>3 DEF OpenFrame, Bare
<1>6. OpenFrames(M)
  BY <1>4, <1>5 DEF OpenFrames
<1>7. M # <<>>
  <2>1. Len(M) # 0
    BY <1>2, <1>4
  <2> QED BY <2>1
<1>8. Last(M) = Bare(frames[Len(frames)])
  <2>1. Last(M) = M[n]
    BY <1>4, <1>6, <1>7, OpenShorter
  <2>2. n \in 1 .. n /\ d + n - 1 = Len(frames)
    BY <1>2
  <2> HIDE DEF n
  <2> QED BY <1>3, <2>1, <2>2
<1>9. LET x == frames[Len(frames)] IN Asking(M) = Body(x.fun, x.key, x.obs)
  BY <1>8 DEF Asking, Bare
<1> QED BY <1>2, <1>3, <1>4, <1>6, <1>7, <1>8, <1>9 DEF M

(* A call that begins, begins in the mirror of every call it runs under *)
LEMMA MirrorPushed ==
  ASSUME NEW old, Plain(old), NEW mid, SameCalls(old, mid), NEW x, x.fun \in Funs
  PROVE  /\ Plain(Append(mid, x)) /\ Len(Append(mid, x)) = Len(old) + 1
         /\ \A d \in 1 .. Len(old) : Mirror(Append(mid, x), d) = Append(Mirror(old, d), Bare(x))
         /\ Mirror(Append(mid, x), Len(old) + 1) = <<Bare(x)>>
<1> DEFINE new == Append(mid, x)
<1>1. mid \in Seq(Range(mid)) /\ Len(mid) = Len(old) /\ Len(mid) \in Nat
  BY Elements DEF SameCalls, Plain
<1>2. /\ new \in Seq(Range(new)) /\ Len(new) = Len(mid) + 1
      /\ \A i \in 1 .. Len(mid) : new[i] = mid[i]
      /\ new[Len(mid) + 1] = x
  BY <1>1, Appended
<1> HIDE DEF new
<1>3. \A i \in 1 .. Len(mid) + 1 : i \in 1 .. Len(mid) \/ i = Len(mid) + 1
  BY <1>1
<1>4. Plain(new)
  BY <1>1, <1>2, <1>3 DEF Plain, SameCalls
<1>5. ASSUME NEW d \in 1 .. Len(old)
      PROVE  Mirror(new, d) = Append(Mirror(old, d), Bare(x))
  <2> DEFINE a == Mirror(new, d)
             m == Mirror(old, d)
             b == Append(m, Bare(x))
             n == Len(old) - d + 1
  <2>1. d \in 1 .. Len(new) /\ n \in Nat /\ Len(new) - d + 1 = n + 1 /\ d \in Nat
    BY <1>1, <1>2
  <2>2. /\ OpenFrames(a) /\ Len(a) = Len(new) - d + 1
        /\ \A i \in 1 .. Len(new) - d + 1 : a[i] = Bare(new[d + i - 1])
    BY <1>4, <2>1, Mirrored
  <2>3. /\ OpenFrames(m) /\ Len(m) = n
        /\ \A i \in 1 .. n : m[i] = Bare(old[d + i - 1])
    BY Mirrored
  <2> HIDE DEF a, m
  <2>4. m \in Seq(Range(m)) /\ a \in Seq(Range(a))
    BY <2>2, <2>3 DEF OpenFrames
  <2>5. /\ b \in Seq(Range(b)) /\ Len(b) = Len(m) + 1
        /\ \A i \in 1 .. Len(m) : b[i] = m[i]
        /\ b[Len(m) + 1] = Bare(x)
    BY <2>4, Appended
  <2> HIDE DEF b
  <2>6. ASSUME NEW i \in 1 .. Len(a) PROVE a[i] = b[i]
    <3>1. i \in 1 .. n + 1
      BY <2>1, <2>2
    <3>2. a[i] = Bare(new[d + i - 1])
      BY <2>1, <2>2, <3>1
    <3>3. CASE i = n + 1
      <4>1. d + i - 1 = Len(mid) + 1
        BY <1>1, <3>3
      <4> HIDE DEF n
      <4> QED BY <1>2, <2>3, <2>5, <3>2, <3>3, <4>1
    <3>4. CASE i # n + 1
      <4>1. i \in 1 .. n /\ d + i - 1 \in 1 .. Len(mid) /\ d + i - 1 \in 1 .. Len(old)
        BY <1>1, <3>1, <3>4
      <4>2. Bare(mid[d + i - 1]) = Bare(old[d + i - 1])
        BY <4>1 DEF SameCalls
      <4> HIDE DEF n
      <4> QED BY <1>2, <2>3, <2>5, <3>2, <4>1, <4>2
    <3> QED BY <3>3, <3>4
  <2>7. Len(a) = Len(b)
    BY <2>1, <2>2, <2>3, <2>5
  <2>8. a = b
    BY <2>4, <2>5, <2>6, <2>7, SameElements
  <2> QED BY <2>8 DEF a, b, m
<1>6. Mirror(new, Len(old) + 1) = <<Bare(x)>>
  <2> DEFINE a == Mirror(new, Len(old) + 1)
  <2>1. Len(old) + 1 \in 1 .. Len(new) /\ Len(new) - (Len(old) + 1) + 1 = 1
    BY <1>1, <1>2
  <2>2. /\ OpenFrames(a) /\ Len(a) = Len(new) - (Len(old) + 1) + 1
        /\ \A i \in 1 .. Len(new) - (Len(old) + 1) + 1 : a[i] = Bare(new[(Len(old) + 1) + i - 1])
    BY <1>4, <2>1, Mirrored
  <2> HIDE DEF a
  <2>3. Len(a) = 1 /\ a[1] = Bare(new[(Len(old) + 1) + 1 - 1]) /\ a \in Seq(Range(a))
    BY <2>1, <2>2 DEF OpenFrames
  <2>4. (Len(old) + 1) + 1 - 1 = Len(mid) + 1
    BY <1>1
  <2>5. Len(a) = 1 /\ a[1] = Bare(x)
    BY <1>2, <2>3, <2>4
  <2> DEFINE y == Bare(x)
  <2> HIDE DEF y
  <2>6. a = <<y>>
    BY <2>3, <2>5 DEF y
  <2> QED BY <2>6 DEF a, y
<1> QED BY <1>1, <1>2, <1>4, <1>5, <1>6 DEF new

(* A result that is delivered is observed in the mirror of every call *)
LEMMA MirrorDelivered ==
  ASSUME NEW old, Plain(old), NEW mid, SameCalls(old, mid), NEW v
  PROVE  /\ Plain(Deliver(mid, v)) /\ Len(Deliver(mid, v)) = Len(old)
         /\ \A d \in 1 .. Len(old) : Mirror(Deliver(mid, v), d) = Direct!Observe(Mirror(old, d), v)
<1> DEFINE new == Deliver(mid, v)
           L == Len(old)
<1>1. mid \in Seq(Range(mid)) /\ Len(mid) = L /\ L \in Nat
  BY Elements DEF SameCalls, Plain
<1>2. CASE mid = <<>>
  <2>1. new = <<>> /\ L = 0
    BY <1>1, <1>2 DEF Deliver
  <2>2. \A d \in 1 .. L : FALSE
    BY <2>1
  <2> HIDE DEF L
  <2>3. Plain(new) /\ Len(new) = L
    BY <2>1 DEF Plain
  <2> QED BY <2>2, <2>3 DEF L
<1>3. CASE mid # <<>>
  <2>1. L \in 1 .. L /\ DOMAIN mid = 1 .. L
    <3>1. Len(mid) # 0
      BY <1>1, <1>3, EmptySeq
    <3> QED BY <1>1, <3>1, Elements
  <2>2. new = [mid EXCEPT ![Len(mid)].obs = Append(@, v)]
    BY <1>3 DEF Deliver
  <2> HIDE DEF new
  <2>3. /\ new = [i \in 1 .. L |-> new[i]]
        /\ \A i \in 1 .. L :
             new[i] = IF i = L THEN [mid[i] EXCEPT !.obs = Append(@, v)] ELSE mid[i]
    BY <1>1, <2>1, <2>2
  <2>4. new \in Seq(Range(new)) /\ Len(new) = L
    BY <1>1, <2>3, FunctionIsSeq
  <2>5. \A i \in 1 .. L : /\ new[i].fun = mid[i].fun
                          /\ Bare(new[i]) = IF i = L THEN [Bare(old[i]) EXCEPT !.obs = Append(@, v)]
                                            ELSE Bare(old[i])
    <3> TAKE i \in 1 .. L
    <3> DEFINE x == mid[i]
               y == [x EXCEPT !.obs = Append(@, v)]
               z == old[i]
    <3>1. Bare(x) = Bare(z)
      BY DEF SameCalls
    <3> HIDE DEF x, z
    <3>2. y.fun = x.fun /\ y.key = x.key /\ y.obs = Append(x.obs, v)
      OBVIOUS
    <3> HIDE DEF y
    <3>3. x.fun = z.fun /\ x.key = z.key /\ x.obs = z.obs
      BY <3>1 DEF Bare
    <3>4. [Bare(z) EXCEPT !.obs = Append(@, v)] = [fun |-> z.fun, key |-> z.key, obs |-> Append(z.obs, v)]
      <4>1. Bare(z) = [fun |-> z.fun, key |-> z.key, obs |-> z.obs] /\ Bare(z).obs = z.obs
        BY DEF Bare
      <4> DEFINE p == Append(z.obs, v)
      <4>2. Append(Bare(z).obs, v) = p
        BY <4>1
      <4> HIDE DEF p
      <4>3. [Bare(z) EXCEPT !.obs = p] = [fun |-> z.fun, key |-> z.key, obs |-> p]
        BY <4>1
      <4> QED BY <4>2, <4>3 DEF p
    <3>5. Bare(y) = [Bare(z) EXCEPT !.obs = Append(@, v)]
      BY <3>2, <3>3, <3>4 DEF Bare
    <3> QED BY <2>3, <3>1, <3>2, <3>5 DEF x, y, z
  <2>6. Plain(new)
    BY <1>1, <2>4, <2>5 DEF Plain, SameCalls
  <2>7. ASSUME NEW d \in 1 .. L
        PROVE  Mirror(new, d) = Direct!Observe(Mirror(old, d), v)
    <3> DEFINE a == Mirror(new, d)
               m == Mirror(old, d)
               b == Direct!Observe(m, v)
               n == L - d + 1
    <3>1. d \in 1 .. Len(new) /\ n \in Nat /\ d \in Nat
      BY <1>1, <2>4
    <3>2. /\ OpenFrames(a) /\ Len(a) = Len(new) - d + 1
          /\ \A i \in 1 .. Len(new) - d + 1 : a[i] = Bare(new[d + i - 1])
      BY <2>6, <3>1, Mirrored
    <3>3. /\ OpenFrames(m) /\ Len(m) = n
          /\ \A i \in 1 .. n : m[i] = Bare(old[d + i - 1])
      BY Mirrored
    <3> HIDE DEF a, m
    <3>4. /\ OpenFrames(b) /\ Len(b) = Len(m)
          /\ \A i \in 1 .. Len(m) :
               b[i] = IF i = Len(m) THEN [m[i] EXCEPT !.obs = Append(@, v)] ELSE m[i]
      BY <3>3, Observed
    <3> HIDE DEF b
    <3>5. ASSUME NEW i \in 1 .. Len(a) PROVE a[i] = b[i]
      <4>1. i \in 1 .. n /\ d + i - 1 \in 1 .. L /\ (i = n <=> d + i - 1 = L)
        BY <1>1, <2>4, <3>2
      <4>2. /\ a[i] = Bare(new[d + i - 1]) /\ m[i] = Bare(old[d + i - 1])
            /\ b[i] = IF i = n THEN [m[i] EXCEPT !.obs = Append(@, v)] ELSE m[i]
        BY <2>4, <3>2, <3>3, <3>4, <4>1
      <4> HIDE DEF n, L
      <4> QED BY <2>5, <4>1, <4>2
    <3>6. Len(a) = Len(b)
      BY <2>4, <3>2, <3>3, <3>4
    <3>7. a = b
      BY <3>2, <3>4, <3>5, <3>6, SameElements DEF OpenFrames
    <3> QED BY <3>7 DEF a, b, m
  <2> QED BY <2>4, <2>6, <2>7 DEF new
<1> QED BY <1>2, <1>3

(* A call that is over, is over in the mirror of the calls around it *)
LEMMA MirrorShorter ==
  ASSUME NEW frames, Plain(frames), frames # <<>>
  PROVE  /\ Plain(Front(frames)) /\ Len(Front(frames)) = Len(frames) - 1
         /\ \A d \in 1 .. Len(frames) - 1 : Mirror(Front(frames), d) = Front(Mirror(frames, d))
<1> DEFINE new == Front(frames)
           L == Len(frames)
<1>1. /\ new \in Seq(Range(new)) /\ Len(new) = L - 1 /\ L \in Nat \ {0}
      /\ \A i \in 1 .. L - 1 : new[i] = frames[i]
  BY Shortened DEF Plain
<1> HIDE DEF new
<1>2. Plain(new)
  <2>1. \A i \in 1 .. L - 1 : i \in 1 .. L
    BY <1>1
  <2> QED BY <1>1, <2>1 DEF Plain
<1>3. ASSUME NEW d \in 1 .. L - 1 PROVE Mirror(new, d) = Front(Mirror(frames, d))
  <2> DEFINE a == Mirror(new, d)
             m == Mirror(frames, d)
             b == Front(m)
             n == L - d
  <2>1. d \in 1 .. Len(new) /\ d \in 1 .. L /\ n \in Nat /\ d \in Nat /\ L - d + 1 = n + 1
        /\ Len(new) - d + 1 = n
    BY <1>1
  <2>2. /\ OpenFrames(a) /\ Len(a) = Len(new) - d + 1
        /\ \A i \in 1 .. Len(new) - d + 1 : a[i] = Bare(new[d + i - 1])
    BY <1>2, <2>1, Mirrored
  <2>3. /\ OpenFrames(m) /\ Len(m) = L - d + 1 /\ m # <<>>
        /\ \A i \in 1 .. L - d + 1 : m[i] = Bare(frames[d + i - 1])
    BY <2>1, Mirrored
  <2> HIDE DEF a, m
  <2>4. /\ OpenFrames(b) /\ Len(b) = Len(m) - 1
        /\ \A i \in 1 .. Len(m) - 1 : b[i] = m[i]
    BY <2>3, OpenShorter
  <2> HIDE DEF b
  <2>5. ASSUME NEW i \in 1 .. Len(a) PROVE a[i] = b[i]
    <3>1. /\ i \in 1 .. Len(new) - d + 1 /\ i \in 1 .. L - d + 1 /\ i \in 1 .. Len(m) - 1
          /\ d + i - 1 \in 1 .. L - 1
      BY <1>1, <2>2, <2>3
    <3> QED BY <1>1, <2>2, <2>3, <2>4, <3>1
  <2>6. Len(a) = Len(b)
    BY <1>1, <2>2, <2>3, <2>4
  <2>7. a = b
    BY <2>2, <2>4, <2>5, <2>6, SameElements DEF OpenFrames
  <2> QED BY <2>7 DEF a, b, m
<1> QED BY <1>1, <1>2, <1>3 DEF new

-----------------------------------------------------------------------------
(* What a step of the running calls is to the run.                         *)

(* State s gives the answers that pairs has *)
Answers(s, pairs) == \A q \in Range(pairs) : Result(q.call, s) = q.ret

AnswersTo(s, pairs, n) == \A i \in 1 .. n : Result(pairs[i].call, s) = pairs[i].ret

(* From the running calls of old the run gets to those of new: calls are   *)
(* what it does to a state that answers pairs, and it asks no more.        *)
Leads(old, new, pairs, calls) ==
  \A d \in 1 .. Len(old) : d <= Len(new) =>
    \A s \in States : \A X : Answers(s, pairs) =>
      \E Y \in SUBSET CallsOf(pairs) :
        Reaches(At(old, d, s, X), At(new, d, Replay(calls, s), X \cup Y))

(* A run asks the calls of pairs, each after those before got their answer *)
InOrder(fun, key, pairs) ==
  \A s \in States : \A j \in 1 .. Len(pairs) :
    AnswersTo(s, pairs, j - 1) => Asks(Direct!Start(fun, key, s), pairs[j].call)

(* What an entry says a run does *)
Stands(fun, e) ==
  \A s \in States : Answers(s, e.path) =>
    \E Y \in SUBSET CallsOf(e.path) :
      Reaches(Direct!Start(fun, e.key, s),
              Configuration(<<>>, Replay(e.mutable, s), Y, e.value))

(* What the innermost of frames does next *)
Next1(frames) ==
  LET x == frames[Len(frames)] IN Body(x.fun, x.key, x.obs)

(* What comes of doing op in state s, once the calls of X were made *)
After(frames, op, s, X) ==
  CASE op.op = "read"   -> Configuration(Direct!Observe(frames, Result(op.call, s)), s,
                                         X \cup {op.call}, Unit)
    [] op.op = "write"  -> Configuration(Direct!Observe(frames, Unit), Effect(op.call, s), X, Unit)
    [] op.op = "call"   -> Configuration(Append(frames, Direct!Opened(op.fun, op.key)), s, X, Unit)
    [] op.op = "return" -> Configuration(Direct!Observe(Front(frames), op.value), s, X,
                                         IF Len(frames) = 1 THEN op.value ELSE Unit)

(* A run that is where a running call is, moves by what comes next *)
LEMMA MoveAt ==
  ASSUME OperationsKnown, NEW frames, Plain(frames), NEW d \in 1 .. Len(frames), NEW s, NEW X
  PROVE  /\ IsConfiguration(At(frames, d, s, X))
         /\ Direct!Move(At(frames, d, s, X)) = After(Mirror(frames, d), Next1(frames), s, X)
<1> DEFINE op == Next1(frames)
           M  == Mirror(frames, d)
           c  == At(frames, d, s, X)
<1>1. /\ OpenFrames(M) /\ M # <<>> /\ Len(frames) \in Nat \ {0}
      /\ Len(M) = Len(frames) - d + 1
      /\ LET x == frames[Len(frames)] IN Asking(M) = Body(x.fun, x.key, x.obs)
  BY Mirrored
<1>2. Asking(M) = op
  BY <1>1 DEF Next1
<1>3. op.op \in {"read", "write", "call", "return"}
  <2>1. Len(frames) \in 1 .. Len(frames)
    BY <1>1
  <2>2. frames[Len(frames)].fun \in Funs
    BY <2>1 DEF Plain
  <2> QED BY <2>2 DEF Next1, OperationsKnown
<1> HIDE DEF op, M
<1>4. /\ c.frames = M /\ c.state = s /\ c.asked = X /\ c.value = Unit
      /\ OpenFrames(M) => IsConfiguration(c)
  BY ConfigurationParts DEF At, M
<1> HIDE DEF c
<1>5. /\ Asking(c.frames).op = "read" =>
           Direct!Move(c) = Configuration(Direct!Observe(c.frames, Result(Asking(c.frames).call, c.state)),
                                          c.state, c.asked \cup {Asking(c.frames).call}, c.value)
      /\ Asking(c.frames).op = "write" =>
           Direct!Move(c) = Configuration(Direct!Observe(c.frames, Unit),
                                          Effect(Asking(c.frames).call, c.state), c.asked, c.value)
      /\ Asking(c.frames).op = "call" =>
           Direct!Move(c) = Configuration(Append(c.frames,
                                            Direct!Opened(Asking(c.frames).fun, Asking(c.frames).key)),
                                          c.state, c.asked, c.value)
      /\ Asking(c.frames).op = "return" =>
           Direct!Move(c) = Configuration(Direct!Observe(Front(c.frames), Asking(c.frames).value),
                                          c.state, c.asked,
                                          IF Len(c.frames) = 1 THEN Asking(c.frames).value ELSE c.value)
  BY <1>1, <1>4, MoveParts
<1>6. ASSUME op.op = "read" PROVE Direct!Move(c) = After(M, op, s, X)
  BY <1>2, <1>4, <1>5, <1>6 DEF After
<1>7. ASSUME op.op = "write" PROVE Direct!Move(c) = After(M, op, s, X)
  BY <1>2, <1>4, <1>5, <1>7 DEF After
<1>8. ASSUME op.op = "call" PROVE Direct!Move(c) = After(M, op, s, X)
  BY <1>2, <1>4, <1>5, <1>8 DEF After
<1>9. ASSUME op.op = "return" PROVE Direct!Move(c) = After(M, op, s, X)
  BY <1>2, <1>4, <1>5, <1>9 DEF After
<1>10. Direct!Move(c) = After(M, op, s, X)
  BY <1>3, <1>6, <1>7, <1>8, <1>9
<1> QED BY <1>1, <1>4, <1>10 DEF c, op, M

(* Reading leads on every run that would be given the same answer *)
LEMMA ReadLeads ==
  ASSUME OperationsKnown, NEW old, Plain(old), Next1(old).op = "read", NEW mid, SameCalls(old, mid), NEW ret
  PROVE  Leads(old, Deliver(mid, ret), <<[call |-> Next1(old).call, ret |-> ret]>>, <<>>)
<1> DEFINE call == Next1(old).call
           new == Deliver(mid, ret)
           pairs == <<[call |-> call, ret |-> ret]>>
<1>1. /\ Len(new) = Len(old)
      /\ \A d \in 1 .. Len(old) : Mirror(new, d) = Direct!Observe(Mirror(old, d), ret)
  BY MirrorDelivered
<1>2. CallsOf(pairs) = {call} /\ \A s : Answers(s, pairs) => Result(call, s) = ret
  <2>1. Range(pairs) = {[call |-> call, ret |-> ret]}
    BY DEF Range
  <2> HIDE DEF pairs, call
  <2> QED BY <2>1 DEF CallsOf, Answers
<1> HIDE DEF call, new, pairs
<1>3. ASSUME NEW d \in 1 .. Len(old), NEW s \in States, NEW X, Answers(s, pairs)
      PROVE  Reaches(At(old, d, s, X), At(new, d, Replay(<<>>, s), X \cup {call}))
  <2>1. Direct!Move(At(old, d, s, X))
          = Configuration(Direct!Observe(Mirror(old, d), Result(call, s)), s, X \cup {call}, Unit)
    BY MoveAt DEF After, call
  <2>2. Direct!Move(At(old, d, s, X)) = At(new, d, Replay(<<>>, s), X \cup {call})
    BY <1>1, <1>2, <1>3, <2>1, ReplayFew DEF At
  <2> QED BY <2>2, ReachesOn
<1>4. Leads(old, new, pairs, <<>>)
  BY <1>2, <1>3 DEF Leads
<1> QED BY <1>4 DEF call, new, pairs

(* Writing leads on every run, and does to its state what the write does *)
LEMMA WriteLeads ==
  ASSUME OperationsKnown, NEW old, Plain(old), Next1(old).op = "write", NEW mid, SameCalls(old, mid)
  PROVE  Leads(old, Deliver(mid, Unit), <<>>, <<Next1(old).call>>)
<1> DEFINE call == Next1(old).call
           new == Deliver(mid, Unit)
<1>1. /\ Len(new) = Len(old)
      /\ \A d \in 1 .. Len(old) : Mirror(new, d) = Direct!Observe(Mirror(old, d), Unit)
  BY MirrorDelivered
<1> HIDE DEF call, new
<1>3. ASSUME NEW d \in 1 .. Len(old), NEW s \in States, NEW X
      PROVE  Reaches(At(old, d, s, X), At(new, d, Replay(<<call>>, s), X \cup {}))
  <2>1. Direct!Move(At(old, d, s, X))
          = Configuration(Direct!Observe(Mirror(old, d), Unit), Effect(call, s), X, Unit)
    BY MoveAt DEF After, call
  <2>2. Direct!Move(At(old, d, s, X)) = At(new, d, Replay(<<call>>, s), X \cup {})
    BY <1>1, <2>1, ReplayFew DEF At
  <2> QED BY <2>2, ReachesOn
<1>4. Leads(old, new, <<>>, <<call>>)
  BY <1>3 DEF Leads
<1> QED BY <1>4 DEF call, new

(* Starting the body of a nested call leads on every run *)
LEMMA CallLeads ==
  ASSUME OperationsKnown, NEW old, Plain(old), Next1(old).op = "call", NEW mid, SameCalls(old, mid),
         NEW x, x.fun \in Funs, Bare(x) = Direct!Opened(Next1(old).fun, Next1(old).key)
  PROVE  Leads(old, Append(mid, x), <<>>, <<>>)
<1> DEFINE new == Append(mid, x)
<1>1. \A d \in 1 .. Len(old) : Mirror(new, d) = Append(Mirror(old, d), Bare(x))
  BY MirrorPushed
<1> HIDE DEF new
<1>3. ASSUME NEW d \in 1 .. Len(old), NEW s \in States, NEW X
      PROVE  Reaches(At(old, d, s, X), At(new, d, Replay(<<>>, s), X \cup {}))
  <2>1. Direct!Move(At(old, d, s, X))
          = Configuration(Append(Mirror(old, d), Direct!Opened(Next1(old).fun, Next1(old).key)),
                          s, X, Unit)
    BY MoveAt DEF After
  <2>2. Direct!Move(At(old, d, s, X)) = At(new, d, Replay(<<>>, s), X \cup {})
    BY <1>1, <2>1, ReplayFew DEF At
  <2> QED BY <2>2, ReachesOn
<1>4. Leads(old, new, <<>>, <<>>)
  BY <1>3 DEF Leads
<1> QED BY <1>4 DEF new

(* Returning leads on every run of a call around the one that returns *)
LEMMA ReturnLeads ==
  ASSUME OperationsKnown, NEW old, Plain(old), old # <<>>, Next1(old).op = "return"
  PROVE  /\ Plain(Deliver(Front(old), Next1(old).value))
         /\ Len(Deliver(Front(old), Next1(old).value)) = Len(old) - 1
         /\ Leads(old, Deliver(Front(old), Next1(old).value), <<>>, <<>>)
<1> DEFINE v == Next1(old).value
           mid == Front(old)
           new == Deliver(mid, v)
<1>1. /\ Plain(mid) /\ Len(mid) = Len(old) - 1
      /\ \A d \in 1 .. Len(old) - 1 : Mirror(mid, d) = Front(Mirror(old, d))
  BY MirrorShorter
<1>2. Len(old) \in Nat
  BY Elements DEF Plain
<1> HIDE DEF mid, v
<1>3. SameCalls(mid, mid)
  BY <1>1 DEF SameCalls
<1>4. /\ Plain(new) /\ Len(new) = Len(mid)
      /\ \A d \in 1 .. Len(mid) : Mirror(new, d) = Direct!Observe(Mirror(mid, d), v)
  BY <1>1, <1>3, MirrorDelivered
<1> HIDE DEF new
<1>5. ASSUME NEW d \in 1 .. Len(old), d <= Len(new), NEW s \in States, NEW X
      PROVE  Reaches(At(old, d, s, X), At(new, d, Replay(<<>>, s), X \cup {}))
  <2>0. d \in 1 .. Len(old) - 1 /\ d # Len(old)
    BY <1>1, <1>2, <1>4, <1>5
  <2>01. Len(Mirror(old, d)) # 1
    <3>1. Len(Mirror(old, d)) = Len(old) - d + 1
      BY <2>0, Mirrored
    <3> QED BY <1>2, <2>0, <3>1
  <2>1. Direct!Move(At(old, d, s, X))
          = Configuration(Direct!Observe(Front(Mirror(old, d)), v), s, X, Unit)
    BY <2>0, <2>01, MoveAt DEF After, v
  <2>2. Mirror(new, d) = Direct!Observe(Front(Mirror(old, d)), v)
    BY <1>1, <1>4, <2>0
  <2>3. Direct!Move(At(old, d, s, X)) = At(new, d, Replay(<<>>, s), X \cup {})
    BY <2>1, <2>2, ReplayFew DEF At
  <2> QED BY <2>3, ReachesOn
<1>6. Leads(old, new, <<>>, <<>>)
  BY <1>5 DEF Leads
<1> QED BY <1>1, <1>4, <1>6 DEF mid, v, new

(* The outermost call returns *)
LEMMA ReturnEnds ==
  ASSUME OperationsKnown, NEW old, Plain(old), old # <<>>, Next1(old).op = "return", NEW s, NEW X
  PROVE  Reaches(At(old, Len(old), s, X), Configuration(<<>>, s, X, Next1(old).value))
<1> DEFINE v == Next1(old).value
           d == Len(old)
           M == Mirror(old, d)
<1>1. d \in 1 .. Len(old)
  BY Shortened DEF Plain
<1> HIDE DEF v, d
<1>2. OpenFrames(M) /\ Len(M) = Len(old) - d + 1 /\ M # <<>> /\ Len(old) \in Nat \ {0}
  BY <1>1, Mirrored
<1>30. Len(M) = 1
  <2> DEFINE n == Len(old)
  <2>1. n \in Nat /\ d = n /\ Len(M) = n - d + 1
    BY <1>2 DEF d
  <2> HIDE DEF n, M
  <2> QED BY <2>1
<1>3. Front(M) = <<>>
  <2>1. OpenFrames(Front(M)) /\ Len(Front(M)) = Len(M) - 1
    BY <1>2, OpenShorter
  <2>2. Len(Front(M)) = 0 /\ Front(M) \in Seq(Range(Front(M)))
    BY <1>30, <2>1 DEF OpenFrames
  <2> QED BY <2>2
<1>4. Direct!Move(At(old, d, s, X))
        = Configuration(Direct!Observe(Front(M), v), s, X, IF Len(M) = 1 THEN v ELSE Unit)
  BY <1>1, MoveAt DEF After, v
<1>5. Direct!Observe(Front(M), v) = <<>>
  BY <1>3 DEF Direct!Observe
<1>6. Direct!Move(At(old, d, s, X)) = Configuration(<<>>, s, X, v)
  BY <1>30, <1>4, <1>5
<1>7. Reaches(At(old, d, s, X), Configuration(<<>>, s, X, v))
  BY <1>6, ReachesOn
<1> QED BY <1>7 DEF d, v

(* Where a run begins *)
LEMMA StartParts ==
  ASSUME NEW fun \in Funs, NEW key, NEW s
  PROVE  LET c == Direct!Start(fun, key, s) IN
           /\ c = Configuration(<<Direct!Opened(fun, key)>>, s, {}, Unit)
           /\ IsConfiguration(c)
           /\ c.frames = <<Direct!Opened(fun, key)>> /\ c.state = s /\ c.asked = {}
<1> DEFINE c == Direct!Start(fun, key, s)
           x == Direct!Opened(fun, key)
<1>1. c = Configuration(<<x>>, s, {}, Unit)
  BY DEF Direct!Start, Configuration
<1>2. OpenFrames(<<x>>)
  BY OpenedFrame
<1> HIDE DEF x, c
<1>3. /\ c.frames = <<x>> /\ c.state = s /\ c.asked = {}
      /\ IsConfiguration(c)
  BY <1>1, <1>2, ConfigurationParts
<1> QED BY <1>1, <1>3 DEF c, x

(* A call that begins inside the run is a run of its own *)
LEMMA CallUnder ==
  ASSUME OperationsKnown, CallsKnown, NEW old, Plain(old), Next1(old).op = "call",
         NEW d \in 1 .. Len(old), NEW s, NEW X
  PROVE  /\ Next1(old).fun \in Funs
         /\ Reaches(At(old, d, s, X),
                    Under(Mirror(old, d), X, Direct!Start(Next1(old).fun, Next1(old).key, s)))
<1> DEFINE fun == Next1(old).fun
           key == Next1(old).key
           x == Direct!Opened(fun, key)
           M == Mirror(old, d)
           c == Direct!Start(fun, key, s)
<1>1. OpenFrames(M) /\ Len(old) \in Nat \ {0}
  BY Mirrored
<1>2. fun \in Funs
  <2>1. Len(old) \in 1 .. Len(old)
    BY <1>1
  <2>2. old[Len(old)].fun \in Funs
    BY <2>1 DEF Plain
  <2> QED BY <2>2 DEF Next1, CallsKnown
<1>3. c.frames = <<x>> /\ c.state = s /\ c.asked = {}
  <2> HIDE DEF fun, key
  <2>1. /\ c = Configuration(<<x>>, s, {}, Unit)
        /\ IsConfiguration(c)
        /\ c.frames = <<x>> /\ c.state = s /\ c.asked = {}
    BY <1>2, StartParts
  <2> QED BY <2>1
<1>4. Direct!Move(At(old, d, s, X)) = Configuration(Append(M, x), s, X, Unit)
  BY MoveAt DEF After
<1> HIDE DEF fun, key, x, M, c
<1>5. M \o <<x>> = Append(M, x)
  <2>1. M \in Seq(Range(M))
    BY <1>1 DEF OpenFrames
  <2> DEFINE S == Range(M) \cup {x}
  <2>2. M \in Seq(S) /\ x \in S
    <3>1. \A i \in 1 .. Len(M) : M[i] \in S
      BY <2>1, Elements
    <3> QED BY <2>1, <3>1
  <2> HIDE DEF S
  <2> QED BY <2>2
<1>6. Under(M, X, c) = Configuration(M \o <<x>>, s, X \cup {}, Unit)
  BY <1>3 DEF Under
<1>7. X \cup {} = X
  OBVIOUS
<1>8. Under(M, X, c) = Direct!Move(At(old, d, s, X))
  BY <1>4, <1>5, <1>6, <1>7
<1>9. Reaches(At(old, d, s, X), Under(M, X, c))
  BY <1>8, ReachesOn
<1> QED BY <1>2, <1>9 DEF fun, key, M, c

(* An entry that stands for the call does what the call would *)
LEMMA HitLeads ==
  ASSUME OperationsKnown, CallsKnown, NEW old, Plain(old), Next1(old).op = "call",
         NEW mid, SameCalls(old, mid),
         NEW e, Stands(Next1(old).fun, e), e.key = Next1(old).key
  PROVE  Leads(old, Deliver(mid, e.value), e.path, e.mutable)
<1> DEFINE fun == Next1(old).fun
           key == Next1(old).key
           new == Deliver(mid, e.value)
<1>1. /\ Len(new) = Len(old)
      /\ \A d \in 1 .. Len(old) : Mirror(new, d) = Direct!Observe(Mirror(old, d), e.value)
  BY MirrorDelivered
<1> HIDE DEF new
<1>2. ASSUME NEW d \in 1 .. Len(old), NEW s \in States, NEW X, Answers(s, e.path)
      PROVE  \E Y \in SUBSET CallsOf(e.path) :
               Reaches(At(old, d, s, X), At(new, d, Replay(e.mutable, s), X \cup Y))
  <2> DEFINE t == Replay(e.mutable, s)
             M == Mirror(old, d)
             c == Direct!Start(fun, e.key, s)
  <2>1. fun \in Funs /\ Reaches(At(old, d, s, X), Under(M, X, c))
    BY CallUnder
  <2>2. PICK Y \in SUBSET CallsOf(e.path) : Reaches(c, Configuration(<<>>, t, Y, e.value))
    BY <1>2 DEF Stands
  <2> DEFINE f == Configuration(<<>>, t, Y, e.value)
  <2>3. OpenFrames(M) /\ M # <<>>
    BY Mirrored
  <2>4. IsConfiguration(c)
    BY <2>1, StartParts
  <2>5. f.frames = <<>> /\ f.state = t /\ f.asked = Y /\ f.value = e.value
    BY ConfigurationParts
  <2>6. Reaches(c, f)
    BY <2>2
  <2>65. Mirror(new, d) = Direct!Observe(M, e.value)
    BY <1>1
  <2> HIDE DEF f, c, M, t, fun
  <2>7. Reaches(Under(M, X, c), Under(M, X, f))
    BY <2>3, <2>4, <2>6, ReachesUnder
  <2>8. Under(M, X, f) = Configuration(Direct!Observe(M, e.value), t, X \cup Y, Unit)
    BY <2>5 DEF Under
  <2>9. Under(M, X, f) = At(new, d, t, X \cup Y)
    BY <2>65, <2>8 DEF At
  <2>10. Reaches(At(old, d, s, X), At(new, d, t, X \cup Y))
    BY <2>1, <2>7, <2>9, ReachesOn
  <2> QED BY <2>10 DEF t
<1>3. Leads(old, new, e.path, e.mutable)
  BY <1>2 DEF Leads
<1> QED BY <1>3 DEF new

(* The run will ask the calls of pairs, whatever comes before, and the     *)
(* first time it asks one the answer is what it would be now.              *)
Poses(old, pairs) ==
  \A d \in 1 .. Len(old) : \A s \in States : \A X : \A j \in 1 .. Len(pairs) :
    AnswersTo(s, pairs, j - 1) =>
      pairs[j].call \in X \/ FirstAsks(At(old, d, s, X), pairs[j].call)

(* The runs of the calls around a nested call ask what its run asks *)
LEMMA CallPoses ==
  ASSUME OperationsKnown, CallsKnown, ReadsFirst, NEW old, Plain(old), Next1(old).op = "call",
         Memoized(Next1(old).fun, Next1(old).key),
         NEW pairs, InOrder(Next1(old).fun, Next1(old).key, pairs)
  PROVE  Poses(old, pairs)
<1> SUFFICES ASSUME NEW d \in 1 .. Len(old), NEW s \in States, NEW X,
                    NEW j \in 1 .. Len(pairs), AnswersTo(s, pairs, j - 1), pairs[j].call \notin X
             PROVE  FirstAsks(At(old, d, s, X), pairs[j].call)
  BY DEF Poses
<1> DEFINE M == Mirror(old, d)
           fun == Next1(old).fun
           key == Next1(old).key
           c == Direct!Start(fun, key, s)
           call == pairs[j].call
<1>1. fun \in Funs /\ Reaches(At(old, d, s, X), Under(M, X, c))
  BY CallUnder
<1>2. Asks(c, call)
  BY DEF InOrder
<1>3. OpenFrames(M) /\ M # <<>>
  BY Mirrored
<1> HIDE DEF fun, key
<1>4. IsConfiguration(c) /\ c.state = s
  <2>1. IsConfiguration(c)
    BY <1>1, StartParts
  <2>2. c.state = s
    BY DEF Direct!Start
  <2> QED BY <2>1, <2>2
<1>5. FirstAsks(c, call)
  BY <1>1, <1>2, FirstAsked DEF fun, key
<1>6. call \notin X
  OBVIOUS
<1>7. At(old, d, s, X).state = s
  BY ConfigurationParts DEF At
<1> HIDE DEF M, c, call
<1>8. FirstAsks(Under(M, X, c), call)
  BY <1>3, <1>4, <1>5, <1>6, FirstUnder
<1>9. Under(M, X, c).state = s
  BY <1>4, ConfigurationParts DEF Under
<1>10. FirstAsks(At(old, d, s, X), call)
  BY <1>1, <1>7, <1>8, <1>9, FirstAsksOn
<1> QED BY <1>10 DEF call

(* A run that comes to a read asks it *)
LEMMA ReadPoses ==
  ASSUME OperationsKnown, NEW old, Plain(old), Next1(old).op = "read", NEW ret
  PROVE  Poses(old, <<[call |-> Next1(old).call, ret |-> ret]>>)
<1> DEFINE call == Next1(old).call
           pairs == <<[call |-> call, ret |-> ret]>>
<1>1. \A j \in 1 .. Len(pairs) : pairs[j].call = call
  OBVIOUS
<1>2. ASSUME NEW d \in 1 .. Len(old), NEW s \in States, NEW X, call \notin X
      PROVE  FirstAsks(At(old, d, s, X), call)
  <2> DEFINE c == At(old, d, s, X)
  <2>1. Direct!Move(c)
          = Configuration(Direct!Observe(Mirror(old, d), Result(call, s)), s, X \cup {call}, Unit)
    BY MoveAt DEF After
  <2>2. call \in Direct!Move(c).asked
    BY <2>1, ConfigurationParts
  <2>3. c.asked = X
    BY ConfigurationParts DEF At
  <2> HIDE DEF call, c
  <2>4. Direct!Moves(c, 0) = c
    BY MovesOn
  <2>5. FirstAsks(c, call)
    BY <1>2, <2>2, <2>3, <2>4 DEF FirstAsks
  <2> QED BY <2>5 DEF c
<1> HIDE DEF pairs, call
<1>3. Poses(old, pairs)
  BY <1>1, <1>2 DEF Poses
<1> QED BY <1>3 DEF pairs, call

-----------------------------------------------------------------------------
(* What the running calls have recorded.                                   *)

(* The recorder of a recorded call hears all it does, and a pure function  *)
(* does nothing that a recorder would have to hear.                        *)
Tracked(x) == x.mode = "recorded" \/ x.fun \in Pure

(* In a state that answers what the call has recorded, a run gets to where *)
(* the call is, and asks no more than that.                                *)
Retraced(frames, d) ==
  LET x == frames[d] IN
    \A s \in States : Answers(s, x.con.immutable) =>
      \E Y \in SUBSET CallsOf(x.con.immutable) :
        Reaches(Direct!Start(x.fun, x.key, s), At(frames, d, Replay(x.con.mutable, s), Y))

(* What one step adds to a constraint, when the run it stands for asks     *)
(* pairs and writes calls: order is the order the recorder is told in.     *)
Extends(con, pairs, calls, order, new) ==
  /\ Range(con.immutable) \cup Range(pairs) \subseteq Range(new.immutable)
  /\ new.mutable = con.mutable \o calls
  /\ Len(con.immutable) <= Len(new.immutable)
  /\ \A i \in 1 .. Len(con.immutable) : new.immutable[i] = con.immutable[i]
  /\ \A j \in Len(con.immutable) + 1 .. Len(new.immutable) :
       \E i \in 1 .. Len(order) :
         /\ new.immutable[j] = order[i]
         /\ \A h \in 1 .. i - 1 : \E m \in 1 .. j - 1 : new.immutable[m] = order[h]

(* Where two states give the answers of a path, and one of them answers     *)
(* pairs after some writes, so does the other, if the path has their calls. *)
LEMMA AnswersAfter ==
  ASSUME OperationsKnown, Uniform, NEW s \in States, NEW t \in States, NEW calls \in Seq(Writes),
         NEW path, CallsOf(path) \subseteq Reads, Answers(s, path), Answers(t, path)
  PROVE  /\ Replay(calls, s) \in States
         /\ \A q \in Range(path) : Result(q.call, Replay(calls, t)) = q.ret
                                    => Result(q.call, Replay(calls, s)) = q.ret
<1>1. Replay(calls, s) \in States
  BY ReplayKnown
<1>2. ASSUME NEW q \in Range(path), Result(q.call, Replay(calls, t)) = q.ret
      PROVE  Result(q.call, Replay(calls, s)) = q.ret
  <2>1. q.call \in Reads
    BY DEF CallsOf
  <2>2. Result(q.call, s) = Result(q.call, t)
    BY DEF Answers
  <2> QED BY <1>2, <2>1, <2>2, SameAnswers
<1> QED BY <1>1, <1>2

(* A step that leads on and is recorded keeps a constraint retraced: *)
(* what a recorder has heard is enough to tell where its call is.    *)
LEMMA RetracedOn ==
  ASSUME OperationsKnown, Uniform, NEW old, NEW new, NEW d \in 1 .. Len(old), d <= Len(new),
         new[d].fun = old[d].fun, new[d].key = old[d].key,
         Retraced(old, d), IsConstraint(old[d].con), Known(old[d].con), Known(new[d].con),
         NEW before \in States, Answers(before, new[d].con.immutable),
         NEW pairs, Answers(Replay(old[d].con.mutable, before), pairs),
         NEW calls, calls \in Seq(Range(calls)), Leads(old, new, pairs, calls),
         NEW order, Extends(old[d].con, pairs, calls, order, new[d].con)
  PROVE  Retraced(new, d)
<1> DEFINE con == old[d].con
           con2 == new[d].con
           fun == old[d].fun
           key == old[d].key
<1> HIDE DEF con, con2, fun, key
<1>1. SUFFICES ASSUME NEW s \in States, Answers(s, con2.immutable)
               PROVE  \E Y \in SUBSET CallsOf(con2.immutable) :
                        Reaches(Direct!Start(fun, key, s), At(new, d, Replay(con2.mutable, s), Y))
  BY DEF Retraced, con2, fun, key
<1>2. /\ Range(con.immutable) \subseteq Range(con2.immutable)
      /\ Range(pairs) \subseteq Range(con2.immutable)
      /\ con2.mutable = con.mutable \o calls
  BY DEF Extends, con, con2
<1>3. Answers(s, con.immutable) /\ Answers(s, pairs)
  BY <1>1, <1>2 DEF Answers
<1> DEFINE t == Replay(con.mutable, s)
<1>4. PICK Y \in SUBSET CallsOf(con.immutable) :
        Reaches(Direct!Start(fun, key, s), At(old, d, t, Y))
  BY <1>3 DEF Retraced, con, fun, key
<1>5. con.mutable \in Seq(Writes) /\ con.mutable \in Seq(Range(con.mutable))
      /\ CallsOf(con2.immutable) \subseteq Reads
  BY DEF Known, IsConstraint, con, con2
<1>6. CallsOf(pairs) \subseteq CallsOf(con2.immutable) /\ CallsOf(con.immutable) \subseteq CallsOf(con2.immutable)
  BY <1>2 DEF CallsOf
<1>7. t \in States /\ Answers(t, pairs)
  <2>1. Answers(before, con2.immutable) /\ Answers(Replay(con.mutable, before), pairs)
    BY DEF con, con2
  <2>2. /\ t \in States
        /\ \A q \in Range(con2.immutable) :
             Result(q.call, Replay(con.mutable, before)) = q.ret => Result(q.call, t) = q.ret
    BY <1>1, <1>5, <2>1, AnswersAfter
  <2> HIDE DEF t
  <2> QED BY <1>2, <2>1, <2>2 DEF Answers
<1>8. Replay(con2.mutable, s) = Replay(calls, t)
  BY <1>2, <1>5, ReplayJoined
<1> HIDE DEF t
<1>9. PICK Z \in SUBSET CallsOf(pairs) :
        Reaches(At(old, d, t, Y), At(new, d, Replay(calls, t), Y \cup Z))
  BY <1>7 DEF Leads
<1>10. Reaches(Direct!Start(fun, key, s), At(new, d, Replay(con2.mutable, s), Y \cup Z))
  BY <1>4, <1>8, <1>9, ReachesOn
<1>11. Y \cup Z \in SUBSET CallsOf(con2.immutable)
  BY <1>6
<1> QED BY <1>10, <1>11

(* A step that is recorded in the order it asks in keeps the order: a path *)
(* asks no question before those that lead to it.                          *)
LEMMA InOrderOn ==
  ASSUME OperationsKnown, Uniform, NEW old, NEW new, NEW d \in 1 .. Len(old),
         Retraced(old, d), IsConstraint(old[d].con), Known(old[d].con),
         IsConstraint(new[d].con), Known(new[d].con),
         InOrder(old[d].fun, old[d].key, old[d].con.immutable),
         NEW before \in States, Answers(before, new[d].con.immutable),
         NEW order, order \in Seq(Range(order)), Poses(old, order),
         Answers(Replay(old[d].con.mutable, before), order),
         NEW pairs, NEW calls, Extends(old[d].con, pairs, calls, order, new[d].con)
  PROVE  InOrder(old[d].fun, old[d].key, new[d].con.immutable)
<1> DEFINE con == old[d].con
           a == con.immutable
           b == new[d].con.immutable
           fun == old[d].fun
           key == old[d].key
<1> HIDE DEF con, b, fun, key
<1>1. SUFFICES ASSUME NEW s \in States, NEW j \in 1 .. Len(b), AnswersTo(s, b, j - 1)
               PROVE  Asks(Direct!Start(fun, key, s), b[j].call)
  BY DEF InOrder, b, fun, key
<1>2. /\ a \in Seq(Range(a)) /\ Len(a) \in Nat /\ DOMAIN a = 1 .. Len(a)
      /\ b \in Seq(Range(b)) /\ Len(b) \in Nat
      /\ \A i \in 1 .. Len(b) : b[i] \in Range(b)
  <2>1. a \in Seq(Range(a)) /\ b \in Seq(Range(b))
    BY DEF con, b, IsConstraint, IsPairs
  <2> HIDE DEF a
  <2> QED BY <2>1, Elements
<1>3. /\ Len(a) <= Len(b) /\ \A i \in 1 .. Len(a) : b[i] = a[i]
      /\ \A n \in Len(a) + 1 .. Len(b) : \E i \in 1 .. Len(order) :
           /\ b[n] = order[i]
           /\ \A h \in 1 .. i - 1 : \E m \in 1 .. n - 1 : b[m] = order[h]
  BY DEF Extends, con, b
<1>4. con.mutable \in Seq(Writes) /\ CallsOf(b) \subseteq Reads
  BY DEF Known, con, b
<1>5. CASE j <= Len(a)
  <2>1. j \in 1 .. Len(a) /\ b[j] = a[j]
    BY <1>2, <1>3, <1>5
  <2>2. \A i \in 1 .. j - 1 : i \in 1 .. Len(a) /\ i \in 1 .. j - 1
    BY <1>2, <2>1
  <2>3. AnswersTo(s, a, j - 1)
    BY <1>1, <1>3, <2>2 DEF AnswersTo
  <2>4. InOrder(fun, key, a)
    BY DEF fun, key, con
  <2> HIDE DEF a
  <2> QED BY <2>1, <2>3, <2>4 DEF InOrder
<1>6. CASE ~ (j <= Len(a))
  <2>1. j \in Len(a) + 1 .. Len(b)
    BY <1>2, <1>6
  <2>2. PICK i \in 1 .. Len(order) :
          /\ b[j] = order[i]
          /\ \A h \in 1 .. i - 1 : \E m \in 1 .. j - 1 : b[m] = order[h]
    BY <1>3, <2>1
  <2>3. Answers(s, a)
    <3>1. ASSUME NEW q \in Range(a) PROVE Result(q.call, s) = q.ret
      <4>1. PICK n \in 1 .. Len(a) : q = a[n]
        BY <1>2 DEF Range
      <4>2. n \in 1 .. j - 1
        BY <1>2, <1>6
      <4> QED BY <1>1, <1>3, <4>1, <4>2 DEF AnswersTo
    <3> QED BY <3>1 DEF Answers
  <2> DEFINE t == Replay(con.mutable, s)
  <2>4. PICK Y \in SUBSET CallsOf(a) : Reaches(Direct!Start(fun, key, s), At(old, d, t, Y))
    BY <2>3 DEF Retraced, con, fun, key
  <2>5. t \in States
    BY <1>4, ReplayKnown
  <2>6. ASSUME NEW h \in 1 .. i - 1 PROVE Result(order[h].call, t) = order[h].ret
    <3>1. PICK m \in 1 .. j - 1 : b[m] = order[h]
      BY <2>2
    <3>2. m \in 1 .. Len(b)
      BY <1>2
    <3>3. b[m] \in Range(b) /\ b[m].call \in Reads
      BY <1>2, <1>4, <3>2 DEF CallsOf
    <3>4. Result(b[m].call, s) = b[m].ret
      BY <1>1 DEF AnswersTo
    <3>5. Result(b[m].call, before) = b[m].ret
      BY <3>3 DEF Answers, b
    <3>6. order[h] \in Range(order)
      <4>1. h \in 1 .. Len(order)
        BY Elements
      <4> QED BY <4>1, Elements
    <3>7. Result(order[h].call, Replay(con.mutable, before)) = order[h].ret
      BY <3>6 DEF Answers, con
    <3>8. Result(b[m].call, t) = Result(b[m].call, Replay(con.mutable, before))
      BY <1>4, <3>3, <3>4, <3>5, SameAnswers
    <3> QED BY <3>1, <3>7, <3>8
  <2> HIDE DEF t, a
  <2>7. AnswersTo(t, order, i - 1)
    BY <2>6 DEF AnswersTo
  <2>8. order[i].call \in Y \/ FirstAsks(At(old, d, t, Y), order[i].call)
    BY <2>5, <2>7 DEF Poses
  <2>9. Asks(At(old, d, t, Y), order[i].call)
    <3>1. CASE order[i].call \in Y
      <4> DEFINE c == At(old, d, t, Y)
      <4>1. c.asked = Y /\ Direct!Moves(c, 0) = c
        BY ConfigurationParts, MovesOn DEF At
      <4> HIDE DEF c
      <4> QED BY <3>1, <4>1 DEF Asks, c
    <3> QED BY <2>8, <3>1, FirstAsksOn
  <2> QED BY <2>2, <2>4, <2>9, ReachesOn
<1> QED BY <1>5, <1>6

(* Of all running calls, but those whose recorder was never attached *)
TracesTrue(frames) ==
  \A d \in 1 .. Len(frames) : Tracked(frames[d]) =>
    Retraced(frames, d) /\ InOrder(frames[d].fun, frames[d].key, frames[d].con.immutable)

(* What was recorded tells of the state that the call began in: it gives   *)
(* the answers, and the writes lead from it to where the tracked value is. *)
Recalled(s, frames) ==
  \A d \in 1 .. Len(frames) : Tracked(frames[d]) =>
    /\ Answers(frames[d].before, frames[d].con.immutable)
    /\ s = Replay(frames[d].con.mutable, frames[d].before)

(* Only bypassed calls are not tracked, and pure functions call only such *)
Kinds(frames) ==
  \A d \in 1 .. Len(frames) :
    /\ frames[d].mode = "bypassed" \/ Tracked(frames[d])
    /\ frames[d].fun \in Pure => \A i \in d .. Len(frames) : frames[i].fun \in Pure

(* The outermost call is where a run of it from scratch gets to *)
OutermostTrue(s, frames) ==
  frames # <<>> =>
    LET x == frames[1] IN
      /\ x.key \in Args
      /\ \E X : Reaches(Direct!Start(x.fun, x.key, x.before), At(frames, 1, s, X))

EntryTrue(fun, e) ==
  /\ Stands(fun, e)
  /\ InOrder(fun, e.key, e.path)
  /\ fun \in Pure => e.path = <<>> /\ e.mutable = <<>>

EntriesTrue == \A f \in Funs : \A e \in caches[f] : EntryTrue(f, e)

CallsTrue(s, frames) ==
  TracesTrue(frames) /\ Recalled(s, frames) /\ Kinds(frames) /\ OutermostTrue(s, frames)

(* The soundness invariant *)
RInv == CallsTrue(value, stack) /\ EntriesTrue /\ OnlyWritersBlamed

(* A step from the running calls to new and the tracked value to s: it     *)
(* asks pairs and writes calls, and the recorders are told of order.       *)
Progress(new, s, pairs, calls, order) ==
  /\ \A d \in 1 .. Len(stack) : d <= Len(new) =>
       /\ new[d].fun = stack[d].fun /\ new[d].key = stack[d].key
       /\ new[d].mode = stack[d].mode /\ new[d].before = stack[d].before
       /\ Range(new[d].con.immutable) \subseteq Range(stack[d].con.immutable) \cup Range(order)
       /\ Tracked(stack[d]) => Extends(stack[d].con, pairs, calls, order, new[d].con)
       /\ \A q \in Range(order) : ~Differs(stack[d].con, q.call, q.ret)
  /\ Leads(stack, new, pairs, calls) /\ Poses(stack, order)
  /\ Answers(value, pairs) /\ Answers(value, order)
  /\ order \in Seq(Range(order)) /\ CallsOf(order) \subseteq Reads
  /\ calls \in Seq(Writes) /\ s = Replay(calls, value)

(* What a step adds to what is recorded of a call, is what a run would     *)
(* have answered when the call began: a call made for the first time is    *)
(* not one that was written to before.                                     *)
LEMMA RecalledOn ==
  ASSUME OperationsKnown, CallsKnown, ReadsFirst, NEW old, NEW new, NEW d \in 1 .. Len(old),
         old[d].fun \in Funs, Memoized(old[d].fun, old[d].key),
         Retraced(old, d), IsConstraint(old[d].con), IsConstraint(new[d].con), Known(old[d].con),
         NEW before \in States, Answers(before, old[d].con.immutable),
         NEW order, order \in Seq(Range(order)), Poses(old, order),
         \A q \in Range(order) : ~Differs(old[d].con, q.call, q.ret),
         Answers(Replay(old[d].con.mutable, before), order),
         Range(new[d].con.immutable) \subseteq Range(old[d].con.immutable) \cup Range(order)
  PROVE  Answers(before, new[d].con.immutable)
<1> DEFINE con == old[d].con
           a == con.immutable
           t == Replay(con.mutable, before)
           fun == old[d].fun
           key == old[d].key
<1>1. t \in States
  BY ReplayKnown DEF Known
<1>2. PICK Y \in SUBSET CallsOf(a) : Reaches(Direct!Start(fun, key, before), At(old, d, t, Y))
  BY DEF Retraced
<1>3. ASSUME NEW q \in Range(order) PROVE Result(q.call, before) = q.ret
  <2>1. PICK i \in 1 .. Len(order) : q = order[i]
    BY Elements DEF Range
  <2>2. Answers(t, order)
    OBVIOUS
  <2> HIDE DEF t
  <2>3. \A h \in 1 .. Len(order) : Result(order[h].call, t) = order[h].ret
    BY <2>2, Elements DEF Answers
  <2>4. \A h \in 1 .. i - 1 : h \in 1 .. Len(order)
    BY Elements
  <2>5. AnswersTo(t, order, i - 1)
    BY <2>3, <2>4 DEF AnswersTo
  <2>6. q.call \in Y \/ FirstAsks(At(old, d, t, Y), q.call)
    BY <1>1, <2>1, <2>5 DEF Poses
  <2>7. CASE q.call \in Y
    <3>1. PICK p \in Range(a) : p.call = q.call
      BY <2>7 DEF CallsOf
    <3>2. p.ret = q.ret
      BY <3>1 DEF Differs
    <3>3. Result(p.call, before) = p.ret
      BY DEF Answers
    <3> QED BY <3>1, <3>2, <3>3
  <2>8. CASE FirstAsks(At(old, d, t, Y), q.call)
    <3> DEFINE b == At(old, d, t, Y)
               c == Direct!Start(fun, key, before)
               call == q.call
    <3>1. b.state = t
      BY ConfigurationParts DEF At
    <3>2. Reaches(c, b) /\ FirstAsks(b, call)
      BY <1>2, <2>8
    <3>3. \A n \in Nat : LET e == Direct!Moves(c, n) IN
            \A x \in Direct!Move(e).asked \ e.asked : Result(x, e.state) = Result(x, before)
      BY DEF ReadsFirst, FreshReads
    <3> HIDE DEF b, c, call
    <3>4. PICK m \in Nat : Direct!Moves(c, m) = b
      BY <3>2 DEF Reaches
    <3>5. PICK n \in Nat : LET e == Direct!Moves(b, n) IN
            call \in Direct!Move(e).asked \ e.asked /\ Result(call, e.state) = Result(call, b.state)
      BY <3>2 DEF FirstAsks
    <3>6. Direct!Moves(c, m + n) = Direct!Moves(b, n) /\ m + n \in Nat
      <4>1. n \in Nat /\ m \in Nat
        BY <3>4, <3>5
      <4>2. Direct!Moves(c, m + n) = Direct!Moves(Direct!Moves(c, m), n)
        BY <4>1, MovesAdd
      <4> QED BY <3>4, <4>1, <4>2
    <3> DEFINE e == Direct!Moves(b, n)
    <3> HIDE DEF e
    <3>7. call \in Direct!Move(e).asked \ e.asked /\ Result(call, e.state) = Result(call, t)
      BY <3>1, <3>5 DEF e
    <3>8. Result(call, e.state) = Result(call, before)
      BY <3>3, <3>6, <3>7 DEF e
    <3>9. Result(q.call, t) = q.ret
      BY <2>2 DEF Answers
    <3> QED BY <3>7, <3>8, <3>9 DEF call
  <2> QED BY <2>6, <2>7, <2>8
<1> QED BY <1>3 DEF Answers

(* A step of progress leaves what is said of the running calls true *)
LEMMA Progressed ==
  ASSUME OperationsKnown, CallsKnown, Uniform, ReadsFirst,
         FramesInv(stack), FramesKnown(stack), value \in States, CallsTrue(value, stack),
         NEW new, FramesInv(new), FramesKnown(new),
         NEW s, NEW pairs, NEW calls, NEW order, Progress(new, s, pairs, calls, order)
  PROVE  /\ \A d \in 1 .. Len(stack) : d <= Len(new) /\ Tracked(new[d]) =>
              /\ Retraced(new, d) /\ InOrder(new[d].fun, new[d].key, new[d].con.immutable)
              /\ Answers(new[d].before, new[d].con.immutable)
              /\ s = Replay(new[d].con.mutable, new[d].before)
         /\ stack # <<>> => OutermostTrue(s, new)
<1>1. /\ stack \in Seq(Range(stack)) /\ Len(stack) \in Nat /\ DOMAIN stack = 1 .. Len(stack)
      /\ new \in Seq(Range(new)) /\ Len(new) \in Nat /\ DOMAIN new = 1 .. Len(new)
  BY Elements DEF FramesInv, Shaped
<1>2. \A d \in 1 .. Len(stack) : d <= Len(new) =>
        /\ IsConstraint(stack[d].con) /\ IsConstraint(new[d].con)
        /\ Known(stack[d].con) /\ Known(new[d].con) /\ stack[d].before \in States
        /\ stack[d].fun \in Funs
        /\ Memoized(stack[d].fun, stack[d].key) \/ new[d].con = EmptyConstraint
  <2>1. \A d \in 1 .. Len(stack) : d <= Len(new) => d \in 1 .. Len(new)
    BY <1>1
  <2>2. \A d \in 1 .. Len(stack) : d <= Len(new) => new[d].mode = stack[d].mode
    BY DEF Progress
  <2> QED BY <1>1, <2>1, <2>2 DEF FramesInv, Shaped, FramesKnown
<1>3. \A d \in 1 .. Len(stack) : d <= Len(new) =>
        /\ new[d].fun = stack[d].fun /\ new[d].key = stack[d].key
        /\ new[d].mode = stack[d].mode /\ new[d].before = stack[d].before
        /\ Range(new[d].con.immutable) \subseteq Range(stack[d].con.immutable) \cup Range(order)
        /\ Tracked(stack[d]) => Extends(stack[d].con, pairs, calls, order, new[d].con)
        /\ \A q \in Range(order) : ~Differs(stack[d].con, q.call, q.ret)
  BY DEF Progress
<1>4. /\ Leads(stack, new, pairs, calls) /\ Poses(stack, order)
      /\ Answers(value, pairs) /\ Answers(value, order) /\ order \in Seq(Range(order))
      /\ calls \in Seq(Writes) /\ s = Replay(calls, value)
  BY DEF Progress
<1>5. calls \in Seq(Range(calls))
  BY <1>4 DEF Range
<1>6. ASSUME NEW d \in 1 .. Len(stack), d <= Len(new), Tracked(new[d])
      PROVE  /\ Retraced(new, d) /\ InOrder(new[d].fun, new[d].key, new[d].con.immutable)
             /\ Answers(new[d].before, new[d].con.immutable)
             /\ s = Replay(new[d].con.mutable, new[d].before)
  <2> DEFINE con == stack[d].con
             before == stack[d].before
  <2>1. Tracked(stack[d])
    BY <1>3, <1>6 DEF Tracked
  <2>2. /\ Retraced(stack, d) /\ InOrder(stack[d].fun, stack[d].key, con.immutable)
        /\ Answers(before, con.immutable) /\ value = Replay(con.mutable, before)
    BY <2>1 DEF CallsTrue, TracesTrue, Recalled
  <2>3. Extends(con, pairs, calls, order, new[d].con)
    BY <1>3, <1>6, <2>1
  <2>4. new[d].fun = stack[d].fun /\ new[d].key = stack[d].key /\ new[d].before = before
    BY <1>3, <1>6
  <2>5. /\ IsConstraint(con) /\ IsConstraint(new[d].con)
        /\ Known(con) /\ Known(new[d].con) /\ before \in States
    BY <1>2, <1>6
  <2>6. Answers(before, new[d].con.immutable)
    <3>1. CASE new[d].con = EmptyConstraint
      <4>1. new[d].con.immutable = <<>>
        BY <3>1 DEF EmptyConstraint
      <4>2. Range(<<>>) = {}
        BY DEF Range
      <4> QED BY <4>1, <4>2 DEF Answers
    <3>2. CASE Memoized(stack[d].fun, stack[d].key)
      <4>1. \A q \in Range(order) : ~Differs(stack[d].con, q.call, q.ret)
        BY <1>3, <1>6
      <4>2. Range(new[d].con.immutable) \subseteq Range(stack[d].con.immutable) \cup Range(order)
        BY <1>3, <1>6
      <4>3. stack[d].fun \in Funs
        BY <1>2, <1>6
      <4> QED BY <1>4, <2>2, <2>5, <3>2, <4>1, <4>2, <4>3, RecalledOn
    <3> QED BY <1>2, <1>6, <3>1, <3>2
  <2>7. Answers(Replay(con.mutable, before), pairs) /\ Answers(Replay(con.mutable, before), order)
    BY <1>4, <2>2
  <2>8. Retraced(new, d)
    BY <1>4, <1>5, <1>6, <2>2, <2>3, <2>4, <2>5, <2>6, <2>7, RetracedOn
  <2>9. InOrder(stack[d].fun, stack[d].key, new[d].con.immutable)
    BY <1>4, <2>2, <2>3, <2>5, <2>6, <2>7, InOrderOn
  <2>10. s = Replay(new[d].con.mutable, before)
    <3>1. con.mutable \in Seq(Range(con.mutable)) /\ new[d].con.mutable = con.mutable \o calls
      BY <2>3, <2>5 DEF IsConstraint, Extends
    <3> HIDE DEF con, before
    <3> QED BY <1>4, <1>5, <2>2, <3>1, ReplayJoined
  <2> QED BY <2>4, <2>6, <2>8, <2>9, <2>10
<1>8. ASSUME stack # <<>>, new # <<>> PROVE OutermostTrue(s, new)
  <2>1. 1 \in 1 .. Len(stack) /\ 1 <= Len(new)
    <3>1. Len(stack) # 0 /\ Len(new) # 0
      BY <1>1, <1>8, EmptySeq
    <3> QED BY <1>1, <3>1
  <2> DEFINE x == stack[1]
             y == new[1]
             c == Direct!Start(x.fun, x.key, x.before)
  <2>2. x.key \in Args /\ \E X : Reaches(c, At(stack, 1, value, X))
    BY <1>8 DEF CallsTrue, OutermostTrue
  <2>3. PICK X : Reaches(c, At(stack, 1, value, X))
    BY <2>2
  <2>4. y.fun = x.fun /\ y.key = x.key /\ y.before = x.before
    BY <1>3, <2>1
  <2>5. PICK Y \in SUBSET CallsOf(pairs) :
          Reaches(At(stack, 1, value, X), At(new, 1, Replay(calls, value), X \cup Y))
    BY <1>4, <2>1 DEF Leads
  <2> HIDE DEF c
  <2>6. Reaches(c, At(new, 1, s, X \cup Y))
    BY <1>4, <2>3, <2>5, ReachesOn
  <2> QED BY <2>2, <2>4, <2>6 DEF OutermostTrue, c
<1>9. new = <<>> => OutermostTrue(s, new)
  BY DEF OutermostTrue
<1> QED BY <1>6, <1>8, <1>9

(* No call begins *)
LEMMA ProgressWithin ==
  ASSUME OperationsKnown, CallsKnown, Uniform, ReadsFirst,
         FramesInv(stack), FramesKnown(stack), value \in States,
         CallsTrue(value, stack), stack # <<>>,
         NEW new, FramesInv(new), FramesKnown(new), Len(new) <= Len(stack),
         NEW s, NEW pairs, NEW calls, NEW order, Progress(new, s, pairs, calls, order)
  PROVE  CallsTrue(s, new)
<1>1. Len(stack) \in Nat /\ Len(new) \in Nat
  BY Elements DEF FramesInv, Shaped
<1>2. \A d \in 1 .. Len(new) : d \in 1 .. Len(stack) /\ d <= Len(new)
  BY <1>1
<1>3. /\ \A d \in 1 .. Len(stack) : d <= Len(new) /\ Tracked(new[d]) =>
           /\ Retraced(new, d) /\ InOrder(new[d].fun, new[d].key, new[d].con.immutable)
           /\ Answers(new[d].before, new[d].con.immutable)
           /\ s = Replay(new[d].con.mutable, new[d].before)
      /\ stack # <<>> => OutermostTrue(s, new)
  BY Progressed
<1>4. TracesTrue(new) /\ Recalled(s, new) /\ OutermostTrue(s, new)
  BY <1>2, <1>3 DEF TracesTrue, Recalled
<1>5. \A d \in 1 .. Len(new) : new[d].fun = stack[d].fun /\ new[d].mode = stack[d].mode
  BY <1>2 DEF Progress
<1>6. Kinds(new)
  <2>1. ASSUME NEW d \in 1 .. Len(new)
        PROVE  /\ new[d].mode = "bypassed" \/ Tracked(new[d])
               /\ new[d].fun \in Pure => \A i \in d .. Len(new) : new[i].fun \in Pure
    <3>1. /\ stack[d].mode = "bypassed" \/ Tracked(stack[d])
          /\ stack[d].fun \in Pure => \A i \in d .. Len(stack) : stack[i].fun \in Pure
      BY <1>2 DEF CallsTrue, Kinds
    <3>2. \A i \in d .. Len(new) : i \in d .. Len(stack) /\ i \in 1 .. Len(new)
      BY <1>1
    <3> QED BY <1>5, <3>1, <3>2 DEF Tracked
  <2> QED BY <2>1 DEF Kinds
<1> QED BY <1>4, <1>6 DEF CallsTrue

(* A call begins *)
LEMMA ProgressOpened ==
  ASSUME OperationsKnown, CallsKnown, Uniform, ReadsFirst,
         FramesInv(stack), FramesKnown(stack), value \in States, CallsTrue(value, stack),
         NEW mid, SameCalls(stack, mid), NEW fun \in Funs, NEW key, NEW id, NEW mode,
         mode \in {"bypassed", "recorded"} \/ fun \in Pure,
         stack # <<>> /\ stack[Len(stack)].fun \in Pure => fun \in Pure,
         stack = <<>> => key \in Args,
         NEW new, new = Append(mid, Frame(fun, key, id, mode)), FramesInv(new), FramesKnown(new),
         NEW order, Progress(new, value, <<>>, <<>>, order)
  PROVE  CallsTrue(value, new)
<1> DEFINE L == Len(stack)
           x == Frame(fun, key, id, mode)
<1>1. /\ L \in Nat /\ new \in Seq(Range(new)) /\ mid \in Seq(Range(mid)) /\ Len(mid) = L
      /\ stack \in Seq(Range(stack))
  BY Elements DEF FramesInv, Shaped, SameCalls, Plain
<1>2. /\ x.fun = fun /\ x.key = key /\ x.mode = mode /\ x.con = EmptyConstraint
      /\ x.before = value /\ Bare(x) = Direct!Opened(fun, key)
  BY DEF Frame, Bare, Direct!Opened
<1> HIDE DEF x
<1>3. Len(new) = L + 1 /\ new[L + 1] = x
  BY <1>1, Appended DEF x
<1>4. Plain(stack)
  BY <1>1, Elements DEF FramesInv, Shaped, Plain
<1>5. Mirror(new, L + 1) = <<Direct!Opened(fun, key)>>
  BY <1>2, <1>4, MirrorPushed DEF x
<1>6. \A t : At(new, L + 1, t, {}) = Direct!Start(fun, key, t)
  BY <1>2, <1>5, StartParts DEF At
<1>7. /\ \A d \in 1 .. L : d <= Len(new) /\ Tracked(new[d]) =>
           /\ Retraced(new, d) /\ InOrder(new[d].fun, new[d].key, new[d].con.immutable)
           /\ Answers(new[d].before, new[d].con.immutable)
           /\ value = Replay(new[d].con.mutable, new[d].before)
      /\ stack # <<>> => OutermostTrue(value, new)
  BY Progressed
<1>8. \A d \in 1 .. Len(new) : (d \in 1 .. L /\ d <= Len(new)) \/ d = L + 1
  BY <1>1, <1>3
<1>9. x.con.immutable = <<>> /\ x.con.mutable = <<>> /\ Range(x.con.immutable) = {}
  BY <1>2 DEF EmptyConstraint, Range
<1> HIDE DEF L
<1>10. Retraced(new, L + 1) /\ InOrder(fun, key, x.con.immutable)
  <2>1. ASSUME NEW s \in States
        PROVE  \E Y \in SUBSET CallsOf(x.con.immutable) :
                 Reaches(Direct!Start(fun, key, s), At(new, L + 1, Replay(x.con.mutable, s), Y))
    <3>1. Replay(x.con.mutable, s) = s
      BY <1>9, ReplayFew
    <3>2. Reaches(Direct!Start(fun, key, s), At(new, L + 1, Replay(x.con.mutable, s), {}))
      BY <1>6, <3>1, ReachesOn
    <3> QED BY <3>2
  <2>2. Retraced(new, L + 1)
    BY <1>2, <1>3, <2>1 DEF Retraced
  <2>3. \A j \in 1 .. Len(x.con.immutable) : FALSE
    BY <1>9
  <2> QED BY <2>2, <2>3 DEF InOrder
<1>11. TracesTrue(new)
  BY <1>2, <1>3, <1>7, <1>8, <1>10 DEF TracesTrue
<1>12. Recalled(value, new)
  <2>1. /\ Answers(x.before, x.con.immutable)
        /\ value = Replay(x.con.mutable, x.before)
    BY <1>2, <1>9, ReplayFew DEF Answers
  <2> QED BY <1>3, <1>7, <1>8, <2>1 DEF Recalled
<1>13. OutermostTrue(value, new)
  <2>1. CASE stack = <<>>
    <3>1. L = 0 /\ L + 1 = 1
      BY <2>1 DEF L
    <3>2. Reaches(Direct!Start(fun, key, value), At(new, 1, value, {}))
      BY <1>6, <3>1, ReachesOn
    <3> QED BY <1>2, <1>3, <2>1, <3>1, <3>2 DEF OutermostTrue
  <2> QED BY <1>7, <2>1
<1>14. \A d \in 1 .. L : new[d].fun = stack[d].fun /\ new[d].mode = stack[d].mode
  <2>1. \A d \in 1 .. L : d <= Len(new)
    BY <1>1, <1>3
  <2> QED BY <2>1 DEF Progress, L
<1>15. Kinds(new)
  <2>1. ASSUME NEW d \in 1 .. Len(new)
        PROVE  /\ new[d].mode = "bypassed" \/ Tracked(new[d])
               /\ new[d].fun \in Pure => \A i \in d .. Len(new) : new[i].fun \in Pure
    <3>1. CASE d = L + 1
      <4>1. \A i \in d .. Len(new) : i = L + 1
        BY <1>1, <1>3, <3>1
      <4> QED BY <1>2, <1>3, <3>1, <4>1 DEF Tracked
    <3>2. CASE d # L + 1
      <4>1. d \in 1 .. L
        BY <1>8, <3>2
      <4>2. /\ stack[d].mode = "bypassed" \/ Tracked(stack[d])
            /\ stack[d].fun \in Pure => \A i \in d .. L : stack[i].fun \in Pure
        BY <4>1 DEF CallsTrue, Kinds, L
      <4>3. ASSUME stack[d].fun \in Pure, NEW i \in d .. Len(new) PROVE new[i].fun \in Pure
        <5>1. L \in d .. L /\ L # 0
          BY <1>1, <4>1
        <5>2. stack # <<>>
          BY <5>1 DEF L
        <5>3. fun \in Pure
          BY <4>2, <4>3, <5>1, <5>2 DEF L
        <5>4. CASE i = L + 1
          BY <1>2, <1>3, <5>3, <5>4
        <5>5. CASE i # L + 1
          <6>1. i \in d .. L /\ i \in 1 .. L
            BY <1>1, <1>3, <4>1, <5>5
          <6> QED BY <1>14, <4>2, <4>3, <6>1
        <5> QED BY <5>4, <5>5
      <4> QED BY <1>14, <4>1, <4>2, <4>3 DEF Tracked
    <3> QED BY <3>1, <3>2
  <2> QED BY <2>1 DEF Kinds
<1> QED BY <1>11, <1>12, <1>13, <1>15 DEF CallsTrue

-----------------------------------------------------------------------------
(* The steps of the runtime.                                               *)

(* A function without tracked parameters makes no tracked calls, and only  *)
(* calls functions like itself.                                            *)
PureBodies ==
  \A f \in Pure : \A k, obs :
    /\ Body(f, k, obs).op \in {"call", "return"}
    /\ Body(f, k, obs).op = "call" => Body(f, k, obs).fun \in Pure

(* What the proofs of the steps use of the invariant of MemoizeProofs *)
LEMMA Setting ==
  ASSUME IInv, ~panicked
  PROVE  /\ FramesInv(stack) /\ Plain(stack) /\ IsChain(slot, stack, Len(stack))
         /\ Len(stack) \in Nat /\ DOMAIN stack = 1 .. Len(stack)
         /\ \A d \in 1 .. Len(stack) : stack[d].mode = "recorded" => d \in Range(slot)
         /\ Running => Top = stack[Len(stack)] /\ NextOp = Next1(stack) /\ Len(stack) # 0
<1>1. /\ FramesInv(stack) /\ IsChain(slot, stack, Len(stack))
      /\ stack \in Seq(Range(stack)) /\ \A d \in DOMAIN stack : stack[d].fun \in Funs
  BY DEF IInv, RecorderChain, FramesInv, Shaped
<1>2. Len(stack) \in Nat /\ DOMAIN stack = 1 .. Len(stack)
  BY <1>1, Elements
<1>3. \A d \in 1 .. Len(stack) : stack[d].mode = "recorded" => d \in Range(slot)
  BY <1>1 DEF IsChain
<1>4. ASSUME Running
      PROVE  Top = stack[Len(stack)] /\ NextOp = Next1(stack) /\ Len(stack) # 0
  <2>1. Top = stack[Len(stack)] /\ Len(stack) # 0
    BY <1>1, <1>4, Innermost
  <2> QED BY <2>1 DEF NextOp, Next1
<1> QED BY <1>1, <1>2, <1>3, <1>4 DEF Plain

(* A step that tells recorders of calls leaves the rest of the frames alone *)
LEMMA HeardSame ==
  ASSUME FramesInv(stack), NEW pairs, NEW calls, NEW mid, Heard(stack, pairs, calls, mid)
  PROVE  SameCalls(stack, mid) /\ FramesInv(mid) /\ Len(mid) = Len(stack)
<1>1. /\ FramesInv(mid) /\ Same(stack, mid)
      /\ \A d \in 1 .. Len(stack) : mid[d].obs = stack[d].obs
  BY DEF Heard
<1>2. mid \in Seq(Range(mid)) /\ Len(mid) = Len(stack)
      /\ \A d \in DOMAIN mid : mid[d].fun \in Funs
  BY <1>1 DEF FramesInv, Shaped, Same
<1>3. DOMAIN mid = 1 .. Len(mid)
  BY <1>2, Elements
<1>4. \A d \in 1 .. Len(stack) : Bare(mid[d]) = Bare(stack[d])
  BY <1>1 DEF Same, Bare
<1> QED BY <1>1, <1>2, <1>3, <1>4 DEF SameCalls, Plain

(* What the calls under way keep when one of them goes on *)
Copies(mid, new) ==
  \A d \in 1 .. Len(mid) : d <= Len(new) =>
    /\ new[d].fun = mid[d].fun /\ new[d].key = mid[d].key /\ new[d].mode = mid[d].mode
    /\ new[d].before = mid[d].before /\ new[d].con = mid[d].con

(* Delivering a result, and starting a call, change no constraint *)
LEMMA CopiesAre ==
  ASSUME NEW mid, FramesInv(mid)
  PROVE  /\ \A v : Copies(mid, Deliver(mid, v)) /\ Len(Deliver(mid, v)) = Len(mid)
         /\ \A x : Copies(mid, Append(mid, x)) /\ Len(Append(mid, x)) = Len(mid) + 1
         /\ mid # <<>> /\ IsChain(slot, mid, Len(mid)) =>
              \A v : Copies(mid, Deliver(Front(mid), v))
<1>1. mid \in Seq(Range(mid)) /\ Len(mid) \in Nat
  BY Elements DEF FramesInv, Shaped
<1>2. ASSUME NEW frames, FramesInv(frames), NEW v
      PROVE  Copies(frames, Deliver(frames, v)) /\ Len(Deliver(frames, v)) = Len(frames)
  <2>1. /\ Same(frames, Deliver(frames, v))
        /\ \A d \in 1 .. Len(frames) : Deliver(frames, v)[d].con = frames[d].con
    BY <1>2, DeliverOnly
  <2> QED BY <2>1 DEF Same, Copies
<1>3. ASSUME NEW x PROVE Copies(mid, Append(mid, x)) /\ Len(Append(mid, x)) = Len(mid) + 1
  <2>1. /\ Len(Append(mid, x)) = Len(mid) + 1
        /\ \A i \in 1 .. Len(mid) : Append(mid, x)[i] = mid[i]
    BY <1>1, Appended
  <2> DEFINE new == Append(mid, x)
  <2> HIDE DEF new
  <2>2. \A d \in 1 .. Len(mid) : new[d] = mid[d]
    BY <2>1 DEF new
  <2> QED BY <2>1, <2>2 DEF Copies, new
<1>4. ASSUME mid # <<>>, IsChain(slot, mid, Len(mid)), NEW v
      PROVE  Copies(mid, Deliver(Front(mid), v))
  <2> DEFINE f == Front(mid)
             new == Deliver(f, v)
  <2>1. Len(f) = Len(mid) - 1 /\ \A i \in 1 .. Len(mid) - 1 : f[i] = mid[i]
    BY <1>1, <1>4, Shortened
  <2>2. FramesInv(f)
    BY <1>1, <1>4, Shorter
  <2>3. Copies(f, new) /\ Len(new) = Len(f)
    BY <1>2, <2>2
  <2> HIDE DEF f, new
  <2>4. \A d \in 1 .. Len(mid) : d <= Len(new) => d \in 1 .. Len(mid) - 1 /\ d \in 1 .. Len(f)
    BY <1>1, <2>1, <2>3
  <2>5. Copies(mid, new)
    BY <2>1, <2>3, <2>4 DEF Copies
  <2> QED BY <2>5 DEF new, f
<1> QED BY <1>1, <1>2, <1>3, <1>4

(* The recorders heard what there was to hear *)
LEMMA HeardProgress ==
  ASSUME IInv, ~panicked, Kinds(stack),
         NEW order, NEW calls, NEW mid, Heard(stack, order, calls, mid), NEW new, Copies(mid, new),
         NEW pairs, \A d \in Range(slot) : Range(pairs) \subseteq Range(mid[d].con.immutable),
         Running /\ Top.fun \in Pure => pairs = <<>> /\ calls = <<>>,
         Leads(stack, new, pairs, calls), Poses(stack, order),
         Answers(value, pairs), Answers(value, order), CallsOf(order) \subseteq Reads,
         order \in Seq(Range(order)),
         \A q \in Range(order), d \in Range(slot) : ~Differs(stack[d].con, q.call, q.ret),
         calls \in Seq(Writes), NEW s, s = Replay(calls, value)
  PROVE  Progress(new, s, pairs, calls, order)
<1>1. /\ FramesInv(stack) /\ Len(stack) \in Nat /\ DOMAIN stack = 1 .. Len(stack)
      /\ \A d \in 1 .. Len(stack) : stack[d].mode = "recorded" => d \in Range(slot)
      /\ Running => Top = stack[Len(stack)] /\ NextOp = Next1(stack) /\ Len(stack) # 0
      /\ stack \in Seq(Range(stack))
  BY Setting DEF Plain
<1>2. /\ Same(stack, mid)
      /\ \A d \in 1 .. Len(stack) :
           /\ d \in Range(slot) => Hears(stack[d].con, order, calls, mid[d].con)
           /\ d \notin Range(slot) => mid[d].con = stack[d].con
  BY DEF Heard
<1>3. ASSUME NEW d \in 1 .. Len(stack), d <= Len(new)
      PROVE  /\ new[d].fun = stack[d].fun /\ new[d].key = stack[d].key
             /\ new[d].mode = stack[d].mode /\ new[d].before = stack[d].before
             /\ Range(new[d].con.immutable) \subseteq Range(stack[d].con.immutable) \cup Range(order)
             /\ Tracked(stack[d]) => Extends(stack[d].con, pairs, calls, order, new[d].con)
  <2>1. /\ new[d].fun = stack[d].fun /\ new[d].key = stack[d].key
        /\ new[d].mode = stack[d].mode /\ new[d].before = stack[d].before
        /\ new[d].con = mid[d].con
    BY <1>2, <1>3 DEF Same, Copies
  <2> DEFINE a == stack[d].con
             b == mid[d].con
  <2>2. CASE d \in Range(slot)
    <3>1. Hears(a, order, calls, b)
      BY <1>2, <2>2
    <3>2. Range(pairs) \subseteq Range(b.immutable)
      BY <2>2
    <3> HIDE DEF a, b
    <3>3. /\ Range(b.immutable) = Range(a.immutable) \cup Range(order)
          /\ b.mutable = a.mutable \o calls
      BY <3>1, HearsWhat
    <3>4. /\ Len(a.immutable) <= Len(b.immutable)
          /\ \A i \in 1 .. Len(a.immutable) : b.immutable[i] = a.immutable[i]
          /\ \A j \in Len(a.immutable) + 1 .. Len(b.immutable) :
               \E i \in 1 .. Len(order) :
                 /\ b.immutable[j] = order[i]
                 /\ \A h \in 1 .. i - 1 : \E m \in 1 .. j - 1 : b.immutable[m] = order[h]
      BY <3>1, HearsInOrder
    <3>5. Extends(a, pairs, calls, order, b)
      BY <3>2, <3>3, <3>4 DEF Extends
    <3> QED BY <2>1, <3>3, <3>5 DEF a, b
  <2>3. CASE d \notin Range(slot)
    <3>1. b = a
      BY <1>2, <2>3
    <3>2. ASSUME Tracked(stack[d]) PROVE pairs = <<>> /\ calls = <<>>
      <4>1. stack[d].fun \in Pure
        BY <1>1, <2>3, <3>2 DEF Tracked
      <4>2. Len(stack) \in d .. Len(stack)
        BY <1>1
      <4>3. stack[Len(stack)].fun \in Pure
        BY <4>1, <4>2 DEF Kinds
      <4>4. Running
        <5>1. stack = <<>> => Len(stack) = 0
          OBVIOUS
        <5>2. Len(stack) # 0
          BY <1>1
        <5> QED BY <5>1, <5>2 DEF Running
      <4> QED BY <1>1, <4>3, <4>4
    <3>3. ASSUME pairs = <<>>, calls = <<>> PROVE Extends(a, pairs, calls, order, a)
      <4>1. IsConstraint(a)
        BY <1>1 DEF FramesInv, Shaped
      <4> HIDE DEF a
      <4>2. a.immutable \in Seq(Range(a.immutable)) /\ a.mutable \in Seq(Range(a.mutable))
        BY <4>1 DEF IsConstraint, IsPairs
      <4>3. Len(a.immutable) \in Nat
        BY <4>2, Elements
      <4>4. a.mutable \o <<>> = a.mutable
        BY <4>2
      <4>5. Range(<<>>) = {}
        BY DEF Range
      <4>6. \A j \in Len(a.immutable) + 1 .. Len(a.immutable) : FALSE
        BY <4>3
      <4> QED BY <3>3, <4>3, <4>4, <4>5, <4>6 DEF Extends
    <3> QED BY <2>1, <3>1, <3>2, <3>3
  <2> QED BY <2>2, <2>3
<1>4. ASSUME NEW d \in 1 .. Len(stack), NEW q \in Range(order)
      PROVE  ~Differs(stack[d].con, q.call, q.ret)
  <2>1. CASE d \notin Range(slot)
    <3>1. stack[d].con = EmptyConstraint
      BY <1>1, <2>1 DEF FramesInv, Shaped
    <3>2. stack[d].con.immutable = <<>> /\ Range(<<>>) = {}
      BY <3>1 DEF EmptyConstraint, Range
    <3> QED BY <3>2 DEF Differs
  <2> QED BY <2>1
<1> QED BY <1>3, <1>4 DEF Progress

(* The calls that a lookup validates are those a run would ask, in order *)
LEMMA WalkInOrder ==
  ASSUME IInv, EntriesTrue, NEW fun \in Funs, NEW key, NEW id
  PROVE  InOrder(fun, key, Walk(fun, key, id))
<1> DEFINE W == Walk(fun, key, id)
<1>1. EntriesShaped(caches[fun]) /\ AllPart(caches[fun])
  BY DEF IInv, CachesShaped, OneEntryMatches, AllPart
<1>2. \A n \in 1 .. Len(W) :
        \E e \in OfKey(caches[fun], key) :
          /\ n \in 1 .. Len(e.path) /\ e.path[n].call = W[n].call
          /\ \A i \in 1 .. n - 1 : e.path[i] = W[i]
  BY <1>1, WalkShape
<1> HIDE DEF W
<1>3. ASSUME NEW s \in States, NEW n \in 1 .. Len(W), AnswersTo(s, W, n - 1)
      PROVE  Asks(Direct!Start(fun, key, s), W[n].call)
  <2>1. PICK e \in OfKey(caches[fun], key) :
          /\ n \in 1 .. Len(e.path) /\ e.path[n].call = W[n].call
          /\ \A i \in 1 .. n - 1 : e.path[i] = W[i]
    BY <1>2
  <2>2. e \in caches[fun] /\ e.key = key
    BY DEF OfKey
  <2>3. InOrder(fun, key, e.path)
    BY <2>2 DEF EntriesTrue, EntryTrue
  <2>4. AnswersTo(s, e.path, n - 1)
    BY <1>3, <2>1 DEF AnswersTo
  <2> QED BY <2>1, <2>3, <2>4 DEF InOrder
<1> QED BY <1>3 DEF InOrder, W

(* What the recorders are told on a lookup: true answers, to calls that the *)
(* function looked up asks in that order. In the port they are told nothing *)
(* (src/lib/tracked.mbt:149-177).                                           *)
LEMMA HearingTrue ==
  ASSUME IInv, VInv, EntriesTrue, NEW fun \in Funs, NEW key, NEW id, Truthful(id)
  PROVE  /\ InOrder(fun, key, Hearing(fun, key, id))
         /\ Answers(value, Hearing(fun, key, id)) /\ Answers(value, Walk(fun, key, id))
         /\ CallsOf(Hearing(fun, key, id)) \subseteq Reads
         /\ Hearing(fun, key, id) \in Seq(Range(Hearing(fun, key, id)))
         /\ ~Contradicted(fun, key, id) =>
              \A q \in Range(Hearing(fun, key, id)), d \in Range(slot) :
                ~Differs(stack[d].con, q.call, q.ret)
<1>1. EntriesShaped(caches[fun]) /\ AllPart(caches[fun])
  BY DEF IInv, CachesShaped, OneEntryMatches, AllPart
<1>2. \A q \in Range(Walk(fun, key, id)) : q.ret = Validate(id, q.call)
  BY <1>1, WalkShape
<1>3. CallsOf(Walk(fun, key, id)) \subseteq Reads /\ CallsOf(Hearing(fun, key, id)) \subseteq Reads
  BY WalkKnown
<1>4. Answers(value, Walk(fun, key, id))
  BY <1>2, <1>3 DEF Answers, Truthful, CallsOf
<1>5. InOrder(fun, key, Walk(fun, key, id))
  BY WalkInOrder
<1>6. Range(<<>>) = {} /\ Len(<<>>) = 0
  BY DEF Range
<1>7. InOrder(fun, key, <<>>) /\ Answers(value, <<>>)
  <2>1. \A j \in 1 .. Len(<<>>) : FALSE
    OBVIOUS
  <2> QED BY <1>6, <2>1 DEF InOrder, Answers
<1>8. Hearing(fun, key, id) \in Seq(Range(Hearing(fun, key, id)))
  BY WalkKnown DEF IsPairs
<1>9. ASSUME ~Contradicted(fun, key, id), NEW q \in Range(Hearing(fun, key, id)),
             NEW d \in Range(slot)
      PROVE  ~Differs(stack[d].con, q.call, q.ret)
  <2>1. CASE Original
    BY <1>9, <2>1 DEF Hearing, Contradicted
  <2>2. CASE ~Original
    BY <1>6, <1>9, <2>2 DEF Hearing
  <2> QED BY <2>1, <2>2
<1> QED BY <1>3, <1>4, <1>5, <1>7, <1>8, <1>9 DEF Hearing

(* A lookup finds one entry at most *)
LEMMA OneHit ==
  ASSUME IInv, NEW fun \in Funs, NEW key, NEW id,
         NEW e \in Hits(fun, key, id), NEW g \in Hits(fun, key, id)
  PROVE  e = g
<1>1. /\ e \in caches[fun] /\ g \in caches[fun] /\ e.key = key /\ g.key = key
      /\ \A q \in Range(e.path) \cup Range(g.path) : Oracle(fun, id)[q.call] = q.ret
  BY DEF Hits, Matching, OfKey, Matches
<1>2. /\ e.path \in Seq(Range(e.path)) /\ g.path \in Seq(Range(g.path))
  BY <1>1 DEF IInv, CachesShaped, EntriesShaped, IsPairs
<1>3. SUFFICES ASSUME e # g PROVE FALSE
  OBVIOUS
<1>4. Diverge(e.path, g.path)
  BY <1>1, <1>3 DEF IInv, OneEntryMatches
<1>5. PICK n \in DOMAIN e.path \cap DOMAIN g.path :
        e.path[n].call = g.path[n].call /\ e.path[n].ret # g.path[n].ret
  BY <1>4 DEF Diverge
<1>6. e.path[n] \in Range(e.path) /\ g.path[n] \in Range(g.path)
  BY DEF Range
<1> QED BY <1>1, <1>5, <1>6

(* Its age is no part of what an entry says *)
LEMMA EntryAges ==
  ASSUME NEW fun, NEW e, DOMAIN e = EntryFields, EntryTrue(fun, e), NEW age
  PROVE  EntryTrue(fun, [e EXCEPT !.age = age])
<1> DEFINE g == [e EXCEPT !.age = age]
<1>1. g.key = e.key /\ g.path = e.path /\ g.value = e.value /\ g.mutable = e.mutable
  BY DEF EntryFields
<1> HIDE DEF g
<1>2. EntryTrue(fun, g)
  BY <1>1 DEF EntryTrue, Stands
<1> QED BY <1>2 DEF g

(* A hit makes an entry young and leaves it true *)
LEMMA EntriesHit ==
  ASSUME IInv, EntriesTrue, NEW fun \in Funs, NEW e \in caches[fun],
         caches' = [caches EXCEPT ![fun] = (@ \ {e}) \cup {[e EXCEPT !.age = 0]}]
  PROVE  EntriesTrue'
<1>1. DOMAIN caches = Funs /\ DOMAIN e = EntryFields
  BY DEF IInv, CachesShaped, EntriesShaped
<1>2. EntryTrue(fun, [e EXCEPT !.age = 0])
  BY <1>1, EntryAges DEF EntriesTrue
<1>3. \A f \in Funs : \A g \in caches'[f] : g \in caches[f] \/ (f = fun /\ g = [e EXCEPT !.age = 0])
  BY <1>1
<1> QED BY <1>2, <1>3 DEF EntriesTrue

(* Caches that stay as they are stay true *)
LEMMA EntriesKept ==
  ASSUME EntriesTrue, caches' = caches
  PROVE  EntriesTrue'
  BY DEF EntriesTrue

(* Without running calls nothing is to be said of them *)
LEMMA NoCalls ==
  ASSUME NEW s
  PROVE  CallsTrue(s, <<>>)
<1>1. \A d \in 1 .. Len(<<>>) : FALSE
  OBVIOUS
<1> QED BY <1>1 DEF CallsTrue, TracesTrue, Recalled, Kinds, OutermostTrue

(* Nothing happens to the tracked value and to what is recorded of it *)
LEMMA Silent ==
  /\ Range(<<>>) = {} /\ CallsOf(<<>>) = {} /\ <<>> \in Seq(Writes)
  /\ <<>> \in Seq(Range(<<>>))
  /\ \A s : Answers(s, <<>>)
  /\ \A old : Poses(old, <<>>)
<1>1. Range(<<>>) = {} /\ <<>> \in Seq(Writes) /\ <<>> \in Seq(Range(<<>>))
  BY DEF Range
<1>2. \A j \in 1 .. Len(<<>>) : FALSE
  OBVIOUS
<1> QED BY <1>1, <1>2 DEF CallsOf, Answers, Poses

(* A call hits *)
LEMMA HitTrue ==
  ASSUME OperationsKnown, CallsKnown, Uniform, ReadsFirst, PureBodies,
         IInv, VInv, RInv, VInv', IInv', ~panicked,
         NEW fun \in Funs, NEW key, NEW id, Truthful(id), Hit(fun, key, id),
         Running => NextOp.op = "call" /\ fun = NextOp.fun /\ key = NextOp.key,
         Running /\ Len(stack') = Len(stack) =>
           \E e \in Hits(fun, key, id) : \A d \in Range(slot) :
             Range(e.path) \subseteq Range(stack'[d].con.immutable)
  PROVE  CallsTrue(value', stack') /\ EntriesTrue'
<1>1. CallsTrue(value, stack) /\ EntriesTrue /\ Kinds(stack)
  BY DEF RInv, CallsTrue
<1>2. PICK e, mid :
        /\ e \in Hits(fun, key, id) /\ e \in caches[fun] /\ e.mutable \in Seq(Range(e.mutable))
        /\ caches' = [caches EXCEPT ![fun] = (@ \ {e}) \cup {[e EXCEPT !.age = 0]}]
        /\ value' = Replay(e.mutable, value)
        /\ Heard(stack, Hearing(fun, key, id), e.mutable, mid)
        /\ stack' = Deliver(mid, e.value)
        /\ Complete(mid, fun, key, value, e.value, TRUE, e.path)
  BY <1>1, HitHears
<1>3. EntriesTrue'
  BY <1>1, <1>2, EntriesHit
<1>4. /\ FramesInv(stack) /\ Plain(stack) /\ IsChain(slot, stack, Len(stack))
      /\ Len(stack) \in Nat /\ DOMAIN stack = 1 .. Len(stack)
      /\ \A d \in 1 .. Len(stack) : stack[d].mode = "recorded" => d \in Range(slot)
      /\ Running => Top = stack[Len(stack)] /\ NextOp = Next1(stack) /\ Len(stack) # 0
  BY <1>1, Setting
<1>5. SameCalls(stack, mid) /\ FramesInv(mid) /\ Len(mid) = Len(stack)
  BY <1>2, <1>4, HeardSame
<1>6. CASE ~Running
  <2>1. stack = <<>> /\ Len(stack) = 0
    BY <1>6 DEF Running
  <2>2. mid = <<>>
    <3>1. mid \in Seq(Range(mid)) /\ Len(mid) = 0
      BY <1>5, <2>1 DEF FramesInv, Shaped
    <3> QED BY <3>1
  <2>3. stack' = <<>>
    BY <1>2, <2>2 DEF Deliver
  <2> QED BY <1>3, <2>3, NoCalls
<1>7. CASE Running
  <2> DEFINE new == Deliver(mid, e.value)
             order == Hearing(fun, key, id)
  <2>1. Next1(stack).op = "call" /\ fun = Next1(stack).fun /\ key = Next1(stack).key
    BY <1>4, <1>7
  <2>2. /\ InOrder(fun, key, order) /\ Answers(value, order) /\ CallsOf(order) \subseteq Reads
        /\ order \in Seq(Range(order))
        /\ \A q \in Range(order), d \in Range(slot) : ~Differs(stack[d].con, q.call, q.ret)
    BY <1>1, HearingTrue DEF Hit
  <2>3. Poses(stack, order)
    <3>1. Memoized(fun, key)
      BY DEF Hit
    <3> HIDE DEF order
    <3> QED BY <1>4, <2>1, <2>2, <3>1, CallPoses
  <2>4. EntryTrue(fun, e) /\ e.key = key
    BY <1>1, <1>2 DEF EntriesTrue, Hits, Matching, OfKey
  <2>5. Leads(stack, new, e.path, e.mutable)
    BY <1>4, <1>5, <2>1, <2>4, HitLeads DEF EntryTrue
  <2>6. Copies(mid, new) /\ Len(new) = Len(mid)
    BY <1>5, CopiesAre
  <2>7. \A q \in Range(e.path) : q.call \in Reads /\ Result(q.call, value) = q.ret
    BY <1>2, HitAnswers
  <2>8. Answers(value, e.path)
    BY <2>7 DEF Answers
  <2>9. e.mutable \in Seq(Writes)
    BY <1>2 DEF VInv, EntriesKnown
  <2>10. \A d \in Range(slot) : Range(e.path) \subseteq Range(mid[d].con.immutable)
    <3>1. PICK g \in Hits(fun, key, id) : \A d \in Range(slot) :
            Range(g.path) \subseteq Range(stack'[d].con.immutable)
      BY <1>2, <1>5, <1>7, <2>6
    <3>2. g = e
      BY <1>2, OneHit
    <3>3. \A d \in Range(slot) : d \in 1 .. Len(mid) /\ d <= Len(mid)
      BY <1>4, <1>5 DEF IsChain
    <3>4. \A d \in Range(slot) : stack'[d].con = mid[d].con
      BY <1>2, <2>6, <3>3 DEF Copies
    <3> QED BY <3>1, <3>2, <3>4
  <2>11. Top.fun \in Pure => FALSE
    <3>1. NextOp.fun \notin Pure
      BY <1>7 DEF Hit
    <3> QED BY <1>7, <3>1 DEF PureBodies, NextOp
  <2>12. FramesInv(new) /\ FramesKnown(new) /\ Len(new) <= Len(stack)
    <3>1. FramesInv(stack') /\ FramesKnown(stack')
      BY DEF IInv, VInv
    <3> QED BY <1>2, <1>4, <1>5, <2>6, <3>1
  <2>13. FramesKnown(stack) /\ value \in States
    BY DEF VInv
  <2> HIDE DEF new, order
  <2>14. Progress(new, value', e.path, e.mutable, order)
    BY <1>1, <1>2, <2>2, <2>3, <2>5, <2>6, <2>8, <2>9, <2>10, <2>11, HeardProgress DEF order
  <2>15. CallsTrue(value', new)
    BY <1>1, <1>4, <1>7, <2>12, <2>13, <2>14, ProgressWithin DEF Running
  <2> QED BY <1>2, <1>3, <2>15 DEF new
<1> QED BY <1>6, <1>7

(* A hit on a function without tracked parameters (src/lib/memoize.mbt:121-139) *)
LEMMA PureHitTrue ==
  ASSUME OperationsKnown, CallsKnown, Uniform, ReadsFirst, PureBodies,
         IInv, VInv, RInv, VInv', IInv', ~panicked,
         NEW fun \in Funs, NEW key, PureHit(fun, key),
         Running => NextOp.op = "call" /\ fun = NextOp.fun /\ key = NextOp.key
  PROVE  CallsTrue(value', stack') /\ EntriesTrue'
<1>1. CallsTrue(value, stack) /\ EntriesTrue /\ Kinds(stack)
  BY DEF RInv, CallsTrue
<1>2. PICK e \in OfKey(caches[fun], key) :
        /\ caches' = [caches EXCEPT ![fun] = (@ \ {e}) \cup {[e EXCEPT !.age = 0]}]
        /\ value' = value /\ stack' = Deliver(stack, e.value)
  BY DEF PureHit, Complete
<1>3. e \in caches[fun] /\ e.key = key /\ fun \in Pure
  BY DEF OfKey, PureHit
<1>4. EntriesTrue'
  BY <1>1, <1>2, <1>3, EntriesHit
<1>5. /\ FramesInv(stack) /\ Plain(stack)
      /\ Len(stack) \in Nat /\ DOMAIN stack = 1 .. Len(stack)
      /\ Running => Top = stack[Len(stack)] /\ NextOp = Next1(stack) /\ Len(stack) # 0
  BY <1>1, Setting
<1>6. Heard(stack, <<>>, <<>>, stack)
  BY <1>5, NothingHeard
<1>7. SameCalls(stack, stack)
  BY <1>5, <1>6, HeardSame
<1>8. CASE ~Running
  <2>1. stack = <<>>
    BY <1>8 DEF Running
  <2>2. stack' = <<>>
    BY <1>2, <2>1 DEF Deliver
  <2> QED BY <1>4, <2>2, NoCalls
<1>9. CASE Running
  <2> DEFINE new == Deliver(stack, e.value)
  <2>1. EntryTrue(fun, e) /\ e.path = <<>> /\ e.mutable = <<>>
    BY <1>1, <1>3 DEF EntriesTrue, EntryTrue
  <2>2. Leads(stack, new, e.path, e.mutable)
    BY <1>3, <1>5, <1>7, <1>9, <2>1, HitLeads DEF EntryTrue
  <2>3. Copies(stack, new) /\ Len(new) = Len(stack)
    BY <1>5, CopiesAre
  <2>4. FramesInv(new) /\ FramesKnown(new) /\ FramesKnown(stack) /\ value \in States
    BY <1>2 DEF IInv, VInv
  <2> HIDE DEF new
  <2>5. Replay(<<>>, value) = value
    BY ReplayFew
  <2>6. /\ Range(<<>>) = {} /\ CallsOf(<<>>) = {} /\ <<>> \in Seq(Writes)
        /\ Answers(value, <<>>) /\ Poses(stack, <<>>) /\ <<>> \in Seq(Range(<<>>))
    BY Silent
  <2>7. Leads(stack, new, <<>>, <<>>)
    BY <2>1, <2>2
  <2>8. Progress(new, value, <<>>, <<>>, <<>>)
    BY <1>1, <1>6, <2>3, <2>5, <2>6, <2>7, HeardProgress
  <2>9. Len(new) <= Len(stack)
    BY <1>5, <2>3
  <2>10. CallsTrue(value, new)
    BY <1>1, <1>5, <1>9, <2>4, <2>8, <2>9, ProgressWithin DEF Running
  <2> QED BY <1>2, <1>4, <2>10 DEF new
<1> QED BY <1>8, <1>9

(* A call begins to run *)
LEMMA OpeningTrue ==
  ASSUME OperationsKnown, CallsKnown, Uniform, ReadsFirst, PureBodies,
         IInv, VInv, RInv, VInv', IInv', ~panicked,
         NEW fun \in Funs, NEW key, NEW id, NEW mode,
         NEW order, InOrder(fun, key, order), Answers(value, order), CallsOf(order) \subseteq Reads,
         Memoized(fun, key) \/ order = <<>>, order \in Seq(Range(order)),
         \A q \in Range(order), d \in Range(slot) : ~Differs(stack[d].con, q.call, q.ret),
         NEW mid, Heard(stack, order, <<>>, mid),
         stack' = Append(mid, Frame(fun, key, id, mode)), value' = value, caches' = caches,
         mode \in {"bypassed", "recorded"} \/ fun \in Pure,
         Running => NextOp.op = "call" /\ fun = NextOp.fun /\ key = NextOp.key,
         ~Running => key \in Args
  PROVE  CallsTrue(value', stack') /\ EntriesTrue'
<1>1. CallsTrue(value, stack) /\ EntriesTrue /\ Kinds(stack)
  BY DEF RInv, CallsTrue
<1>2. /\ FramesInv(stack) /\ Plain(stack)
      /\ Len(stack) \in Nat /\ DOMAIN stack = 1 .. Len(stack)
      /\ Running => Top = stack[Len(stack)] /\ NextOp = Next1(stack) /\ Len(stack) # 0
  BY <1>1, Setting
<1>3. SameCalls(stack, mid) /\ FramesInv(mid) /\ Len(mid) = Len(stack)
  BY <1>2, HeardSame
<1> DEFINE x == Frame(fun, key, id, mode)
           new == Append(mid, x)
<1>4. x.fun = fun /\ Bare(x) = Direct!Opened(fun, key)
  BY DEF Frame, Bare, Direct!Opened
<1>5. FramesInv(new) /\ FramesKnown(new) /\ FramesKnown(stack) /\ value \in States
  BY DEF IInv, VInv
<1>6. Copies(mid, new)
  BY <1>3, CopiesAre
<1> HIDE DEF x
<1>7. Poses(stack, order) /\ Leads(stack, new, <<>>, <<>>)
  <2>1. CASE Running
    <3>1. Next1(stack).op = "call" /\ fun = Next1(stack).fun /\ key = Next1(stack).key
      BY <1>2, <2>1
    <3>2. Poses(stack, order)
      BY <1>2, <3>1, CallPoses, Silent
    <3>3. Leads(stack, new, <<>>, <<>>)
      BY <1>2, <1>3, <1>4, <3>1, CallLeads
    <3> QED BY <3>2, <3>3
  <2>2. CASE ~Running
    <3>1. \A d \in 1 .. Len(stack) : FALSE
      BY <2>2 DEF Running
    <3> HIDE DEF new
    <3> QED BY <3>1 DEF Poses, Leads
  <2> QED BY <2>1, <2>2
<1>8. Running /\ Top.fun \in Pure => fun \in Pure
  BY DEF PureBodies, NextOp
<1>9. /\ Range(<<>>) = {} /\ <<>> \in Seq(Writes) /\ Answers(value, <<>>)
      /\ Replay(<<>>, value) = value
  BY Silent, ReplayFew
<1> HIDE DEF new
<1>10. Progress(new, value, <<>>, <<>>, order)
  BY <1>1, <1>6, <1>7, <1>9, HeardProgress
<1>11. /\ stack # <<>> /\ stack[Len(stack)].fun \in Pure => fun \in Pure
       /\ stack = <<>> => key \in Args
  BY <1>2, <1>8 DEF Running
<1>12. CallsTrue(value, new)
  BY <1>1, <1>2, <1>3, <1>5, <1>10, <1>11, ProgressOpened DEF new, x
<1>13. EntriesTrue'
  BY <1>1, EntriesKept
<1> QED BY <1>12, <1>13 DEF new, x

(* A recorder that finds another answer for a call it has, has heard a     *)
(* write since, and one that changes answers.                              *)
LEMMA Blames ==
  ASSUME OperationsKnown, IInv, VInv, RInv, ~panicked, NEW d \in Range(slot), NEW call,
         Differs(stack[d].con, call, Result(call, value))
  PROVE  ~Neutral /\ \E i \in DOMAIN stack : stack[i].con.mutable # <<>>
<1> DEFINE x == stack[d]
<1>1. /\ d \in 1 .. Len(stack) /\ d \in DOMAIN stack /\ x.mode = "recorded"
  BY Setting DEF IsChain
<1>2. Answers(x.before, x.con.immutable) /\ value = Replay(x.con.mutable, x.before)
  BY <1>1 DEF RInv, CallsTrue, Recalled, Tracked
<1>3. Known(x.con) /\ x.before \in States
  BY <1>1 DEF VInv, FramesKnown
<1>4. PICK p \in Range(x.con.immutable) : p.call = call /\ p.ret # Result(call, value)
  BY DEF Differs
<1> HIDE DEF x
<1>5. Result(call, x.before) # Result(call, value)
  BY <1>2, <1>4 DEF Answers
<1>6. call \in Reads
  BY <1>3, <1>4 DEF Known, CallsOf
<1>7. x.con.mutable # <<>>
  BY <1>2, <1>5, ReplayFew
<1>8. ~Neutral
  BY <1>2, <1>3, <1>5, <1>6, ReplayKnown DEF Known
<1> QED BY <1>1, <1>7, <1>8 DEF x

(* A lookup or a read that ends the program *)
LEMMA PanicsBlame ==
  ASSUME OperationsKnown, IInv, VInv, RInv, ~panicked
  PROVE  /\ ReadPanic => ~Neutral /\ \E i \in DOMAIN stack : stack[i].con.mutable # <<>>
         /\ \A fun \in Funs : \A key, id :
              Truthful(id) /\ LookupPanic(fun, key, id) =>
                ~Neutral /\ \E i \in DOMAIN stack : stack[i].con.mutable # <<>>
<1>1. ASSUME ReadPanic
      PROVE  ~Neutral /\ \E i \in DOMAIN stack : stack[i].con.mutable # <<>>
  <2>1. PICK d \in Range(slot) : Differs(stack[d].con, NextOp.call, Result(NextOp.call, value))
    BY <1>1 DEF ReadPanic, Impure, Seen
  <2> QED BY <2>1, Blames
<1>2. ASSUME NEW fun \in Funs, NEW key, NEW id, Truthful(id), LookupPanic(fun, key, id)
      PROVE  ~Neutral /\ \E i \in DOMAIN stack : stack[i].con.mutable # <<>>
  <2>1. PICK q \in Range(Walk(fun, key, id)), d \in Range(slot) :
          Differs(stack[d].con, q.call, q.ret)
    BY <1>2 DEF LookupPanic, Contradicted
  <2>2. EntriesTrue
    BY DEF RInv
  <2>3. q.ret = Result(q.call, value)
    BY <1>2, <2>2, HearingTrue DEF Answers
  <2>4. Differs(stack[d].con, q.call, Result(q.call, value))
    BY <2>1, <2>3
  <2> QED BY <2>4, Blames
<1> QED BY <1>1, <1>2

(* A call of a memoized function: a hit, a miss, a bypass, or one of a pure *)
(* function. On a nested hit the recorders must have heard the path of the  *)
(* entry before, as NestedHitRecorded says.                                 *)
LEMMA CallTrue ==
  ASSUME OperationsKnown, CallsKnown, Uniform, ReadsFirst, PureBodies,
         IInv, VInv, RInv, VInv', IInv', ~panicked,
         NEW fun \in Funs, NEW key, NEW id, Truthful(id), Call(fun, key, id),
         Running => NextOp.op = "call" /\ fun = NextOp.fun /\ key = NextOp.key,
         ~Running => key \in Args,
         Running /\ ~panicked' /\ Len(stack') = Len(stack) =>
           \E e \in Hits(fun, key, id) : \A d \in Range(slot) :
             Range(e.path) \subseteq Range(stack'[d].con.immutable)
  PROVE  RInv'
<1>1. EntriesTrue
  BY DEF RInv
<1>3. ASSUME ~panicked', CallsTrue(value', stack') /\ EntriesTrue' PROVE RInv'
  BY <1>3 DEF RInv, OnlyWritersBlamed
<1>4. /\ InOrder(fun, key, Hearing(fun, key, id))
      /\ Answers(value, Hearing(fun, key, id)) /\ CallsOf(Hearing(fun, key, id)) \subseteq Reads
      /\ Hearing(fun, key, id) \in Seq(Range(Hearing(fun, key, id)))
      /\ ~Contradicted(fun, key, id) =>
           \A q \in Range(Hearing(fun, key, id)), d \in Range(slot) :
             ~Differs(stack[d].con, q.call, q.ret)
  BY <1>1, HearingTrue
<1>5. /\ InOrder(fun, key, <<>>) /\ Answers(value, <<>>) /\ CallsOf(<<>>) \subseteq Reads
      /\ <<>> \in Seq(Range(<<>>))
      /\ \A q \in Range(<<>>), d \in Range(slot) : ~Differs(stack[d].con, q.call, q.ret)
  <2>1. \A j \in 1 .. Len(<<>>) : FALSE
    OBVIOUS
  <2> QED BY <2>1, Silent DEF InOrder
<1>6. FramesInv(stack)
  BY DEF IInv
<1>7. CASE Hit(fun, key, id)
  <2>1. ~panicked'
    BY <1>7 DEF Hit
  <2>2. Running /\ Len(stack') = Len(stack) =>
           \E e \in Hits(fun, key, id) : \A d \in Range(slot) :
             Range(e.path) \subseteq Range(stack'[d].con.immutable)
    BY <2>1
  <2>3. CallsTrue(value', stack') /\ EntriesTrue'
    BY <1>7, <2>2, HitTrue
  <2> QED BY <1>3, <2>1, <2>3
<1>8. CASE Miss(fun, key, id)
  <2>1. /\ ~Contradicted(fun, key, id) /\ ~panicked' /\ Memoized(fun, key)
        /\ stack' = Append(Told(fun, key, id), Frame(fun, key, id, "recorded"))
        /\ value' = value /\ caches' = caches
    BY <1>8 DEF Miss
  <2>2. Heard(stack, Hearing(fun, key, id), <<>>, Told(fun, key, id))
    BY <2>1, ToldHeard
  <2>3. CallsTrue(value', stack') /\ EntriesTrue'
    BY <1>4, <2>1, <2>2, OpeningTrue
  <2> QED BY <1>3, <2>1, <2>3
<1>9. CASE PureHit(fun, key)
  <2>1. ~panicked'
    BY <1>9 DEF PureHit
  <2>2. CallsTrue(value', stack') /\ EntriesTrue'
    BY <1>9, PureHitTrue
  <2> QED BY <1>3, <2>1, <2>2
<1>10. CASE PureMiss(fun, key, id) \/ Bypass(fun, key, id)
  <2>1. PICK mode : /\ stack' = Append(stack, Frame(fun, key, id, mode))
                    /\ mode \in {"bypassed", "recorded"} \/ fun \in Pure
                    /\ value' = value /\ caches' = caches /\ ~panicked'
    BY <1>10 DEF PureMiss, Bypass
  <2>2. Heard(stack, <<>>, <<>>, stack)
    BY <1>6, NothingHeard
  <2>3. CallsTrue(value', stack') /\ EntriesTrue'
    BY <1>5, <2>1, <2>2, OpeningTrue
  <2> QED BY <1>3, <2>1, <2>3
<1>11. CASE LookupPanic(fun, key, id)
  <2>1. stack' = stack /\ value' = value /\ caches' = caches
    BY <1>11 DEF LookupPanic
  <2>2. \E i \in DOMAIN stack : stack[i].con.mutable # <<>>
    BY <1>11, PanicsBlame
  <2>3. EntriesTrue'
    BY <1>1, <2>1, EntriesKept
  <2> QED BY <2>1, <2>2, <2>3 DEF RInv, OnlyWritersBlamed
<1> QED BY <1>7, <1>8, <1>9, <1>10, <1>11 DEF Call

(* The body reads or writes the tracked value *)
LEMMA BodyTrue ==
  ASSUME OperationsKnown, CallsKnown, Uniform, ReadsFirst, PureBodies,
         IInv, VInv, RInv, VInv', IInv', ~panicked,
         BodyRead \/ BodyWrite
  PROVE  CallsTrue(value', stack') /\ EntriesTrue'
<1>1. CallsTrue(value, stack) /\ EntriesTrue /\ Kinds(stack)
  BY DEF RInv, CallsTrue
<1>2. Running /\ caches' = caches
  BY DEF BodyRead, BodyWrite
<1>3. /\ FramesInv(stack) /\ Plain(stack)
      /\ Len(stack) \in Nat /\ DOMAIN stack = 1 .. Len(stack)
      /\ Top = stack[Len(stack)] /\ NextOp = Next1(stack) /\ Len(stack) # 0
  BY <1>1, <1>2, Setting
<1>4. EntriesTrue'
  BY <1>1, <1>2, EntriesKept
<1>5. Top.fun \notin Pure /\ Top.fun \in Funs
  <2>1. NextOp.op \in {"read", "write"}
    BY DEF BodyRead, BodyWrite
  <2>2. NextOp.op \notin {"call", "return"}
    BY <2>1
  <2>3. Top.fun \notin Pure
    BY <2>2 DEF PureBodies, NextOp
  <2> QED BY <1>2, <1>3, <2>3, Innermost
<1>6. FramesInv(stack') /\ FramesKnown(stack') /\ FramesKnown(stack) /\ value \in States
  BY DEF IInv, VInv
<1>7. /\ Range(<<>>) = {} /\ CallsOf(<<>>) = {} /\ <<>> \in Seq(Writes)
      /\ Answers(value, <<>>) /\ Poses(stack, <<>>) /\ Replay(<<>>, value) = value
      /\ <<>> \in Seq(Range(<<>>))
  BY Silent, ReplayFew
<1>8. CASE BodyRead
  <2> DEFINE pair == [call |-> NextOp.call, ret |-> Seen]
  <2>1. NextOp.op = "read" /\ value' = value
    BY <1>8 DEF BodyRead
  <2>2. PICK mid : Heard(stack, <<pair>>, <<>>, mid) /\ stack' = Deliver(mid, Seen)
    BY <1>8, BodyHears
  <2>3. SameCalls(stack, mid) /\ FramesInv(mid) /\ Len(mid) = Len(stack)
    BY <1>3, <2>2, HeardSame
  <2> DEFINE new == Deliver(mid, Seen)
             order == <<pair>>
  <2>4. Leads(stack, new, order, <<>>) /\ Poses(stack, order)
    BY <1>3, <2>1, <2>3, ReadLeads, ReadPoses
  <2>5. Copies(mid, new) /\ Len(new) = Len(mid)
    BY <2>3, CopiesAre
  <2>6. NextOp.call \in Reads
    BY <1>5, <2>1 DEF OperationsKnown, NextOp
  <2>7. pair.call = NextOp.call /\ pair.ret = Result(NextOp.call, value)
    BY DEF Seen
  <2>8. Range(order) = {pair} /\ order \in Seq(Range(order))
    <3> HIDE DEF pair
    <3> QED BY DEF Range
  <2>85. \A q \in Range(order), d \in Range(slot) : ~Differs(stack[d].con, q.call, q.ret)
    BY <1>8, <2>8 DEF BodyRead, Impure
  <2> HIDE DEF pair, new, order
  <2>9. Answers(value, order) /\ CallsOf(order) \subseteq Reads
    BY <2>6, <2>7, <2>8 DEF Answers, CallsOf
  <2>10. Heard(stack, order, <<>>, mid)
    BY <2>2 DEF order
  <2>11. \A d \in Range(slot) : Range(order) \subseteq Range(mid[d].con.immutable)
    <3> SUFFICES ASSUME NEW d \in Range(slot)
                 PROVE  Range(order) \subseteq Range(mid[d].con.immutable)
      OBVIOUS
    <3>1. d \in 1 .. Len(stack)
      BY <1>1, Setting DEF IsChain
    <3>2. Hears(stack[d].con, order, <<>>, mid[d].con)
      BY <2>10, <3>1 DEF Heard
    <3> QED BY <3>2, HearsWhat
  <2>12. Progress(new, value', order, <<>>, order)
    BY <1>1, <1>5, <1>7, <2>1, <2>4, <2>5, <2>8, <2>85, <2>9, <2>10, <2>11, HeardProgress
  <2>13. FramesInv(new) /\ FramesKnown(new) /\ Len(new) <= Len(stack)
    BY <1>3, <1>6, <2>2, <2>3, <2>5 DEF new
  <2>14. CallsTrue(value', new)
    BY <1>1, <1>2, <1>3, <1>6, <2>12, <2>13, ProgressWithin DEF Running
  <2> QED BY <1>4, <2>2, <2>14 DEF new
<1>9. CASE BodyWrite
  <2> DEFINE calls == <<NextOp.call>>
  <2>1. NextOp.op = "write" /\ value' = Effect(NextOp.call, value)
    BY <1>9 DEF BodyWrite
  <2>2. PICK mid : Heard(stack, <<>>, calls, mid) /\ stack' = Deliver(mid, Unit)
    BY <1>9, BodyHears
  <2>3. SameCalls(stack, mid) /\ FramesInv(mid) /\ Len(mid) = Len(stack)
    BY <1>3, <2>2, HeardSame
  <2> DEFINE new == Deliver(mid, Unit)
  <2>4. Leads(stack, new, <<>>, calls)
    BY <1>3, <2>1, <2>3, WriteLeads
  <2>5. Copies(mid, new) /\ Len(new) = Len(mid)
    BY <2>3, CopiesAre
  <2>6. NextOp.call \in Writes
    BY <1>5, <2>1 DEF OperationsKnown, NextOp
  <2>7. calls \in Seq(Writes) /\ value' = Replay(calls, value)
    BY <2>1, <2>6, ReplayFew
  <2> HIDE DEF calls, new
  <2>8. Progress(new, value', <<>>, calls, <<>>)
    BY <1>1, <1>5, <1>7, <2>2, <2>4, <2>5, <2>7, HeardProgress
  <2>9. FramesInv(new) /\ FramesKnown(new) /\ Len(new) <= Len(stack)
    BY <1>3, <1>6, <2>2, <2>3, <2>5 DEF new
  <2>10. CallsTrue(value', new)
    BY <1>1, <1>2, <1>3, <1>6, <2>8, <2>9, ProgressWithin DEF Running
  <2> QED BY <1>4, <2>2, <2>10 DEF new
<1> QED BY <1>8, <1>9

(* The innermost call returns *)
LEMMA ReturnTrue ==
  ASSUME OperationsKnown, CallsKnown, Uniform, ReadsFirst, PureBodies,
         IInv, VInv, RInv, VInv', IInv', ~panicked,
         Running, NextOp.op = "return", stack' = Deliver(Front(stack), NextOp.value),
         value' = value
  PROVE  CallsTrue(value', stack')
<1>1. CallsTrue(value, stack) /\ Kinds(stack)
  BY DEF RInv, CallsTrue
<1>2. /\ FramesInv(stack) /\ Plain(stack) /\ IsChain(slot, stack, Len(stack))
      /\ Len(stack) \in Nat /\ DOMAIN stack = 1 .. Len(stack)
      /\ Top = stack[Len(stack)] /\ NextOp = Next1(stack) /\ Len(stack) # 0 /\ stack # <<>>
  BY <1>1, Setting DEF Running
<1> DEFINE new == Deliver(Front(stack), NextOp.value)
<1>3. Len(new) = Len(stack) - 1 /\ Leads(stack, new, <<>>, <<>>)
  BY <1>2, ReturnLeads
<1>4. Copies(stack, new)
  BY <1>2, CopiesAre
<1>5. Heard(stack, <<>>, <<>>, stack)
  BY <1>2, NothingHeard
<1>6. /\ Range(<<>>) = {} /\ CallsOf(<<>>) = {} /\ <<>> \in Seq(Writes)
      /\ Answers(value, <<>>) /\ Poses(stack, <<>>) /\ Replay(<<>>, value) = value
      /\ <<>> \in Seq(Range(<<>>))
  BY Silent, ReplayFew
<1>7. FramesInv(new) /\ FramesKnown(new) /\ FramesKnown(stack) /\ value \in States
  BY DEF IInv, VInv
<1> HIDE DEF new
<1>8. Progress(new, value, <<>>, <<>>, <<>>)
  BY <1>1, <1>3, <1>4, <1>5, <1>6, HeardProgress
<1>9. Len(new) <= Len(stack)
  BY <1>2, <1>3
<1>10. CallsTrue(value, new)
  BY <1>1, <1>2, <1>7, <1>8, <1>9, ProgressWithin
<1> QED BY <1>10 DEF new

(* The path an insertion makes asks what the function asks, in the order   *)
(* it does: on the way of an entry before it, and then as recorded.        *)
LEMMA NewPathInOrder ==
  ASSUME NEW entries, EntriesShaped(entries), AllPart(entries), NEW fun, NEW key,
         \A e \in OfKey(entries, key) : InOrder(fun, key, e.path),
         NEW pairs, IsPairs(pairs), InOrder(fun, key, pairs),
         ~AlreadyThere(entries, key, pairs), ~LacksCall(entries, key, pairs)
  PROVE  InOrder(fun, key, NewPath(entries, key, pairs))
<1> DEFINE u == NewPath(entries, key, pairs)
<1>1. IsFiniteSet(entries) /\ \A e \in entries : IsPairs(e.path)
  BY DEF EntriesShaped
<1>2. \A n \in 1 .. Len(u) :
        \/ \E e \in OfKey(entries, key) :
             /\ n \in 1 .. Len(e.path) /\ e.path[n].call = u[n].call
             /\ \A i \in 1 .. n - 1 : e.path[i] = u[i]
        \/ \E k \in 1 .. Len(pairs) :
             /\ u[n] = pairs[k]
             /\ \A h \in 1 .. k - 1 : \E l \in 1 .. n - 1 : u[l] = pairs[h]
  <2> HIDE DEF u
  <2>1. u = NewPath(entries, key, pairs)
    BY DEF u
  <2>2. LET w == NewPath(entries, key, pairs) IN
          \A n \in 1 .. Len(w) :
            \/ \E e \in OfKey(entries, key) :
                 /\ n \in 1 .. Len(e.path) /\ e.path[n].call = w[n].call
                 /\ \A i \in 1 .. n - 1 : e.path[i] = w[i]
            \/ \E k \in 1 .. Len(pairs) :
                 /\ w[n] = pairs[k]
                 /\ \A h \in 1 .. k - 1 : \E l \in 1 .. n - 1 : w[l] = pairs[h]
    BY <1>1, InsertionOrder
  <2> QED BY <2>1, <2>2
<1> HIDE DEF u
<1>3. ASSUME NEW s \in States, NEW n \in 1 .. Len(u), AnswersTo(s, u, n - 1)
      PROVE  Asks(Direct!Start(fun, key, s), u[n].call)
  <2>1. CASE \E e \in OfKey(entries, key) :
               /\ n \in 1 .. Len(e.path) /\ e.path[n].call = u[n].call
               /\ \A i \in 1 .. n - 1 : e.path[i] = u[i]
    <3>1. PICK e \in OfKey(entries, key) :
               /\ n \in 1 .. Len(e.path) /\ e.path[n].call = u[n].call
               /\ \A i \in 1 .. n - 1 : e.path[i] = u[i]
      BY <2>1
    <3>2. AnswersTo(s, e.path, n - 1)
      BY <1>3, <3>1 DEF AnswersTo
    <3> QED BY <3>1, <3>2 DEF InOrder
  <2>2. CASE \E k \in 1 .. Len(pairs) :
               /\ u[n] = pairs[k]
               /\ \A h \in 1 .. k - 1 : \E l \in 1 .. n - 1 : u[l] = pairs[h]
    <3>1. PICK k \in 1 .. Len(pairs) :
               /\ u[n] = pairs[k]
               /\ \A h \in 1 .. k - 1 : \E l \in 1 .. n - 1 : u[l] = pairs[h]
      BY <2>2
    <3>2. AnswersTo(s, pairs, k - 1)
      BY <1>3, <3>1 DEF AnswersTo
    <3> QED BY <3>1, <3>2 DEF InOrder
  <2> QED BY <1>2, <2>1, <2>2
<1> QED BY <1>3 DEF InOrder, u

(* What a running call that returns has recorded is a true entry *)
LEMMA EntryOfReturn ==
  ASSUME OperationsKnown, CallsKnown, IInv, RInv, ~panicked, Running, NextOp.op = "return",
         Top.mode # "bypassed",
         NEW path, IsPairs(path), Range(path) = Range(Top.con.immutable)
  PROVE  Stands(Top.fun, NewEntry(path))
<1> DEFINE L == Len(stack)
           y == NewEntry(path)
           imm == Top.con.immutable
           mut == Top.con.mutable
<1>1. TracesTrue(stack) /\ Kinds(stack)
  BY DEF RInv, CallsTrue
<1>2. /\ Plain(stack) /\ L \in Nat /\ Top = stack[L] /\ NextOp = Next1(stack)
      /\ L # 0 /\ stack # <<>>
  BY <1>1, Setting DEF Running
<1>3. L \in 1 .. L
  BY <1>2
<1>4. Tracked(Top)
  BY <1>1, <1>2, <1>3 DEF Kinds
<1>5. Retraced(stack, L)
  BY <1>1, <1>2, <1>3, <1>4 DEF TracesTrue
<1>6. y.key = Top.key /\ y.path = path /\ y.mutable = mut /\ y.value = NextOp.value
  BY DEF NewEntry
<1>7. CallsOf(path) = CallsOf(imm)
  BY DEF CallsOf
<1> HIDE DEF y
<1>8. ASSUME NEW s \in States, Answers(s, path)
      PROVE  \E Y \in SUBSET CallsOf(path) :
               Reaches(Direct!Start(Top.fun, Top.key, s),
                       Configuration(<<>>, Replay(mut, s), Y, NextOp.value))
  <2>1. Answers(s, imm)
    BY <1>8 DEF Answers
  <2>2. PICK Y \in SUBSET CallsOf(imm) :
          Reaches(Direct!Start(Top.fun, Top.key, s), At(stack, L, Replay(mut, s), Y))
    BY <1>2, <1>5, <2>1 DEF Retraced
  <2>3. Reaches(At(stack, L, Replay(mut, s), Y), Configuration(<<>>, Replay(mut, s), Y, NextOp.value))
    BY <1>2, ReturnEnds
  <2>4. Reaches(Direct!Start(Top.fun, Top.key, s),
                Configuration(<<>>, Replay(mut, s), Y, NextOp.value))
    BY <2>2, <2>3, ReachesOn
  <2> QED BY <2>4, <1>7
<1> QED BY <1>6, <1>8 DEF Stands, y

(* So the insertion adds a true entry *)
LEMMA InsertTrue ==
  ASSUME OperationsKnown, CallsKnown, IInv, RInv, ~panicked, Running, NextOp.op = "return",
         Top.mode # "bypassed", caches' = Inserted
  PROVE  EntriesTrue'
<1>1. EntriesTrue /\ TracesTrue(stack) /\ Kinds(stack)
  BY DEF RInv, CallsTrue
<1>2. CASE AlreadyThere(Tree, Top.key, Top.con.immutable) \/ Torn
  <2>1. caches' = caches
    BY <1>2 DEF Inserted
  <2> QED BY <1>1, <2>1, EntriesKept
<1>3. CASE ~(AlreadyThere(Tree, Top.key, Top.con.immutable) \/ Torn)
  <2> DEFINE imm == Top.con.immutable
             path == NewPath(Tree, Top.key, imm)
             y == NewEntry(path)
             L == Len(stack)
  <2>1. /\ L \in 1 .. L /\ Top = stack[L] /\ L \in DOMAIN stack /\ FramesInv(stack)
    BY <1>1, Setting DEF Running
  <2>2. Top.fun \in Funs /\ IsConstraint(Top.con) /\ IsPairs(imm)
    BY <2>1 DEF FramesInv, Shaped, IsConstraint
  <2>3. Tracked(Top) /\ InOrder(Top.fun, Top.key, imm)
    BY <1>1, <2>1 DEF Kinds, TracesTrue
  <2>4. EntriesShaped(Tree) /\ AllPart(Tree) /\ DOMAIN caches = Funs
    BY <2>2 DEF IInv, CachesShaped, OneEntryMatches, AllPart, Tree
  <2>5. IsFiniteSet(Tree) /\ \A e \in Tree : IsPairs(e.path)
    BY <2>4 DEF EntriesShaped
  <2>6. ~AlreadyThere(Tree, Top.key, imm) /\ ~LacksCall(Tree, Top.key, imm)
    BY <1>3 DEF Torn
  <2>7. /\ IsPairs(path) /\ Range(path) = Range(imm)
        /\ \A g \in OfKey(Tree, Top.key) : Diverge(path, g.path)
    BY <2>2, <2>4, <2>5, <2>6, InsertionFits
  <2>8. \A e \in OfKey(Tree, Top.key) : InOrder(Top.fun, Top.key, e.path)
    BY <1>1, <2>2 DEF OfKey, EntriesTrue, EntryTrue, Tree
  <2>9. InOrder(Top.fun, Top.key, path)
    BY <2>2, <2>3, <2>4, <2>6, <2>8, NewPathInOrder
  <2>10. caches' = [caches EXCEPT ![Top.fun] = @ \cup {y}]
    BY <1>3 DEF Inserted
  <2> HIDE DEF path
  <2>11. Stands(Top.fun, y)
    BY <2>7, EntryOfReturn
  <2>12. y.key = Top.key /\ y.path = path /\ y.mutable = Top.con.mutable
    BY DEF NewEntry
  <2>13. Top.fun \in Pure => path = <<>> /\ Top.con.mutable = <<>>
    <3>1. SUFFICES ASSUME Top.fun \in Pure PROVE path = <<>> /\ Top.con.mutable = <<>>
      OBVIOUS
    <3>2. Top.con = EmptyConstraint
      BY <2>1, <3>1 DEF FramesInv, Shaped
    <3>3. imm = <<>> /\ Top.con.mutable = <<>>
      BY <3>2 DEF EmptyConstraint
    <3>4. Range(path) = {}
      BY <3>3, <2>7, Silent
    <3>5. path \in Seq(Range(path)) /\ Len(path) \in Nat /\ \A i \in 1 .. Len(path) : path[i] \in Range(path)
      BY <2>7, Elements DEF IsPairs
    <3>6. Len(path) = 0
      BY <3>4, <3>5
    <3>7. path = <<>>
      BY <3>5, <3>6
    <3> QED BY <3>3, <3>7
  <2> HIDE DEF y
  <2>14. EntryTrue(Top.fun, y)
    BY <2>9, <2>11, <2>12, <2>13 DEF EntryTrue
  <2>15. ASSUME NEW f \in Funs, NEW e \in caches'[f] PROVE EntryTrue(f, e)
    <3>1. CASE e \in caches[f]
      BY <1>1, <3>1 DEF EntriesTrue
    <3>2. CASE e \notin caches[f]
      <4>1. f = Top.fun /\ e = y
        BY <3>2, <2>4, <2>10, <2>15
      <4> QED BY <4>1, <2>14
    <3> QED BY <3>1, <3>2
  <2> QED BY <2>15 DEF EntriesTrue
<1> QED BY <1>2, <1>3

(* No recorded call is missing when a body is done: a question of the tree *)
(* that its answers lead to is one that the body asked.                    *)
LEMMA NotTorn ==
  ASSUME OperationsKnown, CallsKnown, IInv, VInv, RInv, ~panicked, Running, NextOp.op = "return",
         Top.mode # "bypassed"
  PROVE  ~Torn
<1> DEFINE L == Len(stack)
           imm == Top.con.immutable
           before == Top.before
           c == Direct!Start(Top.fun, Top.key, before)
<1>1. EntriesTrue /\ Recalled(value, stack) /\ Kinds(stack)
  BY DEF RInv, CallsTrue
<1>2. L \in 1 .. L /\ Top = stack[L] /\ L \in DOMAIN stack /\ FramesInv(stack)
  BY <1>1, Setting DEF Running
<1>3. /\ Top.fun \in Funs /\ IsPairs(imm) /\ before \in States
      /\ Tracked(Top) /\ Answers(before, imm)
  <2>1. Top.fun \in Funs /\ IsPairs(imm) /\ before \in States
    BY <1>2 DEF FramesInv, Shaped, IsConstraint, VInv, FramesKnown
  <2>2. Tracked(Top)
    BY <1>1, <1>2 DEF Kinds
  <2>3. Answers(before, imm)
    BY <1>1, <1>2, <2>2 DEF Recalled
  <2> QED BY <2>1, <2>2, <2>3
<1>4. Stands(Top.fun, NewEntry(imm))
  BY <1>3, EntryOfReturn
<1>5. PICK Y \in SUBSET CallsOf(imm) :
        Reaches(c, Configuration(<<>>, Replay(Top.con.mutable, before), Y, NextOp.value))
  <2> DEFINE y == NewEntry(imm)
  <2>1. y.key = Top.key /\ y.path = imm /\ y.mutable = Top.con.mutable /\ y.value = NextOp.value
    BY DEF NewEntry
  <2> HIDE DEF y
  <2> QED BY <1>1, <1>3, <1>4, <2>1 DEF Stands, y
<1>6. SUFFICES ASSUME NEW x \in Reached(Tree, Top.key, imm) PROVE x.call \in CallsOf(imm)
  BY DEF Torn, LacksCall
<1>7. PICK e \in OfKey(Tree, Top.key) : \E n \in DOMAIN e.path :
        x = [at |-> Prefix(e.path, n - 1), call |-> e.path[n].call]
  BY DEF Reached, Questions
<1>8. PICK n \in DOMAIN e.path : x.at = Prefix(e.path, n - 1) /\ x.call = e.path[n].call
  BY <1>7
<1>9. e \in caches[Top.fun] /\ e.key = Top.key
  BY DEF OfKey, Tree
<1>10. e.path \in Seq(Range(e.path)) /\ Len(e.path) \in Nat /\ n \in 1 .. Len(e.path)
  BY <1>3, <1>9, Elements DEF IInv, CachesShaped, EntriesShaped, IsPairs
<1>11. InOrder(Top.fun, Top.key, e.path)
  BY <1>1, <1>3, <1>9 DEF EntriesTrue, EntryTrue
<1>12. AnswersTo(before, e.path, n - 1)
  <2> DEFINE p == e.path
             m == n - 1
  <2>1. m \in 0 .. Len(p) /\ p \in Seq(Range(p))
    BY <1>10
  <2> HIDE DEF p, m
  <2>2. Range(Prefix(p, m)) = {p[i] : i \in 1 .. m}
    BY <2>1, PrefixShape
  <2>3. Range(x.at) = {p[i] : i \in 1 .. m}
    BY <2>2, <1>8 DEF p, m
  <2>4. \A i \in 1 .. m : p[i] \in Range(imm)
    BY <2>3 DEF Reached, Follows
  <2> QED BY <2>4, <1>3 DEF AnswersTo, Answers, p, m
<1>13. Asks(c, e.path[n].call)
  BY <1>1, <1>3, <1>10, <1>11, <1>12 DEF InOrder
<1>14. IsConfiguration(c)
  BY <1>3, StartParts
<1> DEFINE d == Configuration(<<>>, Replay(Top.con.mutable, before), Y, NextOp.value)
<1>15. d.frames = <<>> /\ d.asked = Y
  BY ConfigurationParts
<1> HIDE DEF c, d
<1>16. e.path[n].call \in d.asked
  BY <1>5, <1>13, <1>14, <1>15, AskedInTheEnd DEF d
<1> QED BY <1>8, <1>15, <1>16

(* Every step whose nested hits are recorded leaves the soundness invariant *)
(* true: one case for each action.                                          *)
LEMMA TruthStep ==
  ASSUME OperationsKnown, CallsKnown, Uniform, ReadsFirst, PureBodies, ChangesSeen,
         IInv, VInv, NInv, AInv, RInv, VInv', IInv', [Next /\ NestedHitRecorded]_vars
  PROVE  RInv'
<1>1. /\ EntriesTrue /\ CallsTrue(value, stack) /\ FramesInv(stack)
      /\ \A f \in Funs : \A e \in caches[f] : DOMAIN e = EntryFields
  BY DEF RInv, IInv, CachesShaped, EntriesShaped
<1>2. CASE UNCHANGED vars
  <2>1. value' = value /\ stack' = stack /\ caches' = caches /\ panicked' = panicked
    BY <1>2 DEF vars
  <2>2. EntriesTrue'
    BY <1>1, <2>1, EntriesKept
  <2> QED BY <2>1, <2>2 DEF RInv, OnlyWritersBlamed
<1>25. ASSUME ~panicked', CallsTrue(value', stack') /\ EntriesTrue' PROVE RInv'
  BY <1>25 DEF RInv, OnlyWritersBlamed
<1>3. CASE TopCall
  <2>1. PICK fun \in Funs, key \in Args : Call(fun, key, view')
    BY <1>3 DEF TopCall
  <2>2. Truthful(view')
    BY <1>3, TopTruthful
  <2>3. ~Running /\ ~panicked
    BY <1>3 DEF TopCall
  <2> HIDE DEF RInv
  <2> QED BY <2>1, <2>2, <2>3, CallTrue
<1>4. CASE BodyCall /\ NestedHitRecorded
  <2> DEFINE id == IF NextOp.reborrow THEN nextId ELSE Top.id
             fun == NextOp.fun
             key == NextOp.key
  <2>1. Running /\ ~panicked /\ NextOp.op = "call" /\ Call(fun, key, id)
    BY <1>4 DEF BodyCall
  <2>2. fun \in Funs
    BY <1>1, <2>1, Innermost DEF CallsKnown, NextOp
  <2>3. Truthful(id)
    BY <1>1, <2>1, NestedTruthful
  <2>4. Running /\ ~panicked' /\ Len(stack') = Len(stack) =>
          \E e \in Hits(fun, key, id) : \A d \in Range(slot) :
            Range(e.path) \subseteq Range(stack'[d].con.immutable)
    BY <1>4 DEF NestedHitRecorded
  <2>5. fun = NextOp.fun /\ key = NextOp.key
    OBVIOUS
  <2> HIDE DEF id, fun, key
  <2> QED BY <2>1, <2>2, <2>3, <2>4, <2>5, CallTrue
<1>5. CASE Edit
  <2>1. stack' = <<>> /\ caches' = caches /\ ~panicked'
    BY <1>5 DEF Edit, Running
  <2>2. EntriesTrue'
    BY <1>1, <2>1, EntriesKept
  <2>3. CallsTrue(value', stack')
    BY <2>1, NoCalls
  <2> QED BY <1>25, <2>1, <2>2, <2>3
<1>6. CASE EvictAnswers
  <2>1. stack' = <<>> /\ caches' = caches /\ ~panicked'
    BY <1>6 DEF EvictAnswers, Running
  <2>2. EntriesTrue'
    BY <1>1, <2>1, EntriesKept
  <2>3. CallsTrue(value', stack')
    BY <2>1, NoCalls
  <2> QED BY <1>25, <2>1, <2>2, <2>3
<1>7. ASSUME NEW m \in 0 .. MaxAge, Evict(m) PROVE RInv'
  <2>1. stack' = <<>> /\ ~panicked'
    BY <1>7 DEF Evict, Running
  <2>2. ASSUME NEW f \in Funs, NEW g \in caches'[f] PROVE EntryTrue(f, g)
    <3>1. PICK e \in caches[f] : g = [e EXCEPT !.age = @ + 1]
      BY <1>7, <2>2 DEF Evict
    <3>2. DOMAIN e = EntryFields /\ EntryTrue(f, e)
      BY <1>1 DEF EntriesTrue
    <3> DEFINE age == e.age + 1
    <3>3. g = [e EXCEPT !.age = age]
      BY <3>1
    <3> HIDE DEF age
    <3>4. EntryTrue(f, [e EXCEPT !.age = age])
      BY <3>2, EntryAges
    <3> QED BY <3>3, <3>4
  <2>3. EntriesTrue'
    BY <2>2 DEF EntriesTrue
  <2>4. CallsTrue(value', stack')
    BY <2>1, NoCalls
  <2> QED BY <1>25, <2>1, <2>3, <2>4
<1>8. CASE BodyRead \/ BodyWrite
  <2>1. ~panicked /\ ~panicked'
    BY <1>8 DEF BodyRead, BodyWrite
  <2>2. CallsTrue(value', stack') /\ EntriesTrue'
    BY <1>8, <2>1, BodyTrue
  <2> QED BY <1>25, <2>1, <2>2
<1>9. CASE ReadPanic
  <2>1. stack' = stack /\ value' = value /\ caches' = caches /\ ~panicked
    BY <1>9 DEF ReadPanic
  <2>2. \E i \in DOMAIN stack : stack[i].con.mutable # <<>>
    BY <1>9, <2>1, PanicsBlame
  <2>3. EntriesTrue'
    BY <1>1, <2>1, EntriesKept
  <2> QED BY <1>1, <2>1, <2>2, <2>3 DEF RInv, OnlyWritersBlamed
<1>10. ASSUME NextOp.op = "return", Running, ~panicked, Top.mode # "bypassed" PROVE ~Torn
  BY <1>10, NotTorn
<1>11. CASE BypassReturn \/ InsertReturn \/ InsertSwallow
  <2>1. /\ Running /\ NextOp.op = "return" /\ value' = value
        /\ ~panicked /\ panicked' = panicked
    BY <1>11 DEF BypassReturn, InsertReturn, InsertSwallow, Close
  <2>2. stack' = Deliver(Front(stack), NextOp.value)
    BY <1>11 DEF BypassReturn, InsertReturn, InsertSwallow, Close, Complete
  <2>3. CallsTrue(value', stack')
    BY <2>1, <2>2, ReturnTrue
  <2>4. EntriesTrue'
    <3>1. CASE BypassReturn
      BY <1>1, <3>1, EntriesKept DEF BypassReturn
    <3>2. CASE InsertReturn \/ InsertSwallow
      <4>1. caches' = Inserted /\ Top.mode # "bypassed"
        BY <3>2 DEF InsertReturn, InsertSwallow, Close
      <4> QED BY <2>1, <4>1, InsertTrue
    <3> QED BY <1>11, <3>1, <3>2
  <2> QED BY <1>25, <2>1, <2>3, <2>4
<1>12. ~InsertPanic
  BY <1>10 DEF InsertPanic
<1> QED BY <1>2, <1>3, <1>4, <1>5, <1>6, <1>7, <1>8, <1>9, <1>11, <1>12 DEF Next

(* The soundness invariant holds before the first call *)
LEMMA TruthInitially == Init => RInv
<1> SUFFICES ASSUME Init PROVE RInv
  OBVIOUS
<1>1. stack = <<>> /\ panicked = FALSE /\ \A f \in Funs : caches[f] = {}
  BY DEF Init
<1>2. CallsTrue(value, stack)
  BY <1>1, NoCalls
<1> QED BY <1>1, <1>2 DEF RInv, EntriesTrue, OnlyWritersBlamed

(* and always, in a behaviour whose nested hits are recorded *)
LEMMA TruthAlways ==
  ASSUME OperationsKnown, CallsKnown, Uniform, ReadsFirst, PureBodies, ChangesSeen
  PROVE  Spec /\ NestedReadsRecorded => [](IInv /\ VInv /\ NInv /\ AInv /\ RInv)
<1>1. Init => RInv
  BY TruthInitially
<1>2. IInv /\ VInv /\ NInv /\ AInv /\ RInv /\ IInv' /\ VInv' /\ [Next /\ NestedHitRecorded]_vars => RInv'
  BY TruthStep
<1>3. [Next]_vars /\ [NestedHitRecorded]_vars => [Next /\ NestedHitRecorded]_vars
  OBVIOUS
<1> QED BY <1>1, <1>2, <1>3, AnswersAlways, PTL DEF Spec, NestedReadsRecorded

(* A panic of the runtime is about a call that has written: two runs that    *)
(* give the same answers to the recorded calls leave constraints that ask    *)
(* the same things in the same order, so insert meets no question that its   *)
(* constraint has no answer for (src/lib/memoize.mbt:101-108, tree.mbt:157), *)
(* and a recorder that has heard no write is never told of another answer.   *)
THEOREM OnlyWritersAreBlamed ==
  ASSUME OperationsKnown, CallsKnown, Uniform, ReadsFirst, PureBodies, ChangesSeen
  PROVE  Spec /\ NestedReadsRecorded => []OnlyWritersBlamed
<1>1. RInv => OnlyWritersBlamed
  BY DEF RInv
<1> QED BY <1>1, TruthAlways, PTL

(* and if its writes changed no answer, there is no panic *)
LEMMA CalmStep ==
  ASSUME OperationsKnown, CallsKnown, Neutral, ChangesSeen, IInv, VInv, NInv, AInv, RInv,
         ~panicked, [Next]_vars
  PROVE  ~panicked'
<1>1. ASSUME NEW fun \in Funs, NEW key, NEW id, Truthful(id), Call(fun, key, id)
      PROVE  ~panicked'
  <2>1. ~LookupPanic(fun, key, id)
    BY <1>1, PanicsBlame
  <2> QED BY <1>1, <2>1 DEF Call, Hit, Miss, PureHit, PureMiss, Bypass
<1>2. CASE TopCall
  <2>1. PICK fun \in Funs, key \in Args : Call(fun, key, view')
    BY <1>2 DEF TopCall
  <2>2. Truthful(view')
    BY <1>2, TopTruthful
  <2> QED BY <1>1, <2>1, <2>2
<1>3. CASE BodyCall
  <2> DEFINE id == IF NextOp.reborrow THEN nextId ELSE Top.id
             fun == NextOp.fun
             key == NextOp.key
  <2>1. Running /\ NextOp.op = "call" /\ Call(fun, key, id)
    BY <1>3 DEF BodyCall
  <2>2. fun \in Funs
    BY <2>1, Innermost DEF CallsKnown, NextOp, IInv
  <2>3. Truthful(id)
    BY <2>1, NestedTruthful DEF IInv
  <2> HIDE DEF id, fun, key
  <2> QED BY <1>1, <2>1, <2>2, <2>3
<1>4. ~ReadPanic
  BY PanicsBlame
<1>5. ~InsertPanic
  BY NotTorn DEF InsertPanic
<1>6. CASE UNCHANGED vars
  BY <1>6 DEF vars
<1>7. CASE Edit \/ EvictAnswers \/ (\E m \in 0 .. MaxAge : Evict(m)) \/ BodyRead \/ BodyWrite
           \/ BypassReturn \/ InsertReturn \/ InsertSwallow
  BY <1>7 DEF Edit, EvictAnswers, Evict, BodyRead, BodyWrite, BypassReturn, InsertReturn,
              InsertSwallow, Close
<1> QED BY <1>2, <1>3, <1>4, <1>5, <1>6, <1>7 DEF Next

(* Programs whose nested hits are recorded, and whose writes change no *)
(* answer, never panic.                                                *)
THEOREM NoPanic ==
  ASSUME OperationsKnown, CallsKnown, Neutral, PureBodies, ChangesSeen
  PROVE  Spec /\ NestedReadsRecorded => []NeverPanics
<1>1. Uniform /\ ReadsFirst
  BY NeutralReads
<1>2. Spec /\ NestedReadsRecorded => [](IInv /\ VInv /\ NInv /\ AInv /\ RInv)
  BY <1>1, TruthAlways
<1>3. Init => NeverPanics
  BY DEF Init, NeverPanics
<1>4. IInv /\ VInv /\ NInv /\ AInv /\ RInv /\ NeverPanics /\ [Next]_vars => NeverPanics'
  BY CalmStep DEF NeverPanics
<1> QED BY <1>2, <1>3, <1>4, PTL DEF Spec

(* A run as Direct!Runs has it, when every length counts *)
LEMMA RunsWhole ==
  ASSUME Steps = Nat, NEW fun, NEW key, NEW s, NEW t, NEW Y, NEW val,
         Reaches(Direct!Start(fun, key, s), Configuration(<<>>, t, Y, val))
  PROVE  Direct!Runs(fun, key, s, val, t)
<1>1. PICK n \in Nat : Direct!Moves(Direct!Start(fun, key, s), n) = Configuration(<<>>, t, Y, val)
  BY DEF Reaches
<1> QED BY <1>1, ConfigurationParts DEF Direct!Runs

(* Every cached entry tells the truth about its function: in any state that  *)
(* answers the recorded calls as recorded, running the function from scratch *)
(* gives the recorded value, has the effect of the recorded writes, and asks *)
(* no more than what was recorded (src/lib/cache.mbt:93-103).                *)
THEOREM EntriesAreSound ==
  ASSUME OperationsKnown, CallsKnown, Uniform, ReadsFirst, PureBodies, ChangesSeen, Steps = Nat
  PROVE  Spec /\ NestedReadsRecorded => []EntriesSound
<1>1. RInv => EntriesSound
  <2> SUFFICES ASSUME RInv, NEW f \in Funs, NEW e \in caches[f], NEW s \in States,
                      \A q \in Range(e.path) : Result(q.call, s) = q.ret
               PROVE  Direct!Runs(f, e.key, s, e.value, Replay(e.mutable, s))
    BY DEF EntriesSound
  <2>1. Stands(f, e)
    BY DEF RInv, EntriesTrue, EntryTrue
  <2>2. PICK Y \in SUBSET CallsOf(e.path) :
          Reaches(Direct!Start(f, e.key, s),
                  Configuration(<<>>, Replay(e.mutable, s), Y, e.value))
    BY <2>1 DEF Stands, Answers
  <2> QED BY <2>2, RunsWhole
<1> QED BY <1>1, TruthAlways, PTL

-----------------------------------------------------------------------------
(* The refinement. *)

(* The tracked value and the last call as DirectExecution sees them *)
Outside == IF Running THEN stack[1].before ELSE value

Answered ==
  IF last.op = "call"
    THEN [op |-> "call", fun |-> last.fun, key |-> last.key,
          before |-> last.before, value |-> last.value, after |-> last.after]
    ELSE [op |-> "none"]

(* What a step may do to them: nothing, a call, or an edit or an eviction *)
Unseen == Outside' = Outside /\ Answered' = Answered

Served(fun, key, val) ==
  /\ Answered' = [op |-> "call", fun |-> fun, key |-> key, before |-> Outside,
                  value |-> val, after |-> Outside']
  /\ Direct!Runs(fun, key, Outside, val, Outside')

Between == Outside' \in States /\ Answered' = [op |-> "none"]

Visible == Unseen \/ Between \/ \E fun \in Funs, key \in Args : \E val : Served(fun, key, val)

(* What can be seen of a step is a step of DirectExecution, or none *)
LEMMA VisibleIsDirect ==
  ASSUME Visible
  PROVE  [Direct!Next]_<<Outside, Answered>>
<1>1. CASE Unseen
  BY <1>1 DEF Unseen
<1>2. CASE Between
  <2>1. Direct!Edit
    BY <1>2 DEF Between, Direct!Edit, Outside, Answered
  <2> QED BY <2>1 DEF Direct!Next
<1>3. ASSUME NEW fun \in Funs, NEW key \in Args, NEW val, Served(fun, key, val)
      PROVE  Direct!Next
  <2>1. Answered'.op = "call" /\ Answered'.value = val
    BY <1>3 DEF Served
  <2>2. Direct!Call(fun, key)
    BY <1>3, <2>1 DEF Served, Direct!Call, Outside, Answered
  <2> QED BY <2>2 DEF Direct!Next
<1> QED BY <1>1, <1>2, <1>3 DEF Visible

(* A step of a body cannot be seen while its outermost call goes on *)
LEMMA WithinUnseen ==
  ASSUME Running, stack' # <<>>, stack'[1].before = stack[1].before, last' = last
  PROVE  Visible
<1>1. Outside' = Outside
  BY DEF Outside, Running
<1>2. Answered' = Answered
  BY DEF Answered
<1> QED BY <1>1, <1>2 DEF Visible, Unseen

(* A call that returns to the top level has been seen *)
LEMMA CompletedServed ==
  ASSUME NEW fun \in Funs, NEW key \in Args, NEW val, NEW hit, NEW path,
         Complete(<<>>, fun, key, Outside, val, hit, path),
         Direct!Runs(fun, key, Outside, val, value')
  PROVE  Visible
<1>1. stack' = <<>>
  BY DEF Complete, Deliver
<1>2. Outside' = value'
  BY <1>1 DEF Outside, Running
<1>3. last' = [op |-> "call", fun |-> fun, key |-> key, before |-> Outside,
               value |-> val, after |-> value', hit |-> hit, path |-> path]
  BY DEF Complete
<1>4. Answered' = [op |-> "call", fun |-> fun, key |-> key, before |-> Outside,
                   value |-> val, after |-> value']
  BY <1>3 DEF Answered
<1> QED BY <1>2, <1>4 DEF Visible, Served

(* A top-level call that is answered without running shows what running shows *)
(* (src/lib/memoize.mbt:67-82)                                                *)
LEMMA TopVisible ==
  ASSUME OperationsKnown, CallsKnown, Steps = Nat, IInv, VInv, RInv, ~Running, ~panicked,
         NEW fun \in Funs, NEW key \in Args, NEW id, Truthful(id), Call(fun, key, id)
  PROVE  Visible
<1>1. /\ EntriesTrue /\ stack = <<>> /\ FramesInv(stack) /\ value \in States
      /\ Len(stack) = 0 /\ Outside = value
  BY DEF RInv, Running, IInv, VInv, Outside
<1>2. ASSUME NEW frames, Same(stack, frames) PROVE frames = <<>>
  BY <1>1, <1>2 DEF Same
<1>3. ASSUME NEW e \in caches[fun], e.key = key, Answers(value, e.path)
      PROVE  Direct!Runs(fun, key, Outside, e.value, Replay(e.mutable, value))
  <2>1. Stands(fun, e)
    BY <1>1 DEF EntriesTrue, EntryTrue
  <2>2. PICK Y \in SUBSET CallsOf(e.path) :
          Reaches(Direct!Start(fun, e.key, value),
                  Configuration(<<>>, Replay(e.mutable, value), Y, e.value))
    BY <1>1, <1>3, <2>1 DEF Stands
  <2> QED BY <1>1, <1>3, <2>2, RunsWhole
<1>4. CASE Hit(fun, key, id)
  <2>1. PICK e, mid :
          /\ e \in Hits(fun, key, id) /\ e \in caches[fun] /\ e.mutable \in Seq(Range(e.mutable))
          /\ caches' = [caches EXCEPT ![fun] = (@ \ {e}) \cup {[e EXCEPT !.age = 0]}]
          /\ value' = Replay(e.mutable, value)
          /\ Heard(stack, Hearing(fun, key, id), e.mutable, mid)
          /\ stack' = Deliver(mid, e.value)
          /\ Complete(mid, fun, key, value, e.value, TRUE, e.path)
    BY <1>1, <1>4, HitHears
  <2>2. mid = <<>>
    BY <1>2, <2>1 DEF Heard
  <2>3. \A q \in Range(e.path) : q.call \in Reads /\ Result(q.call, value) = q.ret
    BY <2>1, HitAnswers
  <2>4. Answers(value, e.path) /\ e.key = key
    BY <2>1, <2>3 DEF Answers, Hits, Matching, OfKey
  <2>5. Direct!Runs(fun, key, Outside, e.value, value')
    BY <1>3, <2>1, <2>4
  <2> QED BY <1>1, <2>1, <2>2, <2>5, CompletedServed
<1>5. CASE PureHit(fun, key)
  <2>1. PICK e \in OfKey(caches[fun], key) :
          e.path = <<>> /\ Complete(stack, fun, key, value, e.value, TRUE, <<>>)
    BY <1>5 DEF PureHit
  <2>2. e \in caches[fun] /\ e.key = key /\ value' = value
    BY <1>5 DEF OfKey, PureHit
  <2>3. Answers(value, e.path)
    BY <2>1, Silent
  <2>4. fun \in Pure /\ e.mutable = <<>>
    BY <1>1, <1>5, <2>2 DEF PureHit, EntriesTrue, EntryTrue
  <2>5. Replay(e.mutable, value) = value
    BY <2>4, ReplayFew
  <2>6. Direct!Runs(fun, key, Outside, e.value, value')
    BY <1>3, <2>2, <2>3, <2>5
  <2> QED BY <1>1, <2>1, <2>6, CompletedServed
<1>6. CASE Miss(fun, key, id) \/ PureMiss(fun, key, id) \/ Bypass(fun, key, id)
  <2>1. PICK mid, mode : Same(stack, mid) /\ stack' = Append(mid, Frame(fun, key, id, mode))
    <3>1. Same(stack, stack)
      BY <1>1, NothingHeard DEF Heard
    <3>2. CASE Miss(fun, key, id)
      <4>1. Same(stack, Told(fun, key, id))
        BY <1>1, <3>2, ToldKeeps DEF Miss
      <4> QED BY <3>2, <4>1 DEF Miss
    <3>3. CASE PureMiss(fun, key, id) \/ Bypass(fun, key, id)
      BY <3>1, <3>3 DEF PureMiss, Bypass
    <3> QED BY <1>6, <3>2, <3>3
  <2>2. stack' = <<Frame(fun, key, id, mode)>>
    <3> DEFINE x == Frame(fun, key, id, mode)
    <3>1. mid = <<>> /\ stack' = Append(mid, x)
      BY <1>2, <2>1
    <3> HIDE DEF x
    <3>2. stack' = <<x>>
      BY <3>1
    <3> QED BY <3>2 DEF x
  <2>3. stack' # <<>> /\ stack'[1].before = value
    BY <2>2 DEF Frame
  <2>4. Outside' = value
    BY <2>3 DEF Outside, Running
  <2>5. last' = last
    BY <1>6 DEF Miss, PureMiss, Bypass
  <2>6. Answered' = Answered
    BY <2>5 DEF Answered
  <2> QED BY <1>1, <2>4, <2>6 DEF Visible, Unseen
<1>7. CASE LookupPanic(fun, key, id)
  BY <1>7 DEF LookupPanic, Visible, Unseen, Outside, Answered, Running
<1> QED BY <1>4, <1>5, <1>6, <1>7 DEF Call

(* and so does every step: calls that run show nothing until they return. *)
LEMMA VisibleStep ==
  ASSUME OperationsKnown, CallsKnown, ChangesSeen, Steps = Nat,
         IInv, VInv, NInv, AInv, RInv, [Next]_vars
  PROVE  Visible
<1>1. CallsTrue(value, stack) /\ FramesInv(stack)
  BY DEF RInv, IInv
<1>2. ASSUME stack' = stack, value' = value, last' = last PROVE Visible
  BY <1>2 DEF Visible, Unseen, Outside, Answered, Running
<1>3. CASE UNCHANGED vars
  BY <1>2, <1>3 DEF vars
<1>4. CASE TopCall
  <2>1. PICK fun \in Funs, key \in Args : Call(fun, key, view')
    BY <1>4 DEF TopCall
  <2>2. Truthful(view')
    BY <1>4, TopTruthful
  <2>3. ~Running /\ ~panicked
    BY <1>4 DEF TopCall
  <2> QED BY <2>1, <2>2, <2>3, TopVisible
<1>5. CASE Edit
  <2>1. Outside' \in States
    BY <1>5, WorldsAssumption DEF Edit, Outside, Running
  <2>2. Answered' = [op |-> "none"]
    BY <1>5 DEF Edit, Answered
  <2> QED BY <2>1, <2>2 DEF Visible, Between
<1>6. CASE EvictAnswers \/ \E m \in 0 .. MaxAge : Evict(m)
  <2>1. Outside' \in States
    BY <1>6 DEF EvictAnswers, Evict, Outside, Running, VInv
  <2>2. Answered' = [op |-> "none"]
    BY <1>6 DEF EvictAnswers, Evict, Answered
  <2> QED BY <2>1, <2>2 DEF Visible, Between
<1>7. CASE ReadPanic \/ InsertPanic
  BY <1>2, <1>7 DEF ReadPanic, InsertPanic
<1>8. ASSUME Running, ~panicked
      PROVE  /\ Len(stack) \in Nat \ {0} /\ DOMAIN stack = 1 .. Len(stack) /\ stack # <<>>
             /\ Top = stack[Len(stack)] /\ Top.fun \in Funs /\ Plain(stack)
             /\ NextOp = Next1(stack)
  BY <1>1, <1>8, Innermost, Setting DEF Running
<1>9. ASSUME Running, ~panicked, NEW mid, Same(stack, mid), stack' = mid \/ (\E x : stack' = Append(mid, x)),
             last' = last
      PROVE  Visible
  <2>1. mid \in Seq(Range(mid)) /\ Len(mid) \in Nat \ {0} /\ mid[1].before = stack[1].before
    BY <1>8, <1>9 DEF Same
  <2>2. stack' # <<>> /\ stack'[1] = mid[1]
    <3>1. CASE stack' = mid
      <4>1. Len(<<>>) = 0
        OBVIOUS
      <4> QED BY <2>1, <3>1, <4>1
    <3>2. CASE \E x : stack' = Append(mid, x)
      <4>1. PICK x : stack' = Append(mid, x)
        BY <3>2
      <4>2. Len(Append(mid, x)) = Len(mid) + 1 /\ \A i \in 1 .. Len(mid) : Append(mid, x)[i] = mid[i]
        BY <2>1, Appended
      <4> QED BY <2>1, <4>1, <4>2
    <3> QED BY <1>9, <3>1, <3>2
  <2> QED BY <1>9, <2>1, <2>2, WithinUnseen
<1>10. CASE BodyRead \/ BodyWrite
  <2>1. Running /\ ~panicked /\ last' = last
    BY <1>10 DEF BodyRead, BodyWrite
  <2>2. \E mid, pairs, calls, v : Heard(stack, pairs, calls, mid) /\ stack' = Deliver(mid, v)
    BY <1>10, BodyHears
  <2>3. PICK mid, v : Same(stack, mid) /\ FramesInv(mid) /\ stack' = Deliver(mid, v)
    BY <2>2 DEF Heard
  <2>4. Same(mid, stack')
    BY <2>3, DeliverOnly
  <2>5. Same(stack, stack')
    BY <1>8, <2>1, <2>3, <2>4 DEF Same
  <2> QED BY <1>9, <2>1, <2>5
<1>11. CASE BodyCall
  <2> DEFINE fun == NextOp.fun
             key == NextOp.key
  <2>1. Running /\ ~panicked /\ NextOp.op = "call"
    BY <1>11 DEF BodyCall
  <2>2. fun \in Funs
    BY <1>1, <2>1, Innermost DEF CallsKnown, NextOp
  <2>3. PICK id : Call(fun, key, id)
    BY <1>11 DEF BodyCall
  <2>4. last' = last
    <3>1. CASE Hit(fun, key, id)
      <4>1. PICK e, mid :
              /\ e \in Hits(fun, key, id) /\ e \in caches[fun] /\ e.mutable \in Seq(Range(e.mutable))
              /\ caches' = [caches EXCEPT ![fun] = (@ \ {e}) \cup {[e EXCEPT !.age = 0]}]
              /\ value' = Replay(e.mutable, value)
              /\ Heard(stack, Hearing(fun, key, id), e.mutable, mid)
              /\ stack' = Deliver(mid, e.value)
              /\ Complete(mid, fun, key, value, e.value, TRUE, e.path)
        BY <1>1, <2>1, <2>2, <3>1, HitHears
      <4>2. Len(mid) = Len(stack)
        BY <4>1 DEF Heard, Same
      <4>3. mid # <<>>
        <5>1. Len(<<>>) = 0
          OBVIOUS
        <5> QED BY <5>1, <4>2, <1>8, <2>1
      <4> QED BY <4>1, <4>3 DEF Complete
    <3>2. CASE PureHit(fun, key)
      BY <2>1, <3>2 DEF PureHit, Complete, Running
    <3>3. CASE ~(Hit(fun, key, id) \/ PureHit(fun, key))
      BY <2>3, <3>3 DEF Call, Miss, LookupPanic, PureMiss, Bypass
    <3> QED BY <3>1, <3>2, <3>3
  <2>5. \/ Same(stack, stack')
        \/ \E mid, mode : /\ FramesInv(mid) /\ Same(stack, mid)
                          /\ stack' = Append(mid, Frame(fun, key, id, mode))
    BY <1>1, <2>1, <2>2, <2>3, CallFrames
  <2>6. PICK mid : Same(stack, mid) /\ (stack' = mid \/ \E x : stack' = Append(mid, x))
    BY <2>5
  <2> QED BY <1>9, <2>1, <2>4, <2>6
<1>12. CASE BypassReturn \/ InsertReturn \/ InsertSwallow
  <2>1. /\ Running /\ ~panicked /\ NextOp.op = "return" /\ value' = value
        /\ Complete(Front(stack), Top.fun, Top.key, Top.before, NextOp.value, FALSE, <<>>)
    BY <1>12 DEF BypassReturn, InsertReturn, InsertSwallow, Close
  <2>2. CASE Front(stack) = <<>>
    <3>1. Len(stack) = 1
      <4>1. Len(Front(stack)) = Len(stack) - 1
        BY <1>8, <2>1, MirrorShorter
      <4>2. Len(Front(stack)) = 0
        BY <2>2
      <4>3. Len(stack) \in Nat \ {0}
        BY <1>8, <2>1
      <4> QED BY <4>1, <4>2, <4>3
    <3>2. Top = stack[1] /\ Outside = Top.before
      BY <1>8, <2>1, <3>1 DEF Outside
    <3>3. /\ Top.key \in Args
          /\ \E X : Reaches(Direct!Start(Top.fun, Top.key, Top.before), At(stack, 1, value, X))
      BY <1>1, <1>8, <2>1, <3>2 DEF CallsTrue, OutermostTrue
    <3>4. PICK X : Reaches(Direct!Start(Top.fun, Top.key, Top.before), At(stack, 1, value, X))
      BY <3>3
    <3>5. Reaches(At(stack, 1, value, X), Configuration(<<>>, value, X, NextOp.value))
      BY <1>8, <2>1, <3>1, ReturnEnds
    <3>6. Reaches(Direct!Start(Top.fun, Top.key, Top.before), Configuration(<<>>, value, X, NextOp.value))
      BY <3>4, <3>5, ReachesOn
    <3>7. Direct!Runs(Top.fun, Top.key, Outside, NextOp.value, value')
      BY <2>1, <3>2, <3>6, RunsWhole
    <3>8. Complete(<<>>, Top.fun, Top.key, Outside, NextOp.value, FALSE, <<>>)
      BY <2>1, <2>2, <3>2
    <3> QED BY <1>8, <2>1, <3>3, <3>7, <3>8, CompletedServed
  <2>3. CASE Front(stack) # <<>>
    <3> DEFINE front == Front(stack)
    <3>1. last' = last /\ stack' = Deliver(front, NextOp.value)
      BY <2>1, <2>3 DEF Complete
    <3>2. /\ Plain(front) /\ Len(front) = Len(stack) - 1
          /\ \A i \in 1 .. Len(stack) - 1 : front[i] = stack[i]
      <4>1. stack \in Seq(Range(stack))
        BY <1>8, <2>1 DEF Plain
      <4> QED BY <1>8, <2>1, <4>1, Shortened, MirrorShorter
    <3>3. FramesInv(front)
      <4>1. IsChain(slot, stack, Len(stack))
        BY <2>1, Setting
      <4> QED BY <1>1, <1>8, <2>1, <4>1, Shorter
    <3> HIDE DEF front
    <3>4. Same(front, stack')
      BY <3>1, <3>3, DeliverOnly
    <3>5. Len(stack) - 1 # 0
      <4>1. front # <<>> /\ front \in Seq(Range(front))
        BY <2>3, <3>2 DEF front, Plain
      <4>2. Len(front) \in Nat \ {0}
        BY <4>1, Shortened
      <4> QED BY <3>2, <4>2
    <3>6. stack'[1].before = stack[1].before /\ Len(stack') # 0
      BY <1>8, <2>1, <3>2, <3>4, <3>5 DEF Same
    <3>7. stack' # <<>>
      <4>1. Len(<<>>) = 0
        OBVIOUS
      <4> QED BY <3>6, <4>1
    <3> QED BY <2>1, <3>1, <3>6, <3>7, WithinUnseen
  <2> QED BY <2>2, <2>3
<1> QED BY <1>3, <1>4, <1>5, <1>6, <1>7, <1>10, <1>11, <1>12 DEF Next

(* Memoization is invisible: what a program sees of its top-level calls, the  *)
(* values they return and what they do to the tracked value, is what running  *)
(* every function every time would have shown. A simulation step by step: the *)
(* calls that run map to stuttering, a return or a top-level hit to one call. *)
THEOREM Invisible ==
  ASSUME OperationsKnown, CallsKnown, Uniform, ReadsFirst, PureBodies, ChangesSeen, Steps = Nat
  PROVE  Spec /\ NestedReadsRecorded => Transparent
<1>1. Init => Direct!Init
  BY WorldsAssumption DEF Init, Direct!Init, Running
<1>2. IInv /\ VInv /\ NInv /\ AInv /\ RInv /\ [Next]_vars => [Direct!Next]_<<Outside, Answered>>
  BY VisibleStep, VisibleIsDirect
<1> QED BY <1>1, <1>2, TruthAlways, PTL DEF Spec, Transparent, Direct!Spec, Outside, Answered

(* Where nested hits tell their recorders of what they read, or read       *)
(* nothing, memoization is sound without a further condition: entries hold *)
(* what runs from scratch would give, the runtime takes no function for    *)
(* impure unless a mutable call was made, and top-level calls are as if    *)
(* nothing were memoized.                                                  *)
THEOREM Soundness ==
  ASSUME OperationsKnown, CallsKnown, Uniform, ReadsFirst, PureBodies, ChangesSeen, HitsTold,
         Steps = Nat
  PROVE  Spec => []OnlyWritersBlamed /\ []EntriesSound /\ Transparent
BY HitsAreRecorded, OnlyWritersAreBlamed, EntriesAreSound, Invisible, PTL

(* There, mutable calls that change no answer never make it panic. *)
THEOREM Calm ==
  ASSUME OperationsKnown, CallsKnown, Neutral, PureBodies, ChangesSeen, HitsTold
  PROVE  Spec => []NeverPanics
BY HitsAreRecorded, NoPanic, PTL
=============================================================================
