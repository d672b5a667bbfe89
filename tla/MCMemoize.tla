----------------------------- MODULE MCMemoize ------------------------------
(***************************************************************************)
(* Small programs over a small tracked value for TLC.  The value has two   *)
(* cells that are read, x and y, and a log whose state depends on the      *)
(* order of what is written to it.                                         *)
(***************************************************************************)
EXTENDS MemoizeProperties

MCReads  == {"x", "y", "log"}
MCStates == [x : {0, 1}, y : {0, 1}, log : 0 .. 2]
MCWorlds == {s \in MCStates : s.log = 0}
MCStatesX == {s \in MCStates : s.y = 0}
MCWorldsX == MCWorlds \cap MCStatesX

MCResult(call, s) == s[call]

(* Three writes that do not commute: two to the log and one to the cell x *)
MCEffect(call, s) ==
  IF call = "a" THEN [s EXCEPT !.log = (2 * @ + 1) % 3]
  ELSE IF call = "b" THEN [s EXCEPT !.log = (@ + 1) % 3]
  ELSE [s EXCEPT !.x = 1 - @]

Read(c)         == [op |-> "read", call |-> c]
Write(c)        == [op |-> "write", call |-> c]
Invoke(f, k)    == [op |-> "call", fun |-> f, key |-> k, reborrow |-> FALSE]
Reborrowed(f, k) == [op |-> "call", fun |-> f, key |-> k, reborrow |-> TRUE]
Give(v)         == [op |-> "return", value |-> v]

(* No nested calls.  f reads y only when x is 1 and writes differently on  *)
(* each branch; g reads in the other order and asks x twice.               *)
FlatBody(f, k, obs) ==
  LET n == Len(obs) IN
  IF f = "f"
    THEN CASE n = 0 -> Read("x")
           [] n = 1 -> IF obs[1] = 0 THEN Write("a") ELSE Read("y")
           [] n = 2 -> IF obs[1] = 0 THEN Give(<<0, k>>) ELSE Write("b")
           [] n = 3 -> Write("a")
           [] OTHER -> Give(<<1, obs[2]>>)
    ELSE CASE n = 0 -> Read("y")
           [] n = 1 -> Write("a")
           [] n = 2 -> Read("x")
           [] n = 3 -> Read("x")
           [] n = 4 -> IF obs[3] = obs[1] THEN Write("b") ELSE Give("differ")
           [] OTHER -> Give("same")

(* Nested calls.  outer reads x before it calls inner, which reads x too,  *)
(* writes, and calls itself with the other argument.                       *)
NestedBody(f, k, obs) ==
  LET n == Len(obs) IN
  IF f = "outer"
    THEN CASE n = 0 -> Read("x")
           [] n = 1 -> Write("b")
           [] n = 2 -> IF obs[1] = 1 THEN Invoke("inner", k) ELSE Reborrowed("inner", 1)
           [] n = 3 -> Write("b")
           [] OTHER -> Give(<<obs[1], obs[3]>>)
    ELSE CASE n = 0 -> Read("x")
           [] n = 1 -> Write("a")
           [] n = 2 -> IF k = 1 THEN Invoke("inner", 0) ELSE Give(obs[1])
           [] n = 3 -> Write("b")
           [] OTHER -> Give(obs[3] + 1)

(* outer reads x and leaves the reading of y to inner: the calc example of *)
(* the tests and the demo, where a cell is evaluated through another one.  *)
(* lax is outer memoized by a lenient variant, flip changes x after it has *)
(* read it and before outer reads it again, sum is pure, raw bypassed.     *)
CalcBody(f, k, obs) ==
  LET n == Len(obs)
      outer == CASE n = 0 -> Read("x")
                 [] n = 1 -> Invoke("inner", k)
                 [] OTHER -> Give(<<obs[1], obs[2]>>)
      inner == IF n = 0 THEN Read("y") ELSE Give(obs[1])
      flip  == CASE n = 0 -> Invoke("sum", 1)
                 [] n = 1 -> Read("x")
                 [] n = 2 -> Write("flip")
                 [] n = 3 -> Invoke("outer", k)
                 [] OTHER -> Give(obs[1] + obs[2])
      sum   == CASE n < k -> Invoke("sum", n)
                 [] OTHER -> Give(FoldLeft(LAMBDA a, b : a + b, 1, obs))
      raw   == CASE n = 0 -> Invoke("sum", 1)
                 [] n = 1 -> Invoke("inner", k)
                 [] OTHER -> Give(obs[1] + obs[2])
  IN CASE f \in {"outer", "lax"} -> outer
       [] f = "inner" -> inner
       [] f = "flip"  -> flip
       [] f = "sum"   -> sum
       [] f = "raw"   -> raw

(* The log is written and then read through one view, as g4_eval in       *)
(* test_types.mbt adds to a counter and then reads it.                     *)
CountBody(f, k, obs) ==
  LET n == Len(obs) IN
  CASE n = 0 -> Write("b")
    [] n = 1 -> Read("log")
    [] OTHER -> Give(obs[2])

(* raw runs with memoization disabled *)
MCBypassed == {<<"raw", 0>>}

(* All of them read what they change before they change it, but for count *)
ASSUME ProgramsAssumption ==
  /\ Uniform
  /\ \A f \in Funs \ {"count"}, k \in Args :
       Memoized(f, k) => \A n \in Steps : \A i \in 0 .. n : FreshReads(f, k, i)
=============================================================================
