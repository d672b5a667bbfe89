----------------------------- MODULE MCSeveral ------------------------------
(***************************************************************************)
(* Functions of two parameters over two cells for TLC.  Each cell has a    *)
(* part x that is read and a log whose state depends on the order of what  *)
(* is written to it.                                                       *)
(***************************************************************************)
EXTENDS SeveralProperties

MCStates == [x : {0, 1}, log : 0 .. 2]
MCWorlds == {s \in MCStates : s.log = 0}

MCResult(call, s) == s[call]

MCEffect(call, s) ==
  CASE call = "a" -> [s EXCEPT !.log = (2 * @ + 1) % 3]
    [] call = "b" -> [s EXCEPT !.log = (@ + 1) % 3]
    [] call = "flip" -> [s EXCEPT !.x = 1 - @]

Read(i, c)    == [op |-> "read", param |-> i, call |-> c]
Write(i, c)   == [op |-> "write", param |-> i, call |-> c]
Invoke(f, k, ps) == [op |-> "call", fun |-> f, key |-> k, params |-> ps]
Give(v)       == [op |-> "return", value |-> v]

(* outer reads both parameters and hands them to inner between two writes; *)
(* inner writes to the second and reads it only if the first is 1.         *)
(* raw, which is bypassed, writes and calls inner; flip reads a cell again *)
(* after it has changed the other one, and once more after changing it.   *)
MCBody(f, k, obs) ==
  LET n == Len(obs)
      outer == CASE n = 0 -> Read(1, "x")
                 [] n = 1 -> Read(2, "x")
                 [] n = 2 -> Write(2, "b")
                 [] n = 3 -> Invoke("inner", k, <<1, 2>>)
                 [] n = 4 -> Write(1, "b")
                 [] OTHER -> Give(<<obs[1], obs[4]>>)
      inner == CASE n = 0 -> Read(1, "x")
                 [] n = 1 -> Write(2, "a")
                 [] n = 2 -> IF obs[1] = 1 THEN Read(2, "x") ELSE Give(2)
                 [] OTHER -> Give(obs[3])
      raw   == CASE n = 0 -> Write(1, "b")
                 [] n = 1 -> Invoke("inner", k, <<1, 2>>)
                 [] OTHER -> Give(obs[2])
      flip  == CASE n = 0 -> Read(2, "x")
                 [] n = 1 -> Write(1, "flip")
                 [] n = 2 -> Read(2, "x")
                 [] n = 3 -> Write(2, "flip")
                 [] n = 4 -> Read(2, "x")
                 [] OTHER -> Give(obs[5])
  IN CASE f = "outer" -> outer [] f = "inner" -> inner
       [] f = "raw" -> raw     [] f = "flip" -> flip

MCArity == [f \in Funs |-> 2]

(* Distinct cells for distinct parameters *)
Distinct == [outer |-> {<<"A", "B">>, <<"B", "A">>}, inner |-> {<<"A", "B">>},
             raw |-> {<<"A", "B">>}, flip |-> {<<"A", "B">>}]
(* One tuple, for two cells that differ *)
Plain == [inner |-> {<<"A", "B">>}]
(* The same cell for both *)
Aliased == [inner |-> {<<"A", "A">>, <<"A", "B">>}]
=============================================================================
