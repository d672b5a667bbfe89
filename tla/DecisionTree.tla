---------------------------- MODULE DecisionTree ----------------------------
(***************************************************************************)
(* What a call tree promises its users: a set of memoized entries, and     *)
(* insert, get and retain as single steps.  call holds the arguments and   *)
(* the result of the operation that has just taken effect.                 *)
(***************************************************************************)
EXTENDS DecisionPaths

CONSTANTS Keys, Calls, Rets, Values, MaxCalls, None

VARIABLES entries, call

tvars == <<entries, call>>

Pairs == [call : Calls, ret : Rets]

CallSequences ==
  {s \in UNION {[1 .. n -> Pairs] : n \in 0 .. MaxCalls} :
     \A i, j \in DOMAIN s : s[i].call = s[j].call => i = j}

Init == entries = {} /\ call = None

Done(a, r) == call = None /\ call' = [args |-> a, result |-> r]

Insert(k, s, v) ==
  LET Reply(r) == Done([op |-> "insert", key |-> k, seq |-> s, value |-> v], r) IN
  \/ /\ Reply("AlreadyExists") /\ UNCHANGED entries
     /\ AlreadyThere(entries, k, s)
  \/ /\ Reply("MissingCall") /\ UNCHANGED entries
     /\ LacksCall(entries, k, s)
  \/ /\ Reply("Ok")
     /\ ~AlreadyThere(entries, k, s) /\ ~LacksCall(entries, k, s)
     /\ entries' = entries \cup
          {[key |-> k, path |-> NewPath(entries, k, s), value |-> v]}

Get(k, o) ==
  LET hit == Matching(entries, k, o) IN
  /\ Done([op |-> "get", key |-> k, oracle |-> o],
          IF hit = {} THEN None ELSE (CHOOSE e \in hit : TRUE).value)
  /\ UNCHANGED entries

Retain(keep) ==
  /\ Done([op |-> "retain", keep |-> keep], "Unit")
  /\ entries' = {e \in entries : e.value \in keep}

Return == call # None /\ call' = None /\ UNCHANGED entries

Next ==
  \/ \E k \in Keys, s \in CallSequences, v \in Values : Insert(k, s, v)
  \/ \E k \in Keys, o \in [Calls -> Rets] : Get(k, o)
  \/ \E keep \in SUBSET Values : Retain(keep)
  \/ Return

Spec == Init /\ [][Next]_tvars
=============================================================================
