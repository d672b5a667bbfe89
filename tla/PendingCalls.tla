---------------------------- MODULE PendingCalls ----------------------------
(***************************************************************************)
(* What a CallSequence promises: a queue of recorded calls with their      *)
(* return hashes, in the order of first recording, from which the next one *)
(* or a chosen one is taken.  A call is queued once in a lifetime.         *)
(***************************************************************************)
EXTENDS DecisionPaths

CONSTANTS Calls, Rets, None

VARIABLES queue, seen, reply

qvars == <<queue, seen, reply>>

Init == queue = <<>> /\ seen = {} /\ reply = None

Of(c) == {p \in Range(queue) : p.call = c}

Insert(c, r) ==
  /\ IF c \in seen
       THEN queue' = queue
       ELSE queue' = Append(queue, [call |-> c, ret |-> r])
  /\ seen' = seen \cup {c}
  /\ reply' = IF \E p \in Of(c) : p.ret # r THEN <<"panic">>
              ELSE IF c \in seen THEN <<"duplicate">> ELSE <<"inserted">>

Take(p) == queue' = Without(queue, {p}) /\ reply' = <<"pair", p>> /\ UNCHANGED seen

TakeNext == queue # <<>> /\ Take(Head(queue))

TakeCall(c) == \E p \in Of(c) : Take(p)

Nothing == reply' = None /\ UNCHANGED <<queue, seen>>

Next ==
  /\ reply # <<"panic">>
  /\ \/ \E c \in Calls, r \in Rets : Insert(c, r)
     \/ TakeNext
     \/ queue = <<>> /\ Nothing
     \/ \E c \in Calls : TakeCall(c) \/ (Of(c) = {} /\ Nothing)

Spec == Init /\ [][Next]_qvars
=============================================================================
