------------------------------ MODULE SetAnswers ------------------------------
(***************************************************************************)
(* ExpiringSet with a variable that observes, for each reading goroutine,  *)
(* whether its key has had a live entry at some moment of its call.        *)
(***************************************************************************)
EXTENDS ExpiringSet

VARIABLE lived

AnswersInit == Init /\ lived = [t \in Threads |-> FALSE]

AnswersNext ==
    /\ Next
    /\ lived' = [t \in Threads |->
           IF At(t, "idle") THEN Live(call'[t].key) \/ Live(call[t].key)'
           ELSE lived[t] \/ (~At(t, "idle")' /\ Live(call[t].key)')]

AnswersSpec == AnswersInit /\ [][AnswersNext]_<<vars, lived>>

Answered(t) == call[t].op = "In" /\ ~At(t, "idle") /\ call'[t].step = "idle"

(* In says yes only if the item was in the set, and not expired, at some   *)
(* moment of the call: a ban, an operator or an allowed key that is found  *)
(* was there.                                                              *)
YesWasTrue ==
    [][\A t \in Threads :
           Answered(t) /\ call'[t].answer # NoItem => lived[t]]_<<vars, lived>>
=============================================================================
