---------------------------- MODULE RelayPromise ----------------------------
(***************************************************************************)
(* What the relay promises about one request to the agent that sends it,   *)
(* to the user who set the agent's grants and policies, and to whoever     *)
(* reads the log - with no word of tables, statements or handlers:         *)
(*   it is sent to Google only when the settings have permitted it,        *)
(*   it is sent on behalf of nobody who was refused at the door,           *)
(*   it is logged at most once, and as a success only if sent: a refusal   *)
(*   before the answer, anything else after the agent has taken it.        *)
(* That a row is always there nobody promises: an INSERT may fail, and the *)
(* relay answers all the same.                                             *)
(* RelayAccess implements it.                                              *)
(***************************************************************************)
CONSTANT Requests

VARIABLES
    stage,      \* how far each request is
    permitted,  \* whether the settings permitted it at some time of its life
    logged      \* the outcomes logged for it

promise == <<stage, permitted, logged>>

Unrefused == {"open", "complete", "sent", "answering"}
Live == Unrefused \union {"refusing", "denied"}
Outcomes == {"Success", "Fail"}

Begin ==
    /\ stage = [r \in Requests |-> "waiting"]
    /\ permitted \in [Requests -> BOOLEAN]
    /\ logged = [r \in Requests |-> {}]

(* Settings change beside every step; what they permitted once stays so for *)
(* the requests that lived then and were not refused.                       *)
Drift ==
    /\ permitted' \in [Requests -> BOOLEAN]
    /\ \A r \in Requests :
          stage[r] \in Unrefused /\ stage'[r] \in Unrefused /\ permitted[r] => permitted'[r]

Becomes(r, s) == stage' = [stage EXCEPT ![r] = s]

(* At most one of the outcomes, of a request that has none. *)
LogsOneOf(r, outcomes) ==
    /\ logged[r] = {}
    /\ \E some \in {{}} \union {{o} : o \in outcomes} : logged' = [logged EXCEPT ![r] = some]

Enter(r) ==
    /\ stage[r] = "waiting"
    /\ Becomes(r, "open") \/ Becomes(r, "unauthorized")
    /\ UNCHANGED logged

(* The agent has handed over all of the request. *)
Complete(r) == stage[r] = "open" /\ Becomes(r, "complete") /\ UNCHANGED logged

Send(r) == stage[r] = "complete" /\ permitted[r] /\ Becomes(r, "sent") /\ UNCHANGED logged

(* Refused by the relay, or failed on the way: recorded, then told. *)
Refuse(r) ==
    /\ stage[r] \in {"open", "complete", "sent"}
    /\ Becomes(r, "refusing")
    /\ UNCHANGED logged

Record(r) == stage[r] = "refusing" /\ Becomes(r, "denied") /\ LogsOneOf(r, {"Fail"})

Tell(r) == stage[r] = "denied" /\ Becomes(r, "closed") /\ UNCHANGED logged

Answer(r) == stage[r] = "sent" /\ Becomes(r, "answering") /\ UNCHANGED logged

(* The agent has taken the answer. *)
Close(r) == stage[r] = "answering" /\ Becomes(r, "closed") /\ LogsOneOf(r, Outcomes)

(* The process stops: every request it was busy with is gone, with what was *)
(* recorded of it.                                                          *)
Stop ==
    /\ stage' = [r \in Requests |-> IF stage[r] \in Live THEN "lost" ELSE stage[r]]
    /\ UNCHANGED logged

Step(r) ==
    \/ Enter(r) \/ Complete(r) \/ Send(r) \/ Answer(r) \/ Close(r)
    \/ Refuse(r) \/ Record(r) \/ Tell(r)

Next == ((\E r \in Requests : Step(r)) \/ Stop \/ UNCHANGED <<stage, logged>>) /\ Drift

Safe == Begin /\ [][Next]_promise

(* A request that was handed over completely does not hang, however often   *)
(* Google refuses a token: an answer is begun, or it is refused, or lost    *)
(* with the process.                                                        *)
Settled ==
    \A r \in Requests :
        stage[r] = "complete" ~> stage[r] \in {"answering", "denied", "closed", "lost"}
=============================================================================
