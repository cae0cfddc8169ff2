--------------------------- MODULE ConnectorManager ---------------------------
(* ConnectorManager over Kafka Connect's REST API: every call is one request *)
(* that with_retries sends again after any error, an answer of 4xx or 5xx    *)
(* among them.  A request or its answer may be lost; a request the client    *)
(* has given up on may still reach Connect, after later calls have returned. *)
(* Several processes use the class: the registration script, the DAG's       *)
(* health check, an operator.                                                *)
EXTENDS Integers, Sequences, FiniteSets, Functions

CONSTANTS NULL,
          Clients,   \* the processes that hold a ConnectorManager
          Configs,   \* the configurations upsert may load
          Attempts,  \* with_retries: attempts of one call
          MaxCalls   \* bound: calls of all clients

\* NULL is neither a status code nor the outcome of a call.
ASSUME ManagerAssumption ==
    /\ Attempts \in Nat \ {0}
    /\ MaxCalls \in Nat
    /\ NULL \notin Int
    /\ NULL \notin {"open", "raised", "returned", "healthy", "unhealthy"}

VARIABLES config,    \* Connect: the connector's configuration, NULL if there is none
          status,    \* Connect: the state of the connector and of its tasks
          wire,      \* requests on their way to Connect
          made,      \* per client, the calls it has made
          applied,   \* per client and call, how often Connect carried it out
          request,   \* per client, the request loop of its current call
          outcome,   \* per client, how its last call ended
          seen       \* per client, what was so at some moment of that call

connectVars == <<config, status>>
clientVars == <<made, request, outcome>>
vars == <<config, status, wire, made, applied, request, outcome, seen>>

-----------------------------------------------------------------------------
Calls == [op : {"upsert"}, config : Configs]
         \cup [op : {"delete", "is_healthy"}, config : {NULL}]

\* Unassigned, paused, failed: all that is not RUNNING.
States == {"RUNNING", "other"}

\* tasks.max is 1: the worker has started the task, or not yet.
Statuses == [connector : States, tasks : UNION {[S -> States] : S \in {{}, {0}}}]

NewConnector == [connector |-> "other", tasks |-> [t \in {} |-> "other"]]

\* Mutant: all() of no tasks at all.
IsHealthyWithoutTasks(st) ==
    /\ st.connector = "RUNNING"
    /\ \A t \in DOMAIN st.tasks : st.tasks[t] = "RUNNING"

IsHealthy(st) ==
    /\ st.connector = "RUNNING"
    /\ \A t \in DOMAIN st.tasks : st.tasks[t] = "RUNNING"
    /\ DOMAIN st.tasks # {}

\* Changes are captured when a task runs in a running connector.
Captures(st) == st.connector = "RUNNING" /\ \E t \in DOMAIN st.tasks : st.tasks[t] = "RUNNING"

Facts(cfg, st) ==
    (IF cfg = NULL THEN {"gone"} ELSE {})
        \cup (IF Captures(st) THEN {"capturing"} ELSE {"idle"})

CallsMade == SumFunction([c \in Clients |-> Len(made[c])])

Call(c) == made[c][Len(made[c])]

NoRequest == [phase |-> "none", attempt |-> 0, answer |-> NULL]

TypeOK ==
    /\ config \in Configs \cup {NULL}
    /\ status \in Statuses
    /\ \A c \in Clients :
          /\ made[c] \in Seq(Calls)
          /\ applied[c] \in [1..Len(made[c]) -> 0..Attempts]
          /\ request[c].phase \in {"none", "send", "wait", "answered"}
          /\ request[c].attempt \in 0..Attempts
          /\ seen[c] \subseteq {"gone", "capturing", "idle"}
    /\ \A r \in wire : r.client \in Clients /\ r.call \in 1..Len(made[r.client])

Init ==
    /\ config = NULL
    /\ status = NewConnector
    /\ wire = {}
    /\ made = [c \in Clients |-> << >>]
    /\ applied = [c \in Clients |-> << >>]
    /\ request = [c \in Clients |-> NoRequest]
    /\ outcome = [c \in Clients |-> [result |-> NULL, code |-> NULL]]
    /\ seen = [c \in Clients |-> {}]

-----------------------------------------------------------------------------
(* Kafka Connect and the network.                                            *)
Watch(cfg, st) == seen' = [c \in Clients |-> seen[c] \cup Facts(cfg, st)]

\* The workers start the task, it fails, it is restarted.
WorkersChange ==
    /\ config # NULL
    /\ status' \in Statuses
    /\ Watch(config, status')
    /\ UNCHANGED <<config, wire, applied, clientVars>>

\* The client that still waits for this request may get the answer.
Answer(r, code, body) ==
    \/ UNCHANGED request
    \/ /\ request[r.client].phase = "wait"
       /\ request[r.client].attempt = r.attempt
       /\ Len(made[r.client]) = r.call
       /\ request' = [request EXCEPT ![r.client].phase = "answered",
                                     ![r.client].answer = [code |-> code, body |-> body]]

\* PUT creates or replaces the configuration, DELETE and GET need one.
CarryOut(r) ==
    LET call == made[r.client][r.call]
    IN  /\ call.op = "upsert" \/ config # NULL
        /\ config' = CASE call.op = "upsert" -> call.config
                       [] call.op = "delete" -> NULL
                       [] OTHER -> config
        /\ status' = IF config = NULL \/ config' = NULL THEN NewConnector ELSE status
        /\ Watch(config', status')
        /\ applied' = [applied EXCEPT ![r.client][r.call] = @ + 1]
        /\ Answer(r, 200, status)

\* 404 of a connector that does not exist, 409 while the workers rebalance;
\* the body tells of no running connector and no task.
Refuse(r) ==
    /\ \/ Answer(r, 409, NewConnector)
       \/ /\ config = NULL /\ made[r.client][r.call].op # "upsert"
          /\ Answer(r, 404, NewConnector)
    /\ UNCHANGED <<connectVars, applied, seen>>

Handle ==
    /\ \E r \in wire : wire' = wire \ {r} /\ (CarryOut(r) \/ Refuse(r))
    /\ UNCHANGED <<made, outcome>>

LoseRequest ==
    /\ \E r \in wire : wire' = wire \ {r}
    /\ UNCHANGED <<connectVars, applied, clientVars, seen>>

-----------------------------------------------------------------------------
(* The client.                                                               *)

\* Mutant: one count of attempts for all calls of the manager.
BeginCountingOn(c) ==
    /\ request[c].phase = "none"
    /\ CallsMade < MaxCalls
    /\ \E call \in Calls : made' = [made EXCEPT ![c] = Append(@, call)]
    /\ applied' = [applied EXCEPT ![c] = Append(@, 0)]
    /\ request' = [request EXCEPT ![c].phase = "send"]
    /\ outcome' = [outcome EXCEPT ![c] = [result |-> "open", code |-> NULL]]
    /\ seen' = [seen EXCEPT ![c] = Facts(config, status)]
    /\ UNCHANGED <<connectVars, wire>>

\* upsert, delete or is_healthy is called.
Begin(c) ==
    /\ request[c].phase = "none"
    /\ CallsMade < MaxCalls
    /\ \E call \in Calls : made' = [made EXCEPT ![c] = Append(@, call)]
    /\ applied' = [applied EXCEPT ![c] = Append(@, 0)]
    /\ request' = [request EXCEPT ![c] = [NoRequest EXCEPT !.phase = "send"]]
    /\ outcome' = [outcome EXCEPT ![c] = [result |-> "open", code |-> NULL]]
    /\ seen' = [seen EXCEPT ![c] = Facts(config, status)]
    /\ UNCHANGED <<connectVars, wire>>

Send(c) ==
    /\ request[c].phase = "send"
    /\ request' = [request EXCEPT ![c].phase = "wait", ![c].attempt = @ + 1]
    /\ wire' = wire \cup {[client |-> c, call |-> Len(made[c]), attempt |-> request'[c].attempt]}
    /\ UNCHANGED <<connectVars, made, applied, outcome, seen>>

\* Mutant: raise_for_status is missing.
IsOkAlways(answer) == answer # NULL

IsOk(answer) == answer # NULL /\ answer.code = 200

\* Mutant: retry without stop_after_attempt.
AttemptFailsForever(c, code) ==
    /\ request' = [request EXCEPT ![c] = [NoRequest EXCEPT !.phase = "send"]]
    /\ UNCHANGED outcome

\* with_retries: the next attempt after a wait, or the exception is reraised.
AttemptFails(c, code) ==
    IF request[c].attempt < Attempts
    THEN /\ request' = [request EXCEPT ![c].phase = "send", ![c].answer = NULL]
         /\ UNCHANGED outcome
    ELSE /\ request' = [request EXCEPT ![c].phase = "none", ![c].answer = NULL]
         /\ outcome' = [outcome EXCEPT ![c] = [result |-> "raised", code |-> code]]

Timeout(c) ==
    /\ request[c].phase = "wait"
    /\ AttemptFails(c, NULL)
    /\ UNCHANGED <<connectVars, wire, made, applied, seen>>

\* The answer: raise_for_status, and what the caller makes of the body.
Receive(c) ==
    /\ request[c].phase = "answered"
    /\ LET answer == request[c].answer
       IN  IF IsOk(answer)
           THEN /\ request' = [request EXCEPT ![c].phase = "none", ![c].answer = NULL]
                /\ outcome' = [outcome EXCEPT ![c] =
                      [result |-> IF Call(c).op # "is_healthy" THEN "returned"
                                  ELSE IF IsHealthy(answer.body) THEN "healthy" ELSE "unhealthy",
                       code |-> NULL]]
           ELSE AttemptFails(c, answer.code)
    /\ UNCHANGED <<connectVars, wire, made, applied, seen>>

Step(c) == Send(c) \/ Receive(c) \/ Timeout(c)

Next == Handle \/ LoseRequest \/ WorkersChange \/ \E c \in Clients : Begin(c) \/ Step(c)

Spec == Init /\ [][Next]_vars

\* Every request has a timeout, and the wait between attempts ends.
FairSpec == Spec /\ \A c \in Clients : WF_vars(Step(c))

-----------------------------------------------------------------------------
\* Whether a call has ended well, without what it returned.
Told == [c \in Clients |->
            IF outcome[c].result \in {"healthy", "unhealthy"} THEN "returned"
            ELSE outcome[c].result]

\* The calls keep the promise of AtLeastOnceCalls, whatever the network loses
\* or delays and however the calls of several clients interleave: a call that
\* returned took effect after it was made (_request, with_retries).
Calling == INSTANCE AtLeastOnceCalls WITH outcome <- Told

Promise == Calling!Spec

\* is_healthy tells what was so at some moment of the call: TRUE only if a task
\* was capturing changes, FALSE only if none was.
HealthAnswerWasSo ==
    \A c \in Clients :
        /\ outcome[c].result = "healthy" => "capturing" \in seen[c]
        /\ outcome[c].result = "unhealthy" => "idle" \in seen[c]

\* delete that returns, or that raises on 404, has left Connect without the
\* connector at some moment of the call.  So the error a retry gets after the
\* answer of a DELETE that succeeded was lost never hides a connector that is
\* still there.
EndedDeleteLeftNoConnector ==
    \A c \in Clients :
        /\ outcome[c].result = "returned" \/ outcome[c].code = 404
        /\ Call(c).op = "delete"
        => "gone" \in seen[c]

\* Every call returns or raises: the retries are bounded.
EveryCallEnds == \A c \in Clients : outcome[c].result = "open" ~> outcome[c].result # "open"
=============================================================================
