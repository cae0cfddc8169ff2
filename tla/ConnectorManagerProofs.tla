------------------------ MODULE ConnectorManagerProofs ------------------------
(* Theorems about ConnectorManager, for any number of clients, calls and     *)
(* attempts: what a caller learns of a call is so, and the calls implement   *)
(* AtLeastOnceCalls.                                                         *)
EXTENDS ConnectorManager, FiniteSetTheorems, TLAPS

-----------------------------------------------------------------------------
(* The inductive invariant.                                                  *)
Phases == {"none", "send", "wait", "answered"}

Results == {NULL, "open", "raised", "returned", "healthy", "unhealthy"}

Codes == {200, 404, 409}

Answers == [code : Codes, body : Statuses]

Requests == [client : Clients, call : Nat, attempt : Nat]

Types ==
    /\ config \in Configs \cup {NULL}
    /\ status \in Statuses
    /\ wire \in SUBSET Requests
    /\ IsFiniteSet(wire)
    /\ \A r \in wire : r.call \in 1..Len(made[r.client])
    /\ made \in [Clients -> Seq(Calls)]
    /\ applied \in [Clients -> Seq(Nat)]
    /\ \A c \in Clients : Len(applied[c]) = Len(made[c])
    /\ request \in [Clients -> [phase : Phases, attempt : 0..Attempts,
                                answer : Answers \cup {NULL}]]
    /\ outcome \in [Clients -> [result : Results, code : Codes \cup {NULL}]]
    /\ seen \in [Clients -> SUBSET {"gone", "capturing", "idle"}]

\* A client is in its request loop exactly while its call is open, and then
\* there is a call; what it waits for and what it has got is an attempt's.
LoopIsSo(c) ==
    /\ request[c].phase # "none" <=> outcome[c].result = "open"
    /\ outcome[c].result # NULL => Len(made[c]) > 0
    /\ request[c].phase = "send" => request[c].attempt < Attempts
    /\ request[c].phase = "answered" => request[c].answer \in Answers

LoopInv == \A c \in Clients : LoopIsSo(c)

\* The requests of one call that may still reach Connect.
Underway(c, n) == {r \in wire : r.client = c /\ r.call = n}

AttemptsMade(c, n) == IF n = Len(made[c]) THEN request[c].attempt ELSE Attempts

\* An attempt takes effect once at most.
AttemptsInv ==
    \A c \in Clients : \A n \in 1..Len(made[c]) :
        applied[c][n] + Cardinality(Underway(c, n)) <= AttemptsMade(c, n)

\* While a call is open its client has seen what is so now.
SeenInv ==
    \A c \in Clients : request[c].phase # "none" => Facts(config, status) \subseteq seen[c]

\* What an answer of Connect says was so when it was given, after the call was
\* made: success means the call was carried out.
AnswerIsSo(c) ==
    LET answer == request[c].answer
    IN  /\ answer.code = 200 =>
              /\ applied[c][Len(made[c])] > 0
              /\ Call(c).op = "delete" => "gone" \in seen[c]
              /\ Call(c).op = "is_healthy" =>
                    IF Captures(answer.body) THEN "capturing" \in seen[c]
                    ELSE "idle" \in seen[c]
        /\ answer.code = 404 => "gone" \in seen[c]

AnswerInv == \A c \in Clients : request[c].phase = "answered" => AnswerIsSo(c)

\* And so is what the caller is told.
OutcomeInv == HealthAnswerWasSo /\ EndedDeleteLeftNoConnector

IInv == Types /\ LoopInv /\ AttemptsInv /\ SeenInv /\ AnswerInv /\ OutcomeInv

-----------------------------------------------------------------------------
(* What the steps do to the records of the clients.                          *)

(* A new connector, which is also what a refusal tells of, is a status.      *)
LEMMA NewConnectorType == NewConnector \in Statuses
BY DEF NewConnector, Statuses, States

(* With one task at most, a connector is healthy exactly when it captures.   *)
LEMMA HealthyCaptures ==
    ASSUME NEW st \in Statuses
    PROVE  IsHealthy(st) <=> Captures(st)
<1>1. DOMAIN st.tasks = {} \/ DOMAIN st.tasks = {0}
  BY DEF Statuses
<1>2. QED
  BY <1>1 DEF IsHealthy, Captures

Loop(c, phase, answer) == [request EXCEPT ![c].phase = phase, ![c].answer = answer]

(* The fields of a request after a step of its client's loop.                *)
LEMMA RequestUpdate ==
    ASSUME Types, NEW c \in Clients, NEW phase \in Phases, NEW answer \in Answers \cup {NULL},
           request' = Loop(c, phase, answer)
    PROVE  /\ request' \in [Clients -> [phase : Phases, attempt : 0..Attempts,
                                        answer : Answers \cup {NULL}]]
           /\ \A d \in Clients \ {c} : request'[d] = request[d]
           /\ request'[c].phase = phase
           /\ request'[c].attempt = request[c].attempt
           /\ request'[c].answer = answer
<1> DEFINE new == [request[c] EXCEPT !.phase = phase, !.answer = answer]
<1>1. request' = [request EXCEPT ![c] = new]
  BY DEF Types, Loop
<1>2. /\ new \in [phase : Phases, attempt : 0..Attempts, answer : Answers \cup {NULL}]
      /\ new.phase = phase
      /\ new.attempt = request[c].attempt
      /\ new.answer = answer
  BY DEF Types
<1> HIDE DEF new
<1>3. QED
  BY <1>1, <1>2 DEF Types

(* An answer reaches at most the client that sent the request, and only in   *)
(* the attempt and the call it belongs to.                                   *)
LEMMA AnswerEffect ==
    ASSUME Types, NEW r \in wire, NEW code \in Codes, NEW body \in Statuses,
           Answer(r, code, body)
    PROVE  /\ request' \in [Clients -> [phase : Phases, attempt : 0..Attempts,
                                        answer : Answers \cup {NULL}]]
           /\ \A c \in Clients :
                 \/ request'[c] = request[c]
                 \/ /\ c = r.client
                    /\ request[c].phase = "wait"
                    /\ Len(made[c]) = r.call
                    /\ request'[c].phase = "answered"
                    /\ request'[c].attempt = request[c].attempt
                    /\ request'[c].answer = [code |-> code, body |-> body]
<1>1. CASE UNCHANGED request
  BY <1>1 DEF Types
<1>2. CASE /\ request[r.client].phase = "wait"
           /\ Len(made[r.client]) = r.call
           /\ request' = [request EXCEPT ![r.client].phase = "answered",
                                         ![r.client].answer = [code |-> code, body |-> body]]
  <2>1. PICK d \in Clients : d = r.client
    BY DEF Types, Requests
  <2>2. PICK answer \in Answers \cup {NULL} : answer = [code |-> code, body |-> body]
    BY DEF Answers
  <2>3. request' = Loop(d, "answered", answer)
    BY <1>2, <2>1, <2>2 DEF Loop
  <2>4. "answered" \in Phases
    BY DEF Phases
  <2>5. /\ request' \in [Clients -> [phase : Phases, attempt : 0..Attempts,
                                     answer : Answers \cup {NULL}]]
        /\ \A c \in Clients \ {d} : request'[c] = request[c]
        /\ request'[d].phase = "answered"
        /\ request'[d].attempt = request[d].attempt
        /\ request'[d].answer = answer
    BY <2>3, <2>4, RequestUpdate
  <2>6. QED
    BY <1>2, <2>1, <2>2, <2>5
<1>3. QED
  BY <1>1, <1>2 DEF Answer

(* An attempt that fails is followed by another one or ends the call.        *)
LEMMA AttemptFailsEffect ==
    ASSUME Types, NEW c \in Clients, NEW code \in Codes \cup {NULL}, AttemptFails(c, code)
    PROVE  /\ request' \in [Clients -> [phase : Phases, attempt : 0..Attempts,
                                        answer : Answers \cup {NULL}]]
           /\ outcome' \in [Clients -> [result : Results, code : Codes \cup {NULL}]]
           /\ \A d \in Clients \ {c} : request'[d] = request[d] /\ outcome'[d] = outcome[d]
           /\ request'[c].attempt = request[c].attempt
           /\ \/ /\ request'[c].phase = "send"
                 /\ request[c].attempt < Attempts
                 /\ outcome' = outcome
              \/ /\ request'[c].phase = "none"
                 /\ outcome' = [outcome EXCEPT ![c] = [result |-> "raised", code |-> code]]
                 /\ outcome'[c] = [result |-> "raised", code |-> code]
<1> {"send", "none"} \subseteq Phases /\ "raised" \in Results
  BY DEF Phases, Results
<1>1. CASE request[c].attempt < Attempts
  <2>1. /\ request' = Loop(c, "send", NULL)
        /\ outcome' = outcome
    BY <1>1 DEF AttemptFails, Loop
  <2>2. QED
    BY <1>1, <2>1, RequestUpdate DEF Types
<1>2. CASE ~(request[c].attempt < Attempts)
  <2>1. /\ request' = Loop(c, "none", NULL)
        /\ outcome' = [outcome EXCEPT ![c] = [result |-> "raised", code |-> code]]
    BY <1>2 DEF AttemptFails, Loop
  <2>2. /\ outcome' \in [Clients -> [result : Results, code : Codes \cup {NULL}]]
        /\ \A d \in Clients \ {c} : outcome'[d] = outcome[d]
        /\ outcome'[c] = [result |-> "raised", code |-> code]
    BY <2>1 DEF Types
  <2>3. /\ request' \in [Clients -> [phase : Phases, attempt : 0..Attempts,
                                     answer : Answers \cup {NULL}]]
        /\ \A d \in Clients \ {c} : request'[d] = request[d]
        /\ request'[c].attempt = request[c].attempt
        /\ request'[c].phase = "none"
    BY <2>1, RequestUpdate
  <2>4. QED
    BY <2>1, <2>2, <2>3
<1>3. QED
  BY <1>1, <1>2

(* In the loop there is a current call.                                      *)
LEMMA CurrentCall ==
    ASSUME Types, LoopInv, NEW c \in Clients, request[c].phase # "none"
    PROVE  /\ Len(made[c]) \in 1..Len(made[c])
           /\ Call(c) \in Calls
           /\ applied[c][Len(made[c])] \in Nat
<1>1. outcome[c].result # NULL
  BY ManagerAssumption DEF LoopInv, LoopIsSo
<1>2. Len(made[c]) > 0 /\ made[c] \in Seq(Calls)
  BY <1>1 DEF LoopInv, LoopIsSo, Types
<1>3. Len(made[c]) \in 1..Len(made[c])
  BY <1>2
<1>4. applied[c] \in Seq(Nat) /\ Len(applied[c]) = Len(made[c])
  BY DEF Types
<1>5. QED
  BY <1>2, <1>3, <1>4 DEF Call

(* What Receive makes of an answer.                                          *)
LEMMA ReceiveEffect ==
    ASSUME Types, LoopInv, NEW c \in Clients, Receive(c)
    PROVE  /\ request[c].phase = "answered"
           /\ request[c].answer \in Answers
           /\ \/ /\ request[c].answer.code = 200
                 /\ request' = Loop(c, "none", NULL)
                 /\ outcome' = [outcome EXCEPT ![c] =
                       [result |-> IF Call(c).op # "is_healthy" THEN "returned"
                                   ELSE IF IsHealthy(request[c].answer.body) THEN "healthy"
                                   ELSE "unhealthy",
                        code |-> NULL]]
              \/ AttemptFails(c, request[c].answer.code)
           /\ UNCHANGED <<connectVars, wire, made, applied, seen>>
BY DEF Receive, IsOk, LoopInv, LoopIsSo, Loop

-----------------------------------------------------------------------------
(* The steps of the network and of Connect.                                  *)

(* Carrying out a request keeps the types.                                   *)
LEMMA CarryOutEffect ==
    ASSUME Types, NEW r \in wire, CarryOut(r)
    PROVE  /\ config' \in Configs \cup {NULL}
           /\ status' \in Statuses
           /\ applied' \in [Clients -> Seq(Nat)]
           /\ \A c \in Clients : Len(applied'[c]) = Len(applied[c])
           /\ \A c \in Clients : \A n \in 1..Len(made[c]) :
                 applied'[c][n] = IF c = r.client /\ n = r.call THEN applied[c][n] + 1
                                  ELSE applied[c][n]
           /\ seen' \in [Clients -> SUBSET {"gone", "capturing", "idle"}]
           /\ \A c \in Clients : seen[c] \subseteq seen'[c] /\ Facts(config', status') \subseteq seen'[c]
           /\ Answer(r, 200, status)
<1> DEFINE a == r.client
           n == r.call
           call == made[a][n]
<1>1. a \in Clients /\ n \in 1..Len(made[a]) /\ n \in 1..Len(applied[a])
  BY DEF Types, Requests
<1>2. call \in Calls
  BY <1>1 DEF Types
<1>3. config' \in Configs \cup {NULL}
  BY <1>2 DEF CarryOut, Types, Calls
<1>4. status' \in Statuses
  BY NewConnectorType DEF CarryOut, Types
<1>5. applied' = [applied EXCEPT ![a] = [applied[a] EXCEPT ![n] = applied[a][n] + 1]]
  BY DEF CarryOut
<1>6. /\ applied[a] \in Seq(Nat)
      /\ applied[a][n] + 1 \in Nat
  BY <1>1 DEF Types
<1> DEFINE new == [applied[a] EXCEPT ![n] = applied[a][n] + 1]
<1>7. /\ new \in Seq(Nat)
      /\ Len(new) = Len(applied[a])
      /\ \A m \in 1..Len(applied[a]) : new[m] = IF m = n THEN applied[a][n] + 1 ELSE applied[a][m]
  BY <1>1, <1>6
<1> HIDE DEF new
<1>8. /\ applied' \in [Clients -> Seq(Nat)]
      /\ applied'[a] = new
      /\ \A c \in Clients \ {a} : applied'[c] = applied[c]
  BY <1>1, <1>5, <1>7 DEF Types, new
<1>9. /\ \A c \in Clients : Len(applied'[c]) = Len(applied[c])
      /\ \A c \in Clients : \A m \in 1..Len(made[c]) :
                 applied'[c][m] = IF c = a /\ m = n THEN applied[c][m] + 1
                                  ELSE applied[c][m]
  BY <1>7, <1>8 DEF Types
<1>10. Facts(config', status') \in SUBSET {"gone", "capturing", "idle"}
  BY DEF Facts
<1>11. seen' = [c \in Clients |-> seen[c] \cup Facts(config', status')]
  BY DEF CarryOut, Watch
<1>12. QED
  BY <1>3, <1>4, <1>8, <1>9, <1>10, <1>11 DEF CarryOut, Types

(* A request that leaves the wire, and one that is put on it.                *)
LEMMA UnderwayLess ==
    ASSUME IsFiniteSet(wire), NEW r \in wire, wire' = wire \ {r}, NEW c, NEW n
    PROVE  /\ Cardinality(Underway(c, n)) \in Nat
           /\ Cardinality(Underway(c, n)') \in Nat
           /\ Cardinality(Underway(c, n)') <= Cardinality(Underway(c, n))
           /\ c = r.client /\ n = r.call =>
                 Cardinality(Underway(c, n)') = Cardinality(Underway(c, n)) - 1
<1>1. IsFiniteSet(Underway(c, n)) /\ Cardinality(Underway(c, n)) \in Nat
  BY FS_Subset, FS_CardinalityType DEF Underway
<1>2. CASE c = r.client /\ n = r.call
  <2>1. Underway(c, n)' = Underway(c, n) \ {r} /\ r \in Underway(c, n)
    BY <1>2 DEF Underway
  <2>2. Cardinality(Underway(c, n) \ {r}) = Cardinality(Underway(c, n)) - 1
    BY <1>1, <2>1, FS_RemoveElement
  <2>3. Cardinality(Underway(c, n)') \in Nat
    BY <1>1, <2>1, FS_Subset, FS_CardinalityType
  <2>4. QED
    BY <1>1, <2>1, <2>2, <2>3
<1>3. CASE ~(c = r.client /\ n = r.call)
  <2>1. Underway(c, n)' = Underway(c, n)
    BY <1>3 DEF Underway
  <2>2. QED
    BY <1>1, <1>3, <2>1
<1>4. QED
  BY <1>2, <1>3

LEMMA UnderwayMore ==
    ASSUME IsFiniteSet(wire), NEW r, wire' = wire \cup {r}, NEW c, NEW n
    PROVE  /\ Cardinality(Underway(c, n)) \in Nat
           /\ Cardinality(Underway(c, n)') \in Nat
           /\ Cardinality(Underway(c, n)') <= Cardinality(Underway(c, n)) + 1
           /\ ~(c = r.client /\ n = r.call) =>
                 Cardinality(Underway(c, n)') = Cardinality(Underway(c, n))
<1>1. IsFiniteSet(Underway(c, n)) /\ Cardinality(Underway(c, n)) \in Nat
  BY FS_Subset, FS_CardinalityType DEF Underway
<1>2. CASE c = r.client /\ n = r.call
  <2>1. Underway(c, n)' = Underway(c, n) \cup {r}
    BY <1>2 DEF Underway
  <2>2. /\ IsFiniteSet(Underway(c, n) \cup {r})
        /\ Cardinality(Underway(c, n) \cup {r}) =
              IF r \in Underway(c, n) THEN Cardinality(Underway(c, n))
              ELSE Cardinality(Underway(c, n)) + 1
    BY <1>1, FS_AddElement
  <2>3. QED
    BY <1>1, <1>2, <2>1, <2>2
<1>3. CASE ~(c = r.client /\ n = r.call)
  <2>1. Underway(c, n)' = Underway(c, n)
    BY <1>3 DEF Underway
  <2>2. QED
    BY <1>1, <1>3, <2>1
<1>4. QED
  BY <1>2, <1>3

-----------------------------------------------------------------------------
(* Every step keeps the invariant.                                           *)

(* Connect carries out a request, of the current call of its client or of an *)
(* earlier one that was given up.                                            *)
LEMMA CarryOutStep ==
    ASSUME IInv, NEW r \in wire, wire' = wire \ {r}, CarryOut(r), UNCHANGED <<made, outcome>>
    PROVE  IInv'
<1> USE DEF IInv
<1>0. /\ config' \in Configs \cup {NULL}
      /\ status' \in Statuses
      /\ applied' \in [Clients -> Seq(Nat)]
      /\ \A c \in Clients : Len(applied'[c]) = Len(applied[c])
      /\ \A c \in Clients : \A n \in 1..Len(made[c]) :
            applied'[c][n] = IF c = r.client /\ n = r.call THEN applied[c][n] + 1
                             ELSE applied[c][n]
      /\ seen' \in [Clients -> SUBSET {"gone", "capturing", "idle"}]
      /\ \A c \in Clients : seen[c] \subseteq seen'[c] /\ Facts(config', status') \subseteq seen'[c]
      /\ Answer(r, 200, status)
  BY CarryOutEffect
<1>1. /\ request' \in [Clients -> [phase : Phases, attempt : 0..Attempts,
                                   answer : Answers \cup {NULL}]]
      /\ \A c \in Clients :
            \/ request'[c] = request[c]
            \/ /\ c = r.client
               /\ request[c].phase = "wait"
               /\ Len(made[c]) = r.call
               /\ request'[c].phase = "answered"
               /\ request'[c].attempt = request[c].attempt
               /\ request'[c].answer = [code |-> 200, body |-> status]
  BY <1>0, AnswerEffect DEF Types, Codes
<1>2. Types'
  <2>1. IsFiniteSet(wire') /\ wire' \in SUBSET Requests
    BY FS_Subset DEF Types
  <2>2. QED
    BY <1>0, <1>1, <2>1 DEF Types
<1>3. LoopInv'
  <2>1. [code |-> 200, body |-> status] \in Answers
    BY DEF Answers, Codes, Types
  <2>2. QED
    BY <1>1, <2>1 DEF LoopInv, LoopIsSo
<1>4. AttemptsInv'
  <2> SUFFICES ASSUME NEW c \in Clients, NEW n \in 1..Len(made[c])
               PROVE  applied'[c][n] + Cardinality(Underway(c, n)') <= AttemptsMade(c, n)'
    BY DEF AttemptsInv
  <2>1. applied[c][n] + Cardinality(Underway(c, n)) <= AttemptsMade(c, n)
    BY DEF AttemptsInv
  <2>2. AttemptsMade(c, n)' = AttemptsMade(c, n)
    BY <1>1 DEF AttemptsMade
  <2>3. AttemptsMade(c, n) \in Nat /\ applied[c][n] \in Nat
    BY ManagerAssumption DEF AttemptsMade, Types
  <2>4. /\ Cardinality(Underway(c, n)) \in Nat
        /\ Cardinality(Underway(c, n)') \in Nat
        /\ Cardinality(Underway(c, n)') <= Cardinality(Underway(c, n))
        /\ c = r.client /\ n = r.call =>
              Cardinality(Underway(c, n)') = Cardinality(Underway(c, n)) - 1
    BY UnderwayLess DEF Types
  <2>5. applied'[c][n] = IF c = r.client /\ n = r.call THEN applied[c][n] + 1
                         ELSE applied[c][n]
    BY <1>0
  <2>6. QED
    BY <2>1, <2>2, <2>3, <2>4, <2>5
<1>5. SeenInv'
  BY <1>0 DEF SeenInv
<1>6. AnswerInv'
  <2> SUFFICES ASSUME NEW c \in Clients, request'[c].phase = "answered"
               PROVE  LET answer == request'[c].answer
                      IN  /\ answer.code = 200 =>
                                /\ applied'[c][Len(made[c])] > 0
                                /\ Call(c).op = "delete" => "gone" \in seen'[c]
                                /\ Call(c).op = "is_healthy" =>
                                      IF Captures(answer.body) THEN "capturing" \in seen'[c]
                                      ELSE "idle" \in seen'[c]
                          /\ answer.code = 404 => "gone" \in seen'[c]
    BY DEF AnswerInv, AnswerIsSo, Call, Captures
  <2>1. Len(made[c]) \in 1..Len(made[c]) /\ applied[c][Len(made[c])] \in Nat
    BY <1>1, CurrentCall
  <2>2. CASE request'[c] = request[c]
    <3>1. PICK n \in 1..Len(made[c]) : n = Len(made[c]) /\ applied[c][n] \in Nat
      BY <2>1
    <3>2. applied'[c][n] = applied[c][n] + 1 \/ applied'[c][n] = applied[c][n]
      BY <1>0
    <3>3. seen[c] \subseteq seen'[c]
      BY <1>0
    <3>4. QED
      BY <2>2, <3>1, <3>2, <3>3 DEF AnswerInv, AnswerIsSo
  <2>3. CASE /\ c = r.client
             /\ Len(made[c]) = r.call
             /\ request'[c].answer = [code |-> 200, body |-> status]
    <3>1. applied'[c][Len(made[c])] > 0
      BY <1>0, <2>1, <2>3
    <3>2. Call(c).op = "delete" => config' = NULL
      BY <2>3 DEF CarryOut, Call
    <3>3. Call(c).op = "is_healthy" => status' = status
      BY <2>3 DEF CarryOut, Call
    <3>4. QED
      BY <1>0, <2>3, <3>1, <3>2, <3>3 DEF Facts
  <2>4. QED
    BY <1>1, <2>2, <2>3
<1>7. OutcomeInv'
  BY <1>0 DEF OutcomeInv, HealthAnswerWasSo, EndedDeleteLeftNoConnector, Call
<1>8. QED
  BY <1>2, <1>3, <1>4, <1>5, <1>6, <1>7

(* A request is lost, or Connect refuses it: only an answer may follow.      *)
LEMMA RefuseStep ==
    ASSUME IInv, NEW r \in wire, wire' = wire \ {r},
           Refuse(r) \/ UNCHANGED <<connectVars, applied, request, seen>>,
           UNCHANGED <<made, outcome>>
    PROVE  IInv'
<1> USE DEF IInv
<1>0. UNCHANGED <<config, status, applied, seen, made, outcome>>
  BY DEF Refuse, connectVars
<1>1. /\ request' \in [Clients -> [phase : Phases, attempt : 0..Attempts,
                                   answer : Answers \cup {NULL}]]
      /\ \A c \in Clients :
            \/ request'[c] = request[c]
            \/ /\ request[c].phase = "wait"
               /\ request'[c].phase = "answered"
               /\ request'[c].attempt = request[c].attempt
               /\ request'[c].answer \in Answers
               /\ request'[c].answer.code = 409 \/ (request'[c].answer.code = 404 /\ config = NULL)
  <2>1. CASE request' = request
    BY <2>1 DEF Types
  <2>2. CASE Answer(r, 409, NewConnector)
    <3>1. [code |-> 409, body |-> NewConnector] \in Answers
      BY NewConnectorType DEF Answers, Codes
    <3>2. 409 \in Codes
      BY DEF Codes
    <3>3. QED
      BY <2>2, <3>1, <3>2, NewConnectorType, AnswerEffect
  <2>3. CASE config = NULL /\ Answer(r, 404, NewConnector)
    <3>1. [code |-> 404, body |-> NewConnector] \in Answers
      BY NewConnectorType DEF Answers, Codes
    <3>2. 404 \in Codes
      BY DEF Codes
    <3>3. QED
      BY <2>3, <3>1, <3>2, NewConnectorType, AnswerEffect
  <2>4. QED
    BY <2>1, <2>2, <2>3 DEF Refuse
<1>2. Types'
  <2>1. IsFiniteSet(wire') /\ wire' \in SUBSET Requests
    BY FS_Subset DEF Types
  <2>2. QED
    BY <1>0, <1>1, <2>1 DEF Types
<1>3. LoopInv'
  BY <1>0, <1>1 DEF LoopInv, LoopIsSo
<1>4. AttemptsInv'
  <2> SUFFICES ASSUME NEW c \in Clients, NEW n \in 1..Len(made[c])
               PROVE  applied[c][n] + Cardinality(Underway(c, n)') <= AttemptsMade(c, n)'
    BY <1>0 DEF AttemptsInv
  <2>1. applied[c][n] + Cardinality(Underway(c, n)) <= AttemptsMade(c, n)
    BY DEF AttemptsInv
  <2>2. AttemptsMade(c, n)' = AttemptsMade(c, n)
    BY <1>0, <1>1 DEF AttemptsMade
  <2>3. AttemptsMade(c, n) \in Nat /\ applied[c][n] \in Nat
    BY ManagerAssumption DEF AttemptsMade, Types
  <2>4. /\ Cardinality(Underway(c, n)) \in Nat
        /\ Cardinality(Underway(c, n)') \in Nat
        /\ Cardinality(Underway(c, n)') <= Cardinality(Underway(c, n))
    BY UnderwayLess DEF Types
  <2>5. QED
    BY <2>1, <2>2, <2>3, <2>4
<1>5. SeenInv'
  BY <1>0, <1>1 DEF SeenInv
<1>6. AnswerInv'
  <2> SUFFICES ASSUME NEW c \in Clients, request'[c].phase = "answered"
               PROVE  LET answer == request'[c].answer
                      IN  /\ answer.code = 200 =>
                                /\ applied[c][Len(made[c])] > 0
                                /\ Call(c).op = "delete" => "gone" \in seen[c]
                                /\ Call(c).op = "is_healthy" =>
                                      IF Captures(answer.body) THEN "capturing" \in seen[c]
                                      ELSE "idle" \in seen[c]
                          /\ answer.code = 404 => "gone" \in seen[c]
    BY <1>0 DEF AnswerInv, AnswerIsSo, Call, Captures
  <2>1. CASE request'[c] = request[c]
    BY <2>1 DEF AnswerInv, AnswerIsSo
  <2>2. CASE /\ request[c].phase = "wait"
             /\ request'[c].answer.code = 409 \/ (request'[c].answer.code = 404 /\ config = NULL)
    <3>1. config = NULL => "gone" \in seen[c]
      BY <2>2 DEF SeenInv, Facts
    <3>2. QED
      BY <2>2, <3>1
  <2>3. QED
    BY <1>1, <2>1, <2>2
<1>7. OutcomeInv'
  BY <1>0 DEF OutcomeInv, HealthAnswerWasSo, EndedDeleteLeftNoConnector, Call
<1>8. QED
  BY <1>2, <1>3, <1>4, <1>5, <1>6, <1>7

(* The workers change, and every client with an open call is there to see.   *)
LEMMA WorkersStep ==
    ASSUME IInv, WorkersChange
    PROVE  IInv'
<1> USE DEF IInv
<1>1. /\ UNCHANGED <<config, wire, applied, made, request, outcome>>
      /\ status' \in Statuses
      /\ seen' = [c \in Clients |-> seen[c] \cup Facts(config, status')]
  BY DEF WorkersChange, Watch, clientVars
<1>2. Facts(config, status') \in SUBSET {"gone", "capturing", "idle"}
  BY DEF Facts
<1>3. \A c \in Clients : seen[c] \subseteq seen'[c] /\ Facts(config, status') \subseteq seen'[c]
  BY <1>1
<1>4. Types'
  BY <1>1, <1>2 DEF Types
<1>5. LoopInv' /\ AttemptsInv'
  BY <1>1 DEF LoopInv, LoopIsSo, AttemptsInv, Underway, AttemptsMade
<1>6. SeenInv'
  BY <1>1, <1>3 DEF SeenInv
<1>7. AnswerInv'
  BY <1>1, <1>3 DEF AnswerInv, AnswerIsSo, Call, Captures
<1>8. OutcomeInv'
  BY <1>1, <1>3 DEF OutcomeInv, HealthAnswerWasSo, EndedDeleteLeftNoConnector, Call
<1>9. QED
  BY <1>4, <1>5, <1>6, <1>7, <1>8

(* A new call: it starts with what is so now, and no request of it is on its *)
(* way yet.                                                                  *)
LEMMA BeginStep ==
    ASSUME IInv, NEW c \in Clients, Begin(c)
    PROVE  IInv'
<1> USE DEF IInv
<1>0. /\ request[c].phase = "none"
      /\ request' = [request EXCEPT ![c] = [NoRequest EXCEPT !.phase = "send"]]
      /\ outcome' = [outcome EXCEPT ![c] = [result |-> "open", code |-> NULL]]
      /\ seen' = [seen EXCEPT ![c] = Facts(config, status)]
      /\ applied' = [applied EXCEPT ![c] = Append(applied[c], 0)]
      /\ UNCHANGED <<config, status, wire>>
  BY DEF Begin, connectVars
<1>1. PICK call \in Calls : made' = [made EXCEPT ![c] = Append(made[c], call)]
  BY DEF Begin
<1> DEFINE n == Len(made[c])
<1>2. /\ made' \in [Clients -> Seq(Calls)]
      /\ made'[c] = Append(made[c], call)
      /\ \A d \in Clients \ {c} : made'[d] = made[d]
      /\ n \in Nat /\ Len(made'[c]) = n + 1
  <2>1. made[c] \in Seq(Calls)
    BY DEF Types
  <2> DEFINE new == Append(made[c], call)
  <2>2. new \in Seq(Calls) /\ n \in Nat /\ Len(new) = n + 1
    BY <2>1
  <2>3. made' = [made EXCEPT ![c] = new]
    BY <1>1
  <2> HIDE DEF new
  <2>4. made'[c] = new /\ made' \in [Clients -> Seq(Calls)]
    BY <2>2, <2>3 DEF Types
  <2>5. \A d \in Clients \ {c} : made'[d] = made[d]
    BY <2>3 DEF Types
  <2>6. QED
    BY <2>2, <2>4, <2>5 DEF new
<1>3. /\ applied' \in [Clients -> Seq(Nat)]
      /\ applied'[c] = Append(applied[c], 0)
      /\ \A d \in Clients \ {c} : applied'[d] = applied[d]
      /\ Len(applied'[c]) = n + 1
      /\ \A m \in 1..n : applied'[c][m] = applied[c][m]
      /\ applied'[c][n + 1] = 0
  BY <1>0 DEF Types
<1>4. /\ request' \in [Clients -> [phase : Phases, attempt : 0..Attempts,
                                   answer : Answers \cup {NULL}]]
      /\ request'[c].phase = "send" /\ request'[c].attempt = 0
      /\ \A d \in Clients \ {c} : request'[d] = request[d]
  <2>1. [NoRequest EXCEPT !.phase = "send"] = [phase |-> "send", attempt |-> 0, answer |-> NULL]
    BY DEF NoRequest
  <2>2. [phase |-> "send", attempt |-> 0, answer |-> NULL]
           \in [phase : Phases, attempt : 0..Attempts, answer : Answers \cup {NULL}]
    BY ManagerAssumption DEF Phases
  <2>3. QED
    BY <1>0, <2>1, <2>2 DEF Types
<1>5. /\ outcome' \in [Clients -> [result : Results, code : Codes \cup {NULL}]]
      /\ outcome'[c].result = "open" /\ outcome'[c].code = NULL
      /\ \A d \in Clients \ {c} : outcome'[d] = outcome[d]
  BY <1>0 DEF Types, Results
<1>6. /\ seen' \in [Clients -> SUBSET {"gone", "capturing", "idle"}]
      /\ seen'[c] = Facts(config, status)
      /\ \A d \in Clients \ {c} : seen'[d] = seen[d]
  <2>1. Facts(config, status) \in SUBSET {"gone", "capturing", "idle"}
    BY DEF Facts
  <2>2. QED
    BY <1>0, <2>1 DEF Types
<1>7. Types'
  <2>1. \A d \in Clients : Len(applied'[d]) = Len(made'[d])
    BY <1>2, <1>3 DEF Types
  <2>2. ASSUME NEW r \in wire
        PROVE  r.call \in 1..Len(made'[r.client])
    <3>1. r.client \in Clients /\ r.call \in 1..Len(made[r.client])
      BY DEF Types, Requests
    <3>2. CASE r.client = c
      BY <1>2, <3>1, <3>2
    <3>3. CASE r.client # c
      BY <1>2, <3>1, <3>3
    <3>4. QED
      BY <3>2, <3>3
  <2>3. QED
    BY <1>0, <1>2, <1>3, <1>4, <1>5, <1>6, <2>1, <2>2 DEF Types
<1>8. LoopInv'
  <2>1. LoopIsSo(c)'
    BY <1>2, <1>4, <1>5, ManagerAssumption DEF LoopIsSo
  <2>2. ASSUME NEW d \in Clients \ {c}
        PROVE  LoopIsSo(d)'
    BY <1>2, <1>4, <1>5 DEF LoopInv, LoopIsSo
  <2>3. QED
    BY <2>1, <2>2 DEF LoopInv
<1>9. AttemptsInv'
  <2> SUFFICES ASSUME NEW d \in Clients, NEW m \in 1..Len(made'[d])
               PROVE  applied'[d][m] + Cardinality(Underway(d, m)) <= AttemptsMade(d, m)'
    BY <1>0 DEF AttemptsInv, Underway
  <2>1. CASE d # c
    BY <1>2, <1>3, <1>4, <2>1 DEF AttemptsInv, AttemptsMade
  <2>2. CASE d = c /\ m = n + 1
    <3>1. Underway(d, m) = {}
      BY <1>2, <2>2 DEF Underway, Types, Requests
    <3>2. Cardinality(Underway(d, m)) = 0
      BY <3>1, FS_EmptySet
    <3>3. QED
      BY <1>2, <1>3, <1>4, <2>2, <3>2 DEF AttemptsMade
  <2>3. CASE d = c /\ m \in 1..n
    <3>1. applied[c][m] + Cardinality(Underway(c, m)) <= AttemptsMade(c, m)
      BY <2>3 DEF AttemptsInv
    <3>2. AttemptsMade(c, m) <= Attempts /\ AttemptsMade(c, m) \in Nat
      BY ManagerAssumption DEF AttemptsMade, Types
    <3>3. AttemptsMade(c, m)' = Attempts
      BY <1>2, <2>3 DEF AttemptsMade
    <3>4. applied[c][m] \in Nat /\ Cardinality(Underway(c, m)) \in Nat
      BY <2>3, FS_Subset, FS_CardinalityType DEF Types, Underway
    <3>5. applied'[c][m] = applied[c][m]
      BY <1>3, <2>3
    <3>6. QED
      BY <2>3, <3>1, <3>2, <3>3, <3>4, <3>5, ManagerAssumption
  <2>4. d = c => m = n + 1 \/ m \in 1..n
    BY <1>2
  <2>5. QED
    BY <2>1, <2>2, <2>3, <2>4
<1>10. SeenInv'
  BY <1>0, <1>4, <1>6 DEF SeenInv
<1>11. AnswerInv'
  <2> SUFFICES ASSUME NEW d \in Clients \ {c}, request'[d].phase = "answered"
               PROVE  AnswerIsSo(d)'
    BY <1>4 DEF AnswerInv
  <2>1. request[d].phase = "answered" => AnswerIsSo(d)
    BY DEF AnswerInv
  <2>2. QED
    <3>1. /\ request'[d] = request[d] /\ made'[d] = made[d]
          /\ applied'[d] = applied[d] /\ seen'[d] = seen[d]
      BY <1>2, <1>3, <1>4, <1>6
    <3>2. QED
      BY <2>1, <3>1 DEF AnswerIsSo, Call, Captures
<1>12. OutcomeInv'
  <2>1. NULL # 404
    BY ManagerAssumption
  <2>2. QED
    <3>1. \A d \in Clients \ {c} :
             made'[d] = made[d] /\ outcome'[d] = outcome[d] /\ seen'[d] = seen[d]
      BY <1>2, <1>5, <1>6
    <3>2. QED
      BY <1>5, <2>1, <3>1 DEF OutcomeInv, HealthAnswerWasSo, EndedDeleteLeftNoConnector, Call
<1>13. QED
  BY <1>7, <1>8, <1>9, <1>10, <1>11, <1>12

(* The next attempt of a call: one more request on the wire, one attempt     *)
(* more made.                                                                *)
LEMMA SendStep ==
    ASSUME IInv, NEW c \in Clients, Send(c)
    PROVE  IInv'
<1> USE DEF IInv
<1> DEFINE k == request[c].attempt
           new == [request[c] EXCEPT !.phase = "wait", !.attempt = k + 1]
<1>0. /\ request[c].phase = "send"
      /\ request' = [request EXCEPT ![c] = new]
      /\ UNCHANGED <<config, status, made, applied, outcome, seen>>
  BY DEF Send, connectVars, Types
<1>1. k \in Nat /\ k < Attempts /\ k + 1 \in 0..Attempts
  BY <1>0, ManagerAssumption DEF LoopInv, LoopIsSo, Types
<1>2. /\ new \in [phase : Phases, attempt : 0..Attempts, answer : Answers \cup {NULL}]
      /\ new.phase = "wait" /\ new.attempt = k + 1
  BY <1>1 DEF Types, Phases
<1> HIDE DEF new
<1>3. /\ request' \in [Clients -> [phase : Phases, attempt : 0..Attempts,
                                   answer : Answers \cup {NULL}]]
      /\ request'[c].phase = "wait" /\ request'[c].attempt = k + 1
      /\ \A d \in Clients \ {c} : request'[d] = request[d]
  BY <1>0, <1>2 DEF Types
<1>4. Len(made[c]) \in 1..Len(made[c])
  BY <1>0, CurrentCall
<1> DEFINE r == [client |-> c, call |-> Len(made[c]), attempt |-> request'[c].attempt]
<1>5. wire' = wire \cup {r} /\ r \in Requests /\ r.client = c /\ r.call = Len(made[c])
  BY <1>1, <1>3, <1>4 DEF Send, Requests
<1> HIDE DEF r
<1>6. Types'
  <2>1. IsFiniteSet(wire')
    BY <1>5, FS_AddElement DEF Types
  <2>2. QED
    BY <1>0, <1>3, <1>4, <1>5, <2>1 DEF Types
<1>7. LoopInv'
  <2>1. LoopIsSo(c)'
    BY <1>0, <1>3 DEF LoopInv, LoopIsSo
  <2>2. ASSUME NEW d \in Clients \ {c}
        PROVE  LoopIsSo(d)'
    BY <1>0, <1>3 DEF LoopInv, LoopIsSo
  <2>3. QED
    BY <2>1, <2>2 DEF LoopInv
<1>8. AttemptsInv'
  <2> SUFFICES ASSUME NEW d \in Clients, NEW m \in 1..Len(made[d])
               PROVE  applied[d][m] + Cardinality(Underway(d, m)') <= AttemptsMade(d, m)'
    BY <1>0 DEF AttemptsInv
  <2>1. applied[d][m] + Cardinality(Underway(d, m)) <= AttemptsMade(d, m)
    BY DEF AttemptsInv
  <2>2. applied[d][m] \in Nat /\ AttemptsMade(d, m) \in Nat
    BY ManagerAssumption DEF AttemptsMade, Types
  <2>3. /\ Cardinality(Underway(d, m)) \in Nat
        /\ Cardinality(Underway(d, m)') \in Nat
        /\ Cardinality(Underway(d, m)') <= Cardinality(Underway(d, m)) + 1
        /\ ~(d = r.client /\ m = r.call) =>
              Cardinality(Underway(d, m)') = Cardinality(Underway(d, m))
    BY <1>5, UnderwayMore DEF Types
  <2>4. CASE d = c /\ m = Len(made[c])
    <3>1. AttemptsMade(d, m)' = k + 1 /\ AttemptsMade(d, m) = k
      BY <1>0, <1>3, <2>4 DEF AttemptsMade
    <3>2. QED
      BY <1>1, <2>1, <2>2, <2>3, <3>1
  <2>5. CASE ~(d = c /\ m = Len(made[c]))
    <3>1. AttemptsMade(d, m)' = AttemptsMade(d, m)
      BY <1>0, <1>3, <2>5 DEF AttemptsMade
    <3>2. QED
      BY <1>5, <2>1, <2>3, <2>5, <3>1
  <2>6. QED
    BY <2>4, <2>5
<1>9. SeenInv'
  BY <1>0, <1>3 DEF SeenInv
<1>10. AnswerInv'
  BY <1>0, <1>3 DEF AnswerInv, AnswerIsSo, Call, Captures
<1>11. OutcomeInv'
  BY <1>0 DEF OutcomeInv, HealthAnswerWasSo, EndedDeleteLeftNoConnector, Call
<1>12. QED
  BY <1>6, <1>7, <1>8, <1>9, <1>10, <1>11

(* What a step that ends an attempt leaves of the invariant, whatever the    *)
(* caller is told.                                                           *)
LEMMA AttemptEnds ==
    ASSUME IInv, NEW c \in Clients,
           UNCHANGED <<connectVars, wire, made, applied, seen>>,
           request' \in [Clients -> [phase : Phases, attempt : 0..Attempts,
                                    answer : Answers \cup {NULL}]],
           outcome' \in [Clients -> [result : Results, code : Codes \cup {NULL}]],
           \A d \in Clients \ {c} : request'[d] = request[d] /\ outcome'[d] = outcome[d],
           request'[c].attempt = request[c].attempt,
           request'[c].phase \in {"send", "none"},
           request[c].phase # "none"
    PROVE  Types' /\ AttemptsInv' /\ SeenInv' /\ AnswerInv'
<1> USE DEF IInv, connectVars
<1>1. Types'
  BY DEF Types
<1>2. AttemptsInv'
  BY DEF AttemptsInv, AttemptsMade, Underway
<1>3. SeenInv'
  BY DEF SeenInv
<1>4. AnswerInv'
  BY DEF AnswerInv, AnswerIsSo, Call, Captures
<1>5. QED
  BY <1>1, <1>2, <1>3, <1>4

(* An attempt fails: of a 404 its client knows that the connector was gone.  *)
LEMMA AttemptFailsStep ==
    ASSUME IInv, NEW c \in Clients, NEW code \in Codes \cup {NULL}, AttemptFails(c, code),
           request[c].phase # "none",
           code = 404 => "gone" \in seen[c],
           UNCHANGED <<connectVars, wire, made, applied, seen>>
    PROVE  IInv'
<1> USE DEF IInv
<1>1. /\ request' \in [Clients -> [phase : Phases, attempt : 0..Attempts,
                                   answer : Answers \cup {NULL}]]
      /\ outcome' \in [Clients -> [result : Results, code : Codes \cup {NULL}]]
      /\ \A d \in Clients \ {c} : request'[d] = request[d] /\ outcome'[d] = outcome[d]
      /\ request'[c].attempt = request[c].attempt
      /\ \/ /\ request'[c].phase = "send"
            /\ request[c].attempt < Attempts
            /\ outcome' = outcome
         \/ /\ request'[c].phase = "none"
            /\ outcome'[c] = [result |-> "raised", code |-> code]
  BY AttemptFailsEffect
<1>2. Types' /\ AttemptsInv' /\ SeenInv' /\ AnswerInv'
  BY <1>1, AttemptEnds
<1>3. LoopInv'
  <2>1. LoopIsSo(c) /\ Len(made[c]) > 0
    BY CurrentCall DEF LoopInv
  <2>2. LoopIsSo(c)'
    BY <1>1, <2>1 DEF LoopIsSo
  <2>3. ASSUME NEW d \in Clients \ {c}
        PROVE  LoopIsSo(d)'
    BY <1>1 DEF LoopInv, LoopIsSo
  <2>4. QED
    BY <2>2, <2>3 DEF LoopInv
<1>4. OutcomeInv'
  <2>1. CASE outcome' = outcome
    BY <2>1 DEF OutcomeInv, HealthAnswerWasSo, EndedDeleteLeftNoConnector, Call
  <2>2. CASE outcome'[c] = [result |-> "raised", code |-> code]
    <3>1. outcome'[c].result = "raised" /\ outcome'[c].code = code
      BY <2>2
    <3>2. HealthAnswerWasSo'
      BY <1>1, <3>1 DEF OutcomeInv, HealthAnswerWasSo
    <3>3. EndedDeleteLeftNoConnector'
      BY <1>1, <3>1 DEF OutcomeInv, EndedDeleteLeftNoConnector, Call
    <3>4. QED
      BY <3>2, <3>3 DEF OutcomeInv
  <2>3. QED
    BY <1>1, <2>1, <2>2
<1>5. QED
  BY <1>2, <1>3, <1>4

(* The call returns what the answer said.                                    *)
LEMMA ReturnStep ==
    ASSUME IInv, NEW c \in Clients, Receive(c), request[c].answer.code = 200,
           request' = Loop(c, "none", NULL),
           outcome' = [outcome EXCEPT ![c] =
               [result |-> IF Call(c).op # "is_healthy" THEN "returned"
                           ELSE IF IsHealthy(request[c].answer.body) THEN "healthy"
                           ELSE "unhealthy",
                code |-> NULL]]
    PROVE  IInv'
<1> USE DEF IInv
<1> DEFINE result == IF Call(c).op # "is_healthy" THEN "returned"
                     ELSE IF IsHealthy(request[c].answer.body) THEN "healthy"
                     ELSE "unhealthy"
<1>1. /\ request[c].phase = "answered"
      /\ request[c].answer \in Answers
      /\ UNCHANGED <<connectVars, wire, made, applied, seen>>
  BY ReceiveEffect
<1>2. "none" \in Phases /\ result \in Results
  BY DEF Phases, Results
<1>3. /\ request' \in [Clients -> [phase : Phases, attempt : 0..Attempts,
                                   answer : Answers \cup {NULL}]]
      /\ \A d \in Clients \ {c} : request'[d] = request[d]
      /\ request'[c].phase = "none"
      /\ request'[c].attempt = request[c].attempt
  BY <1>2, RequestUpdate
<1>4. /\ outcome' \in [Clients -> [result : Results, code : Codes \cup {NULL}]]
      /\ \A d \in Clients \ {c} : outcome'[d] = outcome[d]
      /\ outcome'[c].result = result /\ outcome'[c].code = NULL
  BY <1>2 DEF Types
<1>5. Types' /\ AttemptsInv' /\ SeenInv' /\ AnswerInv'
  BY <1>1, <1>3, <1>4, AttemptEnds
<1>6. LoopInv'
  <2>1. LoopIsSo(c) /\ Len(made[c]) > 0
    BY <1>1, CurrentCall DEF LoopInv
  <2>2. LoopIsSo(c)'
    BY <1>1, <1>3, <1>4, <2>1 DEF LoopIsSo
  <2>3. ASSUME NEW d \in Clients \ {c}
        PROVE  LoopIsSo(d)'
    BY <1>1, <1>3, <1>4 DEF LoopInv, LoopIsSo
  <2>4. QED
    BY <2>2, <2>3 DEF LoopInv
<1>7. OutcomeInv'
  <2>1. request[c].answer.body \in Statuses
    BY <1>1 DEF Answers
  <2>2. NULL # 404
    BY ManagerAssumption
  <2>3. AnswerIsSo(c)
    BY <1>1 DEF AnswerInv
  <2>4. /\ result = "healthy" => "capturing" \in seen[c]
        /\ result = "unhealthy" => "idle" \in seen[c]
        /\ Call(c).op = "delete" => "gone" \in seen[c]
    BY <2>1, <2>3, HealthyCaptures DEF AnswerIsSo
  <2>5. HealthAnswerWasSo'
    BY <1>1, <1>4, <2>4 DEF OutcomeInv, HealthAnswerWasSo
  <2>6. EndedDeleteLeftNoConnector'
    BY <1>1, <1>4, <2>2, <2>4 DEF OutcomeInv, EndedDeleteLeftNoConnector, Call
  <2>7. QED
    BY <2>5, <2>6 DEF OutcomeInv
<1>8. QED
  BY <1>5, <1>6, <1>7

(* The initial states.                                                       *)
LEMMA InitInv ==
    ASSUME Init
    PROVE  IInv
<1> USE DEF Init
<1>1. Types
  <2>1. NoRequest \in [phase : Phases, attempt : 0..Attempts, answer : Answers \cup {NULL}]
    BY ManagerAssumption DEF NoRequest, Phases
  <2>2. IsFiniteSet(wire)
    BY FS_EmptySet
  <2>3. QED
    BY <2>1, <2>2, NewConnectorType DEF Types, Results
<1>2. LoopInv /\ SeenInv /\ AnswerInv
  BY ManagerAssumption DEF LoopInv, LoopIsSo, SeenInv, AnswerInv, NoRequest
<1>3. AttemptsInv
  BY DEF AttemptsInv
<1>4. OutcomeInv
  BY ManagerAssumption DEF OutcomeInv, HealthAnswerWasSo, EndedDeleteLeftNoConnector
<1>5. QED
  BY <1>1, <1>2, <1>3, <1>4 DEF IInv

(* Every step.                                                               *)
LEMMA NextInv ==
    ASSUME IInv, [Next]_vars
    PROVE  IInv'
<1>1. CASE Handle
  <2>1. PICK r \in wire : wire' = wire \ {r} /\ (CarryOut(r) \/ Refuse(r))
    BY <1>1 DEF Handle
  <2>2. UNCHANGED <<made, outcome>>
    BY <1>1 DEF Handle
  <2>3. QED
    BY <2>1, <2>2, CarryOutStep, RefuseStep
<1>2. CASE LoseRequest
  <2>1. PICK r \in wire : wire' = wire \ {r}
    BY <1>2 DEF LoseRequest
  <2>2. UNCHANGED <<connectVars, applied, request, seen>> /\ UNCHANGED <<made, outcome>>
    BY <1>2 DEF LoseRequest, clientVars
  <2>3. QED
    BY <2>1, <2>2, RefuseStep
<1>3. CASE WorkersChange
  BY <1>3, WorkersStep
<1>4. ASSUME NEW c \in Clients, Begin(c)
      PROVE  IInv'
  BY <1>4, BeginStep
<1>5. ASSUME NEW c \in Clients, Send(c)
      PROVE  IInv'
  BY <1>5, SendStep
<1>6. ASSUME NEW c \in Clients, Timeout(c)
      PROVE  IInv'
  <2>1. /\ request[c].phase # "none"
        /\ AttemptFails(c, NULL)
        /\ UNCHANGED <<connectVars, wire, made, applied, seen>>
    BY <1>6 DEF Timeout
  <2>2. NULL # 404
    BY ManagerAssumption
  <2>3. QED
    BY <2>1, <2>2, AttemptFailsStep
<1>7. ASSUME NEW c \in Clients, Receive(c)
      PROVE  IInv'
  <2>1. /\ request[c].phase = "answered"
        /\ request[c].answer \in Answers
        /\ UNCHANGED <<connectVars, wire, made, applied, seen>>
    BY <1>7, ReceiveEffect DEF IInv
  <2>2. CASE AttemptFails(c, request[c].answer.code)
    <3>1. request[c].answer.code \in Codes \cup {NULL}
      BY <2>1 DEF Answers
    <3>2. request[c].answer.code = 404 => "gone" \in seen[c]
      BY <2>1 DEF IInv, AnswerInv, AnswerIsSo
    <3>3. QED
      BY <2>1, <2>2, <3>1, <3>2, AttemptFailsStep
  <2>3. QED
    BY <1>7, <2>2, ReceiveEffect, ReturnStep DEF IInv
<1>8. CASE UNCHANGED vars
  <2>1. UNCHANGED <<config, status, wire, made, applied, request, outcome, seen>>
    BY <1>8 DEF vars
  <2>2. Types' /\ LoopInv' /\ AttemptsInv' /\ SeenInv'
    BY <2>1 DEF IInv, Types, LoopInv, LoopIsSo, AttemptsInv, AttemptsMade, Underway, SeenInv
  <2>3. AnswerInv' /\ OutcomeInv'
    BY <2>1 DEF IInv, AnswerInv, AnswerIsSo, OutcomeInv, HealthAnswerWasSo,
                EndedDeleteLeftNoConnector, Call, Captures
  <2>4. QED
    BY <2>2, <2>3 DEF IInv
<1>9. QED
  BY <1>1, <1>2, <1>3, <1>4, <1>5, <1>6, <1>7, <1>8 DEF Next, Step

LEMMA Invariance == Spec => []IInv
<1>1. Init => IInv
  BY InitInv
<1>2. IInv /\ [Next]_vars => IInv'
  BY NextInv
<1>3. QED
  BY <1>1, <1>2, PTL DEF Spec

-----------------------------------------------------------------------------
(* Types, and with them the bound on effects: however requests are delayed,  *)
(* lost and sent again, no call takes effect more often than the retry       *)
(* policy of with_retries allows attempts.                                   *)
THEOREM ManagerTypeCorrect == Spec => []TypeOK
<1>1. IInv => TypeOK
  <2> SUFFICES ASSUME IInv
               PROVE  TypeOK
    OBVIOUS
  <2>1. ASSUME NEW c \in Clients
        PROVE  applied[c] \in [1..Len(made[c]) -> 0..Attempts]
    <3>1. applied[c] \in [1..Len(made[c]) -> Nat]
      BY DEF IInv, Types
    <3>2. ASSUME NEW n \in 1..Len(made[c])
          PROVE  applied[c][n] <= Attempts
      <4>1. applied[c][n] + Cardinality(Underway(c, n)) <= AttemptsMade(c, n)
        BY DEF IInv, AttemptsInv
      <4>2. AttemptsMade(c, n) <= Attempts /\ AttemptsMade(c, n) \in Nat
        BY ManagerAssumption DEF AttemptsMade, IInv, Types
      <4>3. applied[c][n] \in Nat /\ Cardinality(Underway(c, n)) \in Nat
        BY <3>1, FS_Subset, FS_CardinalityType DEF IInv, Types, Underway
      <4>4. QED
        BY <4>1, <4>2, <4>3, ManagerAssumption
    <3>3. QED
      BY <3>1, <3>2, ManagerAssumption
  <2>2. QED
    BY <2>1 DEF IInv, Types, TypeOK, Phases, Requests
<1>2. QED
  BY <1>1, Invariance, PTL

(* is_healthy returns TRUE only if a task captured changes at some moment of *)
(* the call, and FALSE only if at some moment none did.                      *)
THEOREM HealthAnswerIsTrue == Spec => []HealthAnswerWasSo
<1>1. IInv => HealthAnswerWasSo
  BY DEF IInv, OutcomeInv
<1>2. QED
  BY <1>1, Invariance, PTL

(* After a delete that returned, or raised because the connector was not     *)
(* found, there was a moment of the call at which there was no connector.    *)
THEOREM DeleteIsHonest == Spec => []EndedDeleteLeftNoConnector
<1>1. IInv => EndedDeleteLeftNoConnector
  BY DEF IInv, OutcomeInv
<1>2. QED
  BY <1>1, Invariance, PTL

-----------------------------------------------------------------------------
(* The refinement.                                                           *)

(* What the abstract specification sees of a changed outcome.                *)
LEMMA ToldChange ==
    ASSUME Types, NEW c \in Clients, NEW result \in Results, NEW code \in Codes \cup {NULL},
           outcome' = [outcome EXCEPT ![c] = [result |-> result, code |-> code]]
    PROVE  Told' = [Told EXCEPT ![c] = IF result \in {"healthy", "unhealthy"} THEN "returned"
                                       ELSE result]
<1>1. /\ outcome'[c].result = result
      /\ \A d \in Clients \ {c} : outcome'[d] = outcome[d]
  BY DEF Types
<1> DEFINE told == IF result \in {"healthy", "unhealthy"} THEN "returned" ELSE result
           after == [Told EXCEPT ![c] = told]
<1>2. Told' = [d \in Clients |-> IF outcome'[d].result \in {"healthy", "unhealthy"}
                                 THEN "returned" ELSE outcome'[d].result]
  BY DEF Told
<1>3. after = [d \in Clients |-> IF d = c THEN told ELSE Told[d]]
  BY DEF Told
<1>4. ASSUME NEW d \in Clients
      PROVE  (IF outcome'[d].result \in {"healthy", "unhealthy"}
              THEN "returned" ELSE outcome'[d].result)
             = (IF d = c THEN told ELSE Told[d])
  BY <1>1 DEF Told
<1> HIDE DEF told
<1>5. QED
  BY <1>2, <1>3, <1>4 DEF told

(* A client in its request loop has a call that is open to its caller.       *)
LEMMA ToldOpen ==
    ASSUME Types, LoopInv, NEW c \in Clients
    PROVE  Told[c] = "open" <=> request[c].phase # "none"
BY DEF Told, LoopInv, LoopIsSo

(* Connect carries out a request: its call takes effect, for which it had an *)
(* attempt left.                                                             *)
LEMMA CarryOutTakesEffect ==
    ASSUME IInv, NEW r \in wire, CarryOut(r), UNCHANGED <<made, outcome>>
    PROVE  Calling!Next
<1> DEFINE c == r.client
           n == r.call
<1>1. c \in Clients /\ n \in 1..Len(made[c])
  BY DEF IInv, Types, Requests
<1>2. applied[c][n] < Attempts
  <2>1. applied[c][n] + Cardinality(Underway(c, n)) <= AttemptsMade(c, n)
    BY <1>1 DEF IInv, AttemptsInv
  <2>2. AttemptsMade(c, n) <= Attempts /\ AttemptsMade(c, n) \in Nat
    BY <1>1, ManagerAssumption DEF AttemptsMade, IInv, Types
  <2>3. IsFiniteSet(Underway(c, n)) /\ r \in Underway(c, n)
    BY FS_Subset DEF IInv, Types, Underway
  <2>4. Cardinality(Underway(c, n)) \in Nat /\ Cardinality(Underway(c, n)) # 0
    BY <2>3, FS_CardinalityType, FS_EmptySet
  <2>5. applied[c][n] \in Nat
    BY <1>1 DEF IInv, Types
  <2>6. QED
    BY <2>1, <2>2, <2>4, <2>5, ManagerAssumption
<1>3. Told' = Told
  BY DEF Told
<1>4. Calling!TakeEffect(c, n)
  BY <1>2, <1>3 DEF CarryOut, Calling!TakeEffect
<1>5. QED
  BY <1>1, <1>4 DEF Calling!Next

(* A new call.                                                               *)
LEMMA BeginMakes ==
    ASSUME IInv, NEW c \in Clients, Begin(c)
    PROVE  Calling!Next
<1>1. Told[c] # "open"
  BY ToldOpen DEF IInv, Begin
<1>2. Told' = [Told EXCEPT ![c] = "open"]
  BY ToldChange DEF IInv, Begin, Results
<1>3. Calling!Make(c)
  BY <1>1, <1>2 DEF Begin, Calling!Make, connectVars
<1>4. QED
  BY <1>3 DEF Calling!Next

(* An attempt that fails ends the call in an exception, or goes unnoticed.   *)
LEMMA AttemptFailsRaises ==
    ASSUME IInv, NEW c \in Clients, NEW code \in Codes \cup {NULL}, AttemptFails(c, code),
           request[c].phase # "none",
           UNCHANGED <<connectVars, wire, made, applied, seen>>
    PROVE  [Calling!Next]_Calling!vars
<1>1. CASE outcome' = outcome
  BY <1>1 DEF Told, Calling!vars, connectVars
<1>2. CASE outcome' = [outcome EXCEPT ![c] = [result |-> "raised", code |-> code]]
  <2>1. Told[c] = "open"
    BY ToldOpen DEF IInv
  <2>2. Told' = [Told EXCEPT ![c] = "raised"]
    BY <1>2, ToldChange DEF IInv, Results
  <2>3. Calling!Raise(c)
    BY <2>1, <2>2 DEF Calling!Raise, connectVars
  <2>4. QED
    BY <2>3 DEF Calling!Next
<1>3. QED
  BY <1>1, <1>2, AttemptFailsEffect DEF IInv

(* An answer of success ends the call, which has taken effect.               *)
LEMMA ReceiveReturns ==
    ASSUME IInv, NEW c \in Clients, Receive(c)
    PROVE  [Calling!Next]_Calling!vars
<1>1. /\ request[c].phase = "answered"
      /\ request[c].answer \in Answers
      /\ UNCHANGED <<connectVars, wire, made, applied, seen>>
  BY ReceiveEffect DEF IInv
<1>2. CASE AttemptFails(c, request[c].answer.code)
  <2>1. request[c].answer.code \in Codes \cup {NULL}
    BY <1>1 DEF Answers
  <2>2. QED
    BY <1>1, <1>2, <2>1, AttemptFailsRaises
<1>3. ASSUME NEW result \in {"returned", "healthy", "unhealthy"},
             request[c].answer.code = 200,
             outcome' = [outcome EXCEPT ![c] = [result |-> result, code |-> NULL]]
      PROVE  [Calling!Next]_Calling!vars
  <2>1. Told[c] = "open"
    BY <1>1, ToldOpen DEF IInv
  <2>2. Told' = [Told EXCEPT ![c] = "returned"]
    BY <1>3, ToldChange DEF IInv, Results
  <2>3. applied[c][Len(made[c])] > 0
    BY <1>1, <1>3 DEF IInv, AnswerInv, AnswerIsSo
  <2>4. Calling!Return(c)
    BY <1>1, <2>1, <2>2, <2>3 DEF Calling!Return, connectVars
  <2>5. QED
    BY <2>4 DEF Calling!Next
<1>4. QED
  BY <1>2, <1>3, ReceiveEffect DEF IInv

(* The calls of any number of clients implement AtLeastOnceCalls: a call     *)
(* that returned took effect after it was made, and no call ever takes       *)
(* effect more often than it may be attempted, whatever requests and answers *)
(* the network loses or delays past the end of their call.                   *)
THEOREM KeepsPromise == Spec => Promise
<1>1. Init => Calling!Init
  BY ManagerAssumption DEF Init, Calling!Init, Told
<1>2. IInv /\ [Next]_vars => [Calling!Next]_Calling!vars
  <2> SUFFICES ASSUME IInv, [Next]_vars
               PROVE  [Calling!Next]_Calling!vars
    OBVIOUS
  <2>1. CASE \E r \in wire : CarryOut(r) /\ UNCHANGED <<made, outcome>>
    BY <2>1, CarryOutTakesEffect
  <2>2. CASE UNCHANGED <<config, made, applied, outcome>>
    BY <2>2 DEF Told, Calling!vars
  <2>3. ASSUME NEW c \in Clients, Begin(c)
        PROVE  [Calling!Next]_Calling!vars
    BY <2>3, BeginMakes
  <2>4. ASSUME NEW c \in Clients, Timeout(c)
        PROVE  [Calling!Next]_Calling!vars
    <3>1. AttemptFails(c, NULL) /\ request[c].phase # "none"
          /\ UNCHANGED <<connectVars, wire, made, applied, seen>>
      BY <2>4 DEF Timeout
    <3>2. QED
      BY <3>1, AttemptFailsRaises
  <2>5. ASSUME NEW c \in Clients, Receive(c)
        PROVE  [Calling!Next]_Calling!vars
    BY <2>5, ReceiveReturns
  <2>6. Handle => \/ \E r \in wire : CarryOut(r) /\ UNCHANGED <<made, outcome>>
                  \/ UNCHANGED <<config, made, applied, outcome>>
    BY DEF Handle, Refuse, connectVars
  <2>7. LoseRequest \/ WorkersChange \/ (\E c \in Clients : Send(c)) \/ UNCHANGED vars
           => UNCHANGED <<config, made, applied, outcome>>
    BY DEF LoseRequest, WorkersChange, Send, vars, connectVars, clientVars
  <2>8. QED
    BY <2>1, <2>2, <2>3, <2>4, <2>5, <2>6, <2>7 DEF Next, Step
<1>3. QED
  BY <1>1, <1>2, Invariance, PTL DEF Spec, Promise, Calling!Spec
=============================================================================
