--------------------------- MODULE AtLeastOnceCalls ---------------------------
(* What a caller of ConnectorManager may rely on: a call that returns has    *)
(* taken effect since it was made; a call that raised may or may not have;   *)
(* and either may take effect again later, but never more often in all than  *)
(* it is attempted.                                                          *)
EXTENDS Integers, Sequences

CONSTANTS NULL, Clients, Calls, Attempts

VARIABLES config,   \* the configuration Connect has for the connector
          made,     \* per client, the calls it has made
          applied,  \* per client and call, how often it took effect
          outcome   \* per client, the outcome of its last call

vars == <<config, made, applied, outcome>>

Init ==
    /\ config = NULL
    /\ made = [c \in Clients |-> << >>]
    /\ applied = [c \in Clients |-> << >>]
    /\ outcome = [c \in Clients |-> NULL]

Make(c) ==
    /\ outcome[c] # "open"
    /\ \E call \in Calls : made' = [made EXCEPT ![c] = Append(@, call)]
    /\ applied' = [applied EXCEPT ![c] = Append(@, 0)]
    /\ outcome' = [outcome EXCEPT ![c] = "open"]
    /\ UNCHANGED config

TakeEffect(c, n) ==
    /\ applied[c][n] < Attempts
    /\ applied' = [applied EXCEPT ![c][n] = @ + 1]
    /\ config' = CASE made[c][n].op = "upsert" -> made[c][n].config
                   [] made[c][n].op = "delete" -> NULL
                   [] OTHER -> config
    /\ UNCHANGED <<made, outcome>>

Return(c) ==
    /\ outcome[c] = "open"
    /\ applied[c][Len(made[c])] > 0
    /\ outcome' = [outcome EXCEPT ![c] = "returned"]
    /\ UNCHANGED <<config, made, applied>>

Raise(c) ==
    /\ outcome[c] = "open"
    /\ outcome' = [outcome EXCEPT ![c] = "raised"]
    /\ UNCHANGED <<config, made, applied>>

Next ==
    \E c \in Clients :
        \/ Make(c) \/ Return(c) \/ Raise(c)
        \/ \E n \in 1..Len(made[c]) : TakeEffect(c, n)

Spec == Init /\ [][Next]_vars
=============================================================================
