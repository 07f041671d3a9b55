------------------------------ MODULE FifoMutex ------------------------------
(***************************************************************************)
(* What a per-project lock promises: a caller goes inside only when every  *)
(* caller that asked for the same project before it has left.              *)
(***************************************************************************)
CONSTANTS Calls, Projects, None

VARIABLES
    phase,  \* where a caller is: "away", "waiting" or "inside"
    place,  \* the project it asked for; None when it is away
    ahead   \* the callers that must leave before it

vars == <<phase, place, ahead>>

Init ==
    /\ phase = [c \in Calls |-> "away"]
    /\ place = [c \in Calls |-> None]
    /\ ahead = [c \in Calls |-> {}]

Ask(c, k) ==
    /\ phase[c] = "away"
    /\ phase' = [phase EXCEPT ![c] = "waiting"]
    /\ place' = [place EXCEPT ![c] = k]
    /\ ahead' = [ahead EXCEPT ![c] =
                   {d \in Calls : place[d] = k}]

GoInside(c) ==
    /\ phase[c] = "waiting"
    /\ ahead[c] = {}
    /\ phase' = [phase EXCEPT ![c] = "inside"]
    /\ UNCHANGED <<place, ahead>>

Leave(c) ==
    /\ phase[c] = "inside"
    /\ phase' = [phase EXCEPT ![c] = "away"]
    /\ place' = [place EXCEPT ![c] = None]
    /\ ahead' = [d \in Calls |-> ahead[d] \ {c}]

Next == \E c \in Calls :
    \/ \E k \in Projects : Ask(c, k)
    \/ GoInside(c)
    \/ Leave(c)

Spec == Init /\ [][Next]_vars
=============================================================================
