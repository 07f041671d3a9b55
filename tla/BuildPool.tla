------------------------------- MODULE BuildPool -------------------------------
(***************************************************************************)
(* What the image services promise of the docker builds they run: a build  *)
(* is executed at most once, at most MaxGlobal of all builds are executed  *)
(* at a time, and at most MaxPerUser of one owner's custom builds.         *)
(***************************************************************************)
EXTENDS Naturals, FiniteSets

CONSTANTS CustomBuilds, AgentBuilds, Owner, MaxGlobal, MaxPerUser

VARIABLE pool  \* "new", "waiting", "executing" or "ended"

Builds == CustomBuilds \cup AgentBuilds
Executing == {b \in Builds : pool[b] = "executing"}
OwnedBy(u) == {b \in CustomBuilds : Owner[b] = u}

Room(b) ==
    /\ Cardinality(Executing) < MaxGlobal
    /\ b \in CustomBuilds =>
          Cardinality(Executing \cap OwnedBy(Owner[b])) < MaxPerUser

Init == pool = [b \in Builds |-> "new"]

Submit(b) == pool[b] = "new" /\ pool' = [pool EXCEPT ![b] = "waiting"]

Start(b) ==
    /\ pool[b] = "waiting" /\ Room(b)
    /\ pool' = [pool EXCEPT ![b] = "executing"]

\* Finished, withdrawn while it waited, or a copy of an image already built.
End(b) == pool[b] # "ended" /\ pool' = [pool EXCEPT ![b] = "ended"]

\* A restart ends what is executed and may end what waits.
Restart == \E lost \in SUBSET Builds :
    /\ Executing \subseteq lost
    /\ \A b \in lost : pool[b] # "new"
    /\ pool' = [b \in Builds |-> IF b \in lost THEN "ended" ELSE pool[b]]

Next ==
    \/ \E b \in Builds : Submit(b) \/ Start(b) \/ End(b)
    \/ Restart

Spec == Init /\ [][Next]_pool
=============================================================================
