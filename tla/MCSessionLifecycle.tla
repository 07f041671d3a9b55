------------------------- MODULE MCSessionLifecycle -------------------------
(* Small instances of SessionLifecycle for TLC. *)
EXTENDS SessionLifecycle, TLC

Symmetry == Permutations(Resumers) \cup Permutations(Stoppers)
            \cup Permutations(Handles)

\* Symmetry reduction is unsound for liveness: there, the slots being alike, it
\* is enough to start with one of them, and to take it again when it is free.
FirstSlot == CHOOSE h \in Handles : TRUE
TakesFirst ==
    \A h \in Handles : entry'[h].open /\ ~entry[h].open /\ h # FirstSlot
                          => ~Free(FirstSlot)
InitOneSlot == Init /\ cur = FirstSlot
FairSpecFromOneSlot == InitOneSlot /\ [][Next]_vars /\ Fairness

\* What a free slot still holds of its last session is never read again: states that
\* differ in nothing else are one.
FreeSlotsAlike ==
    <<row, live, spawned, vm,
      [h \in Handles |-> IF Free(h) THEN NoEntry ELSE entry[h]],
      cur, crashes, exitLogged, exitWrite, lock, rq, sq, dq, boot>>
=============================================================================
