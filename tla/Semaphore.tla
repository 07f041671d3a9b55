------------------------------- MODULE Semaphore -------------------------------
(***************************************************************************)
(* class Semaphore of CustomImageService.js: a count of the slots in use   *)
(* and a first-come first-served queue of the promises that wait for one.  *)
(***************************************************************************)
EXTENDS Naturals, Sequences

SemType(max, waiters) == [count : 0..max, queue : Seq(waiters)]

FreeSemaphore == [count |-> 0, queue |-> <<>>]

\* (Mutant: one slot too many.)
AcquireOneMore(s, max, w) ==
    IF s.count <= max THEN [s EXCEPT !.count = @ + 1]
                      ELSE [s EXCEPT !.queue = Append(@, w)]

Acquire(s, max, w) ==
    IF s.count < max THEN [s EXCEPT !.count = @ + 1]
                     ELSE [s EXCEPT !.queue = Append(@, w)]

\* (Mutant: the slot is given back as well as handed over.)
ReleaseTwice(s) ==
    [s EXCEPT !.queue = IF @ # <<>> THEN Tail(@) ELSE @,
              !.count = IF @ > 0 THEN @ - 1 ELSE 0]

\* With somebody waiting the slot changes hands and the count stays.
Release(s) ==
    IF s.queue # <<>> THEN [s EXCEPT !.queue = Tail(@)]
                      ELSE [s EXCEPT !.count = IF @ > 0 THEN @ - 1 ELSE 0]

Waits(s, w) == \E i \in 1..Len(s.queue) : s.queue[i] = w
=============================================================================
