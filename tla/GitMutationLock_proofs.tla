----------------------- MODULE GitMutationLock_proofs -----------------------
(***************************************************************************)
(* Proofs about GitMutationLock, for any number of calls and projects.     *)
(***************************************************************************)
EXTENDS GitMutationLock, TLAPS

USE LockAssumption

\* Every step keeps the types of the lock's state.
LEMMA TypeStep == TypeOK /\ [Next]_vars => TypeOK'
  <1> SUFFICES ASSUME TypeOK, [Next]_vars PROVE TypeOK'
    OBVIOUS
  <1> USE DEF TypeOK
  <1>1. ASSUME NEW c \in Calls, NEW k \in Projects, Enter(c, k) PROVE TypeOK'
    BY <1>1 DEF Enter, Pending, Queue
  <1>2. ASSUME NEW c \in Calls, NEW p \in Calls, EnterHeld(c, p) PROVE TypeOK'
    BY <1>2 DEF EnterHeld
  <1>3. ASSUME NEW c \in Calls, Start(c) PROVE TypeOK'
    BY <1>3 DEF Start
  <1>4. ASSUME NEW c \in Calls, Settle(c) PROVE TypeOK'
    BY <1>4 DEF Settle, Ended
  <1>5. ASSUME NEW c \in Calls, Return(c) PROVE TypeOK'
    BY <1>5 DEF Return, Ended
  <1>6. ASSUME NEW c \in Calls, Cleanup(c) PROVE TypeOK'
    BY <1>6 DEF Cleanup
  <1>7. CASE UNCHANGED vars
    BY <1>7 DEF vars
  <1> QED
    BY <1>1, <1>2, <1>3, <1>4, <1>5, <1>6, <1>7 DEF Next, Proceed

\* The variables of withProjectGitLock keep their types.
THEOREM LockTypes == Spec => []TypeOK
  <1>1. Init => TypeOK
    BY DEF Init, TypeOK
  <1> QED
    BY <1>1, TypeStep, PTL DEF Spec

(***************************************************************************)
(* The strengthened invariant: one lemma per action.  Each says first what *)
(* the action does to the queues.                                          *)
(***************************************************************************)
\* A call from outside joins the end of its queue.
LEMMA EnterKeeps ==
    ASSUME NEW c \in Calls, NEW k \in Projects,
           TypeOK, LockInv, Enter(c, k)
    PROVE  LockInv'
  <1> USE DEF TypeOK, LockInv
  <1>1. \A j \in Projects : Queue(j)' = IF j = k THEN Queue(k) \cup {c} ELSE Queue(j)
    BY DEF Enter, Queue, Nesting
  <1>a. c \notin Queue(on[c]) /\ \A d \in Calls : c \notin ahead[d]
    BY DEF Enter, Queue, InLine
  <1>b. ahead' = [ahead EXCEPT ![c] = Queue(k)] /\ on' = [on EXCEPT ![c] = k]
    BY DEF Enter
  <1>2. InLine'
    <2> SUFFICES ASSUME NEW e \in Calls
                 PROVE  /\ e \notin Queue(on[e])' => ahead'[e] = {}
                        /\ ahead'[e] \subseteq Queue(on[e])' \ {e}
                        /\ \A d \in ahead'[e] : ahead'[d] \subseteq ahead'[e]
                        /\ \A d \in Queue(on[e])' \ {e} :
                              e \in Queue(on[e])' => e \in ahead'[d] \/ d \in ahead'[e]
      BY DEF InLine
    <2>1. CASE e = c
      <3>1. \A d \in Queue(k) : d \in Calls /\ d # c /\ on[d] = k
        BY DEF Enter, Queue
      <3> QED
        BY <1>1, <1>a, <1>b, <2>1, <3>1 DEF InLine
    <2>2. CASE e # c
      BY <1>1, <1>a, <1>b, <2>2 DEF InLine, Queue
    <2> QED
      BY <2>1, <2>2
  <1>3. Predecessor'
    BY <1>1 DEF Enter, Pending, Queue, InLine, Predecessor, TailInv, Nesting
  <1>4. TailInv'
    BY <1>1 DEF Enter, Queue, InLine, TailInv, Nesting
  <1>5. Nesting'
    BY DEF Enter, Nesting
  <1> QED
    BY <1>2, <1>3, <1>4, <1>5

\* A nested call never joins a queue.
LEMMA EnterHeldKeeps ==
    ASSUME NEW c \in Calls, NEW p \in Calls,
           TypeOK, LockInv, EnterHeld(c, p)
    PROVE  LockInv'
  <1> USE DEF TypeOK, LockInv
  <1>1. \A j \in Projects : Queue(j)' = Queue(j)
    BY DEF EnterHeld, Queue, Nesting
  <1>a. \A j \in Projects : c \notin Queue(j)
    BY DEF EnterHeld, Queue
  <1>2. InLine'
    BY <1>1, <1>a DEF EnterHeld, InLine
  <1>3. Predecessor'
    BY <1>1 DEF EnterHeld, Queue, InLine, Predecessor, Nesting
  <1>4. TailInv'
    BY <1>1 DEF EnterHeld, Queue, InLine, TailInv, Nesting
  <1>5. Nesting'
    BY DEF EnterHeld, Nesting
  <1> QED
    BY <1>2, <1>3, <1>4, <1>5

\* The holder stays in its queue until it settles.
LEMMA StartKeeps ==
    ASSUME NEW c \in Calls,
           TypeOK, LockInv, Start(c)
    PROVE  LockInv'
  <1> USE DEF TypeOK, LockInv
  <1>1. \A j \in Projects : Queue(j)' = Queue(j)
    BY DEF Start, Queue, Nesting
  <1>2. InLine'
    BY <1>1 DEF Start, Queue, InLine, Predecessor, Nesting
  <1>3. Predecessor'
    BY <1>1 DEF Start, Queue, InLine, Predecessor, Nesting
  <1>4. TailInv'
    BY <1>1 DEF Start, Queue, InLine, TailInv, Nesting
  <1>5. Nesting'
    BY DEF Start, Nesting
  <1> QED
    BY <1>2, <1>3, <1>4, <1>5

\* A call that settles leaves its queue, of which it was the first.
LEMMA SettleKeeps ==
    ASSUME NEW c \in Calls,
           TypeOK, LockInv, Settle(c)
    PROVE  LockInv'
  <1> USE DEF TypeOK, LockInv
  <1>1. \A j \in Projects : Queue(j)' = Queue(j) \ {c}
    BY DEF Settle, Ended, Queue, Nesting
  <1>2. InLine'
    BY <1>1 DEF Settle, Ended, Queue, InLine, Predecessor, Nesting
  <1>3. Predecessor'
    BY <1>1 DEF Settle, Ended, Queue, InLine, Predecessor, Nesting
  <1>4. TailInv'
    BY <1>1 DEF Settle, Ended, Queue, InLine, TailInv, Nesting, Predecessor
  <1>5. Nesting'
    BY DEF Settle, Ended, Nesting
  <1> QED
    BY <1>2, <1>3, <1>4, <1>5

\* A nested call never was in a queue.
LEMMA ReturnKeeps ==
    ASSUME NEW c \in Calls,
           TypeOK, LockInv, Return(c)
    PROVE  LockInv'
  <1> USE DEF TypeOK, LockInv
  <1>1. \A j \in Projects : Queue(j)' = Queue(j)
    BY DEF Return, Ended, Queue, Nesting
  <1>a. \A j \in Projects : c \notin Queue(j)
    BY DEF Return, Queue
  <1>2. InLine'
    BY <1>1, <1>a DEF Return, InLine
  <1>3. Predecessor'
    BY <1>1 DEF Return, Ended, Queue, InLine, Predecessor, Nesting
  <1>4. TailInv'
    BY <1>1 DEF Return, Ended, Queue, InLine, TailInv, Nesting
  <1>5. Nesting'
    BY DEF Return, Ended, Nesting
  <1> QED
    BY <1>2, <1>3, <1>4, <1>5

\* A call that cleans up has left its queue.
LEMMA CleanupKeeps ==
    ASSUME NEW c \in Calls,
           TypeOK, LockInv, Cleanup(c)
    PROVE  LockInv'
  <1> USE DEF TypeOK, LockInv
  <1>1. \A j \in Projects : Queue(j)' = Queue(j)
    BY DEF Cleanup, Queue, Nesting
  <1>2. InLine'
    BY <1>1 DEF Cleanup, Queue, InLine, Predecessor, Nesting
  <1>3. Predecessor'
    BY <1>1 DEF Cleanup, Queue, InLine, Predecessor, Nesting
  <1>4. TailInv'
    BY <1>1 DEF Cleanup, Queue, InLine, TailInv, Nesting
  <1>5. Nesting'
    BY DEF Cleanup, Nesting
  <1> QED
    BY <1>2, <1>3, <1>4, <1>5

\* Every step keeps the strengthened invariant.
LEMMA LockStep == TypeOK /\ LockInv /\ [Next]_vars => LockInv'
  <1> SUFFICES ASSUME TypeOK, LockInv, [Next]_vars PROVE LockInv'
    OBVIOUS
  <1>1. CASE UNCHANGED vars
    BY <1>1 DEF vars, LockInv, InLine, Predecessor, TailInv, Nesting, Queue
  <1> QED
    BY <1>1, EnterKeeps, EnterHeldKeeps, StartKeeps, SettleKeeps, ReturnKeeps,
       CleanupKeeps DEF Next, Proceed

\* What runs in a project belongs to its first in line, and there is one first.
LEMMA OneHolder == TypeOK /\ LockInv => Serialized
  <1> SUFFICES ASSUME TypeOK, LockInv,
                      NEW c \in Calls, NEW d \in Calls,
                      pc[c] = "running", pc[d] = "running", on[c] = on[d]
               PROVE  root[c] = root[d]
    BY DEF Serialized
  <1> USE DEF TypeOK, LockInv, Nesting
  <1>1. ASSUME NEW e \in Calls, pc[e] = "running"
        PROVE  /\ root[e] \in Queue(on[e])
               /\ pc[root[e]] = "running"
               /\ on[root[e]] = on[e]
    BY <1>1 DEF Queue
  <1>2. ahead[root[c]] = {} /\ ahead[root[d]] = {}
    BY <1>1 DEF Predecessor
  <1> QED
    BY <1>1, <1>2 DEF InLine

\* The entry of the Map is the end of the queue, whom nobody waits for.
LEMMA LastInLine == TypeOK /\ LockInv => TailIsLast
  BY DEF TypeOK, LockInv, TailIsLast, TailInv, InLine, Predecessor, Queue

\* The invariant holds in every behaviour.
LEMMA LockInvariant == Spec => [](TypeOK /\ LockInv)
  <1>1. Init => TypeOK /\ LockInv
    BY DEF Init, TypeOK, LockInv, InLine, Predecessor, TailInv, Nesting, Queue
  <1> QED
    BY <1>1, TypeStep, LockStep, PTL DEF Spec

\* Two git mutations of a project never run at once, unless one was made from
\* inside the other (withProjectGitLock).
THEOREM MutationsSerialized == Spec => []Serialized
  BY LockInvariant, OneHolder, PTL

\* The Map of tails holds the last in line while there is a line, and no call that
\* is over.
THEOREM TailsExact == Spec => []TailIsLast
  BY LockInvariant, LastInLine, PTL

(***************************************************************************)
(* withProjectGitLock implements a first-come first-served mutex.          *)
(***************************************************************************)
\* Every step of the lock is a step of the mutex, or none.
LEMMA MutexStep == TypeOK /\ LockInv /\ [Next]_vars => [Mutex!Next]_(Mutex!vars)
  <1> SUFFICES ASSUME TypeOK, LockInv, [Next]_vars
               PROVE  [Mutex!Next]_(Mutex!vars)
    OBVIOUS
  <1> USE DEF TypeOK, Phase, Place
  <1>1. ASSUME NEW c \in Calls, NEW k \in Projects, Enter(c, k)
        PROVE  Mutex!Ask(c, k)
    <2> USE <1>1 DEF Enter
    <2>1. within[c] = {}
      BY DEF LockInv, Nesting
    <2>2. Phase' = [Phase EXCEPT ![c] = "waiting"]
      BY <2>1
    <2>3. Place' = [Place EXCEPT ![c] = k]
      BY <2>1
    <2>4. Queue(k) = {d \in Calls : Place[d] = k}
      BY DEF Queue
    <2> QED
      BY <2>2, <2>3, <2>4 DEF Mutex!Ask
  <1>2. ASSUME NEW c \in Calls, NEW p \in Calls, EnterHeld(c, p)
        PROVE  UNCHANGED Mutex!vars
    BY <1>2 DEF EnterHeld, Mutex!vars, LockInv, Nesting
  <1>3. ASSUME NEW c \in Calls, Start(c)
        PROVE  Mutex!GoInside(c)
    <2> USE <1>3 DEF Start
    <2>1. within[c] = {} /\ ahead[c] = {}
      BY DEF LockInv, Nesting, Predecessor
    <2>2. Phase[c] = "waiting" /\ Phase' = [Phase EXCEPT ![c] = "inside"]
      BY <2>1
    <2>3. Place' = Place
      BY <2>1
    <2> QED
      BY <2>1, <2>2, <2>3 DEF Mutex!GoInside
  <1>4. ASSUME NEW c \in Calls, Settle(c)
        PROVE  Mutex!Leave(c)
    <2> USE <1>4 DEF Settle, Ended
    <2>1. Phase[c] = "inside" /\ Phase' = [Phase EXCEPT ![c] = "away"]
      OBVIOUS
    <2>2. Place' = [Place EXCEPT ![c] = None]
      OBVIOUS
    <2> QED
      BY <2>1, <2>2 DEF Mutex!Leave
  <1>5. ASSUME NEW c \in Calls, Return(c)
        PROVE  UNCHANGED Mutex!vars
    BY <1>5 DEF Return, Ended, Mutex!vars
  <1>6. ASSUME NEW c \in Calls, Cleanup(c)
        PROVE  UNCHANGED Mutex!vars
    BY <1>6 DEF Cleanup, Mutex!vars
  <1>7. CASE UNCHANGED vars
    BY <1>7 DEF vars, Mutex!vars
  <1> QED
    BY <1>1, <1>2, <1>3, <1>4, <1>5, <1>6, <1>7 DEF Next, Proceed, Mutex!Next

\* Calls of a project run one at a time, in the order in which they were made.
THEOREM FirstComeFirstServed == Spec => ServesInOrder
  <1>1. Init => Mutex!Init
    BY DEF Init, Mutex!Init, Phase, Place
  <1> QED
    BY <1>1, LockInvariant, MutexStep, PTL DEF Spec, ServesInOrder, Mutex!Spec
=============================================================================
