--------------------------- MODULE GitMutationLock ---------------------------
(***************************************************************************)
(* withProjectGitLock (git/gitMutationLock.js): git mutations of a project *)
(* queue behind the promise kept in `tails`, and a call made from inside a *)
(* mutation of the same project runs at once (re-entrancy by              *)
(* AsyncLocalStorage).                                                     *)
(*                                                                         *)
(* Every mutation in the source awaits the git operations it nests, and    *)
(* nests none of another project.  Whether a mutation succeeds makes no    *)
(* difference to the lock: the promises of `tails` never reject.           *)
(***************************************************************************)
EXTENDS Integers

CONSTANTS
    Calls,      \* calls of withProjectGitLock in flight at once
    Projects,
    MaxNested,  \* bound: calls a mutation makes from inside
    None        \* no call, no project

ASSUME LockAssumption ==
    None \notin Calls /\ None \notin Projects /\ MaxNested \in Nat

VARIABLES
    tails,  \* per project: the call whose promise the Map holds
    pc,     \* "idle", "queued", "running", "settled": the finally is still due
    on,     \* the project of a call
    within, \* the running mutations a call was made from: one in another
    root,   \* the outermost of them, or the call itself: the holder of the lock
    nests,  \* how many calls the mutation of a call may still make from inside
    prev,   \* the call whose promise a queued call awaits; None once settled
    ahead   \* history only: the calls that asked earlier and have not settled

vars == <<tails, pc, on, within, root, nests, prev, ahead>>

TypeOK ==
    /\ tails \in [Projects -> Calls \cup {None}]
    /\ pc \in [Calls -> {"idle", "queued", "running", "settled"}]
    /\ on \in [Calls -> Projects]
    /\ within \in [Calls -> SUBSET Calls]
    /\ root \in [Calls -> Calls]
    /\ nests \in [Calls -> 0..MaxNested]
    /\ prev \in [Calls -> Calls \cup {None}]
    /\ ahead \in [Calls -> SUBSET Calls]

Init ==
    /\ tails = [k \in Projects |-> None]
    /\ pc = [c \in Calls |-> "idle"]
    /\ on \in [Calls -> Projects]
    /\ within = [c \in Calls |-> {}]
    /\ root = [c \in Calls |-> c]
    /\ nests = [c \in Calls |-> MaxNested]
    /\ prev = [c \in Calls |-> None]
    /\ ahead = [c \in Calls |-> {}]

\* The calls of project k that went through the queue and have not settled.
Queue(k) == {c \in Calls : /\ on[c] = k /\ within[c] = {}
                           /\ pc[c] \in {"queued", "running"}}

Pending(c) == c # None /\ pc[c] \in {"queued", "running"}

\* (Mutant: a new call does not wait for the tail.)
EnterAtOnce(c, k) ==
    /\ pc[c] = "idle"
    /\ pc' = [pc EXCEPT ![c] = "queued"]
    /\ on' = [on EXCEPT ![c] = k]
    /\ root' = [root EXCEPT ![c] = c]
    /\ tails' = [tails EXCEPT ![k] = c]
    /\ ahead' = [ahead EXCEPT ![c] = Queue(k)]
    /\ UNCHANGED <<within, nests, prev>>

\* A call from outside: its run waits for the promise in the Map, and its own
\* takes the place of that.
Enter(c, k) ==
    /\ pc[c] = "idle"
    /\ pc' = [pc EXCEPT ![c] = "queued"]
    /\ on' = [on EXCEPT ![c] = k]
    /\ root' = [root EXCEPT ![c] = c]
    /\ prev' = [prev EXCEPT ![c] = IF Pending(tails[k]) THEN tails[k] ELSE None]
    /\ tails' = [tails EXCEPT ![k] = c]
    /\ ahead' = [ahead EXCEPT ![c] = Queue(k)]
    /\ UNCHANGED <<within, nests>>

\* A call from inside the mutation p of the same project: held.has(key).
EnterHeld(c, p) ==
    /\ pc[c] = "idle"
    /\ pc[p] = "running" /\ nests[p] > 0
    /\ pc' = [pc EXCEPT ![c] = "running"]
    /\ on' = [on EXCEPT ![c] = on[p]]
    /\ within' = [within EXCEPT ![c] = within[p] \cup {p}]
    /\ root' = [root EXCEPT ![c] = root[p]]
    /\ nests' = [nests EXCEPT ![p] = @ - 1]
    /\ UNCHANGED <<tails, prev, ahead>>

\* (Mutant: a waiting call polls for a free lock in place of its turn.)
StartWhenFree(c) ==
    /\ pc[c] = "queued"
    /\ \A d \in Calls : on[d] = on[c] => pc[d] # "running"
    /\ pc' = [pc EXCEPT ![c] = "running"]
    /\ UNCHANGED <<tails, on, within, root, nests, prev, ahead>>

\* Its turn has come: the promise it waits for has settled.
Start(c) ==
    /\ pc[c] = "queued"
    /\ prev[c] = None
    /\ pc' = [pc EXCEPT ![c] = "running"]
    /\ UNCHANGED <<tails, on, within, root, nests, prev, ahead>>

\* A mutation has ended when the calls it made have.
Ended(c) == pc[c] = "running" /\ \A d \in Calls : c \notin within[d]

\* The run promise settles and with it, for the next in line, its tail.
Settle(c) ==
    /\ Ended(c) /\ within[c] = {}
    /\ pc' = [pc EXCEPT ![c] = "settled"]
    /\ prev' = [d \in Calls |-> IF prev[d] = c THEN None ELSE prev[d]]
    /\ ahead' = [d \in Calls |-> ahead[d] \ {c}]
    /\ UNCHANGED <<tails, on, within, root, nests>>

\* A nested call returns to its caller.
Return(c) ==
    /\ Ended(c) /\ within[c] # {}
    /\ pc' = [pc EXCEPT ![c] = "idle"]
    /\ within' = [within EXCEPT ![c] = {}]
    /\ nests' = [nests EXCEPT ![c] = MaxNested]
    /\ UNCHANGED <<tails, on, root, prev, ahead>>

\* (Mutant: the entry is deleted without looking whose it is.)
CleanupAlways(c) ==
    /\ pc[c] = "settled"
    /\ pc' = [pc EXCEPT ![c] = "idle"]
    /\ tails' = [tails EXCEPT ![on[c]] = None]
    /\ nests' = [nests EXCEPT ![c] = MaxNested]
    /\ UNCHANGED <<on, within, root, prev, ahead>>

\* The finally, a microtask later: the Map forgets the project if the promise it
\* holds is still this call's.
Cleanup(c) ==
    /\ pc[c] = "settled"
    /\ pc' = [pc EXCEPT ![c] = "idle"]
    /\ tails' = [tails EXCEPT ![on[c]] = IF @ = c THEN None ELSE @]
    /\ nests' = [nests EXCEPT ![c] = MaxNested]
    /\ UNCHANGED <<on, within, root, prev, ahead>>

Proceed(c) == Start(c) \/ Settle(c) \/ Return(c) \/ Cleanup(c)

Next == \E c \in Calls :
          \/ \E k \in Projects : Enter(c, k)
          \/ \E p \in Calls : EnterHeld(c, p)
          \/ Proceed(c)

Spec == Init /\ [][Next]_vars

\* Promises settle their followers, and the git processes of a mutation end.
FairSpec == Spec /\ \A c \in Calls : WF_vars(Proceed(c))

(***************************************************************************)
(* Properties.                                                             *)
(***************************************************************************)
\* Two git mutations of a project never run at once, unless one was made from
\* inside the other: whatever runs belongs to one holder.
Serialized ==
    \A c, d \in Calls :
        pc[c] = "running" /\ pc[d] = "running" /\ on[c] = on[d]
            => root[c] = root[d]

\* The Map holds the last in line as long as there is a line (or a new call
\* would overtake it), and nothing once all calls of the project are done (or
\* projects would pile up in it).
TailIsLast ==
    \A k \in Projects :
        /\ Queue(k) # {} => /\ tails[k] \in Queue(k)
                            /\ \A c \in Queue(k) : prev[c] # tails[k]
        /\ tails[k] # None => pc[tails[k]] # "idle" /\ on[tails[k]] = k

\* The strengthening that makes Serialized and the refinement inductive.  The
\* queue of a project is totally ordered by `ahead`.
InLine == \A c \in Calls :
    /\ c \notin Queue(on[c]) => ahead[c] = {}
    /\ ahead[c] \subseteq Queue(on[c]) \ {c}
    /\ \A d \in ahead[c] : ahead[d] \subseteq ahead[c]
    /\ \A d \in Queue(on[c]) \ {c} :
          c \in Queue(on[c]) => c \in ahead[d] \/ d \in ahead[c]

\* And prev is the immediate predecessor.
Predecessor == \A c \in Calls :
    IF prev[c] = None THEN ahead[c] = {}
    ELSE /\ pc[c] = "queued"
         /\ prev[c] \in ahead[c]
         /\ ahead[c] = ahead[prev[c]] \cup {prev[c]}

\* What the Map holds is the end of the queue.
TailInv == \A k \in Projects :
    /\ Queue(k) # {} => /\ tails[k] \in Queue(k)
                        /\ Queue(k) \ {tails[k]} \subseteq ahead[tails[k]]
    /\ tails[k] # None => /\ pc[tails[k]] # "idle"
                          /\ on[tails[k]] = k
                          /\ within[tails[k]] = {}

\* A nested call runs, and so do the mutations it was made from.
Nesting == \A c \in Calls :
    /\ pc[c] \in {"queued", "running"} /\ within[c] = {} => root[c] = c
    /\ within[c] # {} => /\ pc[c] = "running"
                         /\ root[c] \in within[c]
                         /\ within[root[c]] = {}
    /\ \A d \in within[c] :
          pc[d] = "running" /\ on[d] = on[c] /\ root[d] = root[c]

LockInv == InLine /\ Predecessor /\ TailInv /\ Nesting

\* Calls of one project run in the order in which they were made, one at a time.
Phase == [c \in Calls |->
            IF within[c] # {} THEN "away"
            ELSE CASE pc[c] = "queued"  -> "waiting"
                   [] pc[c] = "running" -> "inside"
                   [] OTHER -> "away"]
Place == [c \in Calls |-> IF Phase[c] = "away" THEN None ELSE on[c]]
Mutex == INSTANCE FifoMutex WITH phase <- Phase, place <- Place
ServesInOrder == Mutex!Spec

\* Every call returns: the queue always moves on, and a nested call does not
\* wait for its own caller.  The comment in github/GitOperationService.js:623,
\* 'nested same-key lock would deadlock', is wrong about this: the lock lets the
\* nested call through, as its own comment (gitMutationLock.js:4) and test say.
CallsReturn == \A c \in Calls : []<>(pc[c] = "idle")
=============================================================================
