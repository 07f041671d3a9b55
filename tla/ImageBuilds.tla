------------------------------ MODULE ImageBuilds ------------------------------
(***************************************************************************)
(* The two build queues of the control plane: users' custom images         *)
(* (CustomImageService) and the operators' agent images                    *)
(* (AgentBoxImageService).  Each has a queue of rows in the database and a *)
(* loop that picks the oldest one; both loops share the global semaphore,  *)
(* and the custom one takes a semaphore of the image's owner besides.      *)
(*                                                                         *)
(* An action is the code between two awaits; a SELECT and the code that    *)
(* sees its result are separate steps where another call can come between. *)
(* A custom image has one build, so both are named by the build.  Left     *)
(* out: failing database calls, a host without docker (nothing is ever     *)
(* queued there), and the registry of agent image versions.                *)
(***************************************************************************)
EXTENDS Semaphore, FiniteSets

CONSTANTS
    CustomBuilds,  \* builds of custom images that may ever be asked for
    AgentBuilds,   \* builds of agent images, retries included
    Users,
    Owner,         \* the owner of a custom image
    None,          \* no build
    MaxGlobal,     \* MAX_GLOBAL_CONCURRENCY
    MaxPerUser,    \* MAX_CONCURRENT_PER_USER
    MaxRestarts    \* bound: control-plane restarts

Builds == CustomBuilds \cup AgentBuilds
Loops  == {"custom", "agent"}

ASSUME BuildAssumption ==
    /\ CustomBuilds \cap AgentBuilds = {}
    /\ Loops \cap Builds = {}
    /\ IsFiniteSet(Builds)
    /\ None \notin Builds
    /\ Owner \in [CustomBuilds -> Users]
    /\ {MaxGlobal, MaxPerUser} \subseteq Nat \ {0}
    /\ MaxRestarts \in Nat

VARIABLES
    row,      \* state of a build's row; "deleting": gone, its image is not
    older,    \* createdAt of a queued build: the builds queued before it
    global,   \* globalSemaphore
    user,     \* userSemaphores
    custom,   \* processBuildQueue: buildLoopRunning and the build it is at
    agent,    \* processAgentBuildQueue likewise
    exec,     \* executeBuild and executeAgentBuild
    restarts

vars == <<row, older, global, user, custom, agent, exec, restarts>>

States == {"none", "queued", "building", "ready", "failed", "deleting", "gone"}
Off == [pc |-> "off", build |-> None]
At(p, b) == [pc |-> p, build |-> b]

TypeOK ==
    /\ row \in [Builds -> States]
    /\ older \in [Builds -> SUBSET Builds]
    /\ global \in SemType(MaxGlobal, Loops)
    /\ user \in [Users -> SemType(MaxPerUser, {"custom"})]
    /\ custom \in [pc : {"off", "select", "none", "image", "user", "mark"},
                   build : CustomBuilds \cup {None}]
    /\ agent \in [pc : {"off", "select", "none", "mark"},
                  build : AgentBuilds \cup {None}]
    /\ custom.pc \in {"image", "user", "mark"} <=> custom.build # None
    /\ agent.pc = "mark" <=> agent.build # None
    /\ exec \in [Builds -> {"no", "run", "after"}]
    /\ restarts \in 0..MaxRestarts

Init ==
    /\ row = [b \in Builds |-> "none"]
    /\ older = [b \in Builds |-> {}]
    /\ global = FreeSemaphore
    /\ user = [u \in Users |-> FreeSemaphore]
    /\ custom = Off
    /\ agent = Off
    /\ exec = [b \in Builds |-> "no"]
    /\ restarts = 0

Queued(S) == {b \in S : row[b] = "queued"}
Oldest(b, S) == b \in Queued(S) /\ older[b] \cap S = {}
NoLongerQueued(b) ==
    older' = [c \in Builds |-> IF c = b THEN {} ELSE older[c] \ {b}]

ImageExists(b) == row[b] \notin {"none", "gone"}

\* UPDATE .. WHERE id: a deleted row stays deleted.
Marked(b, state) ==
    [row EXCEPT ![b] = IF @ \in {"deleting", "gone"} THEN @ ELSE state]

\* A call of processBuildQueue, and of processAgentBuildQueue, whose acquire
\* runs before its first await.
CustomCalled == IF custom.pc = "off" THEN At("select", None) ELSE custom
AgentCalled  == IF agent.pc = "off" THEN At("select", None) ELSE agent
AgentCalledGlobal ==
    IF agent.pc = "off" THEN Acquire(global, MaxGlobal, "agent") ELSE global

(***************************************************************************)
(* Requests.                                                               *)
(***************************************************************************)
\* createImage and buildImage (retryBuild asks for a new build of its own): the
\* row is there, and setImmediate calls the queue's loop.
Ask(b) ==
    /\ row[b] = "none"
    /\ row' = [row EXCEPT ![b] = "queued"]
    /\ older' = [older EXCEPT ![b] = Queued(Builds)]
    /\ IF b \in CustomBuilds
       THEN custom' = CustomCalled /\ UNCHANGED <<agent, global>>
       ELSE agent' = AgentCalled /\ global' = AgentCalledGlobal
            /\ UNCHANGED custom
    /\ UNCHANGED <<user, exec, restarts>>

\* createImage finds a ready build of the same selection and shares its image.
AskReady(b) ==
    /\ row[b] = "none"
    /\ \E c \in CustomBuilds : row[c] = "ready"
    /\ row' = [row EXCEPT ![b] = "ready"]
    /\ UNCHANGED <<older, global, user, custom, agent, exec, restarts>>

\* deleteImage asks only whether a session uses the image, and takes two steps.
DeleteImage(b) ==
    /\ row[b] \in {"queued", "building", "ready", "failed"}
    /\ row' = [row EXCEPT ![b] = "deleting"]
    /\ NoLongerQueued(b)
    /\ UNCHANGED <<global, user, custom, agent, exec, restarts>>

DeleteImageRow(b) ==
    /\ row[b] = "deleting"
    /\ row' = [row EXCEPT ![b] = "gone"]
    /\ UNCHANGED <<older, global, user, custom, agent, exec, restarts>>

DeleteBuild(b) ==
    /\ row[b] \in {"ready", "failed"}
    /\ row' = [row EXCEPT ![b] = "gone"]
    /\ UNCHANGED <<older, global, user, custom, agent, exec, restarts>>

(***************************************************************************)
(* processBuildQueue.                                                      *)
(***************************************************************************)
CustomSelect ==
    /\ custom.pc = "select"
    /\ \/ Queued(CustomBuilds) = {} /\ custom' = At("none", None)
       \/ \E b \in CustomBuilds :
             Oldest(b, CustomBuilds) /\ custom' = At("image", b)
    /\ UNCHANGED <<row, older, global, user, agent, exec, restarts>>

CustomStop ==
    /\ custom.pc = "none"
    /\ custom' = Off
    /\ UNCHANGED <<row, older, global, user, agent, exec, restarts>>

\* Without an image there is no row left to be marked failed.
CustomImage ==
    /\ custom.pc = "image"
    /\ IF ImageExists(custom.build)
       THEN /\ global' = Acquire(global, MaxGlobal, "custom")
            /\ custom' = [custom EXCEPT !.pc = "user"]
       ELSE custom' = At("select", None) /\ UNCHANGED global
    /\ UNCHANGED <<row, older, user, agent, exec, restarts>>

\* The loop keeps its global slot while it waits for the owner's.
CustomUser ==
    /\ custom.pc = "user" /\ ~Waits(global, "custom")
    /\ user' = [user EXCEPT ![Owner[custom.build]] =
                  Acquire(@, MaxPerUser, "custom")]
    /\ custom' = [custom EXCEPT !.pc = "mark"]
    /\ UNCHANGED <<row, older, global, agent, exec, restarts>>

\* (Mutant: the owner's slot is asked for and not waited for.)
CustomMarkAtOnce ==
    /\ custom.pc = "mark"
    /\ row' = Marked(custom.build, "building")
    /\ exec' = [exec EXCEPT ![custom.build] = "run"]
    /\ custom' = At("select", None)
    /\ NoLongerQueued(custom.build)
    /\ UNCHANGED <<global, user, agent, restarts>>

CustomMark ==
    /\ custom.pc = "mark" /\ ~Waits(user[Owner[custom.build]], "custom")
    /\ row' = Marked(custom.build, "building")
    /\ exec' = [exec EXCEPT ![custom.build] = "run"]
    /\ custom' = At("select", None)
    /\ NoLongerQueued(custom.build)
    /\ UNCHANGED <<global, user, agent, restarts>>

(***************************************************************************)
(* executeBuild, and the finally of its caller.                            *)
(***************************************************************************)
CustomBuilt(b) ==
    /\ exec[b] = "run"
    /\ \E result \in {"ready", "failed"} : row' = Marked(b, result)
    /\ exec' = [exec EXCEPT ![b] = "after"]
    /\ UNCHANGED <<older, global, user, custom, agent, restarts>>

CustomAfter(b) ==
    /\ exec[b] = "after"
    /\ custom' = IF ImageExists(b) THEN CustomCalled ELSE custom
    /\ exec' = [exec EXCEPT ![b] = "no"]
    /\ user' = [user EXCEPT ![Owner[b]] = Release(@)]
    /\ global' = Release(global)
    /\ UNCHANGED <<row, older, agent, restarts>>

(***************************************************************************)
(* processAgentBuildQueue: one build a call; and executeAgentBuild.        *)
(***************************************************************************)
AgentSelect ==
    /\ agent.pc = "select" /\ ~Waits(global, "agent")
    /\ \/ Queued(AgentBuilds) = {} /\ agent' = At("none", None)
       \/ \E b \in AgentBuilds :
             Oldest(b, AgentBuilds) /\ agent' = At("mark", b)
    /\ UNCHANGED <<row, older, global, user, custom, exec, restarts>>

AgentStop ==
    /\ agent.pc = "none"
    /\ agent' = Off
    /\ global' = Release(global)
    /\ UNCHANGED <<row, older, user, custom, exec, restarts>>

\* (Mutant: the row is left for the executor to mark.)
AgentMarkNothing ==
    /\ agent.pc = "mark"
    /\ exec' = [exec EXCEPT ![agent.build] = "run"]
    /\ agent' = Off
    /\ UNCHANGED <<row, older, global, user, custom, restarts>>

AgentMark ==
    /\ agent.pc = "mark"
    /\ row' = Marked(agent.build, "building")
    /\ exec' = [exec EXCEPT ![agent.build] = "run"]
    /\ agent' = Off
    /\ NoLongerQueued(agent.build)
    /\ UNCHANGED <<global, user, custom, restarts>>

\* (Mutant: the end of a build does not call the queue.)
AgentBuiltOnly(b) ==
    /\ exec[b] = "run"
    /\ \E result \in {"ready", "failed"} : row' = Marked(b, result)
    /\ exec' = [exec EXCEPT ![b] = "no"]
    /\ global' = Release(global)
    /\ UNCHANGED <<older, user, custom, agent, restarts>>

\* The next build asks for a slot before this one gives up its own.
AgentBuilt(b) ==
    /\ exec[b] = "run"
    /\ \E result \in {"ready", "failed"} : row' = Marked(b, result)
    /\ exec' = [exec EXCEPT ![b] = "no"]
    /\ agent' = AgentCalled
    /\ global' = Release(AgentCalledGlobal)
    /\ UNCHANGED <<older, user, custom, restarts>>

(***************************************************************************)
(* The control plane starts again.  reconcileCustomImageBuilds runs before *)
(* the server listens; nothing settles the agent builds.                   *)
(***************************************************************************)
Reconciled ==
    [b \in Builds |-> IF b \in CustomBuilds /\ row[b] \in {"queued", "building"}
                      THEN "failed" ELSE row[b]]

Restart ==
    /\ restarts < MaxRestarts
    /\ restarts' = restarts + 1
    /\ row' = Reconciled
    /\ older' = [b \in Builds |-> IF b \in CustomBuilds THEN {}
                                  ELSE older[b] \ CustomBuilds]
    /\ global' = FreeSemaphore
    /\ user' = [u \in Users |-> FreeSemaphore]
    /\ custom' = Off
    /\ agent' = Off
    /\ exec' = [b \in Builds |-> "no"]

CustomLoop == CustomSelect \/ CustomStop \/ CustomImage \/ CustomUser \/ CustomMark
AgentLoop  == AgentSelect \/ AgentStop \/ AgentMark
CustomRun(b) == CustomBuilt(b) \/ CustomAfter(b)

Next ==
    \/ \E b \in Builds : Ask(b)
    \/ \E b \in CustomBuilds : \/ AskReady(b) \/ DeleteImage(b)
                               \/ DeleteImageRow(b) \/ CustomRun(b)
    \/ \E b \in AgentBuilds : DeleteBuild(b) \/ AgentBuilt(b)
    \/ CustomLoop
    \/ AgentLoop
    \/ Restart

\* The event loop runs on, and docker ends: its commands have a timeout
\* (BUILD_TIMEOUT_MS).
Fairness ==
    /\ WF_vars(CustomLoop)
    /\ WF_vars(AgentLoop)
    /\ \A b \in CustomBuilds : WF_vars(CustomRun(b))
    /\ \A b \in AgentBuilds : WF_vars(AgentBuilt(b))

Spec == Init /\ [][Next]_vars /\ Fairness

(***************************************************************************)
(* Properties.                                                             *)
(***************************************************************************)
\* Who has a slot of the global semaphore: builds that are executed, and a loop
\* between its acquire and the start of the build.
Executing == {b \in Builds : exec[b] # "no"}
CustomHolds == \/ custom.pc = "user" /\ ~Waits(global, "custom")
               \/ custom.pc = "mark"
AgentHolds  == agent.pc # "off" /\ ~Waits(global, "agent")
LoopsWith   == {l \in Loops : \/ l = "custom" /\ CustomHolds
                              \/ l = "agent" /\ AgentHolds}
Holders     == Executing \cup LoopsWith

OwnedBy(u) == {b \in CustomBuilds : Owner[b] = u}
UserHolders(u) ==
    (Executing \cap OwnedBy(u)) \cup
    {l \in {"custom"} : /\ custom.pc = "mark" /\ Owner[custom.build] = u
                        /\ ~Waits(user[u], "custom")}

\* No slot is ever lost or given twice, whatever waits, is deleted meanwhile or
\* fails: the semaphores count exactly the builds that are executed and the
\* loops on their way to one, and somebody waits only for a full semaphore.
SlotsAccounted ==
    /\ global.count = Cardinality(Holders)
    /\ global.queue # <<>> => global.count = MaxGlobal
    /\ \A u \in Users :
          /\ user[u].count = Cardinality(UserHolders(u))
          /\ user[u].queue # <<>> => user[u].count = MaxPerUser

\* The images services never run more docker builds at once than the operator
\* allows, nor more of one user than MAX_CONCURRENT_PER_USER.
BuildLimits ==
    /\ Cardinality(Executing) <= MaxGlobal
    /\ \A u \in Users : Cardinality(Executing \cap OwnedBy(u)) <= MaxPerUser

\* A build that a loop has picked is on its way, even if its image is deleted
\* under it; every build is executed at most once, within the limits.
Picked(b) == custom.build = b \/ agent.build = b
Pool == [b \in Builds |->
           IF exec[b] # "no" THEN "executing"
           ELSE IF row[b] = "none" THEN "new"
           ELSE IF row[b] = "queued" \/ Picked(b) THEN "waiting"
           ELSE "ended"]
BuildPool == INSTANCE BuildPool WITH pool <- Pool
BuiltOnce == BuildPool!Spec

\* A queued build that its loop can still see is picked, whatever waits for the
\* two semaphores: nobody waits for a slot that is not given back.  (A loop
\* that has seen an empty queue and not yet stopped does not see it.)
Seen(b) ==
    /\ row[b] = "queued"
    /\ IF b \in CustomBuilds
       THEN custom.pc \notin {"off", "none"}
       ELSE \/ agent.pc \in {"select", "mark"}
            \/ agent.pc = "off" /\ \E a \in AgentBuilds : exec[a] = "run"
SeenIsBuilt ==
    \A b \in Builds, n \in 0..MaxRestarts :
        (Seen(b) /\ restarts = n) ~> (row[b] # "queued" \/ restarts # n)
=============================================================================
