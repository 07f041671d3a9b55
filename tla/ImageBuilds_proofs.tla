--------------------------- MODULE ImageBuilds_proofs ---------------------------
(***************************************************************************)
(* The build slots are accounted for and the build limits hold, for any    *)
(* numbers of builds, users and slots.                                     *)
(***************************************************************************)
EXTENDS ImageBuilds, Semaphore_proofs

\* The global semaphore counts Holders, and a loop waits for it only where its
\* code awaits it.
GlobalAccounted ==
    /\ Accounts(global, MaxGlobal, Loops, Holders)
    /\ Waits(global, "custom") => custom.pc = "user"
    /\ Waits(global, "agent") => agent.pc = "select"

\* The same of the semaphore of a user.
UserAccounted(u) ==
    /\ Accounts(user[u], MaxPerUser, {"custom"}, UserHolders(u))
    /\ Waits(user[u], "custom") => custom.pc = "mark" /\ Owner[custom.build] = u

\* What is queued, or on its way from its queue, is not executed yet, and what
\* is on its way has been asked for.
NotYetExecuted ==
    \A b \in Builds :
        /\ row[b] \in {"none", "queued"} \/ Picked(b) => exec[b] = "no"
        /\ Picked(b) => row[b] # "none"

IInv ==
    /\ TypeOK
    /\ GlobalAccounted
    /\ \A u \in Users : UserAccounted(u)
    /\ NotYetExecuted

(***************************************************************************)
(* Types.                                                                  *)
(***************************************************************************)
\* Acquire and Release return semaphores.
LEMMA SemaphoreTypes ==
    ASSUME NEW max \in Nat, NEW W, NEW s \in SemType(max, W), NEW w \in W
    PROVE  Acquire(s, max, w) \in SemType(max, W) /\ Release(s) \in SemType(max, W)
  <1>1. s = [count |-> s.count, queue |-> s.queue] /\ s.count \in 0..max /\ s.queue \in Seq(W)
    BY DEF SemType
  <1>2. Acquire(s, max, w) \in SemType(max, W)
    <2>1. CASE s.count < max
      BY <1>1, <2>1 DEF Acquire, SemType
    <2>2. CASE ~(s.count < max)
      <3>1. Append(s.queue, w) \in Seq(W)
        BY <1>1
      <3> QED
        BY <1>1, <2>2, <3>1 DEF Acquire, SemType
    <2> QED
      BY <2>1, <2>2
  <1>3. Release(s) \in SemType(max, W)
    <2>1. CASE s.queue # <<>>
      <3>1. Tail(s.queue) \in Seq(W)
        BY <1>1, <2>1
      <3> QED
        BY <1>1, <2>1, <3>1 DEF Release, SemType
    <2>2. CASE s.queue = <<>>
      BY <1>1, <2>2 DEF Release, SemType
    <2> QED
      BY <2>1, <2>2
  <1> QED
    BY <1>2, <1>3

CustomType ==
    /\ custom \in [pc : {"off", "select", "none", "image", "user", "mark"},
                   build : CustomBuilds \cup {None}]
    /\ custom.pc \in {"image", "user", "mark"} <=> custom.build # None
AgentType ==
    /\ agent \in [pc : {"off", "select", "none", "mark"},
                  build : AgentBuilds \cup {None}]
    /\ agent.pc = "mark" <=> agent.build # None

\* A call of a loop leaves the loop's state well formed.
LEMMA CallTypes ==
    ASSUME TypeOK
    PROVE  /\ (custom' = CustomCalled => CustomType')
           /\ (agent' = AgentCalled => AgentType')
           /\ AgentCalledGlobal \in SemType(MaxGlobal, Loops)
           /\ \A b : Marked(b, "building") \in [Builds -> States]
           /\ \A b : Marked(b, "ready") \in [Builds -> States]
           /\ \A b : Marked(b, "failed") \in [Builds -> States]
  <1>1. custom' = CustomCalled => CustomType'
    BY DEF TypeOK, CustomCalled, CustomType, At
  <1>2. agent' = AgentCalled => AgentType'
    BY DEF TypeOK, AgentCalled, AgentType, At
  <1>3. AgentCalledGlobal \in SemType(MaxGlobal, Loops)
    BY SemaphoreTypes, BuildAssumption DEF TypeOK, AgentCalledGlobal, Loops
  <1>4. \A b : Marked(b, "building") \in [Builds -> States]
    BY DEF TypeOK, Marked, States
  <1>5. \A b : Marked(b, "ready") \in [Builds -> States]
    BY DEF TypeOK, Marked, States
  <1>6. \A b : Marked(b, "failed") \in [Builds -> States]
    BY DEF TypeOK, Marked, States
  <1> QED
    BY <1>1, <1>2, <1>3, <1>4, <1>5, <1>6

\* Where custom and agent keep their types, TypeOK is about the rest.
LEMMA TypeParts ==
    TypeOK <=> /\ row \in [Builds -> States]
               /\ older \in [Builds -> SUBSET Builds]
               /\ global \in SemType(MaxGlobal, Loops)
               /\ user \in [Users -> SemType(MaxPerUser, {"custom"})]
               /\ CustomType
               /\ AgentType
               /\ exec \in [Builds -> {"no", "run", "after"}]
               /\ restarts \in 0..MaxRestarts
  BY DEF TypeOK, CustomType, AgentType

\* Every step of the services keeps the types.
LEMMA TypeStep ==
    ASSUME TypeOK, Next
    PROVE  TypeOK'
  <1> USE DEF Builds
  <1>t. /\ row \in [Builds -> States]
        /\ older \in [Builds -> SUBSET Builds]
        /\ global \in SemType(MaxGlobal, Loops)
        /\ user \in [Users -> SemType(MaxPerUser, {"custom"})]
        /\ CustomType
        /\ AgentType
        /\ exec \in [Builds -> {"no", "run", "after"}]
        /\ restarts \in 0..MaxRestarts
    BY TypeParts
  <1>p. MaxGlobal \in Nat /\ MaxPerUser \in Nat /\ MaxRestarts \in Nat
        /\ None \notin Builds /\ "custom" \in Loops /\ "agent" \in Loops
        /\ \A b \in CustomBuilds : Owner[b] \in Users
    BY BuildAssumption DEF Loops
  <1>u. UNCHANGED custom => CustomType'
    BY <1>t DEF CustomType
  <1>v. UNCHANGED agent => AgentType'
    BY <1>t DEF AgentType
  <1>w. \A b : NoLongerQueued(b) => older' \in [Builds -> SUBSET Builds]
    BY <1>t DEF NoLongerQueued
  <1>1. ASSUME NEW b \in Builds, Ask(b) PROVE TypeOK'
    <2>1. row' \in [Builds -> States] /\ older' \in [Builds -> SUBSET Builds]
      BY <1>t, <1>1 DEF Ask, States, Queued
    <2>2. CustomType' /\ AgentType' /\ global' \in SemType(MaxGlobal, Loops)
      BY <1>t, <1>1, <1>u, <1>v, CallTypes DEF Ask
    <2> QED
      BY <1>t, <1>1, <2>1, <2>2, TypeParts DEF Ask, TypeOK, CustomType, AgentType
  <1>2. ASSUME NEW b \in CustomBuilds, AskReady(b) \/ DeleteImage(b) \/ DeleteImageRow(b)
        PROVE  TypeOK'
    <2>1. row' \in [Builds -> States] /\ older' \in [Builds -> SUBSET Builds]
      BY <1>t, <1>2, <1>w DEF AskReady, DeleteImage, DeleteImageRow, States
    <2> QED
      BY <1>t, <1>2, <2>1
      DEF AskReady, DeleteImage, DeleteImageRow, TypeOK, CustomType, AgentType
  <1>3. ASSUME NEW b \in CustomBuilds, CustomBuilt(b) PROVE TypeOK'
    <2>1. row' \in [Builds -> States] /\ exec' \in [Builds -> {"no", "run", "after"}]
      BY <1>t, <1>3, CallTypes DEF CustomBuilt
    <2> QED
      BY <1>t, <1>3, <2>1 DEF CustomBuilt, TypeOK, CustomType, AgentType
  <1>4. ASSUME NEW b \in CustomBuilds, CustomAfter(b) PROVE TypeOK'
    <2>1. CustomType' /\ exec' \in [Builds -> {"no", "run", "after"}]
      BY <1>t, <1>4, <1>u, CallTypes DEF CustomAfter
    <2>2. global' \in SemType(MaxGlobal, Loops)
      BY <1>t, <1>p, <1>4, SemaphoreTypes DEF CustomAfter
    <2>3. Release(user[Owner[b]]) \in SemType(MaxPerUser, {"custom"})
      BY <1>t, <1>p, SemaphoreTypes
    <2>4. user' \in [Users -> SemType(MaxPerUser, {"custom"})]
      BY <1>t, <1>p, <1>4, <2>3 DEF CustomAfter
    <2> QED
      BY <1>t, <1>4, <2>1, <2>2, <2>4 DEF CustomAfter, TypeOK, CustomType, AgentType
  <1>5. ASSUME NEW b \in AgentBuilds, DeleteBuild(b) PROVE TypeOK'
    <2>1. row' \in [Builds -> States]
      BY <1>t, <1>5 DEF DeleteBuild, States
    <2> QED
      BY <1>t, <1>5, <2>1 DEF DeleteBuild, TypeOK, CustomType, AgentType
  <1>6. ASSUME NEW b \in AgentBuilds, AgentBuilt(b) PROVE TypeOK'
    <2>1. row' \in [Builds -> States] /\ exec' \in [Builds -> {"no", "run", "after"}]
      BY <1>t, <1>6, CallTypes DEF AgentBuilt
    <2>2. AgentType' /\ global' \in SemType(MaxGlobal, Loops)
      BY <1>t, <1>p, <1>6, CallTypes, SemaphoreTypes DEF AgentBuilt
    <2> QED
      BY <1>t, <1>6, <2>1, <2>2 DEF AgentBuilt, TypeOK, CustomType, AgentType
  <1>7. ASSUME CustomSelect \/ CustomStop PROVE TypeOK'
    <2>1. CustomType'
      BY <1>t, <1>p, <1>7
      DEF CustomSelect, CustomStop, CustomType, At, Off, Oldest, Queued
    <2> QED
      BY <1>t, <1>7, <2>1 DEF CustomSelect, CustomStop, TypeOK, CustomType, AgentType
  <1>8. ASSUME CustomImage PROVE TypeOK'
    <2>1. CustomType'
      BY <1>t, <1>p, <1>8 DEF CustomImage, CustomType, At
    <2>2. Acquire(global, MaxGlobal, "custom") \in SemType(MaxGlobal, Loops)
      BY <1>t, <1>p, SemaphoreTypes
    <2>3. global' \in SemType(MaxGlobal, Loops)
      BY <1>t, <1>8, <2>2 DEF CustomImage
    <2> QED
      BY <1>t, <1>8, <2>1, <2>3 DEF CustomImage, TypeOK, CustomType, AgentType
  <1>9. ASSUME CustomUser PROVE TypeOK'
    <2>1. CustomType' /\ custom.build \in CustomBuilds
      BY <1>t, <1>p, <1>9 DEF CustomUser, CustomType
    <2>2. Acquire(user[Owner[custom.build]], MaxPerUser, "custom")
            \in SemType(MaxPerUser, {"custom"})
      BY <1>t, <1>p, <2>1, SemaphoreTypes
    <2>3. user' \in [Users -> SemType(MaxPerUser, {"custom"})]
      BY <1>t, <1>p, <1>9, <2>1, <2>2 DEF CustomUser
    <2> QED
      BY <1>t, <1>9, <2>1, <2>3 DEF CustomUser, TypeOK, CustomType, AgentType
  <1>10. ASSUME CustomMark PROVE TypeOK'
    <2>1. CustomType' /\ custom.build \in CustomBuilds
      BY <1>t, <1>p, <1>10 DEF CustomMark, CustomType, At
    <2>2. row' \in [Builds -> States] /\ older' \in [Builds -> SUBSET Builds]
      BY <1>w, <1>10, CallTypes DEF CustomMark
    <2>3. exec' \in [Builds -> {"no", "run", "after"}]
      BY <1>t, <1>10 DEF CustomMark
    <2> QED
      BY <1>t, <1>10, <2>1, <2>2, <2>3 DEF CustomMark, TypeOK, CustomType, AgentType
  <1>11. ASSUME AgentSelect PROVE TypeOK'
    <2>1. AgentType'
      BY <1>t, <1>p, <1>11 DEF AgentSelect, AgentType, At, Oldest, Queued
    <2> QED
      BY <1>t, <1>11, <2>1 DEF AgentSelect, TypeOK, CustomType, AgentType
  <1>12. ASSUME AgentStop PROVE TypeOK'
    <2>1. AgentType' /\ global' \in SemType(MaxGlobal, Loops)
      BY <1>t, <1>p, <1>12, SemaphoreTypes DEF AgentStop, AgentType, Off
    <2> QED
      BY <1>t, <1>12, <2>1 DEF AgentStop, TypeOK, CustomType, AgentType
  <1>13. ASSUME AgentMark PROVE TypeOK'
    <2>1. AgentType' /\ exec' \in [Builds -> {"no", "run", "after"}]
      BY <1>t, <1>p, <1>13 DEF AgentMark, AgentType, Off
    <2>2. row' \in [Builds -> States] /\ older' \in [Builds -> SUBSET Builds]
      BY <1>w, <1>13, CallTypes DEF AgentMark
    <2> QED
      BY <1>t, <1>13, <2>1, <2>2 DEF AgentMark, TypeOK, CustomType, AgentType
  <1>14. ASSUME Restart PROVE TypeOK'
    <2>1. row' \in [Builds -> States] /\ older' \in [Builds -> SUBSET Builds]
      BY <1>t, <1>14 DEF Restart, Reconciled, States
    <2>2. FreeSemaphore \in SemType(MaxGlobal, Loops)
          /\ FreeSemaphore \in SemType(MaxPerUser, {"custom"})
      BY <1>p DEF FreeSemaphore, SemType
    <2>3. /\ global' \in SemType(MaxGlobal, Loops)
          /\ user' \in [Users -> SemType(MaxPerUser, {"custom"})]
      BY <1>14, <2>2 DEF Restart
    <2>4. CustomType' /\ AgentType'
      BY <1>14 DEF Restart, CustomType, AgentType, Off
    <2>5. exec' \in [Builds -> {"no", "run", "after"}] /\ restarts' \in 0..MaxRestarts
      BY <1>t, <1>p, <1>14 DEF Restart
    <2> QED
      BY <2>1, <2>3, <2>4, <2>5 DEF TypeOK, CustomType, AgentType
  <1> QED
    BY <1>1, <1>2, <1>3, <1>4, <1>5, <1>6, <1>7, <1>8, <1>9, <1>10, <1>11, <1>12,
       <1>13, <1>14 DEF Next, CustomLoop, AgentLoop, CustomRun

(***************************************************************************)
(* The global semaphore.                                                   *)
(***************************************************************************)
\* The members of Holders, one by one.
LEMMA HoldersAre ==
    /\ \A b \in Builds : b \in Holders <=> exec[b] # "no"
    /\ "custom" \in Holders <=> CustomHolds
    /\ "agent" \in Holders <=> AgentHolds
    /\ Holders \subseteq Builds \cup {"custom", "agent"}
    /\ \A b \in Builds : b # "custom" /\ b # "agent" /\ b \notin Loops
  BY BuildAssumption DEF Holders, Executing, LoopsWith, Loops, Builds

\* A step that starts and ends no build and moves no loop past a semaphore.
LEMMA GlobalQuiet ==
    ASSUME GlobalAccounted, UNCHANGED global,
           \A b \in Builds : exec'[b] # "no" <=> exec[b] # "no",
           CustomHolds' <=> CustomHolds, AgentHolds' <=> AgentHolds,
           custom.pc = "user" /\ Waits(global, "custom") => custom'.pc = "user",
           agent.pc = "select" /\ Waits(global, "agent") => agent'.pc = "select"
    PROVE  GlobalAccounted'
  <1>1. Holders' = Holders
    BY DEF Holders, Executing, LoopsWith
  <1>2. Waits(global', "custom") <=> Waits(global, "custom")
    OBVIOUS
  <1>3. Waits(global', "agent") <=> Waits(global, "agent")
    OBVIOUS
  <1>4. Accounts(global', MaxGlobal, Loops, Holders')
    BY <1>1 DEF GlobalAccounted
  <1> QED
    BY <1>2, <1>3, <1>4 DEF GlobalAccounted

\* processAgentBuildQueue asks for its slot when it is called.
LEMMA AgentCallAccounts ==
    ASSUME IInv
    PROVE  LET s == AgentCalledGlobal
               asks == agent.pc = "off"
           IN  /\ \A x : Waits(s, x) => Waits(global, x) \/ (asks /\ x = "agent")
               /\ \A x : Waits(global, x) => Waits(s, x)
               /\ Accounts(s, MaxGlobal, Loops,
                           IF asks /\ ~Waits(s, "agent") THEN Holders \cup {"agent"}
                                                         ELSE Holders)
  <1>1. Accounts(global, MaxGlobal, Loops, Holders) /\ "agent" \in Loops
    BY DEF IInv, GlobalAccounted, Loops
  <1>2. CASE agent.pc # "off"
    BY <1>1, <1>2 DEF AgentCalledGlobal
  <1>3. CASE agent.pc = "off"
    <2>1. "agent" \notin Holders /\ ~Waits(global, "agent")
      BY <1>3, HoldersAre DEF IInv, GlobalAccounted, AgentHolds
    <2>2. AgentCalledGlobal = Acquire(global, MaxGlobal, "agent")
      BY <1>3 DEF AgentCalledGlobal
    <2> QED
      BY <1>1, <1>3, <2>1, <2>2, AcquireAccounts
  <1> QED
    BY <1>2, <1>3

\* Every step keeps the account of the global slots.
LEMMA GlobalStep ==
    ASSUME IInv, Next
    PROVE  GlobalAccounted'
  <1>t. /\ exec \in [Builds -> {"no", "run", "after"}]
        /\ custom = [pc |-> custom.pc, build |-> custom.build]
        /\ agent = [pc |-> agent.pc, build |-> agent.build]
        /\ custom.pc \in {"image", "user", "mark"} <=> custom.build \in CustomBuilds
        /\ agent.pc = "mark" <=> agent.build \in AgentBuilds
        /\ None \notin Builds /\ CustomBuilds \subseteq Builds /\ AgentBuilds \subseteq Builds
    <2>1. None \notin Builds /\ CustomBuilds \subseteq Builds /\ AgentBuilds \subseteq Builds
      BY BuildAssumption DEF Builds
    <2> QED
      BY <2>1 DEF IInv, TypeOK
  <1>g. /\ GlobalAccounted
        /\ Accounts(global, MaxGlobal, Loops, Holders)
        /\ Waits(global, "custom") => custom.pc = "user"
        /\ Waits(global, "agent") => agent.pc = "select"
        /\ NotYetExecuted
        /\ Loops = {"custom", "agent"}
    BY DEF IInv, GlobalAccounted, Loops
  <1>1. ASSUME NEW b \in Builds, Ask(b) PROVE GlobalAccounted'
    <2>1. CASE b \in CustomBuilds
      BY <1>1, <1>g, <2>1, GlobalQuiet
      DEF Ask, CustomHolds, AgentHolds, CustomCalled, At
    <2>2. CASE b \notin CustomBuilds
      <3>1. agent' = AgentCalled /\ global' = AgentCalledGlobal /\ UNCHANGED <<custom, exec>>
        BY <1>1, <2>2 DEF Ask
      <3>2. Holders' = IF agent.pc = "off" /\ ~Waits(global', "agent")
                       THEN Holders \cup {"agent"} ELSE Holders
        <4>1. Executing' = Executing
          BY <3>1 DEF Executing
        <4>2. CustomHolds' <=> CustomHolds
          BY <1>g, <3>1, AgentCallAccounts DEF CustomHolds
        <4>3. AgentHolds' <=> AgentHolds \/ (agent.pc = "off" /\ ~Waits(global', "agent"))
          <5>1. CASE agent.pc = "off"
            BY <3>1, <5>1 DEF AgentHolds, AgentCalled, At
          <5>2. CASE agent.pc # "off"
            BY <3>1, <5>2 DEF AgentHolds, AgentCalled, AgentCalledGlobal
          <5> QED
            BY <5>1, <5>2
        <4> QED
          BY <4>1, <4>2, <4>3 DEF Holders, LoopsWith, Loops
      <3>3. Accounts(global', MaxGlobal, Loops, Holders')
        BY <3>1, <3>2, AgentCallAccounts
      <3>4. Waits(global', "custom") => custom'.pc = "user"
        BY <1>g, <3>1, AgentCallAccounts
      <3>5. Waits(global', "agent") => agent'.pc = "select"
        BY <1>g, <3>1, AgentCallAccounts DEF AgentCalled, At
      <3> QED
        BY <3>3, <3>4, <3>5 DEF GlobalAccounted
    <2> QED
      BY <2>1, <2>2
  <1>2. ASSUME NEW b \in Builds,
               AskReady(b) \/ DeleteImage(b) \/ DeleteImageRow(b) \/ DeleteBuild(b)
        PROVE  GlobalAccounted'
    BY <1>2, <1>g, GlobalQuiet
    DEF AskReady, DeleteImage, DeleteImageRow, DeleteBuild, CustomHolds, AgentHolds
  <1>3. ASSUME NEW b \in CustomBuilds, CustomBuilt(b) PROVE GlobalAccounted'
    <2>1. \A c \in Builds : exec'[c] # "no" <=> exec[c] # "no"
      BY <1>3, <1>t DEF CustomBuilt
    <2> QED
      BY <1>3, <1>g, <2>1, GlobalQuiet DEF CustomBuilt, CustomHolds, AgentHolds
  <1>4. ASSUME NEW b \in CustomBuilds, CustomAfter(b) PROVE GlobalAccounted'
    <2>1. /\ global' = Release(global) /\ UNCHANGED agent
          /\ custom' = custom \/ (custom.pc = "off" /\ custom' = At("select", None))
          /\ exec' = [exec EXCEPT ![b] = "no"]
      BY <1>4 DEF CustomAfter, CustomCalled
    <2>2. b \in Holders
      BY <1>4, <1>t, HoldersAre DEF CustomAfter
    <2> DEFINE woken == {w \in Loops : Waits(global, w) /\ ~Waits(global', w)}
    <2>3. /\ \A w : Waits(global', w) => Waits(global, w)
          /\ Accounts(global', MaxGlobal, Loops, (Holders \ {b}) \cup woken)
      BY <1>g, <2>1, <2>2, ReleaseAccounts
    <2>4. Holders' = (Holders \ {b}) \cup woken
      <3>1. Executing' = Executing \ {b}
        BY <1>t, <2>1 DEF Executing
      <3>2. CustomHolds' <=> CustomHolds \/ "custom" \in woken
        BY <1>g, <2>1, <2>3 DEF CustomHolds, At
      <3>3. AgentHolds' <=> AgentHolds \/ "agent" \in woken
        BY <1>g, <2>1, <2>3 DEF AgentHolds
      <3>4. b \notin Loops
        BY <1>t, HoldersAre
      <3> QED
        BY <1>g, <3>1, <3>2, <3>3, <3>4 DEF Holders, LoopsWith
    <2> QED
      BY <1>g, <2>1, <2>3, <2>4 DEF GlobalAccounted, At
  <1>5. ASSUME NEW b \in AgentBuilds, AgentBuilt(b) PROVE GlobalAccounted'
    <2> DEFINE s == AgentCalledGlobal
               asks == agent.pc = "off" /\ ~Waits(s, "agent")
               H == IF asks THEN Holders \cup {"agent"} ELSE Holders
               woken == {w \in Loops : Waits(s, w) /\ ~Waits(global', w)}
    <2>1. /\ global' = Release(s) /\ agent' = AgentCalled /\ UNCHANGED custom
          /\ exec' = [exec EXCEPT ![b] = "no"]
      BY <1>5 DEF AgentBuilt
    <2>2. /\ Accounts(s, MaxGlobal, Loops, H)
          /\ \A x : Waits(s, x) => Waits(global, x) \/ (agent.pc = "off" /\ x = "agent")
          /\ \A x : Waits(global, x) => Waits(s, x)
      BY AgentCallAccounts
    <2>3. b \in H
      BY <1>5, <1>t, HoldersAre DEF AgentBuilt
    <2> HIDE DEF s
    <2>4. /\ \A w : Waits(global', w) => Waits(s, w)
          /\ Accounts(global', MaxGlobal, Loops, (H \ {b}) \cup woken)
      <3> HIDE DEF H
      <3> QED
        BY <2>1, <2>2, <2>3, ReleaseAccounts
    <2>5. Holders' = (H \ {b}) \cup woken
      <3>1. Executing' = Executing \ {b}
        BY <1>t, <2>1 DEF Executing
      <3>2. CustomHolds' <=> CustomHolds \/ "custom" \in woken
        BY <1>g, <2>1, <2>2, <2>4 DEF CustomHolds
      <3>3. AgentHolds' <=> AgentHolds \/ asks \/ "agent" \in woken
        <4>1. CASE agent.pc = "off"
          BY <1>g, <2>1, <2>2, <2>4, <4>1 DEF AgentHolds, AgentCalled, At
        <4>2. CASE agent.pc # "off"
          <5>1. agent' = agent /\ s = global
            BY <2>1, <4>2 DEF AgentCalled, AgentCalledGlobal, s
          <5> QED
            BY <1>g, <2>4, <4>2, <5>1 DEF AgentHolds
        <4> QED
          BY <4>1, <4>2
      <3>4. b \notin Loops
        BY <1>t, HoldersAre
      <3> QED
        BY <1>g, <3>1, <3>2, <3>3, <3>4 DEF Holders, LoopsWith
    <2>6. Waits(global', "custom") => custom'.pc = "user"
      BY <1>g, <2>1, <2>2, <2>4
    <2>7. Waits(global', "agent") => agent'.pc = "select"
      BY <1>g, <2>1, <2>2, <2>4 DEF AgentCalled, At
    <2> QED
      BY <2>4, <2>5, <2>6, <2>7 DEF GlobalAccounted
  <1>6. ASSUME CustomSelect \/ CustomStop \/ CustomUser \/ AgentSelect
        PROVE  GlobalAccounted'
    <2>1. UNCHANGED <<global, exec>>
      BY <1>6 DEF CustomSelect, CustomStop, CustomUser, AgentSelect
    <2>2. CustomHolds' <=> CustomHolds
      BY <1>6, <1>t DEF CustomSelect, CustomStop, CustomUser, AgentSelect, CustomHolds, At, Off
    <2>3. AgentHolds' <=> AgentHolds
      BY <1>6, <1>t DEF CustomSelect, CustomStop, CustomUser, AgentSelect, AgentHolds, At
    <2>4. custom.pc = "user" /\ Waits(global, "custom") => custom'.pc = "user"
      BY <1>6 DEF CustomSelect, CustomStop, CustomUser, AgentSelect
    <2>5. agent.pc = "select" /\ Waits(global, "agent") => agent'.pc = "select"
      BY <1>6 DEF CustomSelect, CustomStop, CustomUser, AgentSelect
    <2> QED
      BY <1>g, <2>1, <2>2, <2>3, <2>4, <2>5, GlobalQuiet
  <1>7. ASSUME CustomImage PROVE GlobalAccounted'
    <2>1. CASE ImageExists(custom.build)
      <3>1. /\ custom.pc = "image" /\ global' = Acquire(global, MaxGlobal, "custom")
            /\ custom'.pc = "user" /\ UNCHANGED <<agent, exec>>
        BY <1>7, <1>t, <2>1 DEF CustomImage
      <3>2. "custom" \notin Holders /\ ~Waits(global, "custom") /\ "custom" \in Loops
        BY <1>g, <3>1, HoldersAre DEF CustomHolds
      <3>3. /\ \A x : Waits(global', x) <=>
                     Waits(global, x) \/ (x = "custom" /\ global.count = MaxGlobal)
            /\ Accounts(global', MaxGlobal, Loops,
                        IF global.count = MaxGlobal THEN Holders ELSE Holders \cup {"custom"})
        <4> DEFINE t == Acquire(global, MaxGlobal, "custom")
        <4>1. Accounts(global, MaxGlobal, Loops, Holders)
          BY <1>g
        <4>2. /\ \A x : Waits(t, x) <=>
                       Waits(global, x) \/ (x = "custom" /\ global.count = MaxGlobal)
              /\ Accounts(t, MaxGlobal, Loops,
                          IF global.count = MaxGlobal THEN Holders ELSE Holders \cup {"custom"})
          BY <3>2, <4>1, AcquireAccounts
        <4> HIDE DEF t
        <4>3. global' = t
          BY <3>1 DEF t
        <4> QED
          BY <4>2, <4>3
      <3>4. Holders' = IF global.count = MaxGlobal THEN Holders ELSE Holders \cup {"custom"}
        <4>1. Executing' = Executing
          BY <3>1 DEF Executing
        <4>2. CustomHolds' <=> global.count # MaxGlobal
          BY <3>1, <3>2, <3>3 DEF CustomHolds
        <4>3. AgentHolds' <=> AgentHolds
          BY <3>1, <3>3 DEF AgentHolds
        <4>4. ~CustomHolds
          BY <3>1 DEF CustomHolds
        <4> QED
          BY <4>1, <4>2, <4>3, <4>4 DEF Holders, LoopsWith, Loops
      <3> QED
        <4>1. Accounts(global', MaxGlobal, Loops, Holders')
          BY <3>3, <3>4
        <4>2. Waits(global', "agent") => agent'.pc = "select"
          BY <1>g, <3>1, <3>3
        <4> QED
          BY <3>1, <4>1, <4>2 DEF GlobalAccounted
    <2>2. CASE ~ImageExists(custom.build)
      BY <1>7, <1>g, <2>2, GlobalQuiet DEF CustomImage, CustomHolds, AgentHolds, At
    <2> QED
      BY <2>1, <2>2
  <1>8. ASSUME CustomMark PROVE GlobalAccounted'
    <2> DEFINE b == custom.build
    <2>1. /\ custom.pc = "mark" /\ custom' = At("select", None) /\ UNCHANGED <<global, agent>>
          /\ exec' = [exec EXCEPT ![b] = "run"]
      BY <1>8 DEF CustomMark
    <2>2. b \in Builds /\ exec[b] = "no" /\ b \notin Holders /\ b \notin Loops
      BY <1>t, <1>g, <2>1, HoldersAre DEF NotYetExecuted, Picked
    <2>3. "custom" \in Holders /\ ~Waits(global, "custom")
      BY <1>g, <2>1, HoldersAre DEF CustomHolds
    <2>4. Accounts(global, MaxGlobal, Loops, (Holders \ {"custom"}) \cup {b})
      BY <1>g, <2>2, <2>3, SwapAccounts
    <2>5. Holders' = (Holders \ {"custom"}) \cup {b}
      <3>1. Executing' = Executing \cup {b}
        BY <1>t, <2>1, <2>2 DEF Executing
      <3>2. ~CustomHolds'
        BY <2>1 DEF CustomHolds, At
      <3>3. AgentHolds' <=> AgentHolds
        BY <2>1 DEF AgentHolds
      <3>4. "custom" \notin Builds
        BY HoldersAre
      <3> QED
        BY <1>g, <2>2, <3>1, <3>2, <3>3, <3>4 DEF Holders, LoopsWith, Executing
    <2> QED
      BY <1>g, <2>1, <2>3, <2>4, <2>5 DEF GlobalAccounted
  <1>9. ASSUME AgentMark PROVE GlobalAccounted'
    <2> DEFINE b == agent.build
    <2>1. /\ agent.pc = "mark" /\ agent' = Off /\ UNCHANGED <<global, custom>>
          /\ exec' = [exec EXCEPT ![b] = "run"]
      BY <1>9 DEF AgentMark
    <2>2. b \in Builds /\ exec[b] = "no" /\ b \notin Holders /\ b \notin Loops
      BY <1>t, <1>g, <2>1, HoldersAre DEF NotYetExecuted, Picked
    <2>3. "agent" \in Holders /\ ~Waits(global, "agent")
      BY <1>g, <2>1, HoldersAre DEF AgentHolds
    <2>4. Accounts(global, MaxGlobal, Loops, (Holders \ {"agent"}) \cup {b})
      BY <1>g, <2>2, <2>3, SwapAccounts
    <2>5. Holders' = (Holders \ {"agent"}) \cup {b}
      <3>1. Executing' = Executing \cup {b}
        BY <1>t, <2>1, <2>2 DEF Executing
      <3>2. ~AgentHolds'
        BY <2>1 DEF AgentHolds, Off
      <3>3. CustomHolds' <=> CustomHolds
        BY <2>1 DEF CustomHolds
      <3>4. "agent" \notin Builds
        BY HoldersAre
      <3> QED
        BY <1>g, <2>2, <3>1, <3>2, <3>3, <3>4 DEF Holders, LoopsWith, Executing
    <2> QED
      BY <1>g, <2>1, <2>3, <2>4, <2>5 DEF GlobalAccounted
  <1>10. ASSUME AgentStop PROVE GlobalAccounted'
    <2>1. /\ agent.pc = "none" /\ agent' = Off /\ global' = Release(global)
          /\ UNCHANGED <<custom, exec>>
      BY <1>10 DEF AgentStop
    <2>2. "agent" \in Holders /\ ~Waits(global, "agent")
      BY <1>g, <2>1, HoldersAre DEF AgentHolds
    <2> DEFINE woken == {w \in Loops : Waits(global, w) /\ ~Waits(global', w)}
    <2>3. /\ \A w : Waits(global', w) => Waits(global, w)
          /\ Accounts(global', MaxGlobal, Loops, (Holders \ {"agent"}) \cup woken)
      BY <1>g, <2>1, <2>2, ReleaseAccounts
    <2>4. Holders' = (Holders \ {"agent"}) \cup woken
      <3>1. Executing' = Executing /\ "agent" \notin Executing /\ "agent" \notin woken
        BY <2>1, <2>2, HoldersAre DEF Executing
      <3>2. CustomHolds' <=> CustomHolds \/ "custom" \in woken
        BY <1>g, <2>1, <2>3 DEF CustomHolds
      <3>3. ~AgentHolds'
        BY <2>1 DEF AgentHolds, Off
      <3> QED
        BY <1>g, <3>1, <3>2, <3>3 DEF Holders, LoopsWith
    <2> QED
      BY <1>g, <2>1, <2>2, <2>3, <2>4 DEF GlobalAccounted
  <1>11. ASSUME Restart PROVE GlobalAccounted'
    <2>1. Holders' = {}
      BY <1>11 DEF Restart, Holders, Executing, LoopsWith, CustomHolds, AgentHolds, Off, Loops
    <2>2. MaxGlobal \in Nat \ {0}
      BY BuildAssumption
    <2> QED
      BY <1>11, <2>1, <2>2, FreeAccounts DEF Restart, GlobalAccounted
  <1> QED
    BY <1>t, <1>1, <1>2, <1>3, <1>4, <1>5, <1>6, <1>7, <1>8, <1>9, <1>10, <1>11
    DEF Next, CustomLoop, AgentLoop, CustomRun

(***************************************************************************)
(* The users' semaphores.                                                  *)
(***************************************************************************)
\* The members of UserHolders, one by one.
LEMMA UserHoldersAre ==
    ASSUME NEW u
    PROVE  /\ \A b \in Builds : b \in UserHolders(u) <=>
                 b \in CustomBuilds /\ Owner[b] = u /\ exec[b] # "no"
           /\ "custom" \in UserHolders(u) <=>
                 /\ custom.pc = "mark" /\ Owner[custom.build] = u
                 /\ ~Waits(user[u], "custom")
           /\ UserHolders(u) \subseteq Builds \cup {"custom"}
           /\ "custom" \notin Builds
  BY BuildAssumption DEF UserHolders, Executing, OwnedBy, Loops, Builds

\* A step that leaves a user's semaphore, executed builds and marking alone.
LEMMA UserQuiet ==
    ASSUME NEW u, UserAccounted(u), user'[u] = user[u],
           \A b \in CustomBuilds : exec'[b] # "no" <=> exec[b] # "no",
           custom.pc = "mark" \/ custom'.pc = "mark" => UNCHANGED custom
    PROVE  UserAccounted(u)'
  <1>1. UserHolders(u)' = UserHolders(u)
    <2>1. (Executing \cap OwnedBy(u))' = Executing \cap OwnedBy(u)
      BY DEF Executing, OwnedBy, Builds
    <2>2. custom'.pc = "mark" /\ Owner[custom'.build] = u <=>
          custom.pc = "mark" /\ Owner[custom.build] = u
      OBVIOUS
    <2> QED
      BY <2>1, <2>2 DEF UserHolders
  <1>2. Accounts(user'[u], MaxPerUser, {"custom"}, UserHolders(u)')
    BY <1>1 DEF UserAccounted
  <1>3. Waits(user'[u], "custom") => custom'.pc = "mark" /\ Owner[custom'.build] = u
    BY DEF UserAccounted
  <1> QED
    BY <1>2, <1>3 DEF UserAccounted

\* Every step keeps the account of every user's slots.
LEMMA UserStep ==
    ASSUME IInv, Next, NEW u \in Users
    PROVE  UserAccounted(u)'
  <1>t. /\ exec \in [Builds -> {"no", "run", "after"}]
        /\ user \in [Users -> SemType(MaxPerUser, {"custom"})]
        /\ custom = [pc |-> custom.pc, build |-> custom.build]
        /\ agent = [pc |-> agent.pc, build |-> agent.build]
        /\ custom.pc \in {"image", "user", "mark"} <=> custom.build \in CustomBuilds
        /\ agent.pc = "mark" <=> agent.build \in AgentBuilds
        /\ Builds = CustomBuilds \cup AgentBuilds /\ CustomBuilds \cap AgentBuilds = {}
        /\ Owner \in [CustomBuilds -> Users]
    <2>1. /\ None \notin Builds /\ Builds = CustomBuilds \cup AgentBuilds
          /\ CustomBuilds \cap AgentBuilds = {} /\ Owner \in [CustomBuilds -> Users]
      BY BuildAssumption DEF Builds
    <2> QED
      BY <2>1 DEF IInv, TypeOK
  <1>g. /\ UserAccounted(u)
        /\ Accounts(user[u], MaxPerUser, {"custom"}, UserHolders(u))
        /\ Waits(user[u], "custom") => custom.pc = "mark" /\ Owner[custom.build] = u
        /\ NotYetExecuted
    BY DEF IInv, UserAccounted
  <1>1. ASSUME NEW b \in Builds,
               \/ Ask(b) \/ AskReady(b) \/ DeleteImage(b) \/ DeleteImageRow(b)
               \/ DeleteBuild(b)
        PROVE  UserAccounted(u)'
    <2>1. UNCHANGED <<user, exec>>
      BY <1>1 DEF Ask, AskReady, DeleteImage, DeleteImageRow, DeleteBuild
    <2>2. custom.pc = "mark" \/ custom'.pc = "mark" => UNCHANGED custom
      BY <1>1 DEF Ask, AskReady, DeleteImage, DeleteImageRow, DeleteBuild,
                  CustomCalled, At
    <2> QED
      BY <1>g, <2>1, <2>2, UserQuiet
  <1>2. ASSUME NEW b \in CustomBuilds, CustomBuilt(b) PROVE UserAccounted(u)'
    <2>1. \A c \in CustomBuilds : exec'[c] # "no" <=> exec[c] # "no"
      BY <1>2, <1>t DEF CustomBuilt
    <2> QED
      BY <1>2, <1>g, <2>1, UserQuiet DEF CustomBuilt
  <1>3. ASSUME NEW b \in AgentBuilds, AgentBuilt(b) PROVE UserAccounted(u)'
    <2>1. \A c \in CustomBuilds : exec'[c] # "no" <=> exec[c] # "no"
      BY <1>3, <1>t DEF AgentBuilt
    <2> QED
      BY <1>3, <1>g, <2>1, UserQuiet DEF AgentBuilt
  <1>4. ASSUME AgentMark PROVE UserAccounted(u)'
    <2>1. \A c \in CustomBuilds : exec'[c] # "no" <=> exec[c] # "no"
      BY <1>4, <1>t DEF AgentMark
    <2> QED
      BY <1>4, <1>g, <2>1, UserQuiet DEF AgentMark
  <1>5. ASSUME CustomSelect \/ CustomStop \/ CustomImage \/ AgentSelect \/ AgentStop
        PROVE  UserAccounted(u)'
    <2>1. UNCHANGED <<user, exec>>
      BY <1>5 DEF CustomSelect, CustomStop, CustomImage, AgentSelect, AgentStop
    <2>2. custom.pc = "mark" \/ custom'.pc = "mark" => UNCHANGED custom
      BY <1>5, <1>t DEF CustomSelect, CustomStop, CustomImage, AgentSelect, AgentStop, At, Off
    <2> QED
      BY <1>g, <2>1, <2>2, UserQuiet
  <1>6. ASSUME CustomUser PROVE UserAccounted(u)'
    <2> DEFINE o == Owner[custom.build]
    <2>1. /\ custom.pc = "user" /\ custom'.pc = "mark" /\ custom'.build = custom.build
          /\ UNCHANGED exec
          /\ user' = [user EXCEPT ![o] = Acquire(@, MaxPerUser, "custom")]
      BY <1>6, <1>t DEF CustomUser
    <2>2. Executing' = Executing
      BY <2>1 DEF Executing
    <2>3. "custom" \notin UserHolders(u) /\ ~Waits(user[u], "custom")
      BY <1>g, <2>1, UserHoldersAre
    <2>4. CASE o = u
      <3> DEFINE t == Acquire(user[u], MaxPerUser, "custom")
      <3>1. /\ \A x : Waits(t, x) <=>
                     Waits(user[u], x) \/ (x = "custom" /\ user[u].count = MaxPerUser)
            /\ Accounts(t, MaxPerUser, {"custom"},
                        IF user[u].count = MaxPerUser THEN UserHolders(u)
                                                      ELSE UserHolders(u) \cup {"custom"})
        <4>1. Accounts(user[u], MaxPerUser, {"custom"}, UserHolders(u))
          BY <1>g
        <4> QED
          BY <2>3, <4>1, AcquireAccounts
      <3> HIDE DEF t
      <3>2. user'[u] = t
        BY <1>t, <2>1, <2>4 DEF t
      <3>3. UserHolders(u)' = IF user[u].count = MaxPerUser THEN UserHolders(u)
                                                           ELSE UserHolders(u) \cup {"custom"}
        <4>1. UserHolders(u) = Executing \cap OwnedBy(u)
          BY <2>1 DEF UserHolders
        <4>2. "custom" \in UserHolders(u)' <=> user[u].count # MaxPerUser
          BY <2>1, <2>3, <2>4, <3>1, <3>2, UserHoldersAre
             DEF UserHolders, OwnedBy, Executing, Builds
        <4> QED
          BY <2>2, <4>1, <4>2 DEF UserHolders, OwnedBy
      <3>4. Accounts(user'[u], MaxPerUser, {"custom"}, UserHolders(u)')
        BY <3>1, <3>2, <3>3
      <3> QED
        BY <2>1, <2>4, <3>4 DEF UserAccounted
    <2>5. CASE o # u
      <3>1. user'[u] = user[u]
        BY <1>t, <2>1, <2>5
      <3>2. UserHolders(u)' = UserHolders(u)
        BY <2>1, <2>2, <2>5, <3>1 DEF UserHolders, OwnedBy
      <3> QED
        BY <1>g, <2>1, <2>3, <3>1, <3>2 DEF UserAccounted
    <2> QED
      BY <2>4, <2>5
  <1>7. ASSUME CustomMark PROVE UserAccounted(u)'
    <2> DEFINE b == custom.build
    <2>1. /\ custom.pc = "mark" /\ custom' = At("select", None) /\ UNCHANGED user
          /\ exec' = [exec EXCEPT ![b] = "run"] /\ ~Waits(user[Owner[b]], "custom")
      BY <1>7 DEF CustomMark
    <2>2. b \in CustomBuilds /\ exec[b] = "no"
      BY <1>t, <1>g, <2>1 DEF NotYetExecuted, Picked
    <2>3. ~Waits(user[u], "custom")
      BY <1>g, <2>1
    <2>4. Executing' = Executing \cup {b}
      BY <1>t, <2>1, <2>2 DEF Executing
    <2>5. CASE Owner[b] = u
      <3>1. "custom" \in UserHolders(u) /\ b \notin UserHolders(u) /\ b \notin {"custom"}
        BY <1>t, <2>1, <2>2, <2>3, <2>5, UserHoldersAre
      <3>2. Accounts(user[u], MaxPerUser, {"custom"}, (UserHolders(u) \ {"custom"}) \cup {b})
        BY <1>g, <3>1, SwapAccounts
      <3>3. UserHolders(u)' = (UserHolders(u) \ {"custom"}) \cup {b}
        <4>1. UserHolders(u)' = (Executing \cup {b}) \cap OwnedBy(u)
          BY <2>1, <2>4 DEF UserHolders, OwnedBy, At
        <4>2. UserHolders(u) = (Executing \cap OwnedBy(u)) \cup {"custom"}
          BY <2>1, <2>3, <2>5 DEF UserHolders
        <4>3. b \in OwnedBy(u) /\ "custom" \notin OwnedBy(u)
          BY <1>t, <2>2, <2>5, UserHoldersAre DEF OwnedBy
        <4> QED
          BY <4>1, <4>2, <4>3
      <3> QED
        BY <2>1, <2>3, <3>2, <3>3 DEF UserAccounted
    <2>6. CASE Owner[b] # u
      <3>1. UserHolders(u)' = UserHolders(u)
        BY <2>1, <2>4, <2>6 DEF UserHolders, OwnedBy, At
      <3> QED
        BY <1>g, <2>1, <2>3, <3>1 DEF UserAccounted
    <2> QED
      BY <2>5, <2>6
  <1>8. ASSUME NEW b \in CustomBuilds, CustomAfter(b) PROVE UserAccounted(u)'
    <2>1. /\ custom.pc # "off" => custom' = custom
          /\ custom.pc = "mark" \/ custom'.pc = "mark" => custom' = custom
          /\ exec[b] = "after" /\ exec' = [exec EXCEPT ![b] = "no"]
          /\ user' = [user EXCEPT ![Owner[b]] = Release(@)]
      BY <1>8 DEF CustomAfter, CustomCalled, At
    <2>2. Executing' = Executing \ {b}
      BY <1>t, <2>1 DEF Executing
    <2>3. CASE Owner[b] = u
      <3>1. b \in UserHolders(u) /\ user'[u] = Release(user[u])
        BY <1>t, <2>1, <2>3, UserHoldersAre
      <3> DEFINE woken == {w \in {"custom"} : Waits(user[u], w) /\ ~Waits(user'[u], w)}
      <3>2. /\ \A w : Waits(user'[u], w) => Waits(user[u], w)
            /\ Accounts(user'[u], MaxPerUser, {"custom"}, (UserHolders(u) \ {b}) \cup woken)
        BY <1>g, <3>1, ReleaseAccounts
      <3>3. UserHolders(u)' = (UserHolders(u) \ {b}) \cup woken
        <4>1. "custom" \in UserHolders(u)' <=> "custom" \in UserHolders(u) \cup woken
          <5>1. \/ custom' = custom
                \/ custom.pc # "mark" /\ custom'.pc # "mark"
            BY <2>1
          <5>2. "custom" \in UserHolders(u)' <=>
                /\ custom'.pc = "mark" /\ Owner[custom'.build] = u
                /\ ~Waits(user'[u], "custom")
            BY UserHoldersAre DEF UserHolders, Executing, OwnedBy
          <5> QED
            BY <1>g, <3>2, <5>1, <5>2, UserHoldersAre
        <4>2. \A x : x # "custom" =>
                 (x \in UserHolders(u)' <=> x \in UserHolders(u) /\ x # b)
          BY <2>2 DEF UserHolders, OwnedBy
        <4>3. b # "custom"
          BY <1>t, UserHoldersAre
        <4>4. woken \subseteq {"custom"}
          OBVIOUS
        <4> HIDE DEF woken
        <4> QED
          BY <4>1, <4>2, <4>3, <4>4
      <3>4. Waits(user'[u], "custom") => custom'.pc = "mark" /\ Owner[custom'.build] = u
        BY <1>g, <2>1, <3>2
      <3> QED
        BY <3>2, <3>3, <3>4 DEF UserAccounted
    <2>4. CASE Owner[b] # u
      <3>1. user'[u] = user[u]
        BY <1>t, <2>1, <2>4
      <3>2. UserHolders(u)' = UserHolders(u)
        <4>1. custom'.pc = "mark" /\ Owner[custom'.build] = u <=>
              custom.pc = "mark" /\ Owner[custom.build] = u
          BY <2>1
        <4> QED
          BY <2>2, <2>4, <3>1, <4>1 DEF UserHolders, OwnedBy
      <3> QED
        BY <1>g, <2>1, <3>1, <3>2 DEF UserAccounted
    <2> QED
      BY <2>3, <2>4
  <1>9. ASSUME Restart PROVE UserAccounted(u)'
    <2>1. UserHolders(u)' = {}
      BY <1>9 DEF Restart, UserHolders, Executing, Off
    <2>2. user'[u] = FreeSemaphore /\ MaxPerUser \in Nat \ {0}
      BY <1>9, BuildAssumption DEF Restart
    <2> QED
      BY <2>1, <2>2, FreeAccounts DEF UserAccounted
  <1> QED
    BY <1>t, <1>1, <1>2, <1>3, <1>4, <1>5, <1>6, <1>7, <1>8, <1>9
    DEF Next, CustomLoop, AgentLoop, CustomRun

(***************************************************************************)
(* The inductive invariant and what follows from it.                       *)
(***************************************************************************)
\* Every step keeps what is queued apart from what is executed.
LEMMA NotYetExecutedStep ==
    ASSUME IInv, Next
    PROVE  NotYetExecuted'
  <1>t. /\ exec \in [Builds -> {"no", "run", "after"}]
        /\ row \in [Builds -> States]
        /\ custom = [pc |-> custom.pc, build |-> custom.build]
        /\ agent = [pc |-> agent.pc, build |-> agent.build]
        /\ custom.build \in CustomBuilds \cup {None}
        /\ agent.build \in AgentBuilds \cup {None}
        /\ custom.pc \in {"image", "user", "mark"} <=> custom.build # None
        /\ agent.pc = "mark" <=> agent.build # None
        /\ Builds = CustomBuilds \cup AgentBuilds /\ CustomBuilds \cap AgentBuilds = {}
        /\ None \notin Builds
    <2>1. /\ None \notin Builds /\ Builds = CustomBuilds \cup AgentBuilds
          /\ CustomBuilds \cap AgentBuilds = {}
      BY BuildAssumption DEF Builds
    <2> QED
      BY <2>1 DEF IInv, TypeOK
  <1>g. NotYetExecuted
    BY DEF IInv
  <1>q. ASSUME \A b \in Builds :
                  /\ exec'[b] # "no" => exec[b] # "no"
                  /\ row'[b] \in {"none", "queued"} =>
                       row[b] \in {"none", "queued"}
                  /\ row'[b] = "none" => row[b] = "none"
                  /\ Picked(b)' => Picked(b)
        PROVE  NotYetExecuted'
    BY <1>g, <1>q DEF NotYetExecuted
  <1>1. ASSUME NEW b \in Builds,
               \/ Ask(b) \/ AskReady(b) \/ DeleteImage(b) \/ DeleteImageRow(b)
               \/ DeleteBuild(b)
        PROVE  NotYetExecuted'
    <2>2. custom'.build = custom.build /\ agent'.build = agent.build
      BY <1>1, <1>t DEF Ask, AskReady, DeleteImage, DeleteImageRow, DeleteBuild,
                        CustomCalled, AgentCalled, At
    <2>3. \A c \in Builds : Picked(c)' <=> Picked(c)
      BY <2>2 DEF Picked
    <2>4. \A c \in Builds : c # b => row'[c] = row[c]
      BY <1>1, <1>t DEF Ask, AskReady, DeleteImage, DeleteImageRow, DeleteBuild
    <2>5. row'[b] # "none" /\ (row'[b] = "queued" => row[b] = "none")
      BY <1>1, <1>t DEF Ask, AskReady, DeleteImage, DeleteImageRow, DeleteBuild
    <2>6. UNCHANGED exec
      BY <1>1 DEF Ask, AskReady, DeleteImage, DeleteImageRow, DeleteBuild
    <2> QED
      BY <2>3, <2>4, <2>5, <2>6, <1>q
  <1>2. ASSUME NEW b \in Builds, CustomBuilt(b) \/ AgentBuilt(b) PROVE NotYetExecuted'
    <2>1. exec[b] = "run" /\ \A c \in Builds : c # b => exec'[c] = exec[c]
      BY <1>2, <1>t DEF CustomBuilt, AgentBuilt
    <2>2. custom'.build = custom.build /\ agent'.build = agent.build
      BY <1>2, <1>t DEF CustomBuilt, AgentBuilt, AgentCalled, At
    <2>3. \A c \in Builds : Picked(c)' <=> Picked(c)
      BY <2>2 DEF Picked
    <2>4. PICK result \in {"ready", "failed"} : row' = Marked(b, result)
      BY <1>2 DEF CustomBuilt, AgentBuilt
    <2>5. \A c \in Builds : row'[c] # row[c] => row'[c] \notin {"none", "queued"}
      BY <1>t, <2>4 DEF Marked
    <2> QED
      BY <2>1, <2>3, <2>5, <1>q
  <1>3. ASSUME NEW b \in CustomBuilds, CustomAfter(b) PROVE NotYetExecuted'
    <2>1. UNCHANGED <<row, agent>> /\ exec' = [exec EXCEPT ![b] = "no"]
      BY <1>3 DEF CustomAfter
    <2>2. custom'.build = custom.build
      BY <1>3, <1>t DEF CustomAfter, CustomCalled, At
    <2> QED
      BY <1>t, <2>1, <2>2, <1>q DEF Picked
  <1>4. ASSUME CustomSelect \/ AgentSelect PROVE NotYetExecuted'
    <2>1. UNCHANGED <<row, exec>>
      BY <1>4 DEF CustomSelect, AgentSelect
    <2>2. \A c \in Builds : Picked(c)' => Picked(c) \/ row[c] = "queued"
      BY <1>4, <1>t DEF CustomSelect, AgentSelect, Picked, At, Oldest, Queued
    <2> QED
      BY <1>g, <2>1, <2>2 DEF NotYetExecuted
  <1>5. ASSUME CustomStop \/ CustomImage \/ CustomUser \/ AgentStop
        PROVE  NotYetExecuted'
    <2>1. UNCHANGED <<row, exec>>
      BY <1>5 DEF CustomStop, CustomImage, CustomUser, AgentStop
    <2>2. \A c \in Builds : Picked(c)' => Picked(c)
      BY <1>5, <1>t DEF CustomStop, CustomImage, CustomUser, AgentStop, Picked, At, Off
    <2> QED
      BY <2>1, <2>2, <1>q
  <1>6. ASSUME CustomMark \/ AgentMark PROVE NotYetExecuted'
    <2>1. CASE CustomMark
      <3>1. /\ row' = Marked(custom.build, "building") /\ custom'.build = None
            /\ exec' = [exec EXCEPT ![custom.build] = "run"] /\ UNCHANGED agent
            /\ custom.build \in CustomBuilds
        BY <1>t, <2>1 DEF CustomMark, At
      <3>2. \A c \in Builds : Picked(c)' => Picked(c) /\ c # custom.build
        BY <1>t, <3>1 DEF Picked
      <3>3. /\ \A c \in Builds : c # custom.build => row'[c] = row[c] /\ exec'[c] = exec[c]
            /\ row'[custom.build] \notin {"none", "queued"}
        BY <1>t, <3>1 DEF Marked
      <3> QED
        BY <1>g, <3>2, <3>3 DEF NotYetExecuted
    <2>2. CASE AgentMark
      <3>1. /\ row' = Marked(agent.build, "building") /\ agent'.build = None
            /\ exec' = [exec EXCEPT ![agent.build] = "run"] /\ UNCHANGED custom
            /\ agent.build \in AgentBuilds
        BY <1>t, <2>2 DEF AgentMark, Off
      <3>2. \A c \in Builds : Picked(c)' => Picked(c) /\ c # agent.build
        BY <1>t, <3>1 DEF Picked
      <3>3. /\ \A c \in Builds : c # agent.build => row'[c] = row[c] /\ exec'[c] = exec[c]
            /\ row'[agent.build] \notin {"none", "queued"}
        BY <1>t, <3>1 DEF Marked
      <3> QED
        BY <1>g, <3>2, <3>3 DEF NotYetExecuted
    <2> QED
      BY <1>6, <2>1, <2>2
  <1>7. ASSUME Restart PROVE NotYetExecuted'
    BY <1>7, <1>t DEF Restart, NotYetExecuted, Picked, Off
  <1> QED
    BY <1>t, <1>1, <1>2, <1>3, <1>4, <1>5, <1>6, <1>7
    DEF Next, CustomLoop, AgentLoop, CustomRun

\* The first state satisfies the invariant.
LEMMA InitIInv ==
    ASSUME Init
    PROVE  IInv
  <1>p. /\ MaxGlobal \in Nat \ {0} /\ MaxPerUser \in Nat \ {0} /\ MaxRestarts \in Nat
        /\ None \notin Builds
    BY BuildAssumption
  <1>1. FreeSemaphore \in SemType(MaxGlobal, Loops)
        /\ FreeSemaphore \in SemType(MaxPerUser, {"custom"})
    BY <1>p DEF FreeSemaphore, SemType
  <1>2. TypeOK
    BY <1>p, <1>1 DEF Init, TypeOK, States, Off
  <1>3. GlobalAccounted
    <2>1. Holders = {}
      BY DEF Init, Holders, Executing, LoopsWith, CustomHolds, AgentHolds, Off, Loops
    <2> QED
      BY <1>p, <2>1, FreeAccounts DEF Init, GlobalAccounted
  <1>4. ASSUME NEW u \in Users PROVE UserAccounted(u)
    <2>1. UserHolders(u) = {}
      BY DEF Init, UserHolders, Executing, Off
    <2>2. user[u] = FreeSemaphore
      BY DEF Init
    <2> QED
      BY <1>p, <2>1, <2>2, FreeAccounts DEF UserAccounted
  <1>5. NotYetExecuted
    BY <1>p DEF Init, NotYetExecuted, Picked, Off
  <1> QED
    BY <1>2, <1>3, <1>4, <1>5 DEF IInv

\* The invariant is inductive.
LEMMA StepIInv ==
    ASSUME IInv, [Next]_vars
    PROVE  IInv'
  <1>1. CASE Next
    BY <1>1, TypeStep, GlobalStep, UserStep, NotYetExecutedStep DEF IInv
  <1>2. CASE UNCHANGED vars
    <2>1. TypeOK'
      BY <1>2 DEF IInv, TypeOK, vars
    <2>2. Holders' = Holders
      BY <1>2 DEF vars, Holders, Executing, LoopsWith, CustomHolds, AgentHolds
    <2>3. GlobalAccounted'
      BY <1>2, <2>2 DEF IInv, GlobalAccounted, vars
    <2>4. ASSUME NEW u \in Users PROVE UserAccounted(u)'
      <3>1. UserHolders(u)' = UserHolders(u)
        BY <1>2 DEF vars, UserHolders, Executing, OwnedBy
      <3> QED
        BY <1>2, <3>1 DEF IInv, UserAccounted, vars
    <2>5. NotYetExecuted'
      BY <1>2 DEF IInv, NotYetExecuted, Picked, vars
    <2> QED
      BY <2>1, <2>3, <2>4, <2>5 DEF IInv
  <1> QED
    BY <1>1, <1>2

\* The inductive invariant holds in every reachable state.
THEOREM Invariant == Spec => []IInv
  <1>1. Init => IInv
    BY InitIInv
  <1>2. IInv /\ [Next]_vars => IInv'
    BY StepIInv
  <1> QED
    BY <1>1, <1>2, PTL DEF Spec

\* The state of the queues keeps its types, so no semaphore ever counts more
\* slots than there are.
THEOREM TypeCorrect == Spec => []TypeOK
  <1>1. IInv => TypeOK
    BY DEF IInv
  <1> QED
    BY <1>1, Invariant, PTL

\* The semaphores of CustomImageService count exactly the builds executed and
\* the loops on their way to one: no slot is lost, none is given twice.
THEOREM SlotsAreAccounted == Spec => []SlotsAccounted
  <1>1. IInv => SlotsAccounted
    BY DEF IInv, GlobalAccounted, UserAccounted, Accounts, SlotsAccounted
  <1> QED
    BY <1>1, Invariant, PTL

\* At most MaxGlobal builds are executed at a time, and MaxPerUser of a user.
LEMMA WithinLimits ==
    ASSUME IInv
    PROVE  BuildLimits
  <1>1. /\ IsFiniteSet(Holders) /\ Cardinality(Holders) \in 0..MaxGlobal
        /\ MaxGlobal \in Nat /\ MaxPerUser \in Nat
    BY BuildAssumption DEF IInv, GlobalAccounted, Accounts, SemType
  <1>2. Executing \subseteq Holders
    BY DEF Holders
  <1>3. Cardinality(Executing) <= Cardinality(Holders) /\ Cardinality(Executing) \in Nat
    BY <1>1, <1>2, FS_Subset, FS_CardinalityType
  <1>4. ASSUME NEW u \in Users
        PROVE  Cardinality(Executing \cap OwnedBy(u)) <= MaxPerUser
    <2>1. /\ IsFiniteSet(UserHolders(u)) /\ Cardinality(UserHolders(u)) \in 0..MaxPerUser
      BY DEF IInv, UserAccounted, Accounts, SemType
    <2>2. Executing \cap OwnedBy(u) \subseteq UserHolders(u)
      BY DEF UserHolders
    <2>3. /\ Cardinality(Executing \cap OwnedBy(u)) <= Cardinality(UserHolders(u))
          /\ Cardinality(Executing \cap OwnedBy(u)) \in Nat
      BY <2>1, <2>2, FS_Subset, FS_CardinalityType
    <2> QED
      BY <1>1, <2>1, <2>3
  <1> QED
    BY <1>1, <1>3, <1>4 DEF BuildLimits

\* However builds are asked for, deleted and finished, the limits the operator
\* sets for docker builds hold.
THEOREM LimitsHold == Spec => []BuildLimits
  <1>1. IInv => BuildLimits
    BY WithinLimits
  <1> QED
    BY <1>1, Invariant, PTL

(***************************************************************************)
(* The services implement BuildPool.                                       *)
(***************************************************************************)
\* BuildPool counts as this module does.
LEMMA SameCardinality ==
    \A S : BuildPool!Cardinality(S) = Cardinality(S)
  BY DEF BuildPool!Cardinality, Cardinality

\* The one build whose entry in the pool changes, if any.
LEMMA PoolChange ==
    ASSUME NEW b \in Builds, \A c \in Builds : c # b => Pool'[c] = Pool[c],
           \/ Pool'[b] = Pool[b]
           \/ Pool[b] # "ended" /\ Pool'[b] = "ended"
           \/ Pool[b] = "new" /\ Pool'[b] = "waiting"
           \/ /\ Pool[b] = "waiting" /\ Pool'[b] = "executing"
              /\ Cardinality(Executing) < MaxGlobal
              /\ b \in CustomBuilds =>
                    Cardinality(Executing \cap OwnedBy(Owner[b])) < MaxPerUser
    PROVE  [BuildPool!Next]_Pool
  <1>1. BuildPool!Builds = Builds
    BY DEF Builds, BuildPool!Builds
  <1>2. BuildPool!Executing = Executing
    <2>1. \A c \in Builds : Pool[c] = "executing" <=> exec[c] # "no"
      BY DEF Pool
    <2> QED
      BY <1>1, <2>1 DEF BuildPool!Executing, Executing
  <1>3. \A u : BuildPool!OwnedBy(u) = OwnedBy(u)
    BY DEF BuildPool!OwnedBy, OwnedBy
  <1>4. Pool = [c \in Builds |-> Pool[c]] /\ Pool' = [c \in Builds |-> Pool'[c]]
    BY DEF Pool
  <1>5. Pool' = [Pool EXCEPT ![b] = Pool'[b]]
    <2> HIDE DEF Pool
    <2> QED
      BY <1>4
  <1>6. CASE Pool'[b] = Pool[b]
    <2>1. \A c \in Builds : Pool'[c] = Pool[c]
      BY <1>6
    <2> QED
      BY <1>4, <2>1
  <1>7. CASE Pool[b] # "ended" /\ Pool'[b] = "ended"
    <2>1. BuildPool!End(b)
      BY <1>5, <1>7 DEF BuildPool!End
    <2> QED
      BY <1>1, <2>1 DEF BuildPool!Next
  <1>8. CASE Pool[b] = "new" /\ Pool'[b] = "waiting"
    <2>1. BuildPool!Submit(b)
      BY <1>5, <1>8 DEF BuildPool!Submit
    <2> QED
      BY <1>1, <2>1 DEF BuildPool!Next
  <1>9. CASE /\ Pool[b] = "waiting" /\ Pool'[b] = "executing"
             /\ Cardinality(Executing) < MaxGlobal
             /\ b \in CustomBuilds =>
                   Cardinality(Executing \cap OwnedBy(Owner[b])) < MaxPerUser
    <2>1. BuildPool!Start(b)
      BY <1>2, <1>3, <1>5, <1>9, SameCardinality DEF BuildPool!Start, BuildPool!Room
    <2> QED
      BY <1>1, <2>1 DEF BuildPool!Next
  <1> QED
    BY <1>6, <1>7, <1>8, <1>9

\* A step that changes neither what is executed nor what is picked, and the row
\* of b only, to one that is neither new nor queued.
LEMMA RowEnds ==
    ASSUME NEW b \in Builds, UNCHANGED <<exec, restarts>>,
           \A c \in Builds : Picked(c)' <=> Picked(c),
           row \in [Builds -> States],
           \A c \in Builds : c # b => row'[c] = row[c],
           row'[b] \notin {"none", "queued"}, row[b] = "none" => ~Picked(b)
    PROVE  [BuildPool!Next]_Pool
  <1>1. \A c \in Builds : c # b => Pool'[c] = Pool[c]
    BY DEF Pool
  <1>2. Pool'[b] = Pool[b] \/ (Pool[b] # "ended" /\ Pool'[b] = "ended")
    BY DEF Pool
  <1> QED
    BY <1>1, <1>2, PoolChange

\* Every step of the services is a step of the pool, or none.
LEMMA PoolStep ==
    ASSUME IInv, [Next]_vars
    PROVE  [BuildPool!Next]_Pool
  <1>t. /\ exec \in [Builds -> {"no", "run", "after"}]
        /\ row \in [Builds -> States]
        /\ custom = [pc |-> custom.pc, build |-> custom.build]
        /\ agent = [pc |-> agent.pc, build |-> agent.build]
        /\ custom.build \in CustomBuilds \cup {None}
        /\ agent.build \in AgentBuilds \cup {None}
        /\ custom.pc \in {"image", "user", "mark"} <=> custom.build # None
        /\ agent.pc = "mark" <=> agent.build # None
        /\ Builds = CustomBuilds \cup AgentBuilds /\ CustomBuilds \cap AgentBuilds = {}
        /\ None \notin Builds
    <2>1. /\ None \notin Builds /\ Builds = CustomBuilds \cup AgentBuilds
          /\ CustomBuilds \cap AgentBuilds = {}
      BY BuildAssumption DEF Builds
    <2> QED
      BY <2>1 DEF IInv, TypeOK
  <1>g. \A b \in Builds :
           /\ row[b] \in {"none", "queued"} \/ Picked(b) => exec[b] = "no"
           /\ Picked(b) => row[b] # "none"
    BY DEF IInv, NotYetExecuted
  <1>n. MaxGlobal \in Nat /\ MaxPerUser \in Nat /\ Owner \in [CustomBuilds -> Users]
    BY BuildAssumption
  <1>q. ASSUME UNCHANGED <<row, exec>>,
               \A c \in Builds : row[c] # "queued" => (Picked(c)' <=> Picked(c))
        PROVE  [BuildPool!Next]_Pool
    BY <1>q DEF Pool
  <1>1. ASSUME NEW b \in Builds, Ask(b) PROVE [BuildPool!Next]_Pool
    <2>1. /\ row[b] = "none" /\ row' = [row EXCEPT ![b] = "queued"] /\ UNCHANGED exec
          /\ custom'.build = custom.build /\ agent'.build = agent.build
      BY <1>1, <1>t DEF Ask, CustomCalled, AgentCalled, At
    <2>2. \A c \in Builds : c # b => Pool'[c] = Pool[c]
      BY <1>t, <2>1 DEF Pool, Picked
    <2>3. Pool[b] = "new" /\ Pool'[b] = "waiting"
      BY <1>t, <1>g, <2>1 DEF Pool
    <2> QED
      BY <2>2, <2>3, PoolChange
  <1>2. ASSUME NEW b \in Builds,
               AskReady(b) \/ DeleteImage(b) \/ DeleteImageRow(b) \/ DeleteBuild(b)
        PROVE  [BuildPool!Next]_Pool
    <2>1. /\ UNCHANGED <<exec, custom, agent, restarts>>
          /\ \A c \in Builds : c # b => row'[c] = row[c]
          /\ row'[b] \notin {"none", "queued"}
      BY <1>2, <1>t DEF AskReady, DeleteImage, DeleteImageRow, DeleteBuild
    <2>2. \A c \in Builds : Picked(c)' <=> Picked(c)
      BY <2>1 DEF Picked
    <2> QED
      BY <1>t, <1>g, <2>1, <2>2, RowEnds
  <1>3. ASSUME NEW b \in Builds, CustomBuilt(b) PROVE [BuildPool!Next]_Pool
    <2>1. PICK result \in {"ready", "failed"} : row' = Marked(b, result)
      BY <1>3 DEF CustomBuilt
    <2>2. /\ exec[b] = "run" /\ exec' = [exec EXCEPT ![b] = "after"]
          /\ UNCHANGED <<custom, agent>>
      BY <1>3 DEF CustomBuilt
    <2>3. \A c \in Builds : c # b => row'[c] = row[c] /\ exec'[c] = exec[c]
      BY <1>t, <2>1, <2>2 DEF Marked
    <2>4. \A c \in Builds : c # b => Pool'[c] = Pool[c]
      BY <2>2, <2>3 DEF Pool, Picked
    <2>5. Pool'[b] = "executing" /\ Pool[b] = "executing"
      BY <1>t, <2>2 DEF Pool
    <2> QED
      BY <2>4, <2>5, PoolChange
  <1>4. ASSUME NEW b \in Builds, CustomAfter(b) PROVE [BuildPool!Next]_Pool
    <2>1. /\ exec[b] = "after" /\ exec' = [exec EXCEPT ![b] = "no"]
          /\ custom'.build = custom.build /\ UNCHANGED <<row, agent>>
      BY <1>4, <1>t DEF CustomAfter, CustomCalled, At
    <2>2. \A c \in Builds : c # b => Pool'[c] = Pool[c]
      BY <1>t, <2>1 DEF Pool, Picked
    <2>3. Pool[b] = "executing" /\ Pool'[b] = "ended"
      BY <1>t, <1>g, <2>1 DEF Pool, Picked
    <2> QED
      BY <2>2, <2>3, PoolChange
  <1>5. ASSUME NEW b \in Builds, AgentBuilt(b) PROVE [BuildPool!Next]_Pool
    <2>1. PICK result \in {"ready", "failed"} : row' = Marked(b, result)
      BY <1>5 DEF AgentBuilt
    <2>2. /\ exec[b] = "run" /\ exec' = [exec EXCEPT ![b] = "no"]
          /\ agent'.build = agent.build /\ UNCHANGED custom
      BY <1>5, <1>t DEF AgentBuilt, AgentCalled, At
    <2>3. \A c \in Builds : c # b => row'[c] = row[c] /\ exec'[c] = exec[c]
      BY <1>t, <2>1, <2>2 DEF Marked
    <2>4. row'[b] \notin {"none", "queued"}
      BY <1>t, <2>1 DEF Marked
    <2>5. \A c \in Builds : c # b => Pool'[c] = Pool[c]
      BY <2>2, <2>3 DEF Pool, Picked
    <2>6. Pool[b] = "executing" /\ Pool'[b] = "ended"
      BY <1>t, <1>g, <2>2, <2>4 DEF Pool, Picked
    <2> QED
      BY <2>5, <2>6, PoolChange
  <1>6. ASSUME CustomSelect \/ AgentSelect PROVE [BuildPool!Next]_Pool
    <2>1. UNCHANGED <<row, exec>>
      BY <1>6 DEF CustomSelect, AgentSelect
    <2>2. \A c \in Builds : row[c] # "queued" => (Picked(c)' <=> Picked(c))
      BY <1>6, <1>t DEF CustomSelect, AgentSelect, Picked, At, Oldest, Queued
    <2> QED
      BY <2>1, <2>2, <1>q
  <1>7. ASSUME CustomStop \/ CustomUser \/ AgentStop PROVE [BuildPool!Next]_Pool
    <2>1. UNCHANGED <<row, exec>>
      BY <1>7 DEF CustomStop, CustomUser, AgentStop
    <2>2. custom'.build = custom.build /\ agent'.build = agent.build
      BY <1>7, <1>t DEF CustomStop, CustomUser, AgentStop, Off
    <2> QED
      BY <2>1, <2>2, <1>q DEF Picked
  <1>8. ASSUME CustomImage PROVE [BuildPool!Next]_Pool
    <2>1. custom.build \in CustomBuilds /\ UNCHANGED <<row, exec, agent>>
      BY <1>8, <1>t DEF CustomImage
    <2>2. CASE ImageExists(custom.build)
      <3>1. custom'.build = custom.build
        BY <1>8, <1>t, <2>2 DEF CustomImage
      <3> QED
        BY <2>1, <3>1, <1>q DEF Picked
    <2>3. CASE ~ImageExists(custom.build)
      <3> DEFINE b == custom.build
      <3>1. custom'.build = None /\ row[b] \in {"none", "gone"}
        BY <1>8, <2>3 DEF CustomImage, ImageExists, At
      <3>2. \A c \in Builds : c # b => Pool'[c] = Pool[c]
        BY <1>t, <2>1, <3>1 DEF Pool, Picked
      <3>3. Pool[b] = "waiting" /\ Pool'[b] = "ended"
        BY <1>t, <1>g, <2>1, <3>1 DEF Pool, Picked
      <3> QED
        BY <1>t, <2>1, <3>2, <3>3, PoolChange
    <2> QED
      BY <2>2, <2>3
  <1>9. ASSUME CustomMark PROVE [BuildPool!Next]_Pool
    <2> DEFINE b == custom.build
               u == Owner[b]
    <2>1. /\ custom.pc = "mark" /\ custom'.build = None /\ UNCHANGED agent
          /\ row' = Marked(b, "building") /\ exec' = [exec EXCEPT ![b] = "run"]
          /\ b \in CustomBuilds /\ ~Waits(user[u], "custom")
      BY <1>9, <1>t DEF CustomMark, At
    <2>2. /\ b \in Builds /\ exec[b] = "no" /\ row[b] # "none" /\ Picked(b)
          /\ ~Waits(global, "custom")
      BY <1>t, <1>g, <2>1 DEF Picked, IInv, GlobalAccounted
    <2>3. \A c \in Builds : c # b => row'[c] = row[c] /\ exec'[c] = exec[c]
      BY <1>t, <2>1 DEF Marked
    <2>4. \A c \in Builds : c # b => Pool'[c] = Pool[c]
      BY <1>t, <2>1, <2>3 DEF Pool, Picked
    <2>5. Pool[b] = "waiting" /\ Pool'[b] = "executing"
      BY <1>t, <2>1, <2>2 DEF Pool
    <2>6. "custom" \in Holders /\ "custom" \notin Executing
      BY <2>1, <2>2, HoldersAre DEF CustomHolds, Executing
    <2>7. Cardinality(Executing) < MaxGlobal
      <3>1. IsFiniteSet(Holders) /\ Cardinality(Holders) \in 0..MaxGlobal
        BY <1>n DEF IInv, GlobalAccounted, Accounts, SemType
      <3>2. Executing \subseteq Holders
        BY DEF Holders
      <3> QED
        BY <1>n, <2>6, <3>1, <3>2, FS_Subset, FS_CardinalityType
    <2>8. Cardinality(Executing \cap OwnedBy(u)) < MaxPerUser
      <3>1. u \in Users
        BY <1>n, <2>1
      <3>2. IsFiniteSet(UserHolders(u)) /\ Cardinality(UserHolders(u)) \in 0..MaxPerUser
        BY <1>n, <3>1 DEF IInv, UserAccounted, Accounts, SemType
      <3>3. /\ Executing \cap OwnedBy(u) \subseteq UserHolders(u)
            /\ "custom" \in UserHolders(u) /\ "custom" \notin Executing
        BY <2>1, <2>6 DEF UserHolders
      <3> QED
        BY <1>n, <3>2, <3>3, FS_Subset, FS_CardinalityType
    <2> QED
      BY <2>2, <2>4, <2>5, <2>7, <2>8, PoolChange
  <1>10. ASSUME AgentMark PROVE [BuildPool!Next]_Pool
    <2> DEFINE b == agent.build
    <2>1. /\ agent.pc = "mark" /\ agent'.build = None /\ UNCHANGED custom
          /\ row' = Marked(b, "building") /\ exec' = [exec EXCEPT ![b] = "run"]
          /\ b \in AgentBuilds
      BY <1>10, <1>t DEF AgentMark, Off
    <2>2. /\ b \in Builds /\ exec[b] = "no" /\ row[b] # "none" /\ Picked(b)
          /\ ~Waits(global, "agent")
      BY <1>t, <1>g, <2>1 DEF Picked, IInv, GlobalAccounted
    <2>3. \A c \in Builds : c # b => row'[c] = row[c] /\ exec'[c] = exec[c]
      BY <1>t, <2>1 DEF Marked
    <2>4. \A c \in Builds : c # b => Pool'[c] = Pool[c]
      BY <1>t, <2>1, <2>3 DEF Pool, Picked
    <2>5. Pool[b] = "waiting" /\ Pool'[b] = "executing"
      BY <1>t, <2>1, <2>2 DEF Pool
    <2>6. "agent" \in Holders /\ "agent" \notin Executing
      BY <2>1, <2>2, HoldersAre DEF AgentHolds, Executing
    <2>7. Cardinality(Executing) < MaxGlobal
      <3>1. IsFiniteSet(Holders) /\ Cardinality(Holders) \in 0..MaxGlobal
        BY <1>n DEF IInv, GlobalAccounted, Accounts, SemType
      <3>2. Executing \subseteq Holders
        BY DEF Holders
      <3> QED
        BY <1>n, <2>6, <3>1, <3>2, FS_Subset, FS_CardinalityType
    <2> QED
      BY <1>t, <2>1, <2>2, <2>4, <2>5, <2>7, PoolChange
  <1>11. ASSUME Restart PROVE [BuildPool!Next]_Pool
    <2>1. /\ row' = Reconciled /\ custom' = Off /\ agent' = Off
          /\ exec' = [b \in Builds |-> "no"]
      BY <1>11 DEF Restart
    <2>2. \A b \in Builds : ~Picked(b)'
      BY <1>t, <2>1 DEF Picked, Off
    <2> DEFINE lost == {b \in Builds : Pool[b] # "new" /\ Pool'[b] = "ended"}
    <2>3. ASSUME NEW b \in Builds
          PROVE  /\ Pool'[b] = IF b \in lost THEN "ended" ELSE Pool[b]
                 /\ Pool[b] = "executing" => b \in lost
      <3>1. Pool'[b] = IF row'[b] = "none" THEN "new"
                       ELSE IF row'[b] = "queued" THEN "waiting" ELSE "ended"
        BY <2>1, <2>2 DEF Pool
      <3>2. /\ row[b] = "none" <=> row'[b] = "none"
            /\ row'[b] = "queued" => row[b] = "queued"
        BY <1>t, <2>1 DEF Reconciled
      <3> QED
        BY <1>t, <1>g, <3>1, <3>2 DEF Pool
    <2>4. BuildPool!Builds = Builds
      BY DEF Builds, BuildPool!Builds
    <2>5. Pool' = [b \in Builds |-> IF b \in lost THEN "ended" ELSE Pool[b]]
      <3>1. Pool' = [b \in Builds |-> Pool'[b]]
        BY DEF Pool
      <3> HIDE DEF lost
      <3> QED
        BY <2>3, <3>1
    <2>6. BuildPool!Executing \subseteq lost
      BY <2>3, <2>4 DEF BuildPool!Executing
    <2>7. lost \in SUBSET Builds /\ \A b \in lost : Pool[b] # "new"
      OBVIOUS
    <2> HIDE DEF lost
    <2>8. BuildPool!Restart
      BY <2>4, <2>5, <2>6, <2>7 DEF BuildPool!Restart
    <2> QED
      BY <2>8 DEF BuildPool!Next
  <1>12. CASE UNCHANGED vars
    BY <1>12, <1>q DEF vars, Picked
  <1> QED
    BY <1>t, <1>1, <1>2, <1>3, <1>4, <1>5, <1>6, <1>7, <1>8, <1>9, <1>10, <1>11, <1>12
    DEF Next, CustomLoop, AgentLoop, CustomRun

\* The two image services implement BuildPool: whatever is deleted, finishes or
\* restarts, no build is executed twice and none starts without a free slot.
THEOREM ImplementsPool == Spec => BuiltOnce
  <1>1. Init => BuildPool!Init
    BY DEF Init, BuildPool!Init, BuildPool!Builds, Builds, Pool
  <1>2. IInv /\ [Next]_vars => [BuildPool!Next]_Pool
    BY PoolStep
  <1> QED
    BY <1>1, <1>2, Invariant, PTL DEF Spec, BuiltOnce, BuildPool!Spec
=============================================================================
