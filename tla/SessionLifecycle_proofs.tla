----------------------- MODULE SessionLifecycle_proofs -----------------------
(* Theorems about SessionLifecycle, for every value of its constants. *)
EXTENDS SessionLifecycle, TLAPS

(***************************************************************************)
(* Type correctness.                                                       *)
(***************************************************************************)
\* The named null records have their types, and so has a started session.
LEMMA NullTypes ==
    /\ NoEntry \in EntryType
    /\ IdleReq \in ReqType
    /\ \A e \in Refs : Started(e) \in EntryType
BY SessionAssumption
   DEF NoEntry, IdleReq, Started, EntryType, ReqType, Refs, NoRef, Execs, Statuses

\* The fields of well-typed records.
LEMMA FieldTypes ==
    ASSUME TypeOK
    PROVE  /\ \A k \in Handles : entry[k] \in EntryType /\ entry[k].exec \in Refs
           /\ \A r \in Resumers : /\ rq[r] \in ReqType /\ rq[r].ref \in Refs
                                 /\ rq[r].status \in Statuses
                                 /\ rq[r].h \in Handles \cup {NoHandle}
           /\ \A s \in Stoppers : /\ sq[s] \in OpType /\ sq[s].ref \in Refs
                                 /\ sq[s].h \in Handles \cup {NoHandle}
           /\ row.status \in Statuses /\ row.ref \in Refs
BY DEF TypeOK, EntryType, ReqType, OpType

\* Assignments to fields keep an entry, a request and an operation well typed.
LEMMA EntryUpdate ==
    ASSUME NEW x \in EntryType, NEW b \in BOOLEAN, NEW c \in BOOLEAN,
           NEW t \in Statuses, NEW e \in Refs
    PROVE  /\ [x EXCEPT !.open = b] \in EntryType
           /\ [x EXCEPT !.open = b, !.unheard = c] \in EntryType
           /\ [x EXCEPT !.open = FALSE, !.hib = TRUE] \in EntryType
           /\ [x EXCEPT !.open = FALSE, !.attached = FALSE] \in EntryType
           /\ [x EXCEPT !.hib = FALSE, !.status = t,
                        !.unheard = @ \/ ~x.open] \in EntryType
           /\ [x EXCEPT !.status = t, !.attached = FALSE,
                        !.listening = FALSE] \in EntryType
           /\ [x EXCEPT !.open = FALSE, !.status = t,
                        !.listening = FALSE] \in EntryType
           /\ [x EXCEPT !.status = t, !.hib = TRUE,
                        !.listening = FALSE] \in EntryType
           /\ [x EXCEPT !.exec = e, !.open = TRUE] \in EntryType
BY DEF EntryType

LEMMA ReqUpdate ==
    ASSUME NEW x \in ReqType, NEW e \in Refs, NEW k \in Handles \cup {NoHandle},
           NEW p \in {"runtime", "attach", "probe", "pkill", "spawn", "open",
                      "restore", "keep", "persist"}
    PROVE  /\ [x EXCEPT !.pc = p] \in ReqType
           /\ [x EXCEPT !.pc = p, !.ref = e] \in ReqType
           /\ [x EXCEPT !.pc = p, !.h = k] \in ReqType
           /\ [x EXCEPT !.pc = p, !.ref = e, !.h = k] \in ReqType
BY DEF ReqType

LEMMA OpUpdate ==
    ASSUME NEW x \in OpType, NEW e \in Refs, NEW k \in Handles \cup {NoHandle},
           NEW p \in {"decide", "listed", "waitExit", "hibernate", "persist",
                      "complete", "detached", "detHibernate", "detPersist"}
    PROVE  /\ [x EXCEPT !.pc = p] \in OpType
           /\ IdleOp \in OpType
           /\ [IdleOp EXCEPT !.pc = p] \in OpType
           /\ [IdleOp EXCEPT !.pc = p, !.ref = e] \in OpType
           /\ [IdleOp EXCEPT !.pc = p, !.h = k] \in OpType
BY DEF OpType, IdleOp, Refs, NoRef

\* createSession keeps the entries and the map well typed.
LEMMA CreateSessionType ==
    ASSUME TypeOK, NEW h \in Handles \cup {NoHandle}, NEW e,
           h \in Handles => e \in EntryType, CreateSession(h, e)
    PROVE  /\ entry' \in [Handles -> EntryType]
           /\ cur' \in Handles \cup {NoHandle}
<1>1. "exited" \in Statuses
  BY DEF Statuses
<1>2. \A k \in Handles : /\ entry[k] \in EntryType
                         /\ [entry[k] EXCEPT !.status = "exited", !.hib = TRUE,
                                    !.listening = FALSE] \in EntryType
  BY <1>1, EntryUpdate, FieldTypes
<1>3. NoEntry \in EntryType
  BY NullTypes
<1> QED
  BY <1>2, <1>3 DEF CreateSession

\* A settled promise keeps the requests and the lock well typed.
LEMMA SettleType ==
    ASSUME TypeOK, NEW r \in Resumers, Settle(r)
    PROVE  /\ rq' \in [Resumers -> ReqType]
           /\ lock' \in Resumers \cup {NoOne}
BY NullTypes DEF TypeOK, Settle, ReqType

\* stopSession's first turn keeps the entries and the stop requests well typed.
LEMMA StopSessionType ==
    ASSUME TypeOK, NEW s \in Stoppers, NEW ref \in Refs, StopSession(s, ref)
    PROVE  (entry' \in [Handles -> EntryType]) /\ (sq' \in [Stoppers -> OpType])
<1>1. /\ IdleOp \in OpType
      /\ [IdleOp EXCEPT !.pc = "waitExit", !.ref = ref] \in OpType
      /\ [IdleOp EXCEPT !.pc = "detached", !.ref = ref] \in OpType
  BY DEF OpType, IdleOp, Refs, NoRef
<1>2. sq' \in [Stoppers -> OpType]
  BY <1>1 DEF StopSession, TypeOK
<1>3. CASE entry' = [entry EXCEPT ![cur] = [@ EXCEPT !.open = FALSE, !.hib = TRUE]]
  <2>1. \A k \in Handles :
          [entry[k] EXCEPT !.open = FALSE, !.hib = TRUE] \in EntryType
    BY FieldTypes DEF EntryType
  <2> QED
    BY <1>2, <1>3, <2>1 DEF TypeOK
<1>4. CASE UNCHANGED entry
  BY <1>2, <1>4 DEF TypeOK
<1> QED
  BY <1>3, <1>4 DEF StopSession

LEMMA InitType == Init => TypeOK
<1> SUFFICES ASSUME Init PROVE TypeOK
  OBVIOUS
<1>1. /\ 1 \in Execs /\ MaxExecs \in Nat /\ MaxRestarts \in Nat /\ 1 \in 0..MaxExecs
      /\ 0 \in 0..MaxRestarts /\ 0 \in 0..CrashThreshold
  BY SessionAssumption DEF Execs
<1>2. entry \in [Handles -> EntryType]
  BY <1>1, NullTypes DEF Init, Refs
<1>3. rq \in [Resumers -> ReqType]
  BY NullTypes DEF Init
<1> QED
  BY <1>1, <1>2, <1>3
  DEF Init, TypeOK, OpType, IdleOp, Refs, NoRef, Statuses

\* A step keeps the state well typed: one step of the proof per action.
LEMMA NextType == TypeOK /\ [Next]_vars => TypeOK'
<1> SUFFICES ASSUME TypeOK, [Next]_vars PROVE TypeOK'
  OBVIOUS
<1> USE SessionAssumption DEF TypeOK
<1>1. ASSUME NEW r \in Resumers, ResumeRequest(r) PROVE TypeOK'
  BY <1>1, NullTypes DEF ResumeRequest, IdleReq, ReqType, Statuses
<1>2. ASSUME NEW r \in Resumers, ResumeEnter(r) PROVE TypeOK'
  <2>1. /\ IdleReq \in ReqType
        /\ \A x \in Resumers \cup {NoOne} :
              [IdleReq EXCEPT !.pc = "joined", !.on = x] \in ReqType
        /\ \A x \in ReqType : [x EXCEPT !.pc = "runtime"] \in ReqType
    BY NullTypes DEF ReqType
  <2>2. rq' \in [Resumers -> ReqType]
    <3>1. CASE rq' = [rq EXCEPT ![r] = IdleReq]
      BY <2>1, <3>1
    <3>2. CASE rq' = [rq EXCEPT ![r] = [IdleReq EXCEPT !.pc = "joined", !.on = lock]]
      BY <2>1, <3>2
    <3>3. CASE rq' = [rq EXCEPT ![r].pc = "runtime"]
      BY <2>1, <3>3
    <3> QED
      BY <1>2, <3>1, <3>2, <3>3 DEF ResumeEnter
  <2> QED
    BY <1>2, <2>2 DEF ResumeEnter
<1>3. ASSUME NEW r \in Resumers, ResumeRuntime(r) PROVE TypeOK'
  BY <1>3, ReqUpdate, NullTypes DEF ResumeRuntime
<1>4. ASSUME NEW r \in Resumers, ResumeRejected(r) PROVE TypeOK'
  BY <1>4, SettleType DEF ResumeRejected
<1>5. ASSUME NEW r \in Resumers, ResumeAttach(r) PROVE TypeOK'
  <2>1. rq[r].ref \in Refs
    BY FieldTypes
  <2>2. PICK h \in Handles :
          /\ entry' = [entry EXCEPT ![h] = [NoEntry EXCEPT !.exec = rq[r].ref,
                                                           !.open = TRUE]]
          /\ rq' = [rq EXCEPT ![r] = [@ EXCEPT !.pc = "probe", !.h = h]]
    BY <1>5 DEF ResumeAttach
  <2>3. entry' \in [Handles -> EntryType]
    BY <2>1, <2>2, EntryUpdate, NullTypes
  <2>4. rq' \in [Resumers -> ReqType]
    BY <2>2, ReqUpdate, FieldTypes
  <2> QED
    BY <1>5, <2>3, <2>4 DEF ResumeAttach
<1>6. ASSUME NEW r \in Resumers, ResumeNoAttach(r) PROVE TypeOK'
  BY <1>6, ReqUpdate, NullTypes DEF ResumeNoAttach, Refs
<1>7. ASSUME NEW r \in Resumers, ResumeAdopt(r) PROVE TypeOK'
  <2>1. rq[r].h \in Handles => Started(entry[rq[r].h].exec) \in EntryType
    BY FieldTypes, NullTypes
  <2>2. rq' \in [Resumers -> ReqType]
    BY <1>7, ReqUpdate, FieldTypes DEF ResumeAdopt
  <2>3. (entry' \in [Handles -> EntryType]) /\ (cur' \in Handles \cup {NoHandle})
    BY <1>7, <2>1, FieldTypes, CreateSessionType DEF ResumeAdopt
  <2> QED
    BY <1>7, <2>2, <2>3 DEF ResumeAdopt
<1>8. ASSUME NEW r \in Resumers, ResumeProbeDead(r) PROVE TypeOK'
  BY <1>8, ReqUpdate, NullTypes DEF ResumeProbeDead, Refs
<1>9. ASSUME NEW r \in Resumers, ResumePkill(r) PROVE TypeOK'
  BY <1>9, ReqUpdate, NullTypes DEF ResumePkill, KillAgents
<1>10. ASSUME NEW r \in Resumers, ResumeSpawn(r) PROVE TypeOK'
  <2>1. spawned' \in Execs /\ spawned' \in 0..MaxExecs
    BY <1>10 DEF ResumeSpawn, Execs
  <2>2. live' \in SUBSET Execs
    BY <1>10, <2>1 DEF ResumeSpawn
  <2>3. rq' \in [Resumers -> ReqType]
    BY <1>10, <2>1, ReqUpdate, FieldTypes DEF ResumeSpawn, Refs
  <2> QED
    BY <1>10, <2>1, <2>2, <2>3 DEF ResumeSpawn
<1>11. ASSUME NEW r \in Resumers, ResumeOpen(r) PROVE TypeOK'
  <2>1. (entry' \in [Handles -> EntryType]) /\ (cur' \in Handles \cup {NoHandle})
    BY <1>11, FieldTypes, NullTypes, CreateSessionType DEF ResumeOpen
  <2>2. rq' \in [Resumers -> ReqType]
    BY <1>11, ReqUpdate, FieldTypes DEF ResumeOpen
  <2> QED
    BY <1>11, <2>1, <2>2 DEF ResumeOpen
<1>12. ASSUME NEW r \in Resumers, ResumeSpawnFails(r) PROVE TypeOK'
  BY <1>12, ReqUpdate, NullTypes DEF ResumeSpawnFails
<1>13. ASSUME NEW r \in Resumers, ResumeRestore(r) PROVE TypeOK'
  BY <1>13, SettleType DEF ResumeRestore, ReqType
<1>14. ASSUME NEW r \in Resumers, ResumeKeep(r) PROVE TypeOK'
  BY <1>14, SettleType DEF ResumeKeep, Statuses
<1>15. ASSUME NEW r \in Resumers, ResumePersist(r) PROVE TypeOK'
  BY <1>15, SettleType DEF ResumePersist, ReqType, Statuses
<1>16. ASSUME NEW s \in Stoppers, StopRequest(s) PROVE TypeOK'
  BY <1>16, OpUpdate DEF StopRequest, Statuses
<1>17. ASSUME NEW s \in Stoppers, SweepList(s) PROVE TypeOK'
  BY <1>17, OpUpdate DEF SweepList
<1>18. ASSUME NEW s \in Stoppers, StopDecide(s) PROVE TypeOK'
  BY <1>18, FieldTypes, StopSessionType DEF StopDecide
<1>19. ASSUME NEW s \in Stoppers, SweepStop(s) PROVE TypeOK'
  <2>1. PICK h \in Handles : StopSession(s, entry[h].exec)
    BY <1>19 DEF SweepStop
  <2> QED
    BY <1>19, <2>1, FieldTypes, StopSessionType DEF SweepStop
<1>20. ASSUME NEW s \in Stoppers, SweepSkip(s) PROVE TypeOK'
  BY <1>20, OpUpdate DEF SweepSkip
<1>21. ASSUME NEW s \in Stoppers, StopWaitExit(s) PROVE TypeOK'
  BY <1>21, OpUpdate DEF StopWaitExit, KillAgents
<1>22. ASSUME NEW s \in Stoppers, StopHibernate(s) PROVE TypeOK'
  BY <1>22, OpUpdate DEF StopHibernate, StopVM
<1>23. ASSUME NEW s \in Stoppers, StopHibernateFails(s) PROVE TypeOK'
  BY <1>23, OpUpdate, EntryUpdate DEF StopHibernateFails, Statuses
<1>24. ASSUME NEW s \in Stoppers, StopPersist(s) PROVE TypeOK'
  <2>1. row' \in [status : Statuses, ref : Refs]
    BY <1>24, FieldTypes DEF StopPersist, Mapped, Statuses
  <2>2. sq' \in [Stoppers -> OpType]
    BY <1>24, OpUpdate DEF StopPersist
  <2> QED
    BY <1>24, <2>1, <2>2 DEF StopPersist
<1>25. ASSUME NEW s \in Stoppers, StopComplete(s) PROVE TypeOK'
  BY <1>25, OpUpdate, EntryUpdate DEF StopComplete, Statuses
<1>26. ASSUME NEW s \in Stoppers, StopDetached(s) PROVE TypeOK'
  BY <1>26, OpUpdate DEF StopDetached, KillAgents
<1>27. ASSUME NEW s \in Stoppers, StopDetHibernate(s) PROVE TypeOK'
  BY <1>27, OpUpdate DEF StopDetHibernate, StopVM
<1>28. ASSUME NEW s \in Stoppers, StopDetPersist(s) PROVE TypeOK'
  <2>1. row' \in [status : Statuses, ref : Refs]
    BY <1>28, FieldTypes DEF StopDetPersist, Statuses
  <2>2. sq' \in [Stoppers -> OpType]
    BY <1>28, OpUpdate DEF StopDetPersist
  <2> QED
    BY <1>28, <2>1, <2>2 DEF StopDetPersist
<1>29. ASSUME NEW d \in Deleters, DeleteRequest(d) PROVE TypeOK'
  BY <1>29, EntryUpdate, NullTypes DEF DeleteRequest, Statuses
<1>30. ASSUME NEW d \in Deleters, DeleteKill(d) PROVE TypeOK'
  BY <1>30, EntryUpdate, NullTypes DEF DeleteKill, Mapped
<1>31. ASSUME NEW d \in Deleters, DeleteWait(d) PROVE TypeOK'
  BY <1>31, EntryUpdate, NullTypes DEF DeleteWait, KillAgents
<1>32. ASSUME NEW d \in Deleters, DeleteDrop(d) PROVE TypeOK'
  <2>1. entry' \in [Handles -> EntryType]
    BY <1>32, EntryUpdate, NullTypes, FieldTypes DEF DeleteDrop
  <2> QED
    BY <1>32, <2>1 DEF DeleteDrop
<1>33. ASSUME NEW d \in Deleters, DeleteDestroy(d) PROVE TypeOK'
  BY <1>33, EntryUpdate, NullTypes DEF DeleteDestroy, StopVM
<1>34. ASSUME NEW e \in Execs, AgentEnds(e) PROVE TypeOK'
  BY <1>34, EntryUpdate, NullTypes DEF AgentEnds, Execs
<1>35. ASSUME NEW h \in Handles, Exit(h) PROVE TypeOK'
  <2>1. "exited" \in Statuses
    BY DEF Statuses
  <2>2. entry' \in [Handles -> EntryType]
    BY <1>35, <2>1, EntryUpdate, NullTypes, FieldTypes DEF Exit
  <2>3. /\ exitLogged' \in BOOLEAN
        /\ crashes' \in 0..CrashThreshold
    <3>1. exitLogged' \in BOOLEAN
      BY <1>35 DEF Exit
    <3>2. \/ crashes' = crashes
          \/ crashes' = 0
          \/ crashes' = IF crashes < CrashThreshold THEN crashes + 1
                        ELSE CrashThreshold
      BY <1>35 DEF Exit, Lifecycle
    <3> QED
      BY <3>1, <3>2
  <2>4. exitWrite' \in [Handles -> {"none", "idle", "exited"}]
    BY <1>35 DEF Exit, Lifecycle
  <2> QED
    BY <1>35, <2>2, <2>3, <2>4 DEF Exit
<1>36. ASSUME NEW h \in Handles, PersistExit(h) PROVE TypeOK'
  BY <1>36, EntryUpdate, NullTypes DEF PersistExit, Statuses
<1>37. CASE LockExpire
  BY <1>37 DEF LockExpire
<1>38. CASE Restart
  <2>1. entry' \in [Handles -> EntryType]
    BY <1>38, NullTypes DEF Restart
  <2>2. (rq' \in [Resumers -> ReqType]) /\ (sq' \in [Stoppers -> OpType])
    BY <1>38, NullTypes, OpUpdate DEF Restart, Refs, NoRef
  <2>3. boot' \in [pc : {"up", "recover", "attached", "persist"},
                   restarts : 0..MaxRestarts, h : Handles \cup {NoHandle}]
    BY <1>38 DEF Restart
  <2>4. exitWrite' \in [Handles -> {"none", "idle", "exited"}]
    BY <1>38 DEF Restart
  <2>5. dq' \in [Deleters -> {"idle", "kill", "killEnded", "wait", "drop", "destroy"}]
    BY <1>38 DEF Restart
  <2>6. exitLogged' \in BOOLEAN
    BY <1>38 DEF Restart
  <2>7. (crashes' \in 0..CrashThreshold) /\ (cur' = NoHandle) /\ (lock' = NoOne)
    BY <1>38 DEF Restart
  <2> QED
    BY <1>38, <2>1, <2>2, <2>3, <2>4, <2>5, <2>6, <2>7 DEF Restart
<1>39. CASE BootAttach \/ BootUnheard \/ BootCreate
  <2>1. CASE BootAttach
    <3>1. PICK h \in Handles :
            /\ entry' = [entry EXCEPT ![h] = [NoEntry EXCEPT !.exec = row.ref,
                                                             !.open = TRUE]]
            /\ boot' = [boot EXCEPT !.pc = "attached", !.h = h]
      BY <2>1 DEF BootAttach
    <3>2. entry' \in [Handles -> EntryType]
      BY <3>1, EntryUpdate, NullTypes, FieldTypes
    <3> QED
      BY <2>1, <3>1, <3>2 DEF BootAttach
  <2>2. CASE BootUnheard
    <3>1. \A k \in Handles :
            [entry[k] EXCEPT !.open = FALSE, !.unheard = TRUE] \in EntryType
      BY EntryUpdate
    <3> QED
      BY <2>2, <3>1 DEF BootUnheard
  <2>3. CASE BootCreate
    <3> DEFINE s == [Started(entry[boot.h].exec) EXCEPT !.open = entry[boot.h].open,
                                               !.unheard = entry[boot.h].unheard]
    <3>1. boot.h \in Handles => s \in EntryType
      <4> SUFFICES ASSUME boot.h \in Handles PROVE s \in EntryType
        OBVIOUS
      <4>1. /\ entry[boot.h].open \in BOOLEAN /\ entry[boot.h].unheard \in BOOLEAN
            /\ Started(entry[boot.h].exec) \in EntryType
        BY FieldTypes, NullTypes DEF EntryType
      <4> QED
        BY <4>1 DEF EntryType
    <3>2. CreateSession(boot.h, s)
      BY <2>3 DEF BootCreate
    <3> HIDE DEF s
    <3> QED
      BY <2>3, <3>1, <3>2, CreateSessionType DEF BootCreate
  <2> QED
    BY <1>39, <2>1, <2>2, <2>3
<1>40. CASE BootPersist
  BY <1>40 DEF BootPersist, Statuses
<1>41. CASE BootSettle
  BY <1>41 DEF BootSettle, Statuses
<1>42. CASE UNCHANGED vars
  BY <1>42 DEF vars
<1> QED
  BY <1>1, <1>2, <1>3, <1>4, <1>5, <1>6, <1>7, <1>8, <1>9, <1>10, <1>11,
     <1>12, <1>13, <1>14, <1>15, <1>16, <1>17, <1>18, <1>19, <1>20, <1>21,
     <1>22, <1>23, <1>24, <1>25, <1>26, <1>27, <1>28, <1>29, <1>30, <1>31,
     <1>32, <1>33, <1>34, <1>35, <1>36, <1>37, <1>38, <1>39, <1>40, <1>41,
     <1>42
  DEF Next, ResumeStep, StopStep, DeleteStep, Boot

\* Every reachable state is well typed.
THEOREM TypeCorrect == Spec => []TypeOK
BY InitType, NextType, PTL DEF Spec

(***************************************************************************)
(* One agent.                                                              *)
(***************************************************************************)
\* Nobody but the owner of the lock is in its critical section once a promise
\* has settled.
LEMMA SettleOwnsLock ==
    ASSUME TypeOK, OwnsLock, NEW r \in Resumers, rq[r].pc \in Critical,
           Settle(r)
    PROVE  /\ OwnsLock'
           /\ \A q \in Resumers : rq'[q].pc # "spawn"
<1>1. \A q \in Resumers : rq'[q].pc \in Critical => q # r /\ rq'[q] = rq[q]
  BY DEF Settle, IdleReq, Critical, TypeOK
<1>2. lock = r
  BY DEF OwnsLock
<1>3. \A q \in Resumers : rq'[q].pc \notin Critical
  BY <1>1, <1>2 DEF OwnsLock
<1> QED
  BY <1>3 DEF OwnsLock, Critical

\* Whatever leaves the requests and the lock alone, and starts no agent.
LEMMA NoNewAgent ==
    ASSUME AgentInv, UNCHANGED <<rq, lock>>, live' \subseteq live
    PROVE  AgentInv'
BY DEF AgentInv, OwnsLock, SpawnsAlone, SingleAgent

\* A request moves within the critical section, or outside of it, and starts no
\* agent; where it comes to "spawn", none is left.
LEMMA RequestMoves ==
    ASSUME TypeOK, AgentInv, NEW r \in Resumers, NEW x,
           rq' = [rq EXCEPT ![r] = x], UNCHANGED lock, live' \subseteq live,
           x.pc \in Critical => rq[r].pc \in Critical,
           x.pc = "spawn" => live' = {}
    PROVE  AgentInv'
<1>1. rq'[r] = x /\ \A q \in Resumers : q # r => rq'[q] = rq[q]
  BY DEF TypeOK
<1> QED
  BY <1>1 DEF AgentInv, OwnsLock, SpawnsAlone, SingleAgent

LEMMA InitAgent == Init => AgentInv
BY DEF Init, AgentInv, OwnsLock, SpawnsAlone, SingleAgent, Critical, IdleReq

\* With a lock that holds and a pkill that works, no step starts a second agent.
LEMMA NextAgent ==
    ASSUME "lockExpiry" \notin Faults, "killFails" \notin Faults,
           TypeOK, AgentInv, [Next]_vars
    PROVE  AgentInv'
<1> USE DEF Critical
<1>1. ASSUME NEW r \in Resumers, ResumeRequest(r) PROVE AgentInv'
  BY <1>1, RequestMoves DEF ResumeRequest, TypeOK, IdleReq, ReqType
<1>2. ASSUME NEW r \in Resumers, ResumeEnter(r) PROVE AgentInv'
  <2>1. CASE UNCHANGED lock /\ rq' = [rq EXCEPT ![r] = IdleReq]
    BY <1>2, <2>1, RequestMoves DEF ResumeEnter, IdleReq
  <2>2. CASE UNCHANGED lock /\ rq' = [rq EXCEPT ![r] = [IdleReq EXCEPT !.pc = "joined",
                                                                     !.on = lock]]
    BY <1>2, <2>2, RequestMoves DEF ResumeEnter, IdleReq
  <2>3. CASE /\ lock = NoOne /\ lock' = r
             /\ rq' = [rq EXCEPT ![r].pc = "runtime"]
    <3>1. \A q \in Resumers : rq[q].pc \notin Critical
      BY <2>3, SessionAssumption DEF AgentInv, OwnsLock
    <3>2. /\ rq'[r].pc = "runtime"
          /\ \A q \in Resumers : q # r => rq'[q] = rq[q]
      BY <2>3 DEF TypeOK, ReqType
    <3> QED
      BY <1>2, <2>3, <3>1, <3>2
      DEF ResumeEnter, AgentInv, OwnsLock, SpawnsAlone, SingleAgent
  <2> QED
    BY <1>2, <2>1, <2>2, <2>3 DEF ResumeEnter
<1>3. ASSUME NEW r \in Resumers, ResumeRuntime(r) PROVE AgentInv'
  BY <1>3, RequestMoves DEF ResumeRuntime, TypeOK, ReqType
<1>4. ASSUME NEW r \in Resumers, ResumeRejected(r) PROVE AgentInv'
  BY <1>4, SettleOwnsLock DEF ResumeRejected, AgentInv, SpawnsAlone, SingleAgent
<1>5. ASSUME NEW r \in Resumers, ResumeAttach(r) PROVE AgentInv'
  <2>1. PICK h \in Handles :
          rq' = [rq EXCEPT ![r] = [@ EXCEPT !.pc = "probe", !.h = h]]
    BY <1>5 DEF ResumeAttach
  <2>2. [rq[r] EXCEPT !.pc = "probe", !.h = h].pc = "probe"
    BY DEF TypeOK, ReqType
  <2> QED
    BY <1>5, <2>1, <2>2, RequestMoves DEF ResumeAttach
<1>6. ASSUME NEW r \in Resumers, ResumeNoAttach(r) PROVE AgentInv'
  BY <1>6, RequestMoves DEF ResumeNoAttach, TypeOK, ReqType
<1>7. ASSUME NEW r \in Resumers, ResumeAdopt(r) PROVE AgentInv'
  BY <1>7, RequestMoves DEF ResumeAdopt, TypeOK, ReqType
<1>8. ASSUME NEW r \in Resumers, ResumeProbeDead(r) PROVE AgentInv'
  BY <1>8, RequestMoves DEF ResumeProbeDead, TypeOK, ReqType
<1>9. ASSUME NEW r \in Resumers, ResumePkill(r) PROVE AgentInv'
  BY <1>9, RequestMoves DEF ResumePkill, TypeOK, KillAgents, ReqType
<1>10. ASSUME NEW r \in Resumers, ResumeSpawn(r) PROVE AgentInv'
  <2>1. live = {} /\ live' = {spawned'}
    BY <1>10 DEF ResumeSpawn, AgentInv, SpawnsAlone
  <2>2. /\ rq'[r].pc = "open" /\ lock' = lock
        /\ \A q \in Resumers : q # r => rq'[q] = rq[q]
    BY <1>10 DEF ResumeSpawn, TypeOK, ReqType
  <2>3. OwnsLock' /\ \A q \in Resumers : rq'[q].pc # "spawn"
    BY <1>10, <2>2 DEF ResumeSpawn, AgentInv, OwnsLock
  <2> QED
    BY <2>1, <2>3 DEF AgentInv, SpawnsAlone, SingleAgent
<1>11. ASSUME NEW r \in Resumers, ResumeOpen(r) PROVE AgentInv'
  BY <1>11, RequestMoves DEF ResumeOpen, TypeOK, ReqType
<1>12. ASSUME NEW r \in Resumers, ResumeSpawnFails(r) PROVE AgentInv'
  BY <1>12, RequestMoves DEF ResumeSpawnFails, TypeOK, ReqType
<1>13. ASSUME NEW r \in Resumers, ResumeRestore(r) PROVE AgentInv'
  BY <1>13, SettleOwnsLock DEF ResumeRestore, AgentInv, SpawnsAlone, SingleAgent
<1>14. ASSUME NEW r \in Resumers, ResumeKeep(r) PROVE AgentInv'
  BY <1>14, SettleOwnsLock DEF ResumeKeep, AgentInv, SpawnsAlone, SingleAgent
<1>15. ASSUME NEW r \in Resumers, ResumePersist(r) PROVE AgentInv'
  BY <1>15, SettleOwnsLock DEF ResumePersist, AgentInv, SpawnsAlone, SingleAgent
<1>16. ASSUME NEW s \in Stoppers, StopRequest(s) PROVE AgentInv'
  BY <1>16, NoNewAgent DEF StopRequest
<1>17. ASSUME NEW s \in Stoppers, SweepList(s) PROVE AgentInv'
  BY <1>17, NoNewAgent DEF SweepList
<1>18. ASSUME NEW s \in Stoppers, StopDecide(s) PROVE AgentInv'
  BY <1>18, NoNewAgent DEF StopDecide
<1>19. ASSUME NEW s \in Stoppers, SweepStop(s) PROVE AgentInv'
  BY <1>19, NoNewAgent DEF SweepStop
<1>20. ASSUME NEW s \in Stoppers, SweepSkip(s) PROVE AgentInv'
  BY <1>20, NoNewAgent DEF SweepSkip
<1>21. ASSUME NEW s \in Stoppers, StopWaitExit(s) PROVE AgentInv'
  BY <1>21, NoNewAgent DEF StopWaitExit, KillAgents
<1>22. ASSUME NEW s \in Stoppers, StopHibernate(s) PROVE AgentInv'
  BY <1>22, NoNewAgent DEF StopHibernate, StopVM
<1>23. ASSUME NEW s \in Stoppers, StopHibernateFails(s) PROVE AgentInv'
  BY <1>23, NoNewAgent DEF StopHibernateFails
<1>24. ASSUME NEW s \in Stoppers, StopPersist(s) PROVE AgentInv'
  BY <1>24, NoNewAgent DEF StopPersist
<1>25. ASSUME NEW s \in Stoppers, StopComplete(s) PROVE AgentInv'
  BY <1>25, NoNewAgent DEF StopComplete
<1>26. ASSUME NEW s \in Stoppers, StopDetached(s) PROVE AgentInv'
  BY <1>26, NoNewAgent DEF StopDetached, KillAgents
<1>27. ASSUME NEW s \in Stoppers, StopDetHibernate(s) PROVE AgentInv'
  BY <1>27, NoNewAgent DEF StopDetHibernate, StopVM
<1>28. ASSUME NEW s \in Stoppers, StopDetPersist(s) PROVE AgentInv'
  BY <1>28, NoNewAgent DEF StopDetPersist
<1>29. ASSUME NEW d \in Deleters, DeleteRequest(d) PROVE AgentInv'
  BY <1>29, NoNewAgent DEF DeleteRequest
<1>30. ASSUME NEW d \in Deleters, DeleteKill(d) PROVE AgentInv'
  BY <1>30, NoNewAgent DEF DeleteKill
<1>31. ASSUME NEW d \in Deleters, DeleteWait(d) PROVE AgentInv'
  BY <1>31, NoNewAgent DEF DeleteWait, KillAgents
<1>32. ASSUME NEW d \in Deleters, DeleteDrop(d) PROVE AgentInv'
  BY <1>32, NoNewAgent DEF DeleteDrop
<1>33. ASSUME NEW d \in Deleters, DeleteDestroy(d) PROVE AgentInv'
  BY <1>33, NoNewAgent DEF DeleteDestroy, StopVM
<1>34. ASSUME NEW e \in Execs, AgentEnds(e) PROVE AgentInv'
  BY <1>34, NoNewAgent DEF AgentEnds
<1>35. ASSUME NEW h \in Handles, Exit(h) PROVE AgentInv'
  BY <1>35, NoNewAgent DEF Exit
<1>36. ASSUME NEW h \in Handles, PersistExit(h) PROVE AgentInv'
  BY <1>36, NoNewAgent DEF PersistExit
<1>37. CASE LockExpire
  BY <1>37 DEF LockExpire
<1>38. CASE Restart
  BY <1>38 DEF Restart, AgentInv, OwnsLock, SpawnsAlone, SingleAgent, IdleReq
<1>39. CASE BootAttach \/ BootUnheard \/ BootCreate
  BY <1>39, NoNewAgent DEF BootAttach, BootUnheard, BootCreate
<1>40. CASE BootPersist
  BY <1>40, NoNewAgent DEF BootPersist
<1>41. CASE BootSettle
  BY <1>41, NoNewAgent DEF BootSettle
<1>42. CASE UNCHANGED vars
  BY <1>42, NoNewAgent DEF vars
<1> QED
  BY <1>1, <1>2, <1>3, <1>4, <1>5, <1>6, <1>7, <1>8, <1>9, <1>10, <1>11,
     <1>12, <1>13, <1>14, <1>15, <1>16, <1>17, <1>18, <1>19, <1>20, <1>21,
     <1>22, <1>23, <1>24, <1>25, <1>26, <1>27, <1>28, <1>29, <1>30, <1>31,
     <1>32, <1>33, <1>34, <1>35, <1>36, <1>37, <1>38, <1>39, <1>40, <1>41,
     <1>42
  DEF Next, ResumeStep, StopStep, DeleteStep, Boot

\* DurableSessions.md 12.4: as long as no resume outlives its lock and the pkill
\* inside the VM works, at most one agent of the session runs, whatever the
\* interleaving of resumes, stops, sweeps, deletes, exits and restarts.
THEOREM OneAgent ==
    ASSUME "lockExpiry" \notin Faults, "killFails" \notin Faults
    PROVE  Spec => []SingleAgent
<1>1. TypeOK /\ AgentInv /\ [Next]_vars => AgentInv'
  BY NextAgent
<1>2. AgentInv => SingleAgent
  BY DEF AgentInv
<1> QED
  BY InitAgent, TypeCorrect, <1>1, <1>2, PTL DEF Spec

(***************************************************************************)
(* Replaced and deleted entries are inert, under every fault.              *)
(***************************************************************************)
LEMMA InitInert == Init => InertInv
BY DEF Init, InertInv, ReplacedInert, Started, NoEntry

\* createSession leaves no listener on the entry it replaces.
LEMMA CreateSessionInert ==
    ASSUME TypeOK, InertInv, NEW h, NEW e, CreateSession(h, e), e.attached
    PROVE  InertInv'
<1>1. \A k \in Handles : k # h => \/ k # cur /\ entry'[k] = entry[k]
                                \/ ~entry'[k].listening
  <2>1. \A k \in Handles : [entry[k] EXCEPT !.status = "exited", !.hib = TRUE,
                                            !.listening = FALSE].listening = FALSE
    BY DEF TypeOK, EntryType
  <2> QED
    BY <2>1 DEF CreateSession, NoEntry
<1>2. cur' = h /\ (h \in Handles => entry'[h] = e)
  BY DEF CreateSession
<1> QED
  BY <1>1, <1>2 DEF InertInv, ReplacedInert

\* One step of the proof per action that touches an entry or the map.
LEMMA NextInert ==
    ASSUME TypeOK, InertInv, [Next]_vars
    PROVE  InertInv'
<1>a. ASSUME UNCHANGED <<entry, cur>> PROVE InertInv'
  BY <1>a DEF InertInv, ReplacedInert
<1>1. ASSUME NEW r \in Resumers, \/ ResumeRequest(r) \/ ResumeEnter(r) \/ ResumeRuntime(r)
                              \/ ResumeRejected(r) \/ ResumeNoAttach(r)
                              \/ ResumePkill(r) \/ ResumeSpawn(r)
                              \/ ResumeSpawnFails(r) \/ ResumeRestore(r)
                              \/ ResumeKeep(r) \/ ResumePersist(r)
     PROVE InertInv'
  BY <1>a, <1>1
  DEF ResumeRequest, ResumeEnter, ResumeRuntime, ResumeRejected,
      ResumeNoAttach, ResumePkill, ResumeSpawn, ResumeSpawnFails,
      ResumeRestore, ResumeKeep, ResumePersist
<1>2. ASSUME NEW r \in Resumers, ResumeAttach(r) PROVE InertInv'
  <2>1. PICK h \in Handles :
          entry' = [entry EXCEPT ![h] = [NoEntry EXCEPT !.exec = rq[r].ref,
                                                        !.open = TRUE]]
    BY <1>2 DEF ResumeAttach
  <2>2. /\ ~entry'[h].listening
        /\ \A k \in Handles : k # h => entry'[k] = entry[k]
    BY <2>1 DEF TypeOK, NoEntry
  <2> QED
    BY <1>2, <2>2 DEF ResumeAttach, InertInv, ReplacedInert
<1>3. ASSUME NEW r \in Resumers, ResumeAdopt(r) \/ ResumeOpen(r) PROVE InertInv'
  <2>1. \A e : Started(e).attached
    BY DEF Started
  <2> QED
    BY <1>3, <2>1, CreateSessionInert DEF ResumeAdopt, ResumeOpen
<1>4. ASSUME NEW r \in Resumers, ResumeProbeDead(r) PROVE InertInv'
  BY <1>4 DEF ResumeProbeDead, NoEntry, TypeOK, InertInv, ReplacedInert
<1>5. ASSUME NEW s \in Stoppers, \/ StopRequest(s) \/ SweepList(s) \/ SweepSkip(s)
                              \/ StopWaitExit(s) \/ StopHibernate(s)
                              \/ StopPersist(s) \/ StopDetached(s)
                              \/ StopDetHibernate(s) \/ StopDetPersist(s)
     PROVE InertInv'
  BY <1>a, <1>5
  DEF StopRequest, SweepList, SweepSkip, StopWaitExit, StopHibernate, StopPersist,
      StopDetached, StopDetHibernate, StopDetPersist
<1>6. ASSUME NEW s \in Stoppers, StopDecide(s) \/ SweepStop(s) PROVE InertInv'
  <2>1. PICK ref : StopSession(s, ref)
    BY <1>6 DEF StopDecide, SweepStop
  <2>2. CASE UNCHANGED entry
    BY <1>a, <1>6, <2>2 DEF StopDecide, SweepStop
  <2>3. CASE entry' = [entry EXCEPT ![cur] = [@ EXCEPT !.open = FALSE, !.hib = TRUE]]
    <3>1. \A k \in Handles : entry'[k] = entry[k] \/ ~entry'[k].open
      BY <2>3 DEF TypeOK, EntryType
    <3> QED
      BY <1>6, <3>1 DEF StopDecide, SweepStop, InertInv, ReplacedInert
  <2> QED
    BY <2>1, <2>2, <2>3 DEF StopSession
<1>7. ASSUME NEW s \in Stoppers, StopHibernateFails(s) PROVE InertInv'
  BY <1>7 DEF StopHibernateFails, TypeOK, EntryType, InertInv, ReplacedInert
<1>8. ASSUME NEW s \in Stoppers, StopComplete(s) PROVE InertInv'
  BY <1>8 DEF StopComplete, TypeOK, EntryType, InertInv, ReplacedInert
<1>9. ASSUME NEW d \in Deleters, \/ DeleteRequest(d) \/ DeleteWait(d)
                              \/ DeleteDestroy(d)
     PROVE InertInv'
  BY <1>a, <1>9 DEF DeleteRequest, DeleteWait, DeleteDestroy
<1>10. ASSUME NEW d \in Deleters, DeleteKill(d) PROVE InertInv'
  BY <1>10 DEF DeleteKill, Mapped, TypeOK, EntryType, InertInv, ReplacedInert
<1>11. ASSUME NEW d \in Deleters, DeleteDrop(d) PROVE InertInv'
  <2>0. ASSUME NEW k \in Handles, k = cur, entry'[k].open
        PROVE  ~entry'[k].listening
    <3>1. CASE Listed(k)
      <4>1. entry'[k] = [entry[k] EXCEPT !.open = entry[k].open /\ ~entry[k].attached]
        BY <1>11, <2>0, <3>1 DEF DeleteDrop
      <4>2. /\ entry'[k].open <=> (entry[k].open /\ ~entry[k].attached)
            /\ entry'[k].listening = entry[k].listening
        <5>1. entry[k] \in EntryType
          BY FieldTypes
        <5> QED
          BY <4>1, <5>1 DEF EntryType
      <4> QED
        BY <2>0, <4>2 DEF InertInv
    <3>2. CASE ~Listed(k)
      BY <1>11, <2>0, <3>2 DEF DeleteDrop, NoEntry, InertInv
    <3> QED
      BY <3>1, <3>2
  <2>1. \A k \in Handles : \/ k # cur /\ entry'[k] = entry[k]
                           \/ ~entry'[k].open
                           \/ ~entry'[k].listening
    BY <1>11, <2>0 DEF DeleteDrop
  <2>2. \A k \in Handles : k = cur => ~entry'[k].listening \/ ~entry'[k].open
    BY <2>1
  <2>3. cur' = NoHandle
    BY <1>11 DEF DeleteDrop
  <2> QED
    BY <2>1, <2>2, <2>3 DEF InertInv, ReplacedInert
<1>12. ASSUME NEW h \in Handles, Exit(h) PROVE InertInv'
  <2>1. \A k \in Handles : entry'[k] = entry[k] \/ ~entry'[k].open
    BY <1>12 DEF Exit, NoEntry, TypeOK, EntryType
  <2> QED
    BY <1>12, <2>1 DEF Exit, InertInv, ReplacedInert
<1>13. CASE \/ \E e \in Execs : AgentEnds(e)
            \/ \E h \in Handles : PersistExit(h)
            \/ LockExpire \/ BootPersist \/ BootSettle \/ UNCHANGED vars
  BY <1>a, <1>13 DEF AgentEnds, PersistExit, LockExpire, BootPersist, BootSettle, vars
<1>14. CASE Restart
  BY <1>14 DEF Restart, NoEntry, InertInv, ReplacedInert
<1>15. CASE BootAttach \/ BootUnheard \/ BootCreate
  <2>1. CASE BootAttach
    <3>1. PICK h \in Handles :
            entry' = [entry EXCEPT ![h] = [NoEntry EXCEPT !.exec = row.ref,
                                                          !.open = TRUE]]
      BY <2>1 DEF BootAttach
    <3>2. /\ ~entry'[h].listening
          /\ \A k \in Handles : k # h => entry'[k] = entry[k]
      BY <3>1 DEF TypeOK, NoEntry
    <3> QED
      BY <2>1, <3>2 DEF BootAttach, InertInv, ReplacedInert
  <2>2. CASE BootUnheard
    <3>1. \A k \in Handles : entry'[k] = entry[k] \/ ~entry'[k].open
      BY <2>2 DEF BootUnheard, TypeOK, EntryType
    <3> QED
      BY <2>2, <3>1 DEF BootUnheard, InertInv, ReplacedInert
  <2>3. CASE BootCreate
    <3>1. [Started(entry[boot.h].exec) EXCEPT !.open = entry[boot.h].open,
                               !.unheard = entry[boot.h].unheard].attached
      BY DEF Started
    <3> QED
      BY <2>3, <3>1, CreateSessionInert DEF BootCreate
  <2> QED
    BY <1>15, <2>1, <2>2, <2>3
<1> QED
  BY <1>1, <1>2, <1>3, <1>4, <1>5, <1>6, <1>7, <1>8, <1>9, <1>10, <1>11,
     <1>12, <1>13, <1>14, <1>15
  DEF Next, ResumeStep, StopStep, DeleteStep, Boot

\* Only the current entry's lifecycle listener can still be called.
THEOREM OnlyCurrentListens == Spec => []ReplacedInert
<1>1. InertInv => ReplacedInert
  BY DEF InertInv
<1> QED
  BY InitInert, NextInert, TypeCorrect, <1>1, PTL DEF Spec

\* The exit of an older stream never ends the session that replaced it.
THEOREM ExitsStayOwn == Spec => ExitOwnSession
<1> DEFINE Own == \A h \in Handles : Exit(h) /\ cur # h =>
                    /\ UNCHANGED exitWrite
                    /\ Mapped => entry'[cur] = entry[cur]
<1>1. TypeOK /\ ReplacedInert /\ [Next]_vars => [Own]_vars
  BY DEF ReplacedInert, Exit, Mapped, TypeOK
<1> QED
  BY <1>1, TypeCorrect, OnlyCurrentListens, PTL DEF Spec, ExitOwnSession

(***************************************************************************)
(* The recovery is alone.                                                  *)
(***************************************************************************)
\* Until the recovery has created its session, there is no session and no
\* request, and the stream it has attached is closed only if its end was unheard.
Booting == {"recover", "attached"}
BootInv ==
    boot.pc \in Booting =>
        /\ ~Mapped
        /\ \A r \in Resumers : rq[r].pc = "idle"
        /\ \A s \in Stoppers : sq[s].pc = "idle"
        /\ \A d \in Deleters : dq[d] = "idle"
        /\ boot.pc = "attached" =>
             /\ boot.h \in Handles
             /\ entry[boot.h].status = "none"
             /\ entry[boot.h].open \/ entry[boot.h].unheard

\* The server does not listen yet: only exits and writes go on.
LEMMA NextBoot == TypeOK /\ BootInv /\ [Next]_vars => BootInv'
<1> SUFFICES ASSUME TypeOK, BootInv, [Next]_vars PROVE BootInv'
  OBVIOUS
<1>1. CASE Restart
  BY <1>1 DEF Restart, BootInv, Mapped, IdleReq, IdleOp
<1>2. CASE BootAttach
  <2>1. PICK h \in Handles :
          /\ entry' = [entry EXCEPT ![h] = [NoEntry EXCEPT !.exec = row.ref,
                                                           !.open = TRUE]]
          /\ boot' = [boot EXCEPT !.pc = "attached", !.h = h]
    BY <1>2 DEF BootAttach
  <2>2. /\ boot'.h = h /\ entry'[h].status = "none" /\ entry'[h].open
        /\ boot.pc \in Booting
    BY <1>2, <2>1 DEF BootAttach, TypeOK, NoEntry, Booting
  <2> QED
    BY <1>2, <2>2 DEF BootAttach, BootInv, Mapped
<1>3. CASE BootUnheard
  <2>0. boot.pc = "attached"
    BY <1>3 DEF BootUnheard
  <2>1. /\ boot.h \in Handles /\ boot.pc \in Booting
        /\ entry[boot.h].status = "none"
    BY <2>0 DEF BootInv, Booting
  <2>2. entry'[boot.h].status = "none" /\ entry'[boot.h].unheard
    BY <1>3, <2>1 DEF BootUnheard, TypeOK, EntryType
  <2> QED
    BY <1>3, <2>1, <2>2 DEF BootUnheard, BootInv, Mapped
<1>4. CASE BootCreate \/ BootPersist \/ BootSettle
  BY <1>4 DEF BootCreate, BootPersist, BootSettle, BootInv, Booting, TypeOK
<1>5. ASSUME UNCHANGED boot, boot.pc \notin Booting PROVE BootInv'
  BY <1>5 DEF BootInv
<1>6. ASSUME NEW r \in Resumers, ResumeRequest(r) \/ ResumeStep(r) PROVE BootInv'
  <2>1. UNCHANGED boot /\ boot.pc \notin Booting
    BY <1>6 DEF BootInv, Booting, ResumeRequest, ResumeStep, ResumeEnter, ResumeRuntime,
                ResumeRejected, ResumeAttach, ResumeNoAttach, ResumeAdopt,
                ResumeProbeDead, ResumePkill, ResumeSpawn, ResumeOpen,
                ResumeSpawnFails, ResumeRestore, ResumeKeep, ResumePersist
  <2> QED
    BY <1>5, <2>1
<1>7. ASSUME NEW s \in Stoppers, StopRequest(s) \/ SweepList(s) \/ StopStep(s)
     PROVE BootInv'
  <2>1. UNCHANGED boot /\ boot.pc \notin Booting
    BY <1>7 DEF BootInv, Booting, StopRequest, SweepList, StopStep, StopDecide, SweepStop,
                SweepSkip, StopWaitExit, StopHibernate, StopHibernateFails, StopPersist,
                StopComplete, StopDetached, StopDetHibernate, StopDetPersist
  <2> QED
    BY <1>5, <2>1
<1>8. ASSUME NEW d \in Deleters, DeleteRequest(d) \/ DeleteStep(d) PROVE BootInv'
  <2>1. UNCHANGED boot /\ boot.pc \notin Booting
    BY <1>8 DEF BootInv, Booting, DeleteRequest, DeleteStep, DeleteKill, DeleteWait,
                DeleteDrop, DeleteDestroy
  <2> QED
    BY <1>5, <2>1
<1>9. ASSUME NEW h \in Handles, Exit(h) PROVE BootInv'
  <2>1. entry[h].status # "none" /\ UNCHANGED <<boot, cur, rq, sq, dq>>
    BY <1>9 DEF Exit
  <2>2. PICK x : entry' = [entry EXCEPT ![h] = x]
    BY <1>9 DEF Exit
  <2>3. \A k \in Handles : entry[k].status = "none" => entry'[k] = entry[k]
    BY <2>1, <2>2 DEF TypeOK
  <2> QED
    BY <2>1, <2>3 DEF BootInv, Mapped
<1>10. CASE \/ \E e \in Execs : AgentEnds(e)
            \/ \E h \in Handles : PersistExit(h)
            \/ LockExpire \/ UNCHANGED vars
  BY <1>10 DEF AgentEnds, PersistExit, LockExpire, vars, BootInv, Mapped
<1> QED
  BY <1>1, <1>2, <1>3, <1>4, <1>6, <1>7, <1>8, <1>9, <1>10 DEF Next, Boot

LEMMA BootCorrect == Spec => []BootInv
<1>1. Init => BootInv
  BY DEF Init, BootInv, Booting
<1> QED
  BY <1>1, NextBoot, TypeCorrect, PTL DEF Spec

(***************************************************************************)
(* isAlive is not a lie.                                                   *)
(***************************************************************************)
\* The inductive form of NoZombie: a current session that says it is alive, and
\* whose stream was closed outside of a stop, not unheard, is being deleted, and
\* the delete has not forgotten it yet.
ClosedByDelete ==
    IsAlive /\ ~entry[cur].hib /\ ~entry[cur].unheard /\ ~entry[cur].open
        => \E d \in Deleters : dq[d] \in {"wait", "drop"}

\* A session that has just been created has an open stream.
LEMMA CreateSessionOpen ==
    ASSUME NEW h \in Handles \cup {NoHandle}, NEW e, TypeOK, CreateSession(h, e),
           e.open \/ e.unheard
    PROVE  ClosedByDelete'
BY DEF CreateSession, ClosedByDelete, IsAlive, Mapped, TypeOK

\* Whatever leaves the current entry alone keeps ClosedByDelete, unless it is
\* the last step of a delete.
LEMMA CurrentSame ==
    ASSUME ClosedByDelete, UNCHANGED <<cur, dq>>, Mapped => entry'[cur] = entry[cur]
    PROVE  ClosedByDelete'
BY DEF ClosedByDelete, IsAlive, Mapped

\* One step of the proof per action that touches an entry, the map or a delete.
LEMMA NextClosed ==
    ASSUME TypeOK, BootInv, ClosedByDelete, [Next]_vars
    PROVE  ClosedByDelete'
<1>1. ASSUME NEW r \in Resumers, \/ ResumeRequest(r) \/ ResumeEnter(r) \/ ResumeRuntime(r)
                              \/ ResumeRejected(r) \/ ResumeNoAttach(r)
                              \/ ResumePkill(r) \/ ResumeSpawn(r)
                              \/ ResumeSpawnFails(r) \/ ResumeRestore(r)
                              \/ ResumeKeep(r) \/ ResumePersist(r)
     PROVE ClosedByDelete'
  BY <1>1, CurrentSame
  DEF ResumeRequest, ResumeEnter, ResumeRuntime, ResumeRejected,
      ResumeNoAttach, ResumePkill, ResumeSpawn, ResumeSpawnFails,
      ResumeRestore, ResumeKeep, ResumePersist
<1>2. ASSUME NEW r \in Resumers, ResumeAttach(r) PROVE ClosedByDelete'
  <2>1. PICK h \in Handles :
          /\ h # cur
          /\ entry' = [entry EXCEPT ![h] = [NoEntry EXCEPT !.exec = rq[r].ref,
                                                           !.open = TRUE]]
    BY <1>2 DEF ResumeAttach, Free
  <2> QED
    BY <1>2, <2>1, CurrentSame DEF ResumeAttach, TypeOK
<1>3. ASSUME NEW r \in Resumers, ResumeAdopt(r) \/ ResumeOpen(r) PROVE ClosedByDelete'
  <2>1. \A e : Started(e).open
    BY DEF Started
  <2> QED
    BY <1>3, <2>1, CreateSessionOpen, FieldTypes DEF ResumeAdopt, ResumeOpen
<1>4. ASSUME NEW r \in Resumers, ResumeProbeDead(r) PROVE ClosedByDelete'
  BY <1>4 DEF ResumeProbeDead, NoEntry, TypeOK, ClosedByDelete, IsAlive, Mapped
<1>5. ASSUME NEW s \in Stoppers, \/ StopRequest(s) \/ SweepList(s) \/ SweepSkip(s)
                              \/ StopWaitExit(s) \/ StopHibernate(s)
                              \/ StopPersist(s) \/ StopDetached(s)
                              \/ StopDetHibernate(s) \/ StopDetPersist(s)
     PROVE ClosedByDelete'
  BY <1>5, CurrentSame
  DEF StopRequest, SweepList, SweepSkip, StopWaitExit, StopHibernate, StopPersist,
      StopDetached, StopDetHibernate, StopDetPersist
<1>6. ASSUME NEW s \in Stoppers, StopDecide(s) \/ SweepStop(s) PROVE ClosedByDelete'
  <2>1. PICK ref : StopSession(s, ref)
    BY <1>6 DEF StopDecide, SweepStop
  <2>2. CASE UNCHANGED entry
    BY <1>6, <2>2, CurrentSame DEF StopDecide, SweepStop
  <2>3. CASE entry' = [entry EXCEPT ![cur] = [@ EXCEPT !.open = FALSE, !.hib = TRUE]]
    <3>1. Mapped => entry'[cur].hib
      BY <2>3 DEF TypeOK, EntryType, Mapped
    <3> QED
      BY <1>6, <3>1 DEF StopDecide, SweepStop, ClosedByDelete, IsAlive, Mapped
  <2> QED
    BY <2>1, <2>2, <2>3 DEF StopSession
<1>7. ASSUME NEW s \in Stoppers, StopHibernateFails(s) PROVE ClosedByDelete'
  <2>1. Mapped => entry'[cur].open \/ entry'[cur].unheard
    BY <1>7 DEF StopHibernateFails, TypeOK, EntryType, Mapped
  <2> QED
    BY <1>7, <2>1 DEF StopHibernateFails, ClosedByDelete, IsAlive, Mapped
<1>8. ASSUME NEW s \in Stoppers, StopComplete(s) PROVE ClosedByDelete'
  <2>1. Mapped => ~entry'[cur].attached
    BY <1>8 DEF StopComplete, TypeOK, EntryType, Mapped
  <2> QED
    BY <1>8, <2>1 DEF StopComplete, ClosedByDelete, IsAlive, Mapped
<1>9. ASSUME NEW d \in Deleters, DeleteRequest(d) \/ DeleteWait(d) \/ DeleteDestroy(d)
     PROVE ClosedByDelete'
  <2>1. /\ UNCHANGED <<entry, cur>>
        /\ \A c \in Deleters : dq[c] \in {"wait", "drop"} => dq'[c] \in {"wait", "drop"}
    BY <1>9 DEF DeleteRequest, DeleteWait, DeleteDestroy, TypeOK
  <2> QED
    BY <2>1 DEF ClosedByDelete, IsAlive, Mapped
<1>10. ASSUME NEW d \in Deleters, DeleteKill(d) PROVE ClosedByDelete'
  <2>1. CASE Mapped /\ entry[cur].attached
    <3>1. dq'[d] = "wait"
      BY <1>10, <2>1 DEF DeleteKill, TypeOK
    <3> QED
      BY <3>1 DEF ClosedByDelete
  <2>2. CASE ~(Mapped /\ entry[cur].attached)
    BY <1>10, <2>2 DEF DeleteKill, ClosedByDelete, IsAlive, Mapped
  <2> QED
    BY <2>1, <2>2
<1>11. ASSUME NEW d \in Deleters, DeleteDrop(d) PROVE ClosedByDelete'
  BY <1>11 DEF DeleteDrop, ClosedByDelete, IsAlive, Mapped
<1>12. ASSUME NEW h \in Handles, Exit(h) PROVE ClosedByDelete'
  <2>1. CASE h # cur
    BY <1>12, <2>1, CurrentSame DEF Exit, TypeOK, Mapped
  <2>2. CASE h = cur
    <3>1. entry'[cur].status # "running" \/ ~entry'[cur].attached
      BY <1>12, <2>2 DEF Exit, TypeOK, EntryType
    <3> QED
      BY <1>12, <3>1 DEF Exit, ClosedByDelete, IsAlive, Mapped
  <2> QED
    BY <2>1, <2>2
<1>13. CASE \/ \E e \in Execs : AgentEnds(e)
            \/ \E h \in Handles : PersistExit(h)
            \/ LockExpire \/ BootPersist \/ BootSettle \/ UNCHANGED vars
  BY <1>13, CurrentSame
  DEF AgentEnds, PersistExit, LockExpire, BootPersist, BootSettle, vars
<1>14. CASE Restart
  BY <1>14 DEF Restart, ClosedByDelete, IsAlive, Mapped
<1>15. CASE BootAttach \/ BootUnheard
  <2>1. UNCHANGED cur /\ ~Mapped
    BY <1>15 DEF BootAttach, BootUnheard, BootInv, Booting
  <2> QED
    BY <2>1 DEF ClosedByDelete, IsAlive, Mapped
<1>16. CASE BootCreate
  <2> DEFINE s == [Started(entry[boot.h].exec) EXCEPT !.open = entry[boot.h].open,
                                             !.unheard = entry[boot.h].unheard]
  <2>0. boot.pc = "attached"
    BY <1>16 DEF BootCreate
  <2>1. boot.h \in Handles /\ (s.open \/ s.unheard)
    <3>1. boot.h \in Handles /\ (entry[boot.h].open \/ entry[boot.h].unheard)
      BY <2>0 DEF BootInv, Booting
    <3>2. s.open = entry[boot.h].open /\ s.unheard = entry[boot.h].unheard
      BY DEF Started
    <3> QED
      BY <3>1, <3>2
  <2>2. CreateSession(boot.h, s)
    BY <1>16 DEF BootCreate
  <2> HIDE DEF s
  <2> QED
    BY <2>1, <2>2, CreateSessionOpen
<1> QED
  BY <1>1, <1>2, <1>3, <1>4, <1>5, <1>6, <1>7, <1>8, <1>9, <1>10, <1>11,
     <1>12, <1>13, <1>14, <1>15, <1>16
  DEF Next, ResumeStep, StopStep, DeleteStep, Boot

\* isAlive is not a lie, under every fault: a session that is reported alive
\* outside of a stop or a delete has an open stream, through which its exit will
\* be heard.  Two sessions are excepted: the one that the recovery creates on a
\* stream whose exit came while it awaited the runtime's row, and the one whose
\* killed handle a failed hibernation leaves behind.
THEOREM AliveIsOpen == Spec => []NoZombie
<1>1. Init => ClosedByDelete
  BY DEF Init, ClosedByDelete, IsAlive, Mapped, Started
<1>2. TypeOK /\ BootInv /\ ClosedByDelete /\ [Next]_vars => ClosedByDelete'
  BY NextClosed
<1>3. ClosedByDelete => NoZombie
  BY DEF ClosedByDelete, NoZombie
<1> QED
  BY <1>1, <1>2, <1>3, TypeCorrect, BootCorrect, PTL DEF Spec

(***************************************************************************)
(* One writer of the transcript.                                           *)
(***************************************************************************)
\* At most one request at a time stops the session, and none while it may be
\* deleted: the conditions under which SingleWriter holds.  Two overlapping
\* stops break it, and so do a stop and a delete.
OneStopOrDeletes ==
    /\ \A s, t \in Stoppers : s = t
    /\ Stoppers = {} \/ Deleters = {}

\* The inductive form of SingleWriter: the only stream with listeners that is
\* open belongs to a current session that is alive; while a resume may still
\* create a session none is alive, and a resume
\* probes a stream that is not the session's; a stop in progress finds the
\* session it has killed still in the map, and reported alive.
Creating == {"runtime", "attach", "probe", "pkill", "spawn", "open"}
Stopping == {"waitExit", "hibernate", "persist", "complete"}

OpenIsAlive   == \A h \in Handles : entry[h].open /\ entry[h].status # "none"
                                       => h = cur /\ IsAlive
CurrentIsUsed == Mapped => entry[cur].status # "none"
CreatesAlone  == \A r \in Resumers : rq[r].pc \in Creating => ~IsAlive
ProbesApart   == \A r \in Resumers : rq[r].pc = "probe" => rq[r].h \in Handles \ {cur}
StopsTheDead  == \A s \in Stoppers : sq[s].pc \in Stopping
                                       => IsAlive /\ ~entry[cur].open
EntryInv  == OpenIsAlive /\ CurrentIsUsed /\ StopsTheDead
WriterInv == /\ OwnsLock /\ EntryInv
             /\ CreatesAlone /\ ProbesApart

\* What a step does to the requests that are in their critical section.
LEMMA RequestAlone ==
    ASSUME TypeOK, OwnsLock, NEW r \in Resumers, NEW x,
           rq' = [rq EXCEPT ![r] = x], UNCHANGED lock,
           x.pc \in Critical => rq[r].pc \in Critical
    PROVE  OwnsLock'
<1>1. rq'[r] = x /\ \A q \in Resumers : q # r => rq'[q] = rq[q]
  BY DEF TypeOK
<1> QED
  BY <1>1 DEF OwnsLock

\* As long as no lock expires, the critical section has one owner.
LEMMA NextOwnsLock ==
    ASSUME "lockExpiry" \notin Faults, TypeOK, OwnsLock, [Next]_vars
    PROVE  OwnsLock'
<1> USE DEF Critical
<1>1. ASSUME NEW r \in Resumers, ResumeRequest(r) PROVE OwnsLock'
  BY <1>1, RequestAlone DEF ResumeRequest, IdleReq
<1>2. ASSUME NEW r \in Resumers, ResumeEnter(r) PROVE OwnsLock'
  <2>1. CASE UNCHANGED lock /\ rq' = [rq EXCEPT ![r] = IdleReq]
    BY <2>1, RequestAlone DEF IdleReq
  <2>2. CASE UNCHANGED lock /\ rq' = [rq EXCEPT ![r] = [IdleReq EXCEPT !.pc = "joined",
                                                                     !.on = lock]]
    BY <2>2, RequestAlone DEF IdleReq
  <2>3. CASE /\ lock = NoOne /\ lock' = r
             /\ rq' = [rq EXCEPT ![r].pc = "runtime"]
    <3>1. \A q \in Resumers : rq[q].pc \notin Critical
      BY <2>3, SessionAssumption DEF OwnsLock
    <3>2. \A q \in Resumers : q # r => rq'[q] = rq[q]
      BY <2>3 DEF TypeOK
    <3> QED
      BY <2>3, <3>1, <3>2 DEF OwnsLock
  <2> QED
    BY <1>2, <2>1, <2>2, <2>3 DEF ResumeEnter
<1>3. ASSUME NEW r \in Resumers, \/ ResumeRejected(r) \/ ResumeRestore(r)
                              \/ ResumeKeep(r) \/ ResumePersist(r)
     PROVE OwnsLock'
  BY <1>3, SettleOwnsLock DEF ResumeRejected, ResumeRestore, ResumeKeep, ResumePersist
<1>4. ASSUME NEW r \in Resumers, \/ ResumeRuntime(r) \/ ResumeAttach(r) \/ ResumeNoAttach(r)
                              \/ ResumeAdopt(r) \/ ResumeProbeDead(r)
                              \/ ResumePkill(r) \/ ResumeSpawn(r) \/ ResumeOpen(r)
                              \/ ResumeSpawnFails(r)
     PROVE OwnsLock'
  <2>1. rq[r].pc \in Critical /\ UNCHANGED lock
    BY <1>4 DEF ResumeRuntime, ResumeAttach, ResumeNoAttach, ResumeAdopt,
                ResumeProbeDead, ResumePkill, ResumeSpawn, ResumeOpen, ResumeSpawnFails
  <2>2. PICK x : rq' = [rq EXCEPT ![r] = x]
    BY <1>4 DEF ResumeRuntime, ResumeAttach, ResumeNoAttach, ResumeAdopt,
                ResumeProbeDead, ResumePkill, ResumeSpawn, ResumeOpen, ResumeSpawnFails
  <2> QED
    BY <2>1, <2>2, RequestAlone
<1>5. ASSUME NEW s \in Stoppers, StopRequest(s) \/ SweepList(s) \/ StopStep(s)
     PROVE OwnsLock'
  BY <1>5 DEF StopRequest, SweepList, StopStep, StopDecide, SweepStop, SweepSkip,
              StopWaitExit, StopHibernate, StopHibernateFails, StopPersist, StopComplete,
              StopDetached, StopDetHibernate, StopDetPersist, OwnsLock
<1>6. ASSUME NEW d \in Deleters, DeleteRequest(d) \/ DeleteStep(d) PROVE OwnsLock'
  BY <1>6 DEF DeleteRequest, DeleteStep, DeleteKill, DeleteWait, DeleteDrop,
              DeleteDestroy, OwnsLock
<1>7. CASE \/ \E e \in Execs : AgentEnds(e)
           \/ \E h \in Handles : Exit(h) \/ PersistExit(h)
           \/ Boot \/ UNCHANGED vars
  BY <1>7 DEF AgentEnds, Exit, PersistExit, Boot, BootAttach, BootUnheard, BootCreate,
              BootPersist, BootSettle, vars, OwnsLock
<1>8. CASE LockExpire
  BY <1>8 DEF LockExpire
<1>9. CASE Restart
  BY <1>9 DEF Restart, OwnsLock, IdleReq
<1> QED
  BY <1>1, <1>2, <1>3, <1>4, <1>5, <1>6, <1>7, <1>8, <1>9
  DEF Next, ResumeStep

\* A step that leaves the entries and the map alone, and brings no request into
\* the steps that rely on them.
LEMMA EntriesSame ==
    ASSUME WriterInv, OwnsLock', UNCHANGED <<entry, cur>>,
           \A r \in Resumers : rq'[r].pc \in Creating =>
               rq[r].pc \in Creating /\ (rq'[r].pc = "probe" => rq'[r] = rq[r]),
           \A s \in Stoppers : sq'[s].pc \in Stopping => sq[s].pc \in Stopping
    PROVE  WriterInv'
<1>1. (IsAlive' <=> IsAlive) /\ (Mapped' <=> Mapped)
  BY DEF IsAlive, Mapped
<1>2. EntryInv'
  BY <1>1 DEF WriterInv, EntryInv, OpenIsAlive, CurrentIsUsed, StopsTheDead
<1>3. CreatesAlone' /\ ProbesApart'
  BY <1>1 DEF WriterInv, CreatesAlone, ProbesApart, Creating
<1> QED
  BY <1>2, <1>3 DEF WriterInv

\* A session is created when none is alive: nothing that is open is replaced.
LEMMA CreateSessionWrites ==
    ASSUME TypeOK, EntryInv, ~IsAlive, UNCHANGED sq,
           NEW h \in Handles \cup {NoHandle}, NEW e, CreateSession(h, e),
           e.status = "running" /\ e.attached
    PROVE  EntryInv'
<1>1. Mapped => ~entry[cur].open
  BY DEF EntryInv, OpenIsAlive, CurrentIsUsed, Mapped, TypeOK
<1>2. \A k \in Handles : k # h => \/ k # cur /\ entry'[k] = entry[k]
                                \/ entry'[k] = NoEntry
  BY <1>1, SessionAssumption DEF CreateSession, Mapped
<1>3. cur' = h /\ (h \in Handles => entry'[h] = e)
  BY DEF CreateSession
<1>4. OpenIsAlive'
  <2> SUFFICES ASSUME NEW k \in Handles, entry'[k].open, entry'[k].status # "none"
               PROVE  k = cur' /\ IsAlive'
    BY DEF OpenIsAlive
  <2>1. k = h
    BY <1>2 DEF EntryInv, OpenIsAlive, NoEntry
  <2> QED
    BY <1>3, <2>1, SessionAssumption DEF IsAlive, Mapped
<1>5. CurrentIsUsed' /\ StopsTheDead'
  BY <1>3 DEF EntryInv, CurrentIsUsed, StopsTheDead, Mapped
<1> QED
  BY <1>4, <1>5 DEF EntryInv

\* The entries that the current one does not include: the step changes slots
\* that nobody listens to.
LEMMA OtherSlots ==
    ASSUME TypeOK, EntryInv, UNCHANGED <<cur, sq>>,
           \A k \in Handles : \/ entry'[k] = entry[k]
                              \/ k # cur /\ (entry'[k].open => entry'[k].status = "none")
    PROVE  EntryInv' /\ (IsAlive' <=> IsAlive)
<1>1. Mapped => entry'[cur] = entry[cur]
  BY DEF Mapped, TypeOK
<1>2. IsAlive' <=> IsAlive
  BY <1>1 DEF IsAlive, Mapped
<1>3. OpenIsAlive'
  BY <1>2 DEF EntryInv, OpenIsAlive
<1>4. CurrentIsUsed'
  BY <1>1 DEF EntryInv, CurrentIsUsed, Mapped
<1>5. StopsTheDead'
  BY <1>1, <1>2 DEF EntryInv, StopsTheDead, IsAlive
<1> QED
  BY <1>2, <1>3, <1>4, <1>5 DEF EntryInv

\* The first turn of stopSession kills the current handle, if it is alive.
LEMMA StopSessionWrites ==
    ASSUME TypeOK, EntryInv, OneStopOrDeletes, NEW s \in Stoppers, NEW ref,
           UNCHANGED cur, StopSession(s, ref)
    PROVE  EntryInv' /\ (IsAlive' <=> IsAlive)
<1>1. CASE /\ IsAlive
           /\ entry' = [entry EXCEPT ![cur] = [@ EXCEPT !.open = FALSE, !.hib = TRUE]]
  <2>1. cur \in Handles
    BY <1>1 DEF IsAlive, Mapped, TypeOK
  <2>2. /\ ~entry'[cur].open /\ entry'[cur].status = entry[cur].status
        /\ entry'[cur].attached = entry[cur].attached
        /\ \A k \in Handles : k # cur => entry'[k] = entry[k]
    BY <1>1, <2>1 DEF TypeOK, EntryType
  <2>3. IsAlive'
    BY <1>1, <2>2 DEF IsAlive, Mapped
  <2> QED
    BY <1>1, <2>1, <2>2, <2>3
    DEF EntryInv, OpenIsAlive, CurrentIsUsed, StopsTheDead, Mapped
<1>2. CASE UNCHANGED entry /\ ~IsAlive
  <2>1. \/ sq' = [sq EXCEPT ![s] = IdleOp]
        \/ sq' = [sq EXCEPT ![s] = [IdleOp EXCEPT !.pc = "detached", !.ref = ref]]
    BY <1>2 DEF StopSession
  <2>2. sq'[s].pc \in {"idle", "detached"}
    <3>1. /\ IdleOp.pc = "idle"
          /\ [IdleOp EXCEPT !.pc = "detached", !.ref = ref].pc = "detached"
      BY DEF IdleOp
    <3> QED
      BY <2>1, <3>1 DEF TypeOK
  <2>3. \A t \in Stoppers : sq'[t].pc \notin Stopping
    BY <2>2 DEF OneStopOrDeletes, Stopping
  <2>4. (IsAlive' <=> IsAlive) /\ (Mapped' <=> Mapped)
    BY <1>2 DEF IsAlive, Mapped
  <2> QED
    BY <1>2, <2>3, <2>4 DEF EntryInv, OpenIsAlive, CurrentIsUsed, StopsTheDead
<1>3. Mapped /\ entry[cur].status = "idle" => ~IsAlive
  BY DEF IsAlive
<1> QED
  BY <1>1, <1>2, <1>3 DEF StopSession

LEMMA StartedAlive == \A e : Started(e).status = "running" /\ Started(e).attached
BY DEF Started

\* A resume that creates its session is the only one that could have.
LEMMA CreatorAlone ==
    ASSUME TypeOK, WriterInv, NEW r \in Resumers, rq[r].pc \in Creating,
           NEW x, rq' = [rq EXCEPT ![r] = x], x.pc \in Critical \ Creating, OwnsLock'
    PROVE  CreatesAlone' /\ ProbesApart'
<1>1. \A q \in Resumers : q # r => rq'[q] = rq[q] /\ rq[q].pc \notin Creating
  BY DEF WriterInv, OwnsLock, Creating, Critical, TypeOK
<1>2. rq'[r] = x
  BY DEF TypeOK
<1>3. \A q \in Resumers : rq'[q].pc \notin Creating
  BY <1>1, <1>2
<1> QED
  BY <1>3 DEF CreatesAlone, ProbesApart, Creating

\* A step of the requests' own keeps what the other steps rely on.
LEMMA ResumeWrites ==
    ASSUME "lockExpiry" \notin Faults, TypeOK, WriterInv, OwnsLock', NEW r \in Resumers,
           ResumeRequest(r) \/ ResumeStep(r)
    PROVE  WriterInv'
<1> USE DEF Creating, TypeOK
<1>1. CASE ResumeRequest(r)
  BY <1>1, EntriesSame DEF ResumeRequest, IdleReq
<1>2. CASE ResumeEnter(r)
  <2>1. CASE rq' = [rq EXCEPT ![r] = IdleReq]
    BY <1>2, <2>1, EntriesSame DEF ResumeEnter, IdleReq
  <2>2. CASE rq' = [rq EXCEPT ![r] = [IdleReq EXCEPT !.pc = "joined", !.on = lock]]
    BY <1>2, <2>2, EntriesSame DEF ResumeEnter, IdleReq
  <2>3. CASE ~IsAlive /\ rq' = [rq EXCEPT ![r].pc = "runtime"]
    <3>1. UNCHANGED <<entry, cur, sq>>
      BY <1>2 DEF ResumeEnter
    <3>2. (IsAlive' <=> IsAlive) /\ (Mapped' <=> Mapped)
      BY <3>1 DEF IsAlive, Mapped
    <3>3. EntryInv'
      BY <3>1, <3>2
      DEF WriterInv, EntryInv, OpenIsAlive, CurrentIsUsed, StopsTheDead
    <3>4. CreatesAlone'
      BY <2>3, <3>1, <3>2 DEF CreatesAlone
    <3>5. ProbesApart'
      BY <2>3, <3>1 DEF WriterInv, ProbesApart, ReqType
    <3> QED
      BY <3>3, <3>4, <3>5 DEF WriterInv
  <2> QED
    BY <1>2, <2>1, <2>2, <2>3 DEF ResumeEnter
<1>3. CASE ResumeRejected(r) \/ ResumeRestore(r) \/ ResumeKeep(r) \/ ResumePersist(r)
  <2>1. UNCHANGED <<entry, cur, sq>> /\ Settle(r)
    BY <1>3 DEF ResumeRejected, ResumeRestore, ResumeKeep, ResumePersist
  <2>2. \A q \in Resumers : rq'[q] = rq[q] \/ rq'[q] = IdleReq
    BY <2>1 DEF Settle
  <2> QED
    BY <2>1, <2>2, EntriesSame DEF IdleReq
<1>4. CASE \/ ResumeRuntime(r) \/ ResumeNoAttach(r) \/ ResumePkill(r)
           \/ ResumeSpawn(r) \/ ResumeSpawnFails(r)
  <2>1. UNCHANGED <<entry, cur, sq>>
    BY <1>4 DEF ResumeRuntime, ResumeNoAttach, ResumePkill, ResumeSpawn, ResumeSpawnFails
  <2>2. /\ rq[r].pc \in Creating
        /\ rq'[r].pc # "probe"
        /\ \A q \in Resumers : q # r => rq'[q] = rq[q]
    <3>1. CASE ResumeRuntime(r) \/ ResumePkill(r) \/ ResumeSpawnFails(r)
      BY <3>1 DEF ResumeRuntime, ResumePkill, ResumeSpawnFails, ReqType
    <3>2. CASE ResumeNoAttach(r)
      BY <3>2 DEF ResumeNoAttach, ReqType
    <3>3. CASE ResumeSpawn(r)
      BY <3>3 DEF ResumeSpawn, ReqType
    <3> QED
      BY <1>4, <3>1, <3>2, <3>3
  <2> QED
    BY <2>1, <2>2, EntriesSame
<1>5. CASE ResumeAttach(r)
  <2>1. PICK h \in Handles :
          /\ h # cur
          /\ entry' = [entry EXCEPT ![h] = [NoEntry EXCEPT !.exec = rq[r].ref,
                                                           !.open = TRUE]]
          /\ rq' = [rq EXCEPT ![r] = [@ EXCEPT !.pc = "probe", !.h = h]]
    BY <1>5 DEF ResumeAttach, Free
  <2>2. /\ rq[r].pc \in Creating /\ rq'[r].h = h
        /\ \A q \in Resumers : q # r => rq'[q] = rq[q]
        /\ UNCHANGED <<cur, sq>>
    BY <1>5, <2>1 DEF ResumeAttach, ReqType
  <2>3. \A k \in Handles : entry'[k] = entry[k] \/ (k # cur /\ entry'[k].status = "none")
    BY <2>1 DEF NoEntry
  <2>4. EntryInv' /\ (IsAlive' <=> IsAlive)
    BY <2>2, <2>3, OtherSlots DEF WriterInv
  <2> QED
    BY <2>1, <2>2, <2>4 DEF WriterInv, CreatesAlone, ProbesApart
<1>6. CASE ResumeAdopt(r)
  <2>0. PICK h \in Handles \cup {NoHandle} : \E e : CreateSession(h, Started(e))
    BY <1>6, FieldTypes DEF ResumeAdopt
  <2>1. PICK e : CreateSession(h, Started(e))
    BY <2>0
  <2>2. rq[r].pc \in Creating /\ UNCHANGED sq
    BY <1>6 DEF ResumeAdopt
  <2> DEFINE x == [rq[r] EXCEPT !.pc = "keep", !.h = NoHandle]
  <2>3. rq' = [rq EXCEPT ![r] = x] /\ x.pc = "keep"
    BY <1>6 DEF ResumeAdopt, ReqType
  <2> HIDE DEF x
  <2>4. EntryInv'
    BY <2>1, <2>2, StartedAlive, CreateSessionWrites DEF WriterInv, CreatesAlone
  <2>5. CreatesAlone' /\ ProbesApart'
    BY <2>2, <2>3, CreatorAlone DEF Critical
  <2> QED
    BY <2>4, <2>5 DEF WriterInv
<1>7. CASE ResumeOpen(r)
  <2>0. PICK h \in Handles \cup {NoHandle} : \E e : CreateSession(h, Started(e))
    BY <1>7 DEF ResumeOpen
  <2>1. PICK e : CreateSession(h, Started(e))
    BY <2>0
  <2>2. rq[r].pc \in Creating /\ UNCHANGED sq
    BY <1>7 DEF ResumeOpen
  <2> DEFINE x == [rq[r] EXCEPT !.pc = "persist"]
  <2>3. rq' = [rq EXCEPT ![r] = x] /\ x.pc = "persist"
    BY <1>7 DEF ResumeOpen, ReqType
  <2> HIDE DEF x
  <2>4. EntryInv'
    BY <2>1, <2>2, StartedAlive, CreateSessionWrites DEF WriterInv, CreatesAlone
  <2>5. CreatesAlone' /\ ProbesApart'
    BY <2>2, <2>3, CreatorAlone DEF Critical
  <2> QED
    BY <2>4, <2>5 DEF WriterInv
<1>8. CASE ResumeProbeDead(r)
  <2>1. /\ rq[r].pc = "probe" /\ rq'[r].pc = "pkill"
        /\ \A q \in Resumers : q # r => rq'[q] = rq[q]
        /\ UNCHANGED <<cur, sq>>
    BY <1>8 DEF ResumeProbeDead, ReqType
  <2>2. \A k \in Handles : entry'[k] = entry[k] \/ (k = rq[r].h /\ entry'[k] = NoEntry)
    BY <1>8 DEF ResumeProbeDead
  <2>3. rq[r].h # cur
    BY <2>1 DEF WriterInv, ProbesApart
  <2>4. EntryInv' /\ (IsAlive' <=> IsAlive)
    BY <2>1, <2>2, <2>3, OtherSlots DEF WriterInv, NoEntry
  <2> QED
    BY <2>1, <2>4 DEF WriterInv, CreatesAlone, ProbesApart
<1> QED
  BY <1>1, <1>2, <1>3, <1>4, <1>5, <1>6, <1>7, <1>8 DEF ResumeStep

\* A step that leaves the requests alone, and whether a session is alive.
LEMMA RequestsSame ==
    ASSUME WriterInv, EntryInv', UNCHANGED <<rq, cur, lock>>, IsAlive' => IsAlive
    PROVE  WriterInv'
<1>1. Mapped' <=> Mapped
  BY DEF Mapped
<1> QED
  BY <1>1 DEF WriterInv, OwnsLock, CreatesAlone, ProbesApart

\* A step of the stops' own, when there is one stop at a time.
LEMMA StopWrites ==
    ASSUME OneStopOrDeletes, TypeOK, WriterInv, OwnsLock', NEW s \in Stoppers,
           StopRequest(s) \/ SweepList(s) \/ StopStep(s)
    PROVE  WriterInv'
<1>1. CASE \/ StopRequest(s) \/ SweepList(s) \/ SweepSkip(s)
           \/ StopDetached(s) \/ StopDetHibernate(s) \/ StopDetPersist(s)
  <2>1. UNCHANGED <<entry, cur, rq>>
    BY <1>1 DEF StopRequest, SweepList, SweepSkip, StopDetached, StopDetHibernate,
                StopDetPersist
  <2>2. sq'[s].pc \notin Stopping /\ \A t \in Stoppers : t # s => sq'[t] = sq[t]
    <3>1. CASE StopRequest(s)
      BY <3>1 DEF StopRequest, Stopping, IdleOp, TypeOK
    <3>2. CASE SweepList(s)
      BY <3>2 DEF SweepList, Stopping, IdleOp, TypeOK
    <3>3. CASE SweepSkip(s) \/ StopDetPersist(s)
      BY <3>3 DEF SweepSkip, StopDetPersist, Stopping, IdleOp, TypeOK
    <3>4. CASE StopDetached(s) \/ StopDetHibernate(s)
      BY <3>4 DEF StopDetached, StopDetHibernate, Stopping, TypeOK, OpType
    <3> QED
      BY <1>1, <3>1, <3>2, <3>3, <3>4
  <2> QED
    BY <2>1, <2>2, EntriesSame
<1>2. CASE StopWaitExit(s) \/ StopHibernate(s) \/ StopPersist(s)
  <2>1. UNCHANGED <<entry, cur, rq>>
    BY <1>2 DEF StopWaitExit, StopHibernate, StopPersist
  <2>2. sq[s].pc \in Stopping /\ \A t \in Stoppers : t # s => sq'[t] = sq[t]
    BY <1>2 DEF StopWaitExit, StopHibernate, StopPersist, Stopping, TypeOK
  <2> QED
    BY <2>1, <2>2, EntriesSame
<1>3. CASE StopDecide(s) \/ SweepStop(s)
  <2>1. PICK ref : StopSession(s, ref)
    BY <1>3 DEF StopDecide, SweepStop
  <2>2. UNCHANGED <<rq, cur, lock>>
    BY <1>3 DEF StopDecide, SweepStop
  <2> QED
    BY <2>1, <2>2, StopSessionWrites, RequestsSame DEF WriterInv
<1>4. CASE StopHibernateFails(s) \/ StopComplete(s)
  <2>1. IsAlive /\ ~entry[cur].open /\ cur \in Handles
    BY <1>4 DEF StopHibernateFails, StopComplete, Stopping, WriterInv, EntryInv,
                StopsTheDead, IsAlive, Mapped, TypeOK
  <2>2. UNCHANGED <<rq, cur, lock>>
    BY <1>4 DEF StopHibernateFails, StopComplete
  <2>3. \A k \in Handles : k # cur => entry'[k] = entry[k]
    BY <1>4 DEF StopHibernateFails, StopComplete
  <2>4. ~entry'[cur].open /\ entry'[cur].status # "none"
    <3>1. CASE StopHibernateFails(s)
      BY <2>1, <3>1 DEF StopHibernateFails, TypeOK, EntryType
    <3>2. CASE StopComplete(s)
      BY <2>1, <3>2 DEF StopComplete, TypeOK, EntryType
    <3> QED
      BY <1>4, <3>1, <3>2
  <2>5. \A t \in Stoppers : sq'[t].pc \notin Stopping
    <3>1. sq' = [sq EXCEPT ![s] = IdleOp]
      BY <1>4 DEF StopHibernateFails, StopComplete
    <3>2. sq'[s].pc = "idle"
      BY <3>1 DEF TypeOK, IdleOp
    <3> QED
      BY <3>2 DEF Stopping, OneStopOrDeletes
  <2>6. EntryInv'
    BY <2>1, <2>2, <2>3, <2>4, <2>5
    DEF WriterInv, EntryInv, OpenIsAlive, CurrentIsUsed, StopsTheDead
  <2> QED
    BY <2>1, <2>2, <2>6, RequestsSame
<1> QED
  BY <1>1, <1>2, <1>3, <1>4 DEF StopStep

\* A step of the deletes' own, when nothing is stopped.
LEMMA DeleteWrites ==
    ASSUME OneStopOrDeletes, TypeOK, WriterInv, OwnsLock', NEW d \in Deleters,
           DeleteRequest(d) \/ DeleteStep(d)
    PROVE  WriterInv'
<1>1. Stoppers = {}
  BY DEF OneStopOrDeletes
<1>2. CASE DeleteRequest(d) \/ DeleteWait(d) \/ DeleteDestroy(d)
  BY <1>1, <1>2, EntriesSame DEF DeleteRequest, DeleteWait, DeleteDestroy
<1>3. CASE DeleteKill(d)
  <2>1. UNCHANGED <<rq, cur, lock>>
    BY <1>3 DEF DeleteKill
  <2>2. \A k \in Handles :
          \/ entry'[k] = entry[k]
          \/ /\ ~entry'[k].open /\ entry'[k].status = entry[k].status
             /\ entry'[k].attached = entry[k].attached
    BY <1>3 DEF DeleteKill, TypeOK, EntryType
  <2>3. IsAlive' <=> IsAlive
    BY <2>1, <2>2 DEF IsAlive, Mapped, TypeOK
  <2>4. EntryInv'
    BY <1>1, <2>1, <2>2, <2>3
    DEF WriterInv, EntryInv, OpenIsAlive, CurrentIsUsed, StopsTheDead, Mapped, TypeOK
  <2> QED
    BY <2>1, <2>3, <2>4, RequestsSame
<1>4. CASE DeleteDrop(d)
  <2>1. UNCHANGED rq /\ cur' = NoHandle /\ ~Mapped' /\ ~IsAlive'
    BY <1>4 DEF DeleteDrop, Mapped, IsAlive
  <2>2. \A k \in Handles : entry'[k].open => k # cur /\ entry'[k] = entry[k]
    <3> SUFFICES ASSUME NEW k \in Handles, k = cur, entry'[k].open
                 PROVE  FALSE
      BY <1>4 DEF DeleteDrop
    <3>1. Mapped /\ (entry[k].open => entry[k].attached)
      BY SessionAssumption
      DEF WriterInv, EntryInv, OpenIsAlive, CurrentIsUsed, IsAlive, Mapped
    <3> QED
      BY <1>4, <3>1 DEF DeleteDrop, NoEntry, TypeOK, EntryType
  <2>3. EntryInv'
    BY <1>1, <2>1, <2>2
    DEF WriterInv, EntryInv, OpenIsAlive, CurrentIsUsed, StopsTheDead
  <2> QED
    BY <2>1, <2>3, SessionAssumption
    DEF WriterInv, CreatesAlone, ProbesApart
<1> QED
  BY <1>2, <1>3, <1>4 DEF DeleteStep

\* The remaining steps: exits, the database, restarts and the recovery.
LEMMA OtherWrites ==
    ASSUME TypeOK, BootInv, WriterInv, OwnsLock',
           \/ \E e \in Execs : AgentEnds(e)
           \/ \E h \in Handles : Exit(h) \/ PersistExit(h)
           \/ Restart \/ Boot \/ UNCHANGED vars
    PROVE  WriterInv'
<1>1. CASE \/ \E e \in Execs : AgentEnds(e)
           \/ \E h \in Handles : PersistExit(h)
           \/ BootPersist \/ BootSettle \/ UNCHANGED vars
  BY <1>1, EntriesSame
  DEF AgentEnds, PersistExit, BootPersist, BootSettle, vars, TypeOK
<1>2. ASSUME NEW h \in Handles, Exit(h) PROVE WriterInv'
  <2>1. h = cur /\ IsAlive /\ Mapped /\ UNCHANGED <<cur, rq, sq, boot, lock>>
    BY <1>2 DEF Exit, WriterInv, EntryInv, OpenIsAlive, IsAlive
  <2>2. \A k \in Handles : k # cur => entry'[k] = entry[k]
    BY <1>2, <2>1 DEF Exit, TypeOK
  <2>3. ~entry'[cur].open /\ entry'[cur].status # "none"
    BY <1>2, <2>1 DEF Exit, IsAlive, TypeOK, EntryType
  <2>4. \A s \in Stoppers : sq[s].pc \notin Stopping
    BY <1>2, <2>1 DEF Exit, WriterInv, EntryInv, StopsTheDead
  <2>5. EntryInv'
    BY <2>1, <2>2, <2>3, <2>4
    DEF WriterInv, EntryInv, OpenIsAlive, CurrentIsUsed, StopsTheDead
  <2> QED
    BY <2>1, <2>5, RequestsSame
<1>3. CASE Restart
  <2>1. /\ \A h \in Handles : ~entry'[h].open
        /\ \A r \in Resumers : rq'[r].pc = "idle"
        /\ \A s \in Stoppers : sq'[s].pc = "idle"
        /\ ~Mapped'
    BY <1>3 DEF Restart, NoEntry, IdleReq, IdleOp, Mapped
  <2> QED
    BY <2>1
    DEF WriterInv, EntryInv, OpenIsAlive, CurrentIsUsed, StopsTheDead, Stopping,
        CreatesAlone, Creating, ProbesApart
<1>4. CASE BootAttach \/ BootUnheard \/ BootCreate
  <2>1. /\ UNCHANGED <<rq, sq>> /\ ~Mapped /\ ~IsAlive
        /\ \A r \in Resumers : rq[r].pc = "idle"
    BY <1>4 DEF BootAttach, BootUnheard, BootCreate, BootInv, Booting, IsAlive
  <2>2. CreatesAlone' /\ ProbesApart'
    BY <2>1 DEF CreatesAlone, Creating, ProbesApart
  <2>3. CASE BootAttach
    <3>1. \A k \in Handles : \/ entry'[k] = entry[k]
                             \/ k # cur /\ entry'[k].status = "none"
      BY <2>3 DEF BootAttach, Free, NoEntry, TypeOK
    <3> QED
      BY <2>1, <2>2, <2>3, <3>1, OtherSlots DEF BootAttach, WriterInv
  <2>4. CASE BootUnheard
    <3>0. boot.pc = "attached"
      BY <2>4 DEF BootUnheard
    <3>1. \A k \in Handles : \/ entry'[k] = entry[k]
                             \/ k # cur /\ entry'[k].status = "none"
      <4>1. entry[boot.h].status = "none" /\ cur = NoHandle
        BY <2>1, <3>0 DEF BootInv, Booting, Mapped
      <4>2. \A k \in Handles : \/ entry'[k] = entry[k]
                               \/ k = boot.h /\ entry'[k].status = entry[k].status
        BY <2>4 DEF BootUnheard, TypeOK, EntryType
      <4> QED
        BY <4>1, <4>2, SessionAssumption
    <3> QED
      BY <2>1, <2>2, <2>4, <3>1, OtherSlots DEF BootUnheard, WriterInv
  <2>5. CASE BootCreate
    <3> DEFINE s == [Started(entry[boot.h].exec) EXCEPT !.open = entry[boot.h].open,
                                               !.unheard = entry[boot.h].unheard]
    <3>1. CreateSession(boot.h, s) /\ boot.h \in Handles \cup {NoHandle}
      BY <2>5 DEF BootCreate, TypeOK
    <3>2. s.status = "running" /\ s.attached
      BY DEF Started
    <3> HIDE DEF s
    <3>3. EntryInv'
      BY <2>1, <3>1, <3>2, CreateSessionWrites DEF WriterInv
    <3> QED
      BY <2>2, <3>3 DEF WriterInv
  <2> QED
    BY <1>4, <2>3, <2>4, <2>5
<1> QED
  BY <1>1, <1>2, <1>3, <1>4 DEF Boot

\* DurableSessions.md Q4: the transcript has a single writer, as long as no resume
\* outlives its lock, stops do not overlap and nothing is stopped while it is
\* deleted.  The pkill may fail, streams may be lost and hibernation may throw:
\* the second stream never comes about, whatever runs inside the VM.
THEOREM OneWriter ==
    ASSUME "lockExpiry" \notin Faults, OneStopOrDeletes
    PROVE  Spec => []SingleWriter
<1>1. Init => WriterInv
  BY SessionAssumption
  DEF Init, WriterInv, OwnsLock, Critical, EntryInv, OpenIsAlive, CurrentIsUsed,
      StopsTheDead, Stopping, CreatesAlone, Creating, ProbesApart,
      IsAlive, Mapped, Started, NoEntry, IdleReq, IdleOp
<1>2. TypeOK /\ BootInv /\ WriterInv /\ [Next]_vars => WriterInv'
  <2> SUFFICES ASSUME TypeOK, BootInv, WriterInv, [Next]_vars PROVE WriterInv'
    OBVIOUS
  <2>1. OwnsLock'
    BY NextOwnsLock DEF WriterInv
  <2>2. ~LockExpire
    BY DEF LockExpire
  <2> QED
    BY <2>1, <2>2, ResumeWrites, StopWrites, DeleteWrites, OtherWrites DEF Next
<1>3. WriterInv => SingleWriter
  BY DEF WriterInv, EntryInv, OpenIsAlive, SingleWriter, Writers
<1> QED
  BY <1>1, <1>2, <1>3, TypeCorrect, BootCorrect, PTL DEF Spec

=============================================================================
