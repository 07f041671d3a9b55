-------------------------- MODULE SessionLifecycle --------------------------
(***************************************************************************)
(* One durable agent session of the control plane, hosted on the BoxLite   *)
(* provider: its database row, its SessionManager entries, the agent       *)
(* executions inside the sandbox VM and the streams that carry their       *)
(* output, under concurrent resume, stop, sweep and delete requests, agent *)
(* exits, sandbox failures and control-plane restarts.                     *)
(*                                                                         *)
(* Node runs one callback at a time, so an action is the code between two  *)
(* awaits.  A database write is the step at which Postgres commits it: the *)
(* pool (db/index.js) lets two unrelated writes commit in either order.    *)
(*                                                                         *)
(* A session object and the stream handle it was created with live in one  *)
(* slot, named by the handle; a slot nothing can reach any more is free    *)
(* again.  Sessions are recoverable L2 agents with a state directory       *)
(* (isSessionRecoverable), in a project that has no other session.         *)
(***************************************************************************)
EXTENDS Integers

CONSTANTS
    Resumers,        \* resume requests that can be in flight at once
    Stoppers,        \* stop requests and idle sweeps in flight at once
    Deleters,        \* delete requests in flight at once
    NoOne,           \* nobody owns the resume lock
    Handles,         \* slots for a session object and its handle
    NoHandle,        \* the sessions Map has no entry
    MaxExecs,        \* bound: agent executions ever spawned
    MaxRestarts,     \* bound: control-plane restarts
    CrashThreshold,  \* CRASH_THRESHOLD of resumeSession.js
    Faults           \* which failures the environment may inject

FaultKinds == {"lockExpiry", "killFails", "hibernateFails", "streamLost"}

ASSUME SessionAssumption ==
    /\ NoOne \notin Resumers
    /\ NoHandle \notin Handles
    /\ MaxExecs \in Nat \ {0}
    /\ MaxRestarts \in Nat
    /\ CrashThreshold \in Nat \ {0}
    /\ Faults \subseteq FaultKinds

VARIABLES
    row,        \* the sessions row: status and stream_ref (an execution)
    live,       \* the agent executions that run inside the VM
    spawned,    \* how many executions were ever spawned
    vm,         \* is the sandbox VM running
    entry,      \* session objects with their BoxLiteStreamHandle; unheard
                \* records that the end of the stream called no listener of a
                \* session that goes on
    cur,        \* the slot the sessions Map holds for this id
    crashes,    \* crashCount, which createSession hands from entry to entry
    exitLogged, \* the transcript holds an exit frame (reattachCursor is null)
    exitWrite,  \* exit statuses asked for by onExit and not yet committed
    lock,       \* owner of the promise in inFlightResumes
    rq, sq, dq, \* resume, stop and delete requests
    boot        \* start-up recovery: the stream it has attached, and the
                \* number of restarts

vars == <<row, live, spawned, vm, entry, cur, crashes, exitLogged, exitWrite,
          lock, rq, sq, dq, boot>>

Execs    == 1..MaxExecs
NoRef    == 0
Refs     == Execs \cup {NoRef}
Statuses == {"running", "idle", "exited"}

NoEntry == [exec |-> NoRef, open |-> FALSE, status |-> "none", hib |-> FALSE,
            attached |-> FALSE, listening |-> FALSE, unheard |-> FALSE]
IdleReq == [pc |-> "idle", status |-> "idle", ref |-> NoRef, on |-> NoOne,
            h |-> NoHandle]
IdleOp  == [pc |-> "idle", ref |-> NoRef, h |-> NoHandle]

EntryType == [exec : Refs, open : BOOLEAN, status : Statuses \cup {"none"},
              hib : BOOLEAN, attached : BOOLEAN, listening : BOOLEAN,
              unheard : BOOLEAN]
ReqType == [pc : {"idle", "enter", "joined", "runtime", "attach", "probe",
                  "pkill", "spawn", "open", "restore", "keep", "persist"},
            status : Statuses, ref : Refs, on : Resumers \cup {NoOne},
            h : Handles \cup {NoHandle}]
OpType == [pc : {"idle", "decide", "listed", "waitExit", "hibernate", "persist",
                 "complete", "detached", "detHibernate", "detPersist"},
           ref : Refs, h : Handles \cup {NoHandle}]

TypeOK ==
    /\ row \in [status : Statuses, ref : Refs]
    /\ live \in SUBSET Execs
    /\ spawned \in 0..MaxExecs
    /\ vm \in BOOLEAN
    /\ entry \in [Handles -> EntryType]
    /\ cur \in Handles \cup {NoHandle}
    /\ crashes \in 0..CrashThreshold
    /\ exitLogged \in BOOLEAN
    /\ exitWrite \in [Handles -> {"none", "idle", "exited"}]
    /\ lock \in Resumers \cup {NoOne}
    /\ rq \in [Resumers -> ReqType]
    /\ sq \in [Stoppers -> OpType]
    /\ dq \in [Deleters -> {"idle", "kill", "killEnded", "wait", "drop",
                            "destroy"}]
    /\ boot \in [pc : {"up", "recover", "attached", "persist"},
                restarts : 0..MaxRestarts, h : Handles \cup {NoHandle}]

(***************************************************************************)
(* A session whose agent has been started by session/start.                *)
(***************************************************************************)
Started(e) == [exec |-> e, open |-> TRUE, status |-> "running", hib |-> FALSE,
               attached |-> TRUE, listening |-> TRUE, unheard |-> FALSE]

Init ==
    /\ row = [status |-> "running", ref |-> 1]
    /\ live = {1}
    /\ spawned = 1
    /\ vm = TRUE
    /\ cur \in Handles
    /\ entry = [h \in Handles |-> IF h = cur THEN Started(1) ELSE NoEntry]
    /\ crashes = 0
    /\ exitLogged = FALSE
    /\ exitWrite = [h \in Handles |-> "none"]
    /\ lock = NoOne
    /\ rq = [r \in Resumers |-> IdleReq]
    /\ sq = [s \in Stoppers |-> IdleOp]
    /\ dq = [d \in Deleters |-> "idle"]
    /\ boot = [pc |-> "up", restarts |-> 0, h |-> NoHandle]

(***************************************************************************)
(* Helpers.                                                                *)
(***************************************************************************)
Mapped  == cur # NoHandle
\* (Mutant: the database row is trusted in place of the status in memory.)
AliveByRow == Mapped /\ row.status = "running" /\ entry[cur].attached
IsAlive == Mapped /\ entry[cur].status = "running" /\ entry[cur].attached

\* A sweep holds the session objects it has listed and not looked at yet.
Listed(h) == \E s \in Stoppers : sq[s].pc = "listed" /\ sq[s].h = h

Free(h) == h # cur /\ ~entry[h].open /\ exitWrite[h] = "none" /\ ~Listed(h)

\* (Mutant: the pkill finds no process, or is skipped.)
KillNothing == UNCHANGED live

\* Kill by process name inside the VM: best effort, its errors are swallowed.
KillAgents == live' = {} \/ ("killFails" \in Faults /\ UNCHANGED live)

\* Stopping or destroying the VM takes every process down with it.
StopVM == vm' = FALSE /\ live' = {}

\* (Mutant: the requests that joined the promise are forgotten.)
SettleAlone(r) ==
    /\ rq' = [rq EXCEPT ![r] = IdleReq]
    /\ lock' = IF lock = r THEN NoOne ELSE lock

\* A promise of withResumeLock settles: its joiners settle with it, and the
\* lock is dropped only if it is still this promise.
Settle(r) ==
    /\ rq' = [q \in Resumers |->
                IF q = r \/ (rq[q].pc = "joined" /\ rq[q].on = r)
                THEN IdleReq ELSE rq[q]]
    /\ lock' = IF lock = r THEN NoOne ELSE lock

\* createSession and registerSessionLifecycle, one synchronous turn: handle h
\* becomes session s.  The entry it replaces is made inert and loses its
\* listeners; its handle is not killed.
CreateSession(h, s) ==
    /\ entry' = [k \in Handles |->
         IF k = h THEN s
         ELSE IF k # cur THEN entry[k]
         ELSE IF entry[k].open
         THEN [entry[k] EXCEPT !.status = "exited", !.hib = TRUE,
                               !.listening = FALSE]
         ELSE NoEntry]
    /\ cur' = h

(***************************************************************************)
(* Resume: POST /sessions/:id/resume, and the wake of a terminal attach.   *)
(***************************************************************************)
\* The request reads the row, and then builds the resume context over several
\* awaits.
ResumeRequest(r) ==
    /\ boot.pc = "up"
    /\ rq[r].pc = "idle"
    /\ rq' = [rq EXCEPT ![r] = [IdleReq EXCEPT !.pc = "enter",
                                  !.status = row.status, !.ref = row.ref]]
    /\ UNCHANGED <<row, live, spawned, vm, entry, cur, crashes, exitLogged,
                   exitWrite, lock, sq, dq, boot>>

\* A live session needs no resume (the handler and the body of the lock both
\* look); otherwise the request joins the promise in flight or owns a new one.
ResumeEnter(r) ==
    /\ rq[r].pc = "enter"
    /\ \/ /\ IsAlive
          /\ rq' = [rq EXCEPT ![r] = IdleReq]
          /\ UNCHANGED lock
       \/ /\ lock # NoOne
          /\ rq' = [rq EXCEPT ![r] = [IdleReq EXCEPT !.pc = "joined",
                                                     !.on = lock]]
          /\ UNCHANGED lock
       \/ /\ lock = NoOne /\ ~IsAlive
          /\ lock' = r
          /\ rq' = [rq EXCEPT ![r].pc = "runtime"]
    /\ UNCHANGED <<row, live, spawned, vm, entry, cur, crashes, exitLogged,
                   exitWrite, sq, dq, boot>>

\* The 30 s timer of withResumeLock forgets a promise that is still running.
LockExpire ==
    /\ "lockExpiry" \in Faults
    /\ lock # NoOne
    /\ lock' = NoOne
    /\ UNCHANGED <<row, live, spawned, vm, entry, cur, crashes, exitLogged,
                   exitWrite, rq, sq, dq, boot>>

\* ensureProjectRuntime brings the VM up.
ResumeRuntime(r) ==
    /\ rq[r].pc = "runtime"
    /\ vm' = TRUE
    /\ rq' = [rq EXCEPT ![r].pc = "attach"]
    /\ UNCHANGED <<row, live, spawned, entry, cur, crashes, exitLogged,
                   exitWrite, lock, sq, dq, boot>>

\* The runtime cannot be provisioned, the state directory is missing or a
\* configuration step throws: nothing is written.
ResumeRejected(r) ==
    /\ rq[r].pc \in {"runtime", "attach"}
    /\ Settle(r)
    /\ UNCHANGED <<row, live, spawned, vm, entry, cur, crashes, exitLogged,
                   exitWrite, sq, dq, boot>>

\* attachSession opens a new stream onto the execution the row named when the
\* request read it; the transcript must hold no exit frame.
ResumeAttach(r) ==
    /\ rq[r].pc = "attach"
    /\ rq[r].ref \in live
    /\ ~exitLogged
    /\ \E h \in Handles :
         /\ Free(h)
         /\ entry' = [entry EXCEPT ![h] = [NoEntry EXCEPT !.exec = rq[r].ref,
                                                          !.open = TRUE]]
         /\ rq' = [rq EXCEPT ![r] = [@ EXCEPT !.pc = "probe", !.h = h]]
    /\ UNCHANGED <<row, live, spawned, vm, cur, crashes, exitLogged, exitWrite,
                   lock, sq, dq, boot>>

\* No stream reference, no cursor, the attach fails, or it reaches an
\* execution that has ended.
ResumeNoAttach(r) ==
    /\ rq[r].pc = "attach"
    /\ rq' = [rq EXCEPT ![r] = [@ EXCEPT !.pc = "pkill", !.ref = NoRef]]
    /\ UNCHANGED <<row, live, spawned, vm, entry, cur, crashes, exitLogged,
                   exitWrite, lock, sq, dq, boot>>

\* The 800 ms wait passed without an exit: the stream becomes the session.
ResumeAdopt(r) ==
    /\ rq[r].pc = "probe"
    /\ CreateSession(rq[r].h, Started(entry[rq[r].h].exec))
    /\ rq' = [rq EXCEPT ![r] = [@ EXCEPT !.pc = "keep", !.h = NoHandle]]
    /\ UNCHANGED <<row, live, spawned, vm, crashes, exitLogged, exitWrite, lock,
                   sq, dq, boot>>

\* The execution ended during the wait: the new stream is closed.
ResumeProbeDead(r) ==
    /\ rq[r].pc = "probe"
    /\ entry[rq[r].h].exec \notin live
    /\ entry' = [entry EXCEPT ![rq[r].h] = NoEntry]
    /\ rq' = [rq EXCEPT ![r] = [@ EXCEPT !.pc = "pkill", !.ref = NoRef,
                                        !.h = NoHandle]]
    /\ UNCHANGED <<row, live, spawned, vm, cur, crashes, exitLogged, exitWrite,
                   lock, sq, dq, boot>>

\* pkill of a lingering agent inside the VM.
ResumePkill(r) ==
    /\ rq[r].pc = "pkill"
    /\ KillAgents
    /\ rq' = [rq EXCEPT ![r].pc = "spawn"]
    /\ UNCHANGED <<row, spawned, vm, entry, cur, crashes, exitLogged, exitWrite,
                   lock, sq, dq, boot>>

\* exec.spawn has the VM start an execution, and then opens a stream onto it.
ResumeSpawn(r) ==
    /\ rq[r].pc = "spawn"
    /\ vm
    /\ spawned < MaxExecs
    /\ spawned' = spawned + 1
    /\ live' = live \cup {spawned'}
    /\ rq' = [rq EXCEPT ![r] = [@ EXCEPT !.pc = "open", !.ref = spawned']]
    /\ UNCHANGED <<row, vm, entry, cur, crashes, exitLogged, exitWrite, lock,
                   sq, dq, boot>>

\* The stream is open and becomes the session at once.
ResumeOpen(r) ==
    /\ rq[r].pc = "open"
    /\ vm
    /\ \E h \in Handles : Free(h) /\ CreateSession(h, Started(rq[r].ref))
    /\ rq' = [rq EXCEPT ![r].pc = "persist"]
    /\ UNCHANGED <<row, live, spawned, vm, crashes, exitLogged, exitWrite, lock,
                   sq, dq, boot>>

\* The spawn throws: no execution was started, or its stream does not open and
\* the execution is left to itself.
ResumeSpawnFails(r) ==
    /\ rq[r].pc \in {"spawn", "open"}
    /\ rq' = [rq EXCEPT ![r].pc = "restore"]
    /\ UNCHANGED <<row, live, spawned, vm, entry, cur, crashes, exitLogged,
                   exitWrite, lock, sq, dq, boot>>

\* The catch block writes back the status the request once read.
ResumeRestore(r) ==
    /\ rq[r].pc = "restore"
    /\ row' = [row EXCEPT !.status = rq[r].status]
    /\ Settle(r)
    /\ UNCHANGED <<live, spawned, vm, entry, cur, crashes, exitLogged,
                   exitWrite, sq, dq, boot>>

\* status 'running' after a reattach; stream_ref is left alone.
ResumeKeep(r) ==
    /\ rq[r].pc = "keep"
    /\ row' = [row EXCEPT !.status = "running"]
    /\ Settle(r)
    /\ UNCHANGED <<live, spawned, vm, entry, cur, crashes, exitLogged,
                   exitWrite, sq, dq, boot>>

\* status 'running' and the new stream_ref after a spawn.
ResumePersist(r) ==
    /\ rq[r].pc = "persist"
    /\ row' = [status |-> "running", ref |-> rq[r].ref]
    /\ Settle(r)
    /\ UNCHANGED <<live, spawned, vm, entry, cur, crashes, exitLogged,
                   exitWrite, sq, dq, boot>>

ResumeStep(r) ==
    \/ ResumeEnter(r) \/ ResumeRuntime(r) \/ ResumeRejected(r)
    \/ ResumeAttach(r) \/ ResumeNoAttach(r) \/ ResumeAdopt(r)
    \/ ResumeProbeDead(r) \/ ResumePkill(r) \/ ResumeSpawn(r) \/ ResumeOpen(r)
    \/ ResumeSpawnFails(r) \/ ResumeRestore(r) \/ ResumeKeep(r)
    \/ ResumePersist(r)

(***************************************************************************)
(* Exits.                                                                  *)
(***************************************************************************)
\* An agent ends on its own, by a crash or because its user left it.
AgentEnds(e) ==
    /\ e \in live
    /\ live' = live \ {e}
    /\ UNCHANGED <<row, spawned, vm, entry, cur, crashes, exitLogged, exitWrite,
                   lock, rq, sq, dq, boot>>

\* The lifecycle listener of registerSessionLifecycle, called by the exit of
\* handle h: it looks the session up by id, counts a crash if the agent ran for
\* less than 30 s, and asks for 'exited' once the circuit breaker trips.
Lifecycle(h) ==
    IF ~Mapped \/ entry[cur].hib
    THEN /\ exitWrite' = [exitWrite EXCEPT ![h] = "exited"]
         /\ UNCHANGED crashes
    ELSE /\ \/ crashes' = 0
            \/ crashes' = IF crashes < CrashThreshold THEN crashes + 1
                          ELSE CrashThreshold
         /\ exitWrite' = [exitWrite EXCEPT ![h] =
                            IF crashes' >= CrashThreshold THEN "exited"
                            ELSE "idle"]

\* (Mutant: the exit callback finds the session by id.)
ExitById(h) ==
    /\ entry[h].open /\ entry[h].status # "none"
    /\ entry[h].exec \notin live
    /\ entry' = [k \in Handles |->
         IF k = cur THEN [entry[k] EXCEPT !.status = "exited"]
         ELSE IF k = h THEN NoEntry ELSE entry[k]]
    /\ exitLogged' = TRUE
    /\ UNCHANGED <<row, live, spawned, vm, cur, crashes, exitWrite, lock, rq, sq,
                   dq, boot>>

\* (Mutant: the exit is recorded in the transcript only.)
ExitOnlyLogged(h) ==
    /\ entry[h].open /\ entry[h].status # "none"
    /\ entry[h].exec \notin live
    /\ exitLogged' = TRUE
    /\ UNCHANGED <<row, live, spawned, vm, entry, cur, crashes, exitWrite, lock,
                   rq, sq, dq, boot>>

\* handle.onExit of createSession: the execution ended, or the socket was lost
\* and three attempts to attach it again failed.
Exit(h) ==
    /\ entry[h].open /\ entry[h].status # "none"
    /\ entry[h].exec \notin live \/ "streamLost" \in Faults
    /\ entry' = [entry EXCEPT ![h] =
         IF h # cur THEN NoEntry
         ELSE IF entry[h].hib THEN [@ EXCEPT !.open = FALSE, !.attached = FALSE]
         ELSE [@ EXCEPT !.open = FALSE, !.status = "exited",
                        !.listening = FALSE]]
    /\ IF entry[h].hib
       THEN UNCHANGED <<exitLogged, exitWrite, crashes>>
       ELSE /\ exitLogged' = TRUE
            /\ IF entry[h].listening THEN Lifecycle(h)
               ELSE UNCHANGED <<exitWrite, crashes>>
    /\ UNCHANGED <<row, live, spawned, vm, cur, lock, rq, sq, dq, boot>>

\* (Mutant: a status is written that nobody has asked for.)
PersistExitAlways(h) ==
    /\ row' = [row EXCEPT !.status = exitWrite[h]]
    /\ exitWrite' = [exitWrite EXCEPT ![h] = "none"]
    /\ UNCHANGED <<live, spawned, vm, entry, cur, crashes, exitLogged, lock, rq,
                   sq, dq, boot>>

\* The listener's update is not awaited: it commits at any later time.
PersistExit(h) ==
    /\ exitWrite[h] # "none"
    /\ row' = [row EXCEPT !.status = exitWrite[h]]
    /\ exitWrite' = [exitWrite EXCEPT ![h] = "none"]
    /\ UNCHANGED <<live, spawned, vm, entry, cur, crashes, exitLogged, lock, rq,
                   sq, dq, boot>>

(***************************************************************************)
(* Stop: POST /sessions/:id/stop and the idle sweep, both over stopSession.*)
(***************************************************************************)
\* Idle and exited rows are answered without stopSession.
StopRequest(s) ==
    /\ boot.pc = "up"
    /\ sq[s].pc = "idle"
    /\ row.status = "running"
    /\ sq' = [sq EXCEPT ![s] = [IdleOp EXCEPT !.pc = "decide", !.ref = row.ref]]
    /\ UNCHANGED <<row, live, spawned, vm, entry, cur, crashes, exitLogged,
                   exitWrite, lock, rq, dq, boot>>

\* (Mutant: the handle is killed without beginHibernate.)
StopWithoutFlag(s, ref) ==
    /\ entry' = IF IsAlive THEN [entry EXCEPT ![cur].open = FALSE] ELSE entry
    /\ sq' = [sq EXCEPT ![s] = [IdleOp EXCEPT !.pc = "waitExit", !.ref = ref]]

\* stopSession, until its first await.  A live session: beginHibernate and
\* handle.kill(), which closes the stream for good: its exit callbacks will
\* never run.  An idle one: nothing to do.  Otherwise the caller's copy of the
\* session, a row or an object that was listed, is all there is.
StopSession(s, ref) ==
    \/ /\ IsAlive
       /\ entry' = [entry EXCEPT ![cur].open = FALSE, ![cur].hib = TRUE]
       /\ sq' = [sq EXCEPT ![s] = [IdleOp EXCEPT !.pc = "waitExit", !.ref = ref]]
    \/ /\ Mapped /\ entry[cur].status = "idle"
       /\ sq' = [sq EXCEPT ![s] = IdleOp]
       /\ UNCHANGED entry
    \/ /\ ~IsAlive /\ ~(Mapped /\ entry[cur].status = "idle")
       /\ sq' = [sq EXCEPT ![s] = [IdleOp EXCEPT !.pc = "detached", !.ref = ref]]
       /\ UNCHANGED entry

StopDecide(s) ==
    /\ sq[s].pc = "decide"
    /\ StopSession(s, sq[s].ref)
    /\ UNCHANGED <<row, live, spawned, vm, cur, crashes, exitLogged, exitWrite,
                   lock, rq, dq, boot>>

\* sweepOnce lists the session objects of the map, and comes to this one after
\* it has hibernated others.
SweepList(s) ==
    /\ boot.pc = "up"
    /\ sq[s].pc = "idle"
    /\ Mapped
    /\ sq' = [sq EXCEPT ![s] = [IdleOp EXCEPT !.pc = "listed", !.h = cur]]
    /\ UNCHANGED <<row, live, spawned, vm, entry, cur, crashes, exitLogged,
                   exitWrite, lock, rq, dq, boot>>

\* The object looks alive, unwatched and inactive for long enough: its id is
\* stopped, whatever the map holds by now.
SweepStop(s) ==
    /\ sq[s].pc = "listed"
    /\ \E h \in Handles :
         /\ h = sq[s].h
         /\ entry[h].status = "running" /\ entry[h].attached
         /\ StopSession(s, entry[h].exec)
    /\ UNCHANGED <<row, live, spawned, vm, cur, crashes, exitLogged, exitWrite,
                   lock, rq, dq, boot>>

\* It does not, or somebody watches it, or it was active: skipped.
SweepSkip(s) ==
    /\ sq[s].pc = "listed"
    /\ sq' = [sq EXCEPT ![s] = IdleOp]
    /\ UNCHANGED <<row, live, spawned, vm, entry, cur, crashes, exitLogged,
                   exitWrite, lock, rq, dq, boot>>

\* waitForAgentExit: a script in the VM terminates the agent by name.
StopWaitExit(s) ==
    /\ sq[s].pc = "waitExit"
    /\ KillAgents
    /\ sq' = [sq EXCEPT ![s].pc = "hibernate"]
    /\ UNCHANGED <<row, spawned, vm, entry, cur, crashes, exitLogged, exitWrite,
                   lock, rq, dq, boot>>

StopHibernate(s) ==
    /\ sq[s].pc = "hibernate"
    /\ StopVM
    /\ sq' = [sq EXCEPT ![s].pc = "persist"]
    /\ UNCHANGED <<row, spawned, entry, cur, crashes, exitLogged, exitWrite,
                   lock, rq, dq, boot>>

\* The provider throws: cancelHibernate, by session id.  The handle that
\* stopSession has killed stays killed.
StopHibernateFails(s) ==
    /\ "hibernateFails" \in Faults
    /\ sq[s].pc = "hibernate"
    /\ entry' = [h \in Handles |->
                   IF h = cur THEN [entry[h] EXCEPT !.hib = FALSE,
                                      !.status = "running",
                                      !.unheard = @ \/ ~entry[h].open]
                   ELSE entry[h]]
    /\ sq' = [sq EXCEPT ![s] = IdleOp]
    /\ UNCHANGED <<row, live, spawned, vm, cur, crashes, exitLogged, exitWrite,
                   lock, rq, dq, boot>>

\* After the checkpoint: status 'idle', stream_ref of whatever entry is current.
StopPersist(s) ==
    /\ sq[s].pc = "persist"
    /\ row' = [status |-> "idle",
               ref |-> IF Mapped THEN entry[cur].exec ELSE sq[s].ref]
    /\ sq' = [sq EXCEPT ![s] = [IdleOp EXCEPT !.pc = "complete"]]
    /\ UNCHANGED <<live, spawned, vm, entry, cur, crashes, exitLogged,
                   exitWrite, lock, rq, dq, boot>>

\* completeHibernate, by session id.
StopComplete(s) ==
    /\ sq[s].pc = "complete"
    /\ entry' = [h \in Handles |->
                   IF h = cur THEN [entry[h] EXCEPT !.status = "idle",
                                      !.attached = FALSE, !.listening = FALSE]
                   ELSE entry[h]]
    /\ sq' = [sq EXCEPT ![s] = IdleOp]
    /\ UNCHANGED <<row, live, spawned, vm, cur, crashes, exitLogged, exitWrite,
                   lock, rq, dq, boot>>

\* The session was not alive: terminate what the row points at, hibernate the
\* VM (best effort) and write 'idle'.
StopDetached(s) ==
    /\ sq[s].pc = "detached"
    /\ KillAgents
    /\ sq' = [sq EXCEPT ![s].pc = "detHibernate"]
    /\ UNCHANGED <<row, spawned, vm, entry, cur, crashes, exitLogged, exitWrite,
                   lock, rq, dq, boot>>

StopDetHibernate(s) ==
    /\ sq[s].pc = "detHibernate"
    /\ StopVM \/ ("hibernateFails" \in Faults /\ UNCHANGED <<vm, live>>)
    /\ sq' = [sq EXCEPT ![s].pc = "detPersist"]
    /\ UNCHANGED <<row, spawned, entry, cur, crashes, exitLogged, exitWrite,
                   lock, rq, dq, boot>>

StopDetPersist(s) ==
    /\ sq[s].pc = "detPersist"
    /\ row' = [status |-> "idle", ref |-> sq[s].ref]
    /\ sq' = [sq EXCEPT ![s] = IdleOp]
    /\ UNCHANGED <<live, spawned, vm, entry, cur, crashes, exitLogged,
                   exitWrite, lock, rq, dq, boot>>

StopStep(s) ==
    \/ StopDecide(s) \/ SweepStop(s) \/ SweepSkip(s) \/ StopWaitExit(s)
    \/ StopHibernate(s) \/ StopHibernateFails(s) \/ StopPersist(s) \/ StopComplete(s)
    \/ StopDetached(s) \/ StopDetHibernate(s) \/ StopDetPersist(s)

(***************************************************************************)
(* DELETE /sessions/:id.                                                   *)
(***************************************************************************)
\* The row is marked exited first; an exited row without a handle has no
\* process to terminate.
DeleteRequest(d) ==
    /\ boot.pc = "up"
    /\ dq[d] = "idle"
    /\ row' = [row EXCEPT !.status = "exited"]
    /\ dq' = [dq EXCEPT ![d] = IF row.status = "exited" THEN "killEnded"
                               ELSE "kill"]
    /\ UNCHANGED <<live, spawned, vm, entry, cur, crashes, exitLogged,
                   exitWrite, lock, rq, sq, boot>>

DeleteKill(d) ==
    /\ dq[d] \in {"kill", "killEnded"}
    /\ LET handle == Mapped /\ entry[cur].attached IN
         /\ entry' = IF handle THEN [entry EXCEPT ![cur].open = FALSE] ELSE entry
         /\ dq' = [dq EXCEPT ![d] = IF handle \/ dq[d] = "kill" THEN "wait"
                                    ELSE "drop"]
    /\ UNCHANGED <<row, live, spawned, vm, cur, crashes, exitLogged, exitWrite,
                   lock, rq, sq, boot>>

DeleteWait(d) ==
    /\ dq[d] = "wait"
    /\ KillAgents
    /\ dq' = [dq EXCEPT ![d] = "drop"]
    /\ UNCHANGED <<row, spawned, vm, entry, cur, crashes, exitLogged, exitWrite,
                   lock, rq, sq, boot>>

\* (Mutant: the entry is forgotten without killing its handle.)
DropWithoutKill(d) ==
    /\ dq[d] = "drop"
    /\ cur' = NoHandle
    /\ dq' = [dq EXCEPT ![d] = "destroy"]
    /\ UNCHANGED <<row, live, spawned, vm, entry, crashes, exitLogged, exitWrite,
                   lock, rq, sq, boot>>

\* sessionManager.deleteSession: kill the handle it finds now, remove the
\* transcript, forget the entry (a sweep may still hold the object).
DeleteDrop(d) ==
    /\ dq[d] = "drop"
    /\ entry' = [h \in Handles |->
                   IF h # cur THEN entry[h]
                   ELSE IF Listed(h)
                   THEN [entry[h] EXCEPT !.open = @ /\ ~entry[h].attached]
                   ELSE IF entry[h].open /\ ~entry[h].attached THEN entry[h]
                   ELSE NoEntry]
    /\ exitLogged' = (exitLogged /\ ~Mapped)
    /\ cur' = NoHandle
    /\ crashes' = 0
    /\ dq' = [dq EXCEPT ![d] = "destroy"]
    /\ UNCHANGED <<row, live, spawned, vm, exitWrite, lock, rq, sq, boot>>

\* The project has no other session, so its VM is destroyed; a failure is
\* logged and swallowed.
DeleteDestroy(d) ==
    /\ dq[d] = "destroy"
    /\ StopVM \/ ("hibernateFails" \in Faults /\ UNCHANGED <<vm, live>>)
    /\ dq' = [dq EXCEPT ![d] = "idle"]
    /\ UNCHANGED <<row, spawned, entry, cur, crashes, exitLogged, exitWrite,
                   lock, rq, sq, boot>>

DeleteStep(d) ==
    DeleteKill(d) \/ DeleteWait(d) \/ DeleteDrop(d) \/ DeleteDestroy(d)

(***************************************************************************)
(* The control plane dies and starts again; the VM and its agents outlive  *)
(* it.  Requests, entries, streams and uncommitted writes are lost, and an *)
(* exit frame not yet flushed is lost with them.  The server listens only  *)
(* after recoverRunningSessions.                                           *)
(***************************************************************************)
Restart ==
    /\ boot.restarts < MaxRestarts
    /\ boot' = [pc |-> "recover", restarts |-> boot.restarts + 1, h |-> NoHandle]
    /\ cur' = NoHandle
    /\ entry' = [h \in Handles |-> NoEntry]
    /\ crashes' = 0
    /\ exitWrite' = [h \in Handles |-> "none"]
    /\ exitLogged' \in {exitLogged, FALSE}
    /\ lock' = NoOne
    /\ rq' = [r \in Resumers |-> IdleReq]
    /\ sq' = [s \in Stoppers |-> IdleOp]
    /\ dq' = [d \in Deleters |-> "idle"]
    /\ UNCHANGED <<row, live, spawned, vm>>

\* A running row with a reattach cursor is attached again; no wait tells whether
\* its execution has already ended.
BootAttach ==
    /\ boot.pc = "recover"
    /\ row.status = "running" /\ row.ref # NoRef /\ ~exitLogged
    /\ vm
    /\ \E h \in Handles :
         /\ Free(h)
         /\ entry' = [entry EXCEPT ![h] = [NoEntry EXCEPT !.exec = row.ref,
                                                          !.open = TRUE]]
         /\ boot' = [boot EXCEPT !.pc = "attached", !.h = h]
    /\ UNCHANGED <<row, live, spawned, vm, cur, crashes, exitLogged, exitWrite,
                   lock, rq, sq, dq>>

\* The recovery awaits the runtime's row: an exit that arrives meanwhile has no
\* callback to call.
BootUnheard ==
    /\ boot.pc = "attached"
    /\ entry[boot.h].open
    /\ entry[boot.h].exec \notin live \/ "streamLost" \in Faults
    /\ entry' = [entry EXCEPT ![boot.h].open = FALSE, ![boot.h].unheard = TRUE]
    /\ UNCHANGED <<row, live, spawned, vm, cur, crashes, exitLogged, exitWrite,
                   lock, rq, sq, dq, boot>>

\* The stream becomes the session, open or not.
BootCreate ==
    /\ boot.pc = "attached"
    /\ CreateSession(boot.h, [Started(entry[boot.h].exec) EXCEPT
                                 !.open = entry[boot.h].open,
                                 !.unheard = entry[boot.h].unheard])
    /\ boot' = [boot EXCEPT !.pc = "persist", !.h = NoHandle]
    /\ UNCHANGED <<row, live, spawned, vm, crashes, exitLogged, exitWrite, lock,
                   rq, sq, dq>>

BootPersist ==
    /\ boot.pc = "persist"
    /\ row' = [row EXCEPT !.status = "running"]
    /\ boot' = [boot EXCEPT !.pc = "up"]
    /\ UNCHANGED <<live, spawned, vm, entry, cur, crashes, exitLogged,
                   exitWrite, lock, rq, sq, dq>>

\* Nothing to recover, or no way to: settleUnrecovered writes 'idle'.
BootSettle ==
    /\ boot.pc = "recover"
    /\ row' = IF row.status = "running" THEN [row EXCEPT !.status = "idle"]
              ELSE row
    /\ boot' = [boot EXCEPT !.pc = "up"]
    /\ UNCHANGED <<live, spawned, vm, entry, cur, crashes, exitLogged,
                   exitWrite, lock, rq, sq, dq>>

Boot == BootAttach \/ BootUnheard \/ BootCreate \/ BootPersist \/ BootSettle

Next ==
    \/ \E r \in Resumers : ResumeRequest(r) \/ ResumeStep(r)
    \/ \E s \in Stoppers : StopRequest(s) \/ SweepList(s) \/ StopStep(s)
    \/ \E d \in Deleters : DeleteRequest(d) \/ DeleteStep(d)
    \/ \E e \in Execs : AgentEnds(e)
    \/ \E h \in Handles : Exit(h) \/ PersistExit(h)
    \/ LockExpire \/ Restart \/ Boot

Spec == Init /\ [][Next]_vars

\* The event loop runs every callback that is due: an operation in flight takes
\* its next step, the exit of an ended execution is delivered, an issued write
\* commits.  Requests, crashes and faults are never promised.
Fairness ==
    /\ \A r \in Resumers : WF_vars(ResumeStep(r))
    /\ \A s \in Stoppers : WF_vars(StopStep(s))
    /\ \A d \in Deleters : WF_vars(DeleteStep(d))
    /\ \A h \in Handles : WF_vars(Exit(h)) /\ WF_vars(PersistExit(h))
    /\ WF_vars(Boot)

FairSpec == Spec /\ Fairness

(***************************************************************************)
(* Properties.                                                             *)
(***************************************************************************)
\* docs/DurableSessions.md 12.4: the lock of withResumeLock lets two attaches
\* launch one agent only.  At most one agent process of the session runs.
SingleAgent == \A e, f \in live : e = f

\* DurableSessions.md Q4: the transcript has a single writer.  At most one
\* stream that a session entry listens to is open on a running agent.
Writers == {h \in Handles : /\ entry[h].open /\ entry[h].status # "none"
                            /\ entry[h].exec \in live}
SingleWriter == \A g, h \in Writers : g = h

\* createSession detaches the entry it replaces, deleteSession kills the one it
\* forgets: as long as its stream is open, only the current entry's lifecycle
\* listener can still be called.
ReplacedInert == \A h \in Handles : entry[h].listening /\ entry[h].open => h = cur

\* The exit of a stream changes the current session, or asks for a new status
\* of the row, only if the stream is the current session's own.
ExitOwnSession ==
    [][\A h \in Handles : Exit(h) /\ cur # h =>
          /\ UNCHANGED exitWrite
          /\ Mapped => entry'[cur] = entry[cur]]_vars

\* The strengthening that makes SingleAgent inductive: the steps from the
\* runtime to the last write belong to the owner of the lock, and between its
\* pkill and its spawn no agent runs.
Critical == {"runtime", "attach", "probe", "pkill", "spawn", "open", "restore",
             "keep", "persist"}
OwnsLock    == \A r \in Resumers : rq[r].pc \in Critical => lock = r
SpawnsAlone == \A r \in Resumers : rq[r].pc = "spawn" => live = {}
AgentInv    == OwnsLock /\ SpawnsAlone /\ SingleAgent

\* And ReplacedInert: a listening entry whose stream is open has its handle.
InertInv == ReplacedInert /\ \A h \in Handles :
                entry[h].listening /\ entry[h].open => entry[h].attached

\* isAlive is not a lie: outside a stop or a delete, a session reported alive
\* has an open stream, through which its exit will be heard.  Two exceptions, by
\* the code's own doing: recoverRunningSessions.js:93 creates a session on a
\* stream whose exit came while the query of line 90 was awaited, when nobody
\* listened yet; and cancelHibernate makes a session alive again whose handle
\* stopSession has killed.
NoZombie ==
    IsAlive /\ ~entry[cur].hib /\ ~entry[cur].unheard
    /\ (\A d \in Deleters : dq[d] = "idle")
        => entry[cur].open

\* docs/LlmProxy.md 5: the token of a session is good while the row says
\* 'running', and a delete revokes it with 'exited'.  Only a resume that was asked
\* for when the row said 'exited' makes the token good again.
RevocationSticks ==
    [][row.status = "exited" /\ row'.status = "running" =>
          \E r \in Resumers : rq[r].pc \in {"keep", "persist"}
                              /\ rq[r].status = "exited"]_vars

\* Every resume request is answered, also one that joined another's promise.
ResumeAnswered == \A r \in Resumers : []<>(rq[r].pc = "idle")

\* The death of an agent does not go unheard: the session manager never ends up
\* reporting a session alive for good whose agent is gone, the two exceptions of
\* NoZombie apart.
DeathNoticed ==
    []<>(IsAlive /\ ~entry[cur].unheard => entry[cur].exec \in live)
=============================================================================
