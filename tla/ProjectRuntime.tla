---------------------------- MODULE ProjectRuntime ----------------------------
(***************************************************************************)
(* The sandbox VM that the sessions of a project share, on the BoxLite     *)
(* provider: POST /session/start, which answers at once and provisions the *)
(* VM and the agent afterwards; RuntimeService's single flight around      *)
(* BoxLiteRuntimeProvider.ensureReady; and DELETE /sessions/:id, which     *)
(* destroys the VM when no other session uses it.                          *)
(*                                                                         *)
(* An action is the code between two awaits; a database write is the step  *)
(* at which it commits.  The sessions run one agent, from one image, which *)
(* cannot be resumed (level L0): what becomes of those that can is         *)
(* SessionLifecycle's.  The project names its default runtime from the     *)
(* start, so that its provisionings share one flight; nothing else of it   *)
(* (git, files) is under way before its VM is ready.  The VM may stop by   *)
(* itself.                                                                 *)
(***************************************************************************)
EXTENDS Naturals

CONSTANTS
    Sessions,   \* the sessions of the project
    MaxFaults   \* how many failures the environment may inject

ASSUME RuntimeAssumption == MaxFaults \in Nat

VARIABLES
    row,        \* status of the sessions row
    claim,      \* the sessions whose row has its runtime_id
    recorded,   \* do the specs of the runtimes row name the image and the mount
    vm,         \* the VM of that name
    agents,     \* the sessions whose agent runs in it
    flight,     \* the promise in the singleflight Map: provisioning
    start,      \* the requests of session/start, by session
    stream,     \* the BoxLiteStreamHandle of a session
    entries,    \* the sessions Map
    exitWrite,  \* sessions whose exit status is not yet committed
    del,        \* the delete requests, by session
    faults      \* failures so far

vars == <<row, claim, recorded, vm, agents, flight, start, stream, entries,
          exitWrite, del, faults>>

StartSteps  == {"none", "config", "unsaved", "waiting", "check", "claim", "spawn",
                "retry", "rewaiting", "respawn", "guard", "create", "persist",
                "discard", "fail", "started", "over"}
FlightSteps == {"none", "row", "recreate", "open", "revive", "reopen", "init",
                "record"}
DeleteSteps == {"none", "mark", "kill", "wait", "drop", "siblings", "destroy",
                "done", "failed"}

\* Requests that wait for the flight.
Waits == {"waiting", "rewaiting"}

\* Rows the sibling query leaves out.
Terminal == {"exited", "failed"}

\* A flight: the VM is to be recreated, the probe has failed once, the VM is deleted
\* without its status having been read.
Flights  == [pc : FlightSteps, must : BOOLEAN, probed : BOOLEAN, blind : BOOLEAN]
NoFlight == [pc |-> "none", must |-> FALSE, probed |-> FALSE, blind |-> FALSE]
NoDelete == [pc |-> "none", claim |-> FALSE, detached |-> FALSE, full |-> FALSE]

TypeOK ==
    /\ row \in [Sessions -> {"none", "pending", "running"} \cup Terminal]
    /\ claim \in SUBSET Sessions
    /\ recorded \in BOOLEAN
    /\ vm \in {"none", "running", "stopped"}
    /\ agents \in SUBSET Sessions
    /\ flight \in Flights
    /\ start \in [Sessions -> StartSteps]
    /\ stream \in [Sessions -> {"none", "open", "ended"}]
    /\ entries \in SUBSET Sessions
    /\ exitWrite \in SUBSET Sessions
    /\ del \in [Sessions -> [pc : DeleteSteps, claim : BOOLEAN, detached : BOOLEAN,
                             full : BOOLEAN]]
    /\ faults \in 0 .. MaxFaults
    /\ (flight.pc # "none") <=> \E s \in Sessions : start[s] \in Waits

Init ==
    /\ row = [s \in Sessions |-> "none"]
    /\ claim = {}
    /\ recorded = FALSE
    /\ vm = "none"
    /\ agents = {}
    /\ flight = NoFlight
    /\ start = [s \in Sessions |-> "none"]
    /\ stream = [s \in Sessions |-> "none"]
    /\ entries = {}
    /\ exitWrite = {}
    /\ del = [s \in Sessions |-> NoDelete]
    /\ faults = 0

sessionVars == <<row, claim>>
streamVars  == <<stream, entries, exitWrite>>
vmVars      == <<vm, agents>>

\* A failure of the environment.
Fault == faults < MaxFaults /\ faults' = faults + 1

Goes(s, pc) == start' = [start EXCEPT ![s] = pc]
DeleteGoes(s, pc) == del' = [del EXCEPT ![s].pc = pc]

\* client.deleteSession: the VM goes and all that runs in it, or the call fails.
VmGoes == vm' = "none" /\ agents' = {}
VmStays == Fault /\ UNCHANGED vmVars
DeleteVM == (VmGoes /\ UNCHANGED faults) \/ VmStays

(***************************************************************************)
(* Provisioning: ensureProjectRuntime with an agentId.                     *)
(***************************************************************************)
\* singleflight: the first call starts the flight, the others wait for it.
Join == flight' = IF flight.pc = "none" THEN [flight EXCEPT !.pc = "row"] ELSE flight

\* The promise of the flight settles, and all that wait for it go on.
\* (Mutant: only those that wait for the first time.)
SettleFirsts(ok) ==
    /\ start' = [s \in Sessions |-> IF start[s] # "waiting" THEN start[s]
                                   ELSE IF ok THEN "check" ELSE "fail"]
    /\ flight' = NoFlight
Settle(ok) ==
    /\ start' = [s \in Sessions |->
         IF start[s] \notin Waits THEN start[s]
         ELSE IF ~ok THEN "fail"
         ELSE IF start[s] = "waiting" THEN "check" ELSE "respawn"]
    /\ flight' = NoFlight

\* needRecreate: every call here has an agentId, so forceRecreate adds nothing.
\* (Mutant: forceRecreate recreates the VM, also one whose image is right.)
RecreateForced == ~recorded \/ \E s \in Sessions : start[s] = "rewaiting"
NeedRecreate == ~recorded

\* The specs, as the row holds them now.
FlightRow ==
    /\ flight.pc = "row"
    /\ flight' = [flight EXCEPT !.pc = IF NeedRecreate THEN "recreate" ELSE "open",
                                !.must = NeedRecreate]
    /\ UNCHANGED <<sessionVars, recorded, vmVars, start, streamVars, del, faults>>

FlightRecreate ==
    /\ flight.pc = "recreate"
    /\ DeleteVM
    /\ flight' = [flight EXCEPT !.pc = "open"]
    /\ UNCHANGED <<sessionVars, recorded, start, streamVars, del>>

\* openSession creates the VM.  One that is there is reused if it runs and was not
\* to be recreated; else, also if its status cannot be read, it is deleted and
\* created again (the error 'still exists after delete' is thrown where the failures
\* of the status check are swallowed).  After a 'mkdir memory' error a VM that runs is
\* reused in any case.  An error that passes is tried again, which changes nothing
\* here, and after the fourth time the VM is deleted and created, whatever it does.
FlightOpen ==
    /\ flight.pc = "open"
    /\ \/ /\ vm = "none" /\ vm' = "running"
          /\ flight' = [flight EXCEPT !.pc = "init"]
          /\ UNCHANGED faults
       \/ /\ vm = "running" /\ ~flight.must
          /\ flight' = [flight EXCEPT !.pc = "record"]
          /\ UNCHANGED <<vm, faults>>
       \/ /\ vm = "stopped" \/ (vm = "running" /\ flight.must)
          /\ flight' = [flight EXCEPT !.pc = "revive"]
          /\ UNCHANGED <<vm, faults>>
       \/ /\ vm = "running" /\ Fault
          /\ flight' = [flight EXCEPT !.pc = "record"]
          /\ UNCHANGED vm
       \/ /\ Fault
          /\ flight' = [flight EXCEPT !.pc = "revive", !.blind = TRUE]
          /\ UNCHANGED vm
    /\ UNCHANGED <<sessionVars, recorded, agents, start, streamVars, del>>

FlightRevive ==
    /\ flight.pc = "revive"
    /\ DeleteVM
    /\ flight' = [flight EXCEPT !.pc = "reopen", !.blind = FALSE]
    /\ UNCHANGED <<sessionVars, recorded, start, streamVars, del>>

\* The second openSession succeeds, or the VM is still there and the call throws.
FlightReopen ==
    /\ flight.pc = "reopen"
    /\ IF vm = "none"
         THEN /\ vm' = "running"
              /\ flight' = [flight EXCEPT !.pc = "init"]
              /\ UNCHANGED start
         ELSE Settle(FALSE) /\ UNCHANGED vm
    /\ UNCHANGED <<sessionVars, recorded, agents, streamVars, del, faults>>

\* _initFreshSessionExecs: the workspace directory, the probe of the agent command.
FlightInit ==
    /\ flight.pc = "init"
    /\ flight' = [flight EXCEPT !.pc = "record"]
    /\ UNCHANGED <<sessionVars, recorded, vmVars, start, streamVars, del, faults>>

\* The first probe that fails has the fresh VM deleted and opened once more.
FlightProbeFails ==
    /\ flight.pc = "init" /\ ~flight.probed
    /\ Fault
    /\ VmGoes
    /\ flight' = [flight EXCEPT !.pc = "open", !.probed = TRUE]
    /\ UNCHANGED <<sessionVars, recorded, start, streamVars, del>>

\* ensureReady throws: the VM, if there is one, stays.
FlightFails ==
    /\ flight.pc \in {"open", "reopen", "init"}
    /\ Fault
    /\ Settle(FALSE)
    /\ UNCHANGED <<sessionVars, recorded, vmVars, streamVars, del>>

\* The runtimes row gets its specs.
\* (Mutant: it is left as it was.)
RecordNothing == UNCHANGED recorded
Record == recorded' = TRUE

FlightRecord ==
    /\ flight.pc = "record"
    /\ Record
    /\ Settle(TRUE)
    /\ UNCHANGED <<sessionVars, vmVars, streamVars, del, faults>>

FlightStep ==
    \/ FlightRow \/ FlightRecreate \/ FlightOpen \/ FlightRevive \/ FlightReopen
    \/ FlightInit \/ FlightProbeFails \/ FlightFails \/ FlightRecord

(***************************************************************************)
(* POST /session/start.                                                    *)
(***************************************************************************)
\* The row is inserted.  If the request came with neither config files nor variables,
\* it is answered and the provisioning begun; ..
StartRequest(s) ==
    /\ start[s] = "none"
    /\ row' = [row EXCEPT ![s] = "pending"]
    /\ \/ Goes(s, "waiting") /\ Join
       \/ Goes(s, "config") /\ UNCHANGED flight
    /\ UNCHANGED <<claim, recorded, vmVars, streamVars, del, faults>>

\* .. else saveSessionConfig is awaited first.
StartConfig(s) ==
    /\ start[s] = "config"
    /\ Goes(s, "waiting")
    /\ Join
    /\ UNCHANGED <<sessionVars, recorded, vmVars, streamVars, del, faults>>

\* It throws: the request is answered with an error, and its row stays.
StartConfigFails(s) ==
    /\ start[s] = "config"
    /\ Fault
    /\ Goes(s, "unsaved")
    /\ UNCHANGED <<sessionVars, recorded, vmVars, flight, streamVars, del>>

\* isSessionStillPending.  It is asked twice; nothing is written in between.
StartCheck(s) ==
    /\ start[s] = "check"
    /\ Goes(s, IF row[s] = "pending" THEN "claim" ELSE "over")
    /\ UNCHANGED <<sessionVars, recorded, vmVars, flight, streamVars, del, faults>>

\* runtime_id is written, whatever the status is by now.
StartClaim(s) ==
    /\ start[s] = "claim"
    /\ claim' = claim \cup {s}
    /\ Goes(s, "spawn")
    /\ UNCHANGED <<row, recorded, vmVars, flight, streamVars, del, faults>>

\* exec.spawn: the VM starts the agent, and a stream is attached to it.
StartSpawn(s) ==
    /\ start[s] \in {"spawn", "respawn"}
    /\ vm = "running"
    /\ agents' = agents \cup {s}
    /\ stream' = [stream EXCEPT ![s] = "open"]
    /\ Goes(s, "guard")
    /\ UNCHANGED <<sessionVars, recorded, vm, flight, entries, exitWrite, del, faults>>

\* The VM refuses (AgentSpawnError): once more, after a second provisioning.
StartSpawnFails(s) ==
    /\ start[s] \in {"spawn", "respawn"}
    /\ (vm # "running" /\ UNCHANGED faults) \/ Fault
    /\ Goes(s, IF start[s] = "spawn" THEN "retry" ELSE "fail")
    /\ UNCHANGED <<sessionVars, recorded, vmVars, flight, streamVars, del>>

\* The agent runs and its stream does not open: that is no AgentSpawnError.
StartAttachFails(s) ==
    /\ start[s] \in {"spawn", "respawn"}
    /\ vm = "running"
    /\ Fault
    /\ agents' = agents \cup {s}
    /\ Goes(s, "fail")
    /\ UNCHANGED <<sessionVars, recorded, vm, flight, streamVars, del>>

StartRetry(s) ==
    /\ start[s] = "retry"
    /\ Goes(s, "rewaiting")
    /\ Join
    /\ UNCHANGED <<sessionVars, recorded, vmVars, streamVars, del, faults>>

\* The guard reads the row once more ..
StartGuard(s) ==
    /\ start[s] = "guard"
    /\ Goes(s, IF row[s] = "pending" THEN "create" ELSE "discard")
    /\ UNCHANGED <<sessionVars, recorded, vmVars, flight, streamVars, del, faults>>

\* handle.kill of BoxLite signals the agent, if the stream is up, and closes it.
KillHandle(s) ==
    /\ agents' = IF stream[s] = "open" THEN agents \ {s} ELSE agents
    /\ stream' = [stream EXCEPT ![s] = "ended"]

\* .. and the agent of a session that has been deleted is killed, ..
StartDiscard(s) ==
    /\ start[s] = "discard"
    /\ KillHandle(s)
    /\ Goes(s, "over")
    /\ UNCHANGED <<sessionVars, recorded, vm, flight, entries, exitWrite, del, faults>>

\* .. or the session is created, with its listeners.
StartCreate(s) ==
    /\ start[s] = "create"
    /\ entries' = entries \cup {s}
    /\ Goes(s, "persist")
    /\ UNCHANGED <<sessionVars, recorded, vmVars, flight, stream, exitWrite, del,
                   faults>>

StartPersist(s) ==
    /\ start[s] = "persist"
    /\ row' = [row EXCEPT ![s] = "running"]
    /\ Goes(s, "started")
    /\ UNCHANGED <<claim, recorded, vmVars, flight, streamVars, del, faults>>

\* markSessionFailed never overwrites 'exited'.
\* (Mutant: the failure is logged and nothing is written.)
FailedUnsaid(s) == row
Failed(s) == IF row[s] \in {"pending", "running"} THEN [row EXCEPT ![s] = "failed"]
             ELSE row

StartFail(s) ==
    /\ start[s] = "fail"
    /\ row' = Failed(s)
    /\ Goes(s, "over")
    /\ UNCHANGED <<claim, recorded, vmVars, flight, streamVars, del, faults>>

StartStep(s) ==
    \/ StartConfig(s) \/ StartConfigFails(s) \/ StartCheck(s) \/ StartClaim(s)
    \/ StartSpawn(s) \/ StartSpawnFails(s) \/ StartAttachFails(s) \/ StartRetry(s)
    \/ StartGuard(s) \/ StartDiscard(s) \/ StartCreate(s) \/ StartPersist(s)
    \/ StartFail(s)

(***************************************************************************)
(* Agents and VMs end.                                                     *)
(***************************************************************************)
AgentEnds(s) ==
    /\ s \in agents
    /\ agents' = agents \ {s}
    /\ UNCHANGED <<sessionVars, recorded, vm, flight, start, streamVars, del, faults>>

VmStops ==
    /\ vm = "running"
    /\ Fault
    /\ vm' = "stopped" /\ agents' = {}
    /\ UNCHANGED <<sessionVars, recorded, flight, start, streamVars, del>>

\* The handle reports the exit to whoever has registered by then: nobody before
\* createSession.  The lifecycle listener asks for 'exited' and does not wait.
StreamEnds(s) ==
    /\ stream[s] = "open" /\ s \notin agents
    /\ stream' = [stream EXCEPT ![s] = "ended"]
    /\ exitWrite' = exitWrite \cup ({s} \cap entries)
    /\ UNCHANGED <<sessionVars, recorded, vmVars, flight, start, entries, del, faults>>

ExitCommits(s) ==
    /\ s \in exitWrite
    /\ row' = [row EXCEPT ![s] = "exited"]
    /\ exitWrite' = exitWrite \ {s}
    /\ UNCHANGED <<claim, recorded, vmVars, flight, start, stream, entries, del, faults>>

(***************************************************************************)
(* DELETE /sessions/:id, once for each session.                            *)
(***************************************************************************)
DeleteRequest(s) ==
    /\ row[s] # "none" /\ del[s].pc = "none"
    /\ del' = [del EXCEPT ![s] = [pc |-> "mark", claim |-> s \in claim,
                                  detached |-> row[s] \notin Terminal /\ s \in claim,
                                  full |-> start[s] = "started"]]
    /\ UNCHANGED <<sessionVars, recorded, vmVars, flight, start, streamVars, faults>>

\* 'exited' is written first of all.
\* (Mutant: only when everything else is done.)
MarkLate(s) == UNCHANGED row
Mark(s) == row' = [row EXCEPT ![s] = "exited"]

DeleteMark(s) ==
    /\ del[s].pc = "mark"
    /\ Mark(s)
    /\ DeleteGoes(s, "kill")
    /\ UNCHANGED <<claim, recorded, vmVars, flight, start, streamVars, faults>>

DeleteKill(s) ==
    /\ del[s].pc = "kill"
    /\ IF s \in entries THEN KillHandle(s) ELSE UNCHANGED <<agents, stream>>
    /\ del' = [del EXCEPT ![s].detached = FALSE,
                          ![s].pc = IF s \in entries \/ del[s].detached THEN "wait" ELSE "drop"]
    /\ UNCHANGED <<sessionVars, recorded, vm, flight, start, entries, exitWrite, faults>>

\* waitForAgentExit ends the processes of that name, of whatever session.
DeleteWait(s) ==
    /\ del[s].pc = "wait"
    /\ (agents' = {} /\ UNCHANGED faults) \/ (Fault /\ UNCHANGED agents)
    /\ DeleteGoes(s, "drop")
    /\ UNCHANGED <<sessionVars, recorded, vm, flight, start, streamVars>>

\* sessionManager.deleteSession
DeleteDrop(s) ==
    /\ del[s].pc = "drop"
    /\ IF s \in entries THEN KillHandle(s) ELSE UNCHANGED <<agents, stream>>
    /\ entries' = entries \ {s}
    /\ DeleteGoes(s, IF del[s].claim THEN "siblings" ELSE "done")
    /\ UNCHANGED <<sessionVars, recorded, vm, flight, start, exitWrite, faults>>

\* The other sessions of the runtime that are not over.
\* (Mutant: the ended sessions of the runtime are counted as well.)
AllSiblings(s) == claim \ {s}
Siblings(s) == {t \in claim \ {s} : row[t] \notin Terminal}

DeleteSiblings(s) ==
    /\ del[s].pc = "siblings"
    /\ DeleteGoes(s, IF Siblings(s) = {} THEN "destroy" ELSE "done")
    /\ UNCHANGED <<sessionVars, recorded, vmVars, flight, start, streamVars, faults>>

DeleteDestroy(s) ==
    /\ del[s].pc = "destroy"
    /\ \/ VmGoes /\ DeleteGoes(s, "done") /\ UNCHANGED faults
       \/ VmStays /\ DeleteGoes(s, "failed")
    /\ UNCHANGED <<sessionVars, recorded, flight, start, streamVars>>

DeleteStep(s) ==
    \/ DeleteMark(s) \/ DeleteKill(s) \/ DeleteWait(s) \/ DeleteDrop(s)
    \/ DeleteSiblings(s) \/ DeleteDestroy(s)

-----------------------------------------------------------------------------
Next ==
    \/ FlightStep
    \/ \E s \in Sessions :
          \/ StartRequest(s) \/ StartStep(s)
          \/ DeleteRequest(s) \/ DeleteStep(s)
          \/ AgentEnds(s) \/ StreamEnds(s) \/ ExitCommits(s)
    \/ VmStops

\* The event loop goes on while any provisioning can.  Nothing is promised of users,
\* agents, the VM, and writes nobody waits for.
Fairness == WF_vars(FlightStep \/ \E s \in Sessions : StartStep(s))

Spec == Init /\ [][Next]_vars /\ Fairness

-----------------------------------------------------------------------------
(***************************************************************************)
(* What the project's VM promises.                                         *)
(***************************************************************************)
\* Once every session of the project was started in full and then deleted, and no
\* destroy failed, the VM is gone, although each delete decides by the rows of the
\* others while those are deleted too: 'exited' is written before the siblings are
\* looked up.
DeletedInFull(s) == start[s] = "started" /\ del[s].pc = "done" /\ del[s].full

LastOneOut ==
    (/\ \A s \in Sessions : row[s] = "none" \/ DeletedInFull(s)
     /\ \E s \in Sessions : row[s] # "none")
    => vm = "none"

\* Provisioning that takes the VM of a running agent away never does so for its image
\* or mount, nor because the VM was seen not to run: a start decides on what it read
\* before, and agents may have been started meanwhile (the single flight of
\* ensureProjectRuntime, and the specs of the runtimes row).  It does so in two cases
\* only: it deletes the VM without having read its status, or the probe fails in a VM
\* that it has just brought back after the old one was lost, and into which a session
\* provisioned earlier has meanwhile spawned.
Unseen == flight.pc = "revive" /\ flight.blind
Probed == flight.pc = "init"

ProvisioningSpares ==
    [][flight' # flight /\ vm # "none" /\ vm' = "none" /\ agents # {}
       => ~flight.must /\ (Unseen \/ Probed)]_vars

\* No session whose request was answered is left 'pending': every path of the
\* provisioning that nobody waits for ends in a status, whichever step fails and
\* whoever shares the flight.  The row of a request whose configuration could not be
\* saved does stay 'pending'.
StartsSettle ==
    \A s \in Sessions :
        row[s] = "pending" ~> row[s] # "pending" \/ start[s] = "unsaved"
=============================================================================
