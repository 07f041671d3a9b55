------------------------- MODULE ProjectRuntime_proofs -------------------------
(***************************************************************************)
(* When provisioning may take a running agent down, and that the last      *)
(* delete takes the VM, for any number of sessions and of failures.        *)
(***************************************************************************)
EXTENDS ProjectRuntime, TLAPS

\* Steps of a start that come after a provisioning, and after runtime_id.
Claimed == {"spawn", "retry", "rewaiting", "respawn", "guard", "create", "persist",
            "discard", "started"}
Ready == Claimed \cup {"check", "claim"}

\* A flight that has decided to recreate the VM has done so before any session got
\* past its first provisioning; no agent runs by then.
Spared ==
    /\ agents # {} => recorded /\ vm = "running"
    /\ \A s \in Sessions : start[s] \in Ready => recorded
    /\ flight.must => ~recorded
    /\ flight.pc = "recreate" => flight.must
    /\ flight.pc = "revive" /\ ~flight.blind => flight.must \/ vm # "running"

\* A VM is held by a session that has not been deleted in full, and a delete that
\* leaves it to another has seen one.
Holder(s) == row[s] # "none" /\ ~DeletedInFull(s)

Held ==
    /\ \A s \in Sessions : start[s] \in Claimed => s \in claim
    /\ \A s \in Sessions : start[s] # "none" \/ s \in claim => row[s] # "none"
    /\ \A s \in Sessions : del[s].full => start[s] = "started" /\ del[s].claim
    /\ \A s \in Sessions : del[s].full /\ del[s].pc # "mark" => row[s] = "exited"
    /\ vm # "none" => \E s \in Sessions : Holder(s)

Inv == TypeOK /\ Spared /\ Held

USE DEF StartSteps, FlightSteps, Flights, DeleteSteps, Waits, Terminal, sessionVars,
        streamVars, vmVars

\* Nobody is left to wait when the promise of the flight settles.
LEMMA SettleTypes ==
    ASSUME TypeOK, NEW ok \in BOOLEAN, Settle(ok)
    PROVE  /\ start' \in [Sessions -> StartSteps]
           /\ \A s \in Sessions : start'[s] \notin Waits
           /\ flight' \in Flights
           /\ flight'.pc = "none"
  BY DEF TypeOK, Settle, NoFlight

\* One lemma for each action: it keeps the types, and the two halves of Inv.
LEMMA FlightRowKeeps ==
    ASSUME Inv, FlightRow
    PROVE  Inv'
  <1>1. TypeOK'
    BY RuntimeAssumption DEF Inv, TypeOK, FlightRow, NeedRecreate
  <1>2. Spared'
    BY DEF Inv, TypeOK, Spared, Ready, Claimed, FlightRow, NeedRecreate
  <1>3. Held'
    BY DEF Inv, TypeOK, Held, Holder, DeletedInFull, Claimed, FlightRow, NeedRecreate
  <1> QED
    BY <1>1, <1>2, <1>3 DEF Inv

LEMMA FlightRecreateKeeps ==
    ASSUME Inv, FlightRecreate
    PROVE  Inv'
  <1>1. TypeOK'
    BY RuntimeAssumption DEF Inv, TypeOK, FlightRecreate, DeleteVM, VmGoes, VmStays,
       Fault
  <1>2. Spared'
    BY DEF Inv, TypeOK, Spared, Ready, Claimed, FlightRecreate, DeleteVM, VmGoes,
       VmStays, Fault
  <1>3. Held'
    BY DEF Inv, TypeOK, Held, Holder, DeletedInFull, Claimed, FlightRecreate,
       DeleteVM, VmGoes, VmStays, Fault
  <1> QED
    BY <1>1, <1>2, <1>3 DEF Inv

LEMMA FlightOpenKeeps ==
    ASSUME Inv, FlightOpen
    PROVE  Inv'
  <1>1. TypeOK'
    <2>1. flight' \in Flights /\ flight'.pc # "none"
      BY DEF Inv, FlightOpen, TypeOK
    <2>2. vm' \in {"none", "running", "stopped"} /\ faults' \in 0 .. MaxFaults
      BY RuntimeAssumption DEF Inv, FlightOpen, Fault, TypeOK
    <2>3. flight.pc # "none"
      BY DEF FlightOpen
    <2> QED
      BY <2>1, <2>2, <2>3 DEF Inv, FlightOpen, TypeOK
  <1>2. Spared'
    BY DEF Inv, TypeOK, Spared, Ready, Claimed, FlightOpen, Fault
  <1>3. Held'
    BY DEF Inv, TypeOK, Held, Holder, DeletedInFull, Claimed, FlightOpen, Fault
  <1> QED
    BY <1>1, <1>2, <1>3 DEF Inv

LEMMA FlightReviveKeeps ==
    ASSUME Inv, FlightRevive
    PROVE  Inv'
  <1>1. TypeOK'
    <2>1. flight' \in Flights /\ flight'.pc = "reopen" /\ flight.pc = "revive"
      BY DEF Inv, FlightRevive, TypeOK
    <2>2. vm' \in {"none", "running", "stopped"} /\ agents' \in SUBSET Sessions
          /\ faults' \in 0 .. MaxFaults
      BY RuntimeAssumption DEF Inv, FlightRevive, DeleteVM, VmGoes, VmStays, Fault, TypeOK
    <2> QED
      BY <2>1, <2>2 DEF Inv, FlightRevive, TypeOK
  <1>2. Spared'
    BY DEF Inv, TypeOK, Spared, Ready, Claimed, FlightRevive, DeleteVM, VmGoes,
       VmStays, Fault
  <1>3. Held'
    BY DEF Inv, TypeOK, Held, Holder, DeletedInFull, Claimed, FlightRevive, DeleteVM,
       VmGoes, VmStays, Fault
  <1> QED
    BY <1>1, <1>2, <1>3 DEF Inv

LEMMA FlightReopenKeeps ==
    ASSUME Inv, FlightReopen
    PROVE  Inv'
  <1>1. TypeOK'
    <2>1. CASE vm = "none"
      BY <2>1, RuntimeAssumption DEF Inv, FlightReopen, TypeOK
    <2>2. CASE vm # "none"
      <3>1. Settle(FALSE)
        BY <2>2 DEF FlightReopen
      <3> QED
        BY <2>2, <3>1, SettleTypes DEF Inv, FlightReopen, TypeOK
    <2> QED
      BY <2>1, <2>2
  <1>2. Spared'
    BY DEF Inv, TypeOK, Spared, Ready, Claimed, FlightReopen, Settle, NoFlight
  <1>3. Held'
    BY DEF Inv, TypeOK, Held, Holder, DeletedInFull, Claimed, FlightReopen, Settle,
       NoFlight
  <1> QED
    BY <1>1, <1>2, <1>3 DEF Inv

LEMMA FlightInitKeeps ==
    ASSUME Inv, FlightInit
    PROVE  Inv'
  <1>1. TypeOK'
    BY RuntimeAssumption DEF Inv, TypeOK, FlightInit
  <1>2. Spared'
    BY DEF Inv, TypeOK, Spared, Ready, Claimed, FlightInit
  <1>3. Held'
    BY DEF Inv, TypeOK, Held, Holder, DeletedInFull, Claimed, FlightInit
  <1> QED
    BY <1>1, <1>2, <1>3 DEF Inv

LEMMA FlightProbeFailsKeeps ==
    ASSUME Inv, FlightProbeFails
    PROVE  Inv'
  <1>1. TypeOK'
    <2>1. /\ flight'.pc = "open"
          /\ flight' \in Flights
      BY DEF Inv, FlightProbeFails, TypeOK
    <2>2. \E s \in Sessions : start'[s] \in Waits
      BY DEF Inv, FlightProbeFails, TypeOK
    <2>3. faults' \in 0 .. MaxFaults
      BY RuntimeAssumption DEF Inv, FlightProbeFails, Fault, TypeOK
    <2> QED
      BY <2>1, <2>2, <2>3 DEF Inv, FlightProbeFails, VmGoes, TypeOK
  <1>2. Spared'
    BY DEF Inv, TypeOK, Spared, Ready, Claimed, FlightProbeFails, VmGoes, Fault
  <1>3. Held'
    BY DEF Inv, TypeOK, Held, Holder, DeletedInFull, Claimed, FlightProbeFails,
       VmGoes, Fault
  <1> QED
    BY <1>1, <1>2, <1>3 DEF Inv

LEMMA FlightFailsKeeps ==
    ASSUME Inv, FlightFails
    PROVE  Inv'
  <1>1. TypeOK'
    BY RuntimeAssumption DEF Inv, TypeOK, FlightFails, Settle, NoFlight, Fault
  <1>2. Spared'
    BY DEF Inv, TypeOK, Spared, Ready, Claimed, FlightFails, Settle, NoFlight, Fault
  <1>3. Held'
    BY DEF Inv, TypeOK, Held, Holder, DeletedInFull, Claimed, FlightFails, Settle,
       NoFlight, Fault
  <1> QED
    BY <1>1, <1>2, <1>3 DEF Inv

LEMMA FlightRecordKeeps ==
    ASSUME Inv, FlightRecord
    PROVE  Inv'
  <1>1. TypeOK'
    BY RuntimeAssumption DEF Inv, TypeOK, FlightRecord, Settle, NoFlight, Record
  <1>2. Spared'
    BY DEF Inv, TypeOK, Spared, Ready, Claimed, FlightRecord, Settle, NoFlight, Record
  <1>3. Held'
    BY DEF Inv, TypeOK, Held, Holder, DeletedInFull, Claimed, FlightRecord, Settle,
       NoFlight, Record
  <1> QED
    BY <1>1, <1>2, <1>3 DEF Inv

LEMMA StartRequestKeeps ==
    ASSUME Inv, NEW s \in Sessions, StartRequest(s)
    PROVE  Inv'
  <1>1. TypeOK'
    BY RuntimeAssumption DEF Inv, TypeOK, StartRequest, Goes, Join
  <1>2. Spared'
    BY DEF Inv, TypeOK, Spared, Ready, Claimed, StartRequest, Goes, Join
  <1>3. Held'
    BY DEF Inv, TypeOK, Held, Holder, DeletedInFull, Claimed, StartRequest, Goes, Join
  <1> QED
    BY <1>1, <1>2, <1>3 DEF Inv

LEMMA StartConfigKeeps ==
    ASSUME Inv, NEW s \in Sessions, StartConfig(s)
    PROVE  Inv'
  <1>1. TypeOK'
    BY RuntimeAssumption DEF Inv, TypeOK, StartConfig, Goes, Join
  <1>2. Spared'
    BY DEF Inv, TypeOK, Spared, Ready, Claimed, StartConfig, Goes, Join
  <1>3. Held'
    BY DEF Inv, TypeOK, Held, Holder, DeletedInFull, Claimed, StartConfig, Goes, Join
  <1> QED
    BY <1>1, <1>2, <1>3 DEF Inv

LEMMA StartConfigFailsKeeps ==
    ASSUME Inv, NEW s \in Sessions, StartConfigFails(s)
    PROVE  Inv'
  <1>1. TypeOK'
    BY RuntimeAssumption DEF Inv, TypeOK, StartConfigFails, Goes, Fault
  <1>2. Spared'
    BY DEF Inv, TypeOK, Spared, Ready, Claimed, StartConfigFails, Goes, Fault
  <1>3. Held'
    BY DEF Inv, TypeOK, Held, Holder, DeletedInFull, Claimed, StartConfigFails, Goes,
       Fault
  <1> QED
    BY <1>1, <1>2, <1>3 DEF Inv

LEMMA StartCheckKeeps ==
    ASSUME Inv, NEW s \in Sessions, StartCheck(s)
    PROVE  Inv'
  <1>1. TypeOK'
    BY RuntimeAssumption DEF Inv, TypeOK, StartCheck, Goes
  <1>2. Spared'
    BY DEF Inv, TypeOK, Spared, Ready, Claimed, StartCheck, Goes
  <1>3. Held'
    BY DEF Inv, TypeOK, Held, Holder, DeletedInFull, Claimed, StartCheck, Goes
  <1> QED
    BY <1>1, <1>2, <1>3 DEF Inv

LEMMA StartClaimKeeps ==
    ASSUME Inv, NEW s \in Sessions, StartClaim(s)
    PROVE  Inv'
  <1>1. TypeOK'
    BY RuntimeAssumption DEF Inv, TypeOK, StartClaim, Goes
  <1>2. Spared'
    BY DEF Inv, TypeOK, Spared, Ready, Claimed, StartClaim, Goes
  <1>3. Held'
    BY DEF Inv, TypeOK, Held, Holder, DeletedInFull, Claimed, StartClaim, Goes
  <1> QED
    BY <1>1, <1>2, <1>3 DEF Inv

LEMMA StartSpawnKeeps ==
    ASSUME Inv, NEW s \in Sessions, StartSpawn(s)
    PROVE  Inv'
  <1>1. TypeOK'
    BY RuntimeAssumption DEF Inv, TypeOK, StartSpawn, Goes
  <1>2. Spared'
    BY DEF Inv, TypeOK, Spared, Ready, Claimed, StartSpawn, Goes
  <1>3. Held'
    BY DEF Inv, TypeOK, Held, Holder, DeletedInFull, Claimed, StartSpawn, Goes
  <1> QED
    BY <1>1, <1>2, <1>3 DEF Inv

LEMMA StartSpawnFailsKeeps ==
    ASSUME Inv, NEW s \in Sessions, StartSpawnFails(s)
    PROVE  Inv'
  <1>1. TypeOK'
    BY RuntimeAssumption DEF Inv, TypeOK, StartSpawnFails, Goes, Fault
  <1>2. Spared'
    BY DEF Inv, TypeOK, Spared, Ready, Claimed, StartSpawnFails, Goes, Fault
  <1>3. Held'
    BY DEF Inv, TypeOK, Held, Holder, DeletedInFull, Claimed, StartSpawnFails, Goes,
       Fault
  <1> QED
    BY <1>1, <1>2, <1>3 DEF Inv

LEMMA StartAttachFailsKeeps ==
    ASSUME Inv, NEW s \in Sessions, StartAttachFails(s)
    PROVE  Inv'
  <1>1. TypeOK'
    BY RuntimeAssumption DEF Inv, TypeOK, StartAttachFails, Goes, Fault
  <1>2. Spared'
    BY DEF Inv, TypeOK, Spared, Ready, Claimed, StartAttachFails, Goes, Fault
  <1>3. Held'
    BY DEF Inv, TypeOK, Held, Holder, DeletedInFull, Claimed, StartAttachFails, Goes,
       Fault
  <1> QED
    BY <1>1, <1>2, <1>3 DEF Inv

LEMMA StartRetryKeeps ==
    ASSUME Inv, NEW s \in Sessions, StartRetry(s)
    PROVE  Inv'
  <1>1. TypeOK'
    BY RuntimeAssumption DEF Inv, TypeOK, StartRetry, Goes, Join
  <1>2. Spared'
    BY DEF Inv, TypeOK, Spared, Ready, Claimed, StartRetry, Goes, Join
  <1>3. Held'
    BY DEF Inv, TypeOK, Held, Holder, DeletedInFull, Claimed, StartRetry, Goes, Join
  <1> QED
    BY <1>1, <1>2, <1>3 DEF Inv

LEMMA StartGuardKeeps ==
    ASSUME Inv, NEW s \in Sessions, StartGuard(s)
    PROVE  Inv'
  <1>1. TypeOK'
    BY RuntimeAssumption DEF Inv, TypeOK, StartGuard, Goes
  <1>2. Spared'
    BY DEF Inv, TypeOK, Spared, Ready, Claimed, StartGuard, Goes
  <1>3. Held'
    BY DEF Inv, TypeOK, Held, Holder, DeletedInFull, Claimed, StartGuard, Goes
  <1> QED
    BY <1>1, <1>2, <1>3 DEF Inv

LEMMA StartDiscardKeeps ==
    ASSUME Inv, NEW s \in Sessions, StartDiscard(s)
    PROVE  Inv'
  <1>1. TypeOK'
    BY RuntimeAssumption DEF Inv, TypeOK, StartDiscard, Goes, KillHandle
  <1>2. Spared'
    BY DEF Inv, TypeOK, Spared, Ready, Claimed, StartDiscard, Goes, KillHandle
  <1>3. Held'
    BY DEF Inv, TypeOK, Held, Holder, DeletedInFull, Claimed, StartDiscard, Goes,
       KillHandle
  <1> QED
    BY <1>1, <1>2, <1>3 DEF Inv

LEMMA StartCreateKeeps ==
    ASSUME Inv, NEW s \in Sessions, StartCreate(s)
    PROVE  Inv'
  <1>1. TypeOK'
    BY RuntimeAssumption DEF Inv, TypeOK, StartCreate, Goes
  <1>2. Spared'
    BY DEF Inv, TypeOK, Spared, Ready, Claimed, StartCreate, Goes
  <1>3. Held'
    BY DEF Inv, TypeOK, Held, Holder, DeletedInFull, Claimed, StartCreate, Goes
  <1> QED
    BY <1>1, <1>2, <1>3 DEF Inv

LEMMA StartPersistKeeps ==
    ASSUME Inv, NEW s \in Sessions, StartPersist(s)
    PROVE  Inv'
  <1>1. TypeOK'
    BY RuntimeAssumption DEF Inv, TypeOK, StartPersist, Goes
  <1>2. Spared'
    BY DEF Inv, TypeOK, Spared, Ready, Claimed, StartPersist, Goes
  <1>3. Held'
    BY DEF Inv, TypeOK, Held, Holder, DeletedInFull, Claimed, StartPersist, Goes
  <1> QED
    BY <1>1, <1>2, <1>3 DEF Inv

LEMMA StartFailKeeps ==
    ASSUME Inv, NEW s \in Sessions, StartFail(s)
    PROVE  Inv'
  <1>1. TypeOK'
    BY RuntimeAssumption DEF Inv, TypeOK, StartFail, Goes, Failed
  <1>2. Spared'
    BY DEF Inv, TypeOK, Spared, Ready, Claimed, StartFail, Goes, Failed
  <1>3. Held'
    BY DEF Inv, TypeOK, Held, Holder, DeletedInFull, Claimed, StartFail, Goes, Failed
  <1> QED
    BY <1>1, <1>2, <1>3 DEF Inv

LEMMA AgentEndsKeeps ==
    ASSUME Inv, NEW s \in Sessions, AgentEnds(s)
    PROVE  Inv'
  <1>1. TypeOK'
    BY RuntimeAssumption DEF Inv, TypeOK, AgentEnds
  <1>2. Spared'
    BY DEF Inv, TypeOK, Spared, Ready, Claimed, AgentEnds
  <1>3. Held'
    BY DEF Inv, TypeOK, Held, Holder, DeletedInFull, Claimed, AgentEnds
  <1> QED
    BY <1>1, <1>2, <1>3 DEF Inv

LEMMA StreamEndsKeeps ==
    ASSUME Inv, NEW s \in Sessions, StreamEnds(s)
    PROVE  Inv'
  <1>1. TypeOK'
    BY RuntimeAssumption DEF Inv, TypeOK, StreamEnds
  <1>2. Spared'
    BY DEF Inv, TypeOK, Spared, Ready, Claimed, StreamEnds
  <1>3. Held'
    BY DEF Inv, TypeOK, Held, Holder, DeletedInFull, Claimed, StreamEnds
  <1> QED
    BY <1>1, <1>2, <1>3 DEF Inv

LEMMA ExitCommitsKeeps ==
    ASSUME Inv, NEW s \in Sessions, ExitCommits(s)
    PROVE  Inv'
  <1>1. TypeOK'
    BY RuntimeAssumption DEF Inv, TypeOK, ExitCommits
  <1>2. Spared'
    BY DEF Inv, TypeOK, Spared, Ready, Claimed, ExitCommits
  <1>3. Held'
    BY DEF Inv, TypeOK, Held, Holder, DeletedInFull, Claimed, ExitCommits
  <1> QED
    BY <1>1, <1>2, <1>3 DEF Inv

LEMMA DeleteRequestKeeps ==
    ASSUME Inv, NEW s \in Sessions, DeleteRequest(s)
    PROVE  Inv'
  <1>1. TypeOK'
    BY RuntimeAssumption DEF Inv, TypeOK, DeleteRequest
  <1>2. Spared'
    BY DEF Inv, TypeOK, Spared, Ready, Claimed, DeleteRequest
  <1>3. Held'
    BY DEF Inv, TypeOK, Held, Holder, DeletedInFull, Claimed, DeleteRequest
  <1> QED
    BY <1>1, <1>2, <1>3 DEF Inv

LEMMA DeleteMarkKeeps ==
    ASSUME Inv, NEW s \in Sessions, DeleteMark(s)
    PROVE  Inv'
  <1>1. TypeOK'
    BY RuntimeAssumption DEF Inv, TypeOK, DeleteMark, DeleteGoes, Mark
  <1>2. Spared'
    BY DEF Inv, TypeOK, Spared, Ready, Claimed, DeleteMark, DeleteGoes, Mark
  <1>3. Held'
    BY DEF Inv, TypeOK, Held, Holder, DeletedInFull, Claimed, DeleteMark, DeleteGoes,
       Mark
  <1> QED
    BY <1>1, <1>2, <1>3 DEF Inv

LEMMA DeleteKillKeeps ==
    ASSUME Inv, NEW s \in Sessions, DeleteKill(s)
    PROVE  Inv'
  <1>1. TypeOK'
    <2>1. agents' \in SUBSET Sessions
          /\ stream' \in [Sessions -> {"none", "open", "ended"}]
      BY DEF Inv, DeleteKill, KillHandle, TypeOK
    <2>2. del' \in [Sessions -> [pc : DeleteSteps, claim : BOOLEAN, detached : BOOLEAN,
                                full : BOOLEAN]]
      BY DEF Inv, DeleteKill, DeleteGoes, TypeOK
    <2> QED
      BY <2>1, <2>2 DEF Inv, DeleteKill, TypeOK
  <1>2. Spared'
    BY DEF Inv, TypeOK, Spared, Ready, Claimed, DeleteKill, DeleteGoes, KillHandle
  <1>3. Held'
    BY DEF Inv, TypeOK, Held, Holder, DeletedInFull, Claimed, DeleteKill, DeleteGoes,
       KillHandle
  <1> QED
    BY <1>1, <1>2, <1>3 DEF Inv

LEMMA DeleteWaitKeeps ==
    ASSUME Inv, NEW s \in Sessions, DeleteWait(s)
    PROVE  Inv'
  <1>1. TypeOK'
    BY RuntimeAssumption DEF Inv, TypeOK, DeleteWait, DeleteGoes, Fault
  <1>2. Spared'
    BY DEF Inv, TypeOK, Spared, Ready, Claimed, DeleteWait, DeleteGoes, Fault
  <1>3. Held'
    BY DEF Inv, TypeOK, Held, Holder, DeletedInFull, Claimed, DeleteWait, DeleteGoes,
       Fault
  <1> QED
    BY <1>1, <1>2, <1>3 DEF Inv

LEMMA DeleteDropKeeps ==
    ASSUME Inv, NEW s \in Sessions, DeleteDrop(s)
    PROVE  Inv'
  <1>1. TypeOK'
    <2>1. agents' \in SUBSET Sessions
          /\ stream' \in [Sessions -> {"none", "open", "ended"}]
      BY DEF Inv, DeleteDrop, KillHandle, TypeOK
    <2>2. del' \in [Sessions -> [pc : DeleteSteps, claim : BOOLEAN, detached : BOOLEAN,
                                full : BOOLEAN]]
      BY DEF Inv, DeleteDrop, DeleteGoes, TypeOK
    <2> QED
      BY <2>1, <2>2 DEF Inv, DeleteDrop, TypeOK
  <1>2. Spared'
    BY DEF Inv, TypeOK, Spared, Ready, Claimed, DeleteDrop, DeleteGoes, KillHandle
  <1>3. Held'
    BY DEF Inv, TypeOK, Held, Holder, DeletedInFull, Claimed, DeleteDrop, DeleteGoes,
       KillHandle
  <1> QED
    BY <1>1, <1>2, <1>3 DEF Inv

LEMMA DeleteSiblingsKeeps ==
    ASSUME Inv, NEW s \in Sessions, DeleteSiblings(s)
    PROVE  Inv'
  <1>1. TypeOK'
    BY RuntimeAssumption DEF Inv, TypeOK, DeleteSiblings, DeleteGoes, Siblings
  <1>2. Spared'
    BY DEF Inv, TypeOK, Spared, Ready, Claimed, DeleteSiblings, DeleteGoes, Siblings
  <1>3. Held'
    BY DEF Inv, TypeOK, Held, Holder, DeletedInFull, Claimed, DeleteSiblings,
       DeleteGoes, Siblings
  <1> QED
    BY <1>1, <1>2, <1>3 DEF Inv

LEMMA DeleteDestroyKeeps ==
    ASSUME Inv, NEW s \in Sessions, DeleteDestroy(s)
    PROVE  Inv'
  <1>1. TypeOK'
    <2>1. CASE VmGoes /\ DeleteGoes(s, "done") /\ UNCHANGED faults
      BY <2>1 DEF Inv, DeleteDestroy, DeleteGoes, VmGoes, TypeOK
    <2>2. CASE VmStays /\ DeleteGoes(s, "failed")
      BY <2>2, RuntimeAssumption DEF Inv, TypeOK, DeleteDestroy, DeleteGoes, VmStays,
         Fault
    <2> QED
      BY <2>1, <2>2 DEF DeleteDestroy
  <1>2. Spared'
    BY DEF Inv, TypeOK, Spared, Ready, Claimed, DeleteDestroy, DeleteGoes, VmGoes,
       VmStays, Fault
  <1>3. Held'
    <2>1. \A t \in Sessions : del'[t].full = del[t].full /\ del'[t].claim = del[t].claim
                              /\ (del'[t].pc = "mark" <=> del[t].pc = "mark")
      BY DEF Inv, TypeOK, DeleteDestroy, DeleteGoes
    <2>2. vm' # "none" => \A t \in Sessions : Holder(t) => Holder(t)'
      BY DEF Inv, TypeOK, Holder, DeletedInFull, DeleteDestroy, DeleteGoes, VmGoes,
         VmStays
    <2>3. vm' # "none" => vm # "none"
      BY DEF DeleteDestroy, VmGoes, VmStays
    <2> QED
      BY <2>1, <2>2, <2>3 DEF Inv, Held, DeleteDestroy
  <1> QED
    BY <1>1, <1>2, <1>3 DEF Inv

LEMMA VmStopsKeeps ==
    ASSUME Inv, VmStops
    PROVE  Inv'
  <1>1. TypeOK'
    BY RuntimeAssumption DEF Inv, TypeOK, VmStops, Fault
  <1>2. Spared'
    BY DEF Inv, TypeOK, Spared, Ready, Claimed, VmStops, Fault
  <1>3. Held'
    BY DEF Inv, TypeOK, Held, Holder, DeletedInFull, Claimed, VmStops, Fault
  <1> QED
    BY <1>1, <1>2, <1>3 DEF Inv

\* The inductive invariant.
THEOREM Invariant == Spec => []Inv
  <1>1. Init => Inv
    <2> SUFFICES ASSUME Init
                 PROVE  Inv
      OBVIOUS
    <2>1. TypeOK
      <3>1. /\ flight \in Flights
            /\ flight.pc = "none" /\ \A s \in Sessions : start[s] \notin Waits
        BY DEF Init, NoFlight
      <3>2. del \in [Sessions -> [pc : DeleteSteps, claim : BOOLEAN, detached : BOOLEAN,
                                 full : BOOLEAN]]
        BY DEF Init, NoDelete
      <3>3. start \in [Sessions -> StartSteps]
        BY DEF Init
      <3>4. faults \in 0 .. MaxFaults
        BY RuntimeAssumption DEF Init
      <3> QED
        BY <3>1, <3>2, <3>3, <3>4 DEF Init, TypeOK
    <2>2. Spared
      BY DEF Init, Spared, Ready, Claimed, NoFlight
    <2>3. Held
      BY DEF Init, Held, Claimed, NoDelete
    <2> QED
      BY <2>1, <2>2, <2>3 DEF Inv
  <1>2. Inv /\ [Next]_vars => Inv'
    <2> SUFFICES ASSUME Inv, [Next]_vars
                 PROVE  Inv'
      OBVIOUS
    <2>1. CASE FlightStep
      BY <2>1, FlightRowKeeps, FlightRecreateKeeps, FlightOpenKeeps, FlightReviveKeeps,
         FlightReopenKeeps, FlightInitKeeps, FlightProbeFailsKeeps, FlightFailsKeeps,
         FlightRecordKeeps DEF FlightStep
    <2>2. ASSUME NEW s \in Sessions, StartRequest(s) \/ StartStep(s)
          PROVE  Inv'
      BY <2>2, StartRequestKeeps, StartConfigKeeps, StartConfigFailsKeeps, StartCheckKeeps, StartClaimKeeps, StartSpawnKeeps,
         StartSpawnFailsKeeps, StartAttachFailsKeeps, StartRetryKeeps, StartGuardKeeps,
         StartDiscardKeeps, StartCreateKeeps, StartPersistKeeps, StartFailKeeps
         DEF StartStep
    <2>3. ASSUME NEW s \in Sessions, DeleteRequest(s) \/ DeleteStep(s)
          PROVE  Inv'
      BY <2>3, DeleteRequestKeeps, DeleteMarkKeeps, DeleteKillKeeps, DeleteWaitKeeps,
         DeleteDropKeeps, DeleteSiblingsKeeps, DeleteDestroyKeeps DEF DeleteStep
    <2>4. ASSUME NEW s \in Sessions, AgentEnds(s) \/ StreamEnds(s) \/ ExitCommits(s)
          PROVE  Inv'
      BY <2>4, AgentEndsKeeps, StreamEndsKeeps, ExitCommitsKeeps
    <2>5. CASE VmStops
      BY <2>5, VmStopsKeeps
    <2>6. CASE UNCHANGED vars
      BY <2>6 DEF vars, Inv, TypeOK, Spared, Held, Holder, DeletedInFull
    <2> QED
      BY <2>1, <2>2, <2>3, <2>4, <2>5, <2>6 DEF Next
  <1> QED
    BY <1>1, <1>2, PTL DEF Spec

\* Every variable keeps its type, and a flight is under way exactly while a request
\* waits for it.
THEOREM TypeCorrect == Spec => []TypeOK
  <1>1. Inv => TypeOK
    BY DEF Inv
  <1> QED
    BY <1>1, Invariant, PTL

\* However the deletes of a project interleave, the last one takes the VM.
THEOREM LastTakesVm == Spec => []LastOneOut
  <1>1. Inv => LastOneOut
    BY DEF Inv, Held, Holder, LastOneOut
  <1> QED
    BY <1>1, Invariant, PTL

\* No provisioning takes the VM of a running agent for its image or mount, nor after it
\* has read that the VM does not run; it may where it deletes a VM unseen, and after a
\* failed probe.
THEOREM AgentsSpared == Spec => ProvisioningSpares
  <1> DEFINE Taken == flight' # flight /\ vm # "none" /\ vm' = "none" /\ agents # {}
             Excused == ~flight.must /\ (Unseen \/ Probed)
  <1>1. ASSUME Inv, [Next]_vars, Taken
        PROVE  Excused
    <2>1. recorded /\ vm = "running" /\ ~flight.must
      BY <1>1 DEF Inv, Spared
    <2>2. CASE FlightRecreate
      BY <2>1, <2>2, <1>1 DEF Inv, Spared, FlightRecreate
    <2>3. CASE FlightRevive
      BY <2>1, <2>3, <1>1 DEF Inv, Spared, FlightRevive, Unseen
    <2>4. CASE FlightProbeFails
      BY <2>1, <2>4 DEF FlightProbeFails, Probed
    <2>5. CASE FlightRow \/ FlightOpen \/ FlightReopen \/ FlightInit \/ FlightFails
               \/ FlightRecord
      BY <2>5, <1>1 DEF FlightRow, FlightOpen, FlightReopen, FlightInit, FlightFails,
         FlightRecord
    <2>6. ASSUME NEW s \in Sessions, StartRequest(s) \/ StartStep(s)
          PROVE  vm' = vm
      BY <2>6 DEF StartRequest, StartStep, StartConfig, StartConfigFails, StartCheck,
         StartClaim, StartSpawn, StartSpawnFails, StartAttachFails, StartRetry,
         StartGuard, StartDiscard, StartCreate, StartPersist, StartFail
    <2>7. ASSUME NEW s \in Sessions, DeleteRequest(s) \/ DeleteStep(s)
          PROVE  flight' = flight
      BY <2>7 DEF DeleteRequest, DeleteStep, DeleteMark, DeleteKill, DeleteWait,
         DeleteDrop, DeleteSiblings, DeleteDestroy
    <2>8. ASSUME NEW s \in Sessions, AgentEnds(s) \/ StreamEnds(s) \/ ExitCommits(s)
          PROVE  flight' = flight
      BY <2>8 DEF AgentEnds, StreamEnds, ExitCommits
    <2>9. VmStops \/ UNCHANGED vars => flight' = flight
      BY DEF VmStops, vars
    <2> QED
      BY <1>1, <2>2, <2>3, <2>4, <2>5, <2>6, <2>7, <2>8, <2>9 DEF Next, FlightStep
  <1>2. Inv /\ [Next]_vars => [Taken => Excused]_vars
    BY <1>1
  <1> QED
    BY <1>2, Invariant, PTL DEF Spec, ProvisioningSpares
================================================================================
