# A TLA+ model of XEnsemble

XEnsemble is a control plane for coding agents: a Node.js server keeps users,
projects and sessions in Postgres, starts agents inside sandbox VMs (BoxLite,
Blaxel or local processes), relays their terminals to browsers, hibernates idle
sessions, wakes them again, and runs git and preview services around them. This
directory holds TLA+ modules translated from `server/src`, TLC configurations,
and TLAPS proofs.

    tlc -config MCSessionLifecycle_restart.cfg MCSessionLifecycle
    tlapm SessionLifecycle_proofs.tla

`PROJECT.json` lists components, runs, mutants, the source lines each definition
stands for, findings, hazards and theorems.

## Inventory

| Part | State | Operations | What makes it correct |
|---|---|---|---|
| `session/SessionManager` | Map id -> session object: handle, status, `hibernating`, crash count, listeners, subscribers | createSession, exit callback, begin/complete/cancelHibernate, deleteSession, subscribe | an object replaced or deleted never acts on its successor; "alive" means an agent runs |
| `session/resumeSession` | `inFlightResumes`, 30 s timers | resume: provision, reattach or kill and spawn, write the row | one agent a session; every caller is answered |
| `session/idleHibernate`, `sessionTermination` | sweep timer | stop, sweep, hibernate VM | a stop leaves either an idle session or an honest one |
| `session/recoverRunningSessions`, `reconcileRunningSessions` | none | start-up: attach again or settle | no second agent, no second stream |
| `runtime/BoxLite*` | sockets, reattach attempts, last rseq | spawn, attach, exec, kill, hibernate, destroy | an exit is reported once; output resumes after the last rseq |
| `runtime/TranscriptStore` | frames, seq, write queue | append, read, flush, remove, reattachCursor | monotone seq, single writer, cursor of the current execution |
| `session/terminalBridge`, SSE, `createWsSender` | per client: cursor, live batch, queue | replay, live, exit | output exactly once, in order, exit last |
| `runtime/RuntimeService`, `singleflight` | runtime rows and cache, flights | ensure, destroy | one VM a project; nobody uses a destroyed one |
| `session/start` in `server.js` | rows | provision | a deleted session is not started; quotas hold |
| `git/gitMutationLock` | Map of promise tails, held keys | run under the project's lock | serial, in order, re-entrant, no deadlock, no leak |
| `github/GitOperationService`, `git/MergeRequestService` | merge request rows | git commands, create, sync, webhooks | one row per merge request |
| `deployments`, `preview` | preview rows and processes | start, stop, expire, recover | a stopped preview does not run |
| `llm` | request buckets, session tokens | admit, proxy | limit per window; a revoked token stays revoked |
| `session/workspaceShell` | Map of shells | open, idle timeout, exit | an exit ends its own shell |
| `runtime/CustomImageService`, `AgentBoxImageService` | build rows, a shared global and per-user semaphores, two queue loops | create, build, retry, delete, reconcile | each build once, within the limits; no slot lost; nothing starves |
| `auth`, `admin`, `agents`, `workspace`, `repositories`, gateway management | rows and files | sequential editing | no interleaving of interest |
| `web`, `desktop`, `gateway` (Rust), `boxlite`, `deploy` | | | outside: clients, a separate process, scripts |

They interact through four things: the `sessions` row (read at the start of a
request and written at its end), the SessionManager's Map (looked up *by id*
again after every await), the VM shared by a project's sessions, and callbacks
(stream exit, timers). Node runs one callback at a time, so every hazard sits at
an `await`: what was read before it may be stale after it. `PROJECT.json`
lists the hazards with their lines and the properties that would catch them.

## Modules

**`SessionLifecycle`**: one recoverable L2 session on BoxLite. An action is the
code between two awaits.

- `row` is the database row (status, stream_ref). A write is the step at which it
  commits; the exit listener's write is not awaited, so it waits in `exitWrite`.
- `entry[h]` is a session object together with the `BoxLiteStreamHandle` it was
  created with: `open` (the handle is not `_closed`), `attached` (the object's
  `handle` is not null), `status`, `hib` (`hibernating`), `listening` (its exit
  listeners have the lifecycle one). `cur` is what the Map holds. Several slots
  exist because replaced objects live on in closures.
- `live` are the agent executions inside the VM, `vm` the VM, `exitLogged`
  whether the transcript has an exit frame (then `reattachCursor` is null).
- `rq`, `sq`, `dq` hold the local state of resume, stop or sweep, and delete
  requests; `lock` is the promise in `inFlightResumes`; `boot` is start-up
  recovery. Its attach and its `createSession` are two steps with a query between them
  (`recoverRunningSessions.js:90`), and an exit that comes there calls nobody
  (`BootUnheard`). `unheard` is a history field: the stream of this entry ended without a
  listener of the session hearing it, in that gap or by the hand of a stop whose hibernation
  then failed.
- Actions: `Resume*` (resume endpoint, the wake of a terminal, `resumeSession`),
  `Exit`, `PersistExit`, `AgentEnds` (environment), `Stop*` and `Sweep*`
  (`stopSession`, `sweepOnce`), `Delete*`, `Restart`, `Boot*`, `LockExpire`.

Its abstractions: one session alone in its project (so a delete destroys the
VM and pkill by name hits only this session's agents); configuration, git
checkpoint and titles are left out; a graceful shutdown is covered by the ruder
`Restart`; the 800 ms probe and the attach may succeed on any timing; database calls do
not fail.

`Faults` switches the failures of the environment: `lockExpiry` (the 30 s
timer fires), `killFails` (pkill inside the VM fails; its error is swallowed),
`hibernateFails` (provider error), `streamLost` (the socket is lost and three
attempts fail while the agent lives).

**`GitMutationLock`**: `withProjectGitLock`. `tails` is the Map, `prev[c]` the
promise a queued call waits for, `within` the store of `AsyncLocalStorage`: the
running mutations a call was made from. `Enter` is a call from outside, `EnterHeld` the
re-entrant branch, `Settle` the end of the run promise, `Cleanup` its `finally`.
`ahead` is a history variable. Callers await the operations they nest, and nest
none of another project, as `MergeRequestService.create` and the routes of
`projectGit.js` do; `nests` bounds how many. What does not take the lock is not in the
model: `GitOperationService.cloneRepo`, and in `git/LocalGitService.js` `commitCheckpoint`
(line 339), `restoreCheckpoint` (460-477: add, commit, reset, clean) and `resolveConflict`
(769-776). Those change the same workspace and nothing keeps them apart from a mutation under
the lock, so `Serialized` speaks of the callers of `withProjectGitLock` only.
**`FifoMutex`** is what the lock promises, a first-come first-served mutex for
each project, and `ServesInOrder == Mutex!Spec` is the refinement.

**`Transcript`**: the state `TranscriptStore` keeps of one stream, as a value: the frames
in memory, the prefix of them in the file, the queue in between. `AppendFrame`,
`FlushedTo`, `Reloaded` (a new process), `ReadFrom`, `ReadTail`, `ReattachCursor`.
The sequence number of a frame is its position. `Picked` and `Nth` say which outputs a loop
over frames leaves by the rank of their positions, and not by a recursion over the sequence,
which the provers could not unfold.

**`OutputStream`**: the output of one execution from blink to the transcript.
`sock` are the attach sockets, `handle` the `BoxLiteStreamHandle` (`closed`,
`reattaching`, `attempts`, `last` = `_lastRseq`, `due` = delay timers not yet fired)
and who listens to it (`owner`), `store` the transcript. Actions: `Frame` and `ExitMessage` (the
message handler), `Break`, `Refused`, `ConnectTimeout`, `DelayOver`, `Open`
(`_tryReattach` and the handlers it installs), `CreateSession` (listeners exist
from here on), `Crash`, `Recover` (`recoverRunningSessions`). `missed` and
`rewound` are history variables: outputs that came before anybody listened, and
whether a recovered handle was cut before its first frame. It is the detail
behind the stream that `SessionLifecycle` assumes.

**`TerminalReplay`**: a terminal from the transcript to the screen. `sess` is the
session object (listeners, subscriber count), `micro` the microtasks that carry an
output to its listeners, `conn` the server's end of a connection (`after` the cursor it
asked for, `sent` = `lastSentSeq`, `batch` the live batch), `wire` what is under way, and
`tab` the client in `AgentConsole.jsx`: the cursor it stores, the write buffer and pending cursor of each
connection's closure, the animation frame, the screen. A replay sends the frames after the
cursor, and where there are none `session.history` (`ReplayMsgs`): a suffix of the outputs, as
many as 32 KB have room for, without a number. `screen` has the outputs that came
with a number, `again` those that the history showed; the keystrokes the history holds
too are left out. Actions: `Output`,
`RunMicro`, `AgentExit`, `Subscribe` (replay and listeners, one step because it
has no await), `FlushBatch`, `Wake`, `CloseSeen`, `ClientInput`, `Stop`, `Resume`,
`Crash`, and the client's `Connect`, `Disconnect`, `Deliver`, `AnimationFrame`.
`Faults`: `framesLost` (a crash loses queued frames), `hiddenTab`
(animation frames are suspended while the tab reconnects).

**`ImageBuilds`**: the queue of custom images and the queue of agent images.
`row` is a build's database row, `older` its place in the queue (`createdAt`), `custom` and
`agent` the two loops with their step and the build they are at, `exec` the builds that run,
`global` and `user` the semaphores of **`Semaphore`** (`Acquire`, `Release`).
Actions: `Ask`, `AskReady`, `DeleteImage`, `DeleteImageRow`, `DeleteBuild`
(requests), `Custom*` and `Agent*` (the loops, the executions and what they do
when they end), `Restart` with `reconcileCustomImageBuilds`.
**`BuildPool`** is what the services promise, and `BuiltOnce == BuildPool!Spec` is
the refinement: a build is `new`, `waiting`, `executing` or `ended`, starts
only when there is room, and never starts again.

**`ProjectRuntime`**: the VM that the sessions of a project share, on BoxLite.
`row`, `claim` (its `runtime_id`), `entries` and `exitWrite` are a session's row, its entry in the
Map and an exit status not yet committed; `vm` and `agents` what blink runs; `recorded`
the specs of the `runtimes` row; `flight` the promise in the `singleflight` Map with the step
of `ensureReady` it is at; `start` and `del` the requests. Actions: `Flight*`
(`ensureProjectRuntime` and `ensureReady`), `Start*` (`POST /session/start` and the
provisioning nobody waits for), `Delete*`, and what ends by itself (`AgentEnds`,
`VmStops`, `StreamEnds`, `ExitCommits`). Any deletion of a VM, `openSession` (for good, or with
the errors it tries again), the status check, the probe, the spawn, the attach, the pkill
and `saveSessionConfig` may fail (`Fault`); other database calls do not. The
sessions run one agent from one image and cannot be resumed; the project names its default
runtime, as every project does after its first start.

**`MC*`** give the instances; **`*_proofs`** the theorems.

## What is checked

| Run | Bounds | Shows |
|---|---|---|
| `session_restart` | 2 resumes, 1 stop or sweep, 2 slots, 2 executions, 1 restart; lost streams, failing hibernation; fair | `TypeOK`, `SingleAgent`, `SingleWriter`, `NoZombie`, `ResumeAnswered`, `DeathNoticed` |
| `session_delete` | 1 resume, 1 stop, 1 delete, 2 slots, 2 executions; lock expiry, failing pkill | `ReplacedInert`, `ExitOwnSession` |
| `git_lock` | 3 calls, 2 projects, 2 nested calls each, fair | `Serialized`, `TailIsLast`, `ServesInOrder`, `CallsReturn` |
| `session_lock_expiry` | 2 resumes, lock expiry | **violated**: two agents |
| `session_two_stops` | 2 stops, 1 resume, 3 executions | **violated**: two transcript writers |
| `session_revocation` | 1 resume, 1 delete | **violated**: 'running' over 'exited' |
| `stream_faults` | 3 outputs, 3 sockets, 3 breaks, 2 timeouts, 2 crashes, 2 attempts, fair | `TypeOK`, `NoHole`, `Exact`, `EndReported` |
| `terminal_reconnect` | 2 connections, 2 outputs, 1 keystroke, 1 resume or restart, 1 listener slot, 1 reconnect, a tail of 1 output, fair | `TypeOK`, `ScreenInOrder`, `CursorShown`, `HistoryRepeats`, `NothingStuck`, `SubscribersLeave`, `ExitLast`, `CaughtUp` |
| `terminal_lost_frames` | the same, and a crash loses frames | **violated**: a cursor past an output never shown |
| `terminal_history` | the same as `terminal_reconnect`, no fault | **violated**: an output shown twice |
| `runtime_shared` | 2 sessions, each started and deleted once, 2 failures, fair | `TypeOK`, `LastOneOut`, `ProvisioningSpares`, `StartsSettle` |
| `image_queues` | 2 custom builds of one user, 2 agent builds, 2 global slots, 1 for each user, 1 restart, fair | `TypeOK`, `SlotsAccounted`, `BuildLimits`, `BuiltOnce`, `SeenIsBuilt` |

Why the bounds are enough to be interesting: two slots let an old stream outlive
its replacement, two executions let a stale one meet a new one, two resumes let
one join, lead or follow the other, and `CrashThreshold = 1` reaches the tripped
circuit breaker at once. The slots are the only resource the code does not have:
`Free` says that a slot is taken again only when nothing can reach the old object.
`session_restart` checks liveness and so uses no symmetry; instead it starts with one of the two
slots, which are alike, and takes the other only when that one is not free
(`FairSpecFromOneSlot`, `TakesFirst`). `session_delete` counts states as one that differ only in
what a free slot still holds (`FreeSlotsAlike`), which nothing reads; without that view it
passes too, in twice the time. In `session_delete` one resume cannot be overtaken by another, so
`lockExpiry` changes nothing there: the half of `ReplacedInert` and `ExitOwnSession` about an
entry that a second resume replaces rests on the theorems, the half about deletes on both.
Three git calls give a holder, a waiter and one that is either, in the same project,
another one or nested. Two sessions make one provisioning and one delete meet any step
of another's, and two failures are what it takes to reach the throw of a VM that
'still exists'. In `stream_faults` three breaks use up two attempts, two timeouts
with three sockets let two attempts overlap, and the second crash hits a stream that was
recovered. Two connections give a tab a lingering predecessor, and one listener
slot lets that predecessor take it; one output more than the tail holds makes the first
replay omit one. Two global slots and one of the user let the custom loop sit on
a global slot that the agent loop waits for, and two builds in each queue let one
wait while another runs.

Properties worth explaining:

- `SingleAgent`: at most one agent process of the session runs. It is the
  promise of `docs/DurableSessions.md` (12.4), and the code keeps it with the
  resume lock and the pkill before each spawn, so it needs that neither
  `lockExpiry` nor `killFails` occurs.
- `SingleWriter`: at most one open stream with a session object leads to a running
  agent, because each such stream appends to the transcript.
- `ReplacedInert`, `ExitOwnSession`: callbacks of replaced or deleted sessions
  are harmless to the next one, under every fault.
- `NoZombie`, `DeathNoticed`: a session reported alive has a stream that will
  report its end, and a death is eventually noticed. Two kinds of session are excepted
  (`unheard`), which the code really leaves behind until the next sweep or restart: an exit that
  comes while the recovery awaits the runtime's row, and `cancelHibernate`, which
  restores 'running' after the handle was killed. The run has both.
- `NoHole`: whatever the sockets did and however often the control plane
  restarted, the transcript has every output up to the last one the handle has
  seen, except those that came before the session object. Frames that a crash loses
  are fetched again, because `reattachCursor` looks at what the file still has.
- `Exact`: each output once, in order, exit last. It needs that no connect timed
  out (the timer and the error of its socket both re-attach, and two sockets then deliver the
  same outputs) and that a
  recovered handle was not cut before its first frame (`_lastRseq` is 0 although
  it was attached after a cursor, so it reads from the start).
- `EndReported`: re-attaching neither stops half-way nor goes on for ever.
- `ScreenInOrder`, `CursorShown`, `ExitLast`: the outputs that come with a number are shown in
  order, each once, without gaps; the cursor to reconnect with is never past an
  output that was not shown; the exit is shown after everything before it, although
  outputs wait in microtasks, batches, write buffers and animation frames.
- `HistoryRepeats`: what `session.history` adds to the screen is never newer than the newest
  output shown in order, so that it repeats but leaves no gap. That it does repeat is
  `terminal_history`.
- `NothingStuck`: when nothing is under way to a connected tab that has a listener, its
  screen ends with the newest output. It is the safety half of `CaughtUp`: none is left behind
  by the filters on `lastSentSeq` or between the replay and the first live frame.
- `SubscribersLeave`: the count that keeps a session from being swept comes down
  again. `Deaf` in `CaughtUp` names who is not served although connected: a
  connection whose session was stopped and resumed under it, and one that found
  `MAX_OUTPUT_LISTENERS` taken.
- `SlotsAccounted`, `BuildLimits`, `BuiltOnce`: the semaphores count exactly what
  holds a slot, through deletions, failures and restarts, hence the limits hold.
- `LastOneOut`: deletes that overlap look at each other's rows, and the VM must go with the
  last. It holds because each writes 'exited' before it looks. It speaks of sessions
  that were started in full; a session deleted while it is provisioned, or one that
  failed, leaves its VM behind.
- `ProvisioningSpares`: a flight that takes the VM of a running agent never does so for the
  image or the mount (it decides that on specs it has read, and no agent runs by then,
  because whoever waits for a flight spawns after the specs are written), nor because it saw
  that the VM does not run. It does so in two cases, which the formula names. `Unseen`:
  openSession deletes a VM whose status it could not read, or, after four errors that
  should pass, without having asked (lines 194 and 221 of the provider). `Probed`: the
  old VM was lost, this flight has brought it back, a session provisioned earlier spawned into it,
  and then the probe of the agent command fails and the VM is deleted (line 255).
- `StartsSettle`: the provisioning that nobody waits for leaves no row 'pending',
  whichever step fails and whoever shares the flight. A request that is answered with an
  error because `saveSessionConfig` threw (`server.js:1423`) has no provisioning: its row
  does stay 'pending' until the next start-up, and is left out (`unsaved`).
- `CallsReturn`: no call waits for ever, nested ones included. A comment in
  `github/GitOperationService.js:623` says the opposite ("nested same-key lock would deadlock"),
  against the lock's own comment ("Re-entrant for the same project within the same
  async chain", `gitMutationLock.js:4`) and its test (`gitMutationLock.test.js:41`). The lock
  is re-entrant; the comment is out of date.
- `SeenIsBuilt`: a queued build that its loop can still see is picked. `Seen`
  leaves out two cases in which the code lets a build wait for the next call: a
  row queued between the last SELECT of a loop and its end, and agent builds
  after a restart (hazards at `CustomImageService.js:413` and
  `AgentBoxImageService.js:465`).

The five violations are disagreements between the documentation and the code;
`PROJECT.json` quotes the lines. In short: (1) `withResumeLock` forgets a
promise after 30 s although its body still runs; (2) `completeHibernate` acts on
whatever session the id names when a stop ends, and nothing serializes two
stops; (3) a resume writes 'running' without looking whether the session was
deleted meanwhile; (4) frames reach the tab before they reach the file, and their numbers are
given out again after a crash; (5) a tab that reconnects and has missed nothing is sent
`session.history`, up to 32 KB that it has already shown, against the "loses nothing,
repeats nothing" of `docs/DurableSessions.md:150`. The comment about a deadlock above is the sixth
finding, recorded with `git_lock`: there the code keeps what the comment denies, so that run passes.

**Fairness.** Weak fairness for each operation in flight, delivery of an exit,
commits and start-up: the event loop runs every callback that is due, and every
await in these paths has a timeout. Requests, agent exits, faults and restarts
are never promised. In `GitMutationLock` it is weak fairness of a call's own
next step: promises settle, and the git processes have ended by then. Every
mutation nests at most `MaxNested` calls: with an unlimited number it need not end.

In `OutputStream` timers fire, a connect ends in one of its three ways and an open
socket delivers; that sockets break is never promised. In `TerminalReplay` the
server's timers and microtasks run, messages on a connection that is up arrive, the heartbeat
notices a broken one, and a visible tab is painted. In `ImageBuilds` the loops run
on and docker ends (`BUILD_TIMEOUT_MS`). In `ProjectRuntime` the event loop goes on while any
provisioning can: every call to blink has an end.

`CHECK_DEADLOCK` is on for the session and git runs. It is off for the stream,
terminal, image and runtime runs, which really may stop: the execution has ended and its end is
logged, the tab has given up or shown the exit, every build is done, every session is deleted.

## What is proved

For every value of the constants (any number of requests, slots, executions,
restarts, calls, projects, builds, outputs, sockets, connections, sessions and failures):

- `TypeCorrect`: `Spec => []TypeOK` of `SessionLifecycle`.
- `OneAgent`: if `lockExpiry` and `killFails` are not in `Faults`, then
  `Spec => []SingleAgent`. `SingleAgent` is not inductive: one must know that only
  one resume is between its pkill and its spawn, and that nothing runs then.
  `AgentInv` adds `OwnsLock` (whoever is between provisioning and the last
  write owns the lock) and `SpawnsAlone` (before the spawn no agent runs).
  `OwnsLock` is what `lockExpiry` breaks, `SpawnsAlone` what `killFails` breaks:
  both assumptions are needed, and TLC shows the first.
- `OnlyCurrentListens`: `Spec => []ReplacedInert`, with no assumption about faults.
  `InertInv` adds that a listening, open entry still has its handle, so that
  `deleteSession` kills it.
- `ExitsStayOwn`: `Spec => ExitOwnSession`.
- `AliveIsOpen`: `Spec => []NoZombie`, with no assumption about faults.
  The inductive `ClosedByDelete` says who may close the stream of a session that says it is
  alive outside of a stop and is not `unheard`: a delete that has not forgotten it yet. `BootInv`
  adds that until the recovery has created its session it is alone, and that the stream it has
  attached is open or marked.
- `OneWriter`: if `lockExpiry` is not in `Faults` and `OneStopOrDeletes` holds (at most one
  stopper, and none where there are deleters), then `Spec => []SingleWriter`. `WriterInv` says that the
  only open stream with listeners is that of the current session, which says it is alive, and that
  a stop under way has closed it (`EntryInv`); that no session is alive while a resume
  is between its check and `createSession` (`CreatesAlone`, by `OwnsLock`) or start-up has not
  re-attached (`BootsAlone`); and that the stream a resume probes is not the session's
  (`ProbesApart`). `killFails` and `hibernateFails` may occur. The hypothesis
  on stops is what the code needs: two overlapping stops break the property
  (`session_two_stops`), and TLC finds a violation by one stop and one delete, too, in 24 steps.
- `LockTypes`, `MutationsSerialized`, `TailsExact` and `FirstComeFirstServed`
  (the refinement of `FifoMutex`) of `GitMutationLock`. The inductive invariant
  `LockInv` says that the queue of a project is totally ordered by `ahead`
  (`InLine`), that `prev` is the immediate predecessor (`Predecessor`), that the
  Map holds the end of the queue (`TailInv`), and that a nested call's holder
  runs (`Nesting`). The holder is first in the order, and there is one first.

- `TypeCorrect`, `SlotsAreAccounted`, `LimitsHold` and `ImplementsPool` (the
  refinement of `BuildPool`) of `ImageBuilds`, for any sets of builds, users and
  owners and any limits. `SlotsAccounted` is not inductive, because a loop that
  waits must be the one the semaphore has queued: `IInv` says who may wait for what
  (`GlobalAccounted`, `UserAccounted`) and that what is queued or picked is not executed yet
  (`NotYetExecuted`, which makes a build start only once). The lemmas of
  `Semaphore_proofs` say that `Acquire`, `Release` and the exchange of a
  slot keep count and holders equal, whatever the holders are.
- `TypeCorrect`, `NothingLost` and `OnceInOrder` of `OutputStream`. `IInv` says that whatever
  precedes an output in the execution precedes it in the transcript or was missed (`NoGap`), and
  that every position a socket or `last` stands at is covered by the transcript
  (`Caught`). `ExactInv` adds that without a timed-out connect there is one
  socket or one delay (`OneSocket`), that nothing stored lies ahead of it (`Ahead`), and that an exit
  is stored only when nobody writes any more (`ExitIsEnd`).
- `TypeCorrect` and `NoLastingSubscribers` of `TerminalReplay`, under every fault. The count alone
  is not inductive: `CountInv` compares it with the exit listeners, each of which is an open
  connection. `TypeInv` adds what the types of messages, batches and cursors rest on, and
  `StoreInv` how many keystrokes and exits the transcript can hold.
- `OutputsInOrder` (`ScreenInOrder`), `HistoryIsOld` (`HistoryRepeats`), `CursorIsShown`,
  `NoOutputStuck` (`NothingStuck`) and `ExitShownLast` (`ExitLast`), if `framesLost` and `hiddenTab` are not in `Faults`, for any number of
  connections, outputs, keystrokes and resumes and any size of tail. None is
  inductive, because an output passes through five places that other steps fill and empty.
  `OrderInv` says that they form one line: from the screen over the write buffer of the
  animation frame, the messages on the wire and the live batch to the microtasks the outputs follow
  each other without a gap, and for a listening connection the line ends with the newest one
  (`LineInv`); every message carries the outputs between two cursors of the transcript
  (`Carries`, `Chain`); the cursor of the tab is that of its last output shown (`TabOrder`); the
  microtasks hold the newest outputs, each for all listeners (`MicroOrder`); the transcript
  has every output (`Complete`). A replay of `session.history` leaves the line as it is, and
  what it brings is no newer than what the tab shows or holds in its write buffer (`Repeats`). Each action has a lemma that says what it does to the line.
  Both hypotheses are needed for `ScreenInOrder`, `CursorShown` and `ExitLast`: with either fault TLC
  finds each of them violated (`terminal_lost_frames` is one of the six; the hidden tab takes three
  connections for the last two). `HistoryRepeats` fails when frames are lost; with a hidden tab TLC
  finds it true on three connections, and the proof does not cover that.
  The lemmas of `Transcript_proofs` about `Picked`, `ReadFrom` and `ReadTail` are shared by the
  proofs of `OutputStream` and `TerminalReplay`.
- `TypeCorrect`, `LastTakesVm` and `AgentsSpared` of `ProjectRuntime`. `Held` says that a VM
  always has a holder, a session that is not deleted in full: a busy flight has one that waits
  for it, and a delete that leaves the VM has seen one whose row is not over, which no
  delete that has marked its row can be. `Spared` says that whoever is past a
  provisioning finds the specs recorded, that agents run only by then and in a running VM, that a
  flight that recreates the VM began before they were, and that a flight revives a VM it has
  looked at only if that does not run.

Every invariant and action property of a passing run is proved, the two refinements included. Only
model-checked are the liveness properties: `ResumeAnswered`, `DeathNoticed`,
`CallsReturn`, `EndReported`, `CaughtUp`, `SeenIsBuilt` and `StartsSettle`. Liveness under
fairness is out of the prover's reach.

The inductive invariants were checked with TLC before they were proved: `AgentInv`, `InertInv`,
`BootInv`, `ClosedByDelete`, `WriterInv`, `LockInv`, both `IInv`, `ExactInv`, the `Inv` of
`ProjectRuntime_proofs`, and for the terminal `TypeInv` under both faults (8.9 million states)
and, without them, `Repeats` and `OrderInv` (560 thousand states of the run's instance with a third output, and
6.4 million of one with three connections, not finished).

## Plan

What a continuation would add, in this order:

1. Hibernation and resumption in `ProjectRuntime`: a stop of one session stops the VM of the others.
2. `MergeRequests` over `GitMutationLock`: find-or-create against sync.
3. The registry of agent image versions on top of `ImageBuilds`.
4. Previews, `LlmQuota`, `WorkspaceShell`.

Theorems worth proving next: that `OutputStream` implements the source of outputs which
`TerminalReplay` assumes (its `Output` and `AgentExit` append in order, the exit last, which `Exact`
already says of the transcript); what `OutputsInOrder` becomes with a hidden tab, whose
write buffer outlives its connection; and the invariants of the modules the plan adds.

## What is not modelled

`PROJECT.json` gives the status and the reason for each part, and its hazards the
lines. The larger omissions:

- **Sharing a VM.** `ProjectRuntime` has no hibernation: stopping one session does stop the
  others of its project (`idleHibernate.js:175`), and `SessionLifecycle` has one session alone.
  It has one agent and one image: a flight of `singleflight` is shared by starts of different
  agents, and the image that loses recreates the VM under the other agent. A project without a
  default runtime provisions its first start under another key than the next ones, so
  that two flights may run at once. Passive callers of `ensureProjectRuntime`, custom images and
  quotas, which are counted before the row is inserted (`server.js:1266`), are left out.
- **What `ProjectRuntime` has and no property forbids.** A start looks at its row and then
  writes 'running' without a condition (`server.js:1695`), over a delete or an agent that ended
  before anybody listened; `waitForAgentExit` ends the agents of sibling sessions that
  have the same command.
- **MergeRequestService.** A row is looked for and inserted in two steps, outside
  the project's git lock.
- **Previews.** Only the local provider, which is for development, starts them.
- **LLM quota and workspace shell.** Their races are listed as hazards.
- **The HTTP transport of terminals** (SSE) shares `subscribeTerminal`; its own
  connection handling is left out, like `createWsSender`'s limit of 200 messages.
- **MAX_FRAMES.** The transcript of the models is never trimmed.
- **Hidden tabs.** With `hiddenTab` in `Faults` a write buffer outlives its
  connection and outputs are shown twice; no run promises otherwise.
- **Agent image versions.** Which version is active is decided by two updates that are
  not one transaction.
- **Outside the state machines:** clients apart from the terminal, the Rust
  gateway, file-system adapters, catalogues and configuration writers have no shared state
  that interleaves, or are separate programs.
