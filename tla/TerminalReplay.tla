---------------------------- MODULE TerminalReplay ----------------------------
(***************************************************************************)
(* The terminal of one session, from the transcript to the screen: the     *)
(* listeners of the session object, subscribeTerminal of terminalBridge    *)
(* with its replay, live batches and exit, the WebSocket route, and the    *)
(* browser tab (AgentConsole.jsx) that reconnects with the last sequence   *)
(* number it has seen.                                                     *)
(*                                                                         *)
(* An action is the code between two awaits or timers.  replayTranscript   *)
(* has no await, so subscribing and replaying are one step, and frames     *)
(* never wait in pendingLiveFrames.  The tab that is followed opens the    *)
(* connections 1, 2, ..; an earlier one may linger on the server, which    *)
(* notices a dead socket only at its next heartbeat.  How a session is     *)
(* stopped and resumed is SessionLifecycle's; here it is one step.         *)
(***************************************************************************)
EXTENDS Transcript

CONSTANTS
    MaxConns,       \* bound: connections the tab ever opens
    MaxOut,         \* bound: outputs the agent ever produces
    MaxIn,          \* bound: keystrokes
    MaxResumes,     \* bound: resumes of the session, restarts included
    MaxListeners,   \* MAX_OUTPUT_LISTENERS
    MaxReconnects,  \* DEFAULT_MAX_RECONNECTS
    TailOuts,       \* how many outputs TAIL_BYTES has room for
    Faults          \* which failures the environment may inject

FaultKinds == {"framesLost", "hiddenTab"}

ASSUME TerminalAssumption ==
    /\ {MaxConns, MaxOut, MaxListeners, TailOuts} \subseteq Nat \ {0}
    /\ {MaxIn, MaxResumes, MaxReconnects} \subseteq Nat
    /\ Faults \subseteq FaultKinds

VARIABLES
    store,    \* the transcript of the session
    next,     \* the output the agent's stream delivers next
    ins,      \* keystrokes so far
    sess,     \* the session object the Map holds
    resumes,  \* resumes so far
    micro,    \* queueMicrotask: outputs on their way to the listeners
    conn,     \* the server's end of every connection
    wire,     \* messages sent to the tab and not delivered
    tab       \* the browser tab

vars == <<store, next, ins, sess, resumes, micro, conn, wire, tab>>

Conns == 1..MaxConns
NoConn == 0
Seqs  == 0..(MaxOut + MaxIn + MaxResumes + 1)

Fresh(st) == [status |-> st, subs |-> 0, out |-> {}, exit |-> {}]

\* pc: "route" up to subscribeTerminal, "waking" in resumeSession, "open" once
\* subscribed, "ended" after the cleanup.  closed: the socket was closed.
NoConnection == [pc |-> "none", closed |-> FALSE, after |-> 0, sent |-> 0,
                 batch |-> <<>>]

\* st: "retry" (a connect is due), "live", "over" (exit shown), "failed".
\* cursor: the sequence number kept in sessionStorage.  buf, seq: writeBuffer and
\* pendingSeq of the closure of each connection.
\* raf: the closure an animation frame is asked for.  screen: outputs shown that
\* came with a number.  old, again: outputs of session.history, which have none, in
\* the write buffer and on the screen.
NewTab == [st |-> "retry", conn |-> NoConn, first |-> TRUE, attempts |-> 0,
           cursor |-> 0, raf |-> NoConn, screen |-> <<>>, again |-> {},
           buf |-> [c \in Conns |-> <<>>], seq |-> [c \in Conns |-> 0],
           old |-> [c \in Conns |-> {}]]

TypeOK ==
    /\ \A i \in 1..HeadSeq(store) : store.frames[i] \in Frames(MaxOut)
    /\ store.frames = store.disk \o store.queue
    /\ next \in 1..(MaxOut + 1)
    /\ ins \in 0..MaxIn
    /\ sess.status \in {"running", "idle", "exited"}
    /\ sess.subs \in 0..MaxConns
    /\ sess.out \subseteq sess.exit /\ sess.exit \subseteq Conns
    /\ Cardinality(sess.out) <= MaxListeners
    /\ resumes \in 0..MaxResumes
    /\ \A i \in 1..Len(micro) : micro[i].to \subseteq Conns
    /\ \A c \in Conns :
          /\ conn[c].pc \in {"none", "route", "waking", "open", "ended"}
          /\ {conn[c].sent, conn[c].after} \subseteq Seqs
    /\ tab.st \in {"retry", "live", "over", "failed"}
    /\ {tab.conn, tab.raf} \subseteq Conns \cup {NoConn}
    /\ tab.again \subseteq Nat

Init ==
    /\ store = EmptyStore
    /\ next = 1
    /\ ins = 0
    /\ sess = Fresh("running")
    /\ resumes = 0
    /\ micro = <<>>
    /\ conn = [c \in Conns |-> NoConnection]
    /\ wire = [c \in Conns |-> <<>>]
    /\ tab = NewTab

(***************************************************************************)
(* Helpers of the bridge.                                                  *)
(***************************************************************************)
IsAlive == sess.status = "running"

OutputMsg(os, s) == [type |-> "output", outs |-> os, seq |-> s]
HistoryMsg(os)   == [type |-> "history", outs |-> os, seq |-> 0]
ExitMsg(s)       == [type |-> "exit", outs |-> <<>>, seq |-> s]
Msg(t)           == [type |-> t, outs |-> <<>>, seq |-> 0]

\* The number of the last output among the frames numbered ns.
LastOut(st, ns) == Max({0} \cup OutsAt(st, ns))

\* flushFrames: what it sends for the frames numbered ns.
Flushed(st, ns) == IF OutsOf(st, ns) = <<>> THEN <<>>
                   ELSE <<OutputMsg(OutsOf(st, ns), LastOut(st, ns))>>

\* maybeFinalizeExit, when the session is not alive: what the exit of
\* connection k sends is the rest of the transcript, then the exit.
\* (Mutant: the exit is sent without the frames that have not been flushed.)
ExitAtOnce(st, k) == <<ExitMsg(HeadSeq(st))>>
ExitMsgs(st, k) == Flushed(st, ReadFrom(st, k.sent)) \o <<ExitMsg(HeadSeq(st))>>

Ended(k) == [k EXCEPT !.pc = "ended", !.batch = <<>>, !.closed = TRUE]

\* removeTerminalSubscriber: of the object the Map holds now, never below 0.
Without(s, cs) == [s EXCEPT !.out = @ \ cs, !.exit = @ \ cs,
                            !.subs = IF @ < Cardinality(cs) THEN 0
                                     ELSE @ - Cardinality(cs)]

\* createWsSender sends nothing to a closed socket, and nothing that is sent
\* to a tab that has gone arrives.
Send(w, c, ms) == IF conn[c].closed \/ tab.conn # c THEN w
                  ELSE [w EXCEPT ![c] = @ \o ms]

(***************************************************************************)
(* The agent's stream: SessionManager's onData and onExit.                 *)
(* One socket read may carry several frames, whose callbacks run before    *)
(* the microtasks of the first: only these two can precede RunMicro.       *)
(***************************************************************************)
Output ==
    /\ IsAlive /\ next <= MaxOut
    /\ store' = AppendFrame(store, OutFrame(next))
    /\ next' = next + 1
    /\ micro' = IF sess.out = {} THEN micro
                ELSE Append(micro, [to |-> sess.out, seq |-> HeadSeq(store) + 1,
                                    n |-> next])
    /\ UNCHANGED <<ins, sess, resumes, conn, wire, tab>>

AgentExit ==
    /\ IsAlive
    /\ LET st == AppendFrame(store, ExitFrame)
           cs == sess.exit
       IN  /\ store' = st
           /\ conn' = [c \in Conns |-> IF c \in cs THEN Ended(conn[c]) ELSE conn[c]]
           /\ wire' = [c \in Conns |-> IF c \in cs
                                       THEN Send(wire, c, ExitMsgs(st, conn[c]))[c]
                                       ELSE wire[c]]
           /\ sess' = [Without(sess, cs) EXCEPT !.status = "exited", !.out = {}]
    /\ UNCHANGED <<next, ins, resumes, micro, tab>>

\* The output listener of subscribeTerminal.
\* (Mutant: the frame after the last one sent counts as sent.)
QueueButNext(k, m) == IF k.pc # "open" \/ m.seq <= k.sent + 1 THEN k
                      ELSE [k EXCEPT !.batch = Append(@, m)]
Queue(k, m) == IF k.pc # "open" \/ m.seq <= k.sent THEN k
               ELSE [k EXCEPT !.batch = Append(@, m)]

RunMicro ==
    /\ micro # <<>>
    /\ LET m == micro[1] IN
         conn' = [c \in Conns |->
                    IF c \in m.to THEN Queue(conn[c], [seq |-> m.seq, n |-> m.n])
                    ELSE conn[c]]
    /\ micro' = Tail(micro)
    /\ UNCHANGED <<store, next, ins, sess, resumes, wire, tab>>

\* flushLiveBatch, 33 ms after the first frame of the batch.  There is no
\* pending exit: the exit listener has ended the connection at the exit.
FlushBatch(c) ==
    /\ micro = <<>>
    /\ conn[c].pc = "open" /\ conn[c].batch # <<>>
    /\ LET fresh == {i \in 1..Len(conn[c].batch) : conn[c].batch[i].seq > conn[c].sent}
           new == Picked(conn[c].batch, fresh)
           last == IF new = <<>> THEN conn[c].sent ELSE Last(new).seq
           outs == [i \in 1..Len(new) |-> new[i].n]
       IN  /\ conn' = [conn EXCEPT ![c].batch = <<>>, ![c].sent = last]
           /\ wire' = IF new = <<>> THEN wire
                      ELSE Send(wire, c, <<OutputMsg(outs, last)>>)
    /\ UNCHANGED <<store, next, ins, sess, resumes, micro, tab>>

(***************************************************************************)
(* The WebSocket route.                                                    *)
(***************************************************************************)
\* addTerminalSubscriber, replayTranscript, subscribeOutput and onExit, then
\* 'ready' and the handlers.  The last exit among the replayed frames is of an
\* earlier execution, since the session is alive: it is forgotten.
Replayed(k) == IF k.after > 0 THEN ReadFrom(store, k.after)
               ELSE ReadTail(store, TailOuts)

\* session.history: the newest outputs, as many as 32 KB have room for.  It is loaded
\* from the transcript and every output is added to it; its keystrokes are left out.
Histories == LET outs == OutsOf(store, 1..HeadSeq(store))
             IN  {SubSeq(outs, k, Len(outs)) : k \in 1..Len(outs)}

\* replayTranscript: the frames after the cursor; where there are none,
\* session.history, in an output message without a sequence number.
\* (Mutant: the history goes first, whether or not there are frames.)
HistoryFirst(k) == IF Histories = {} THEN {Flushed(store, Replayed(k))}
                   ELSE {<<HistoryMsg(h)>> \o Flushed(store, Replayed(k)) : h \in Histories}
ReplayMsgs(k) ==
    IF Replayed(k) # {} \/ Histories = {} THEN {Flushed(store, Replayed(k))}
    ELSE {<<HistoryMsg(h)>> : h \in Histories}

\* (Mutant: lastSentSeq stays where the replay began.)
SentUpToCursor(k, ns) == k.after
SentAfterReplay(k, ns) == Max({k.after} \cup ns)

\* subscribeOutput
\* (Mutant: one listener too many.)
ListeningOneMore(ls, c) == IF Cardinality(ls) > MaxListeners THEN ls ELSE ls \cup {c}
Listening(ls, c) == IF Cardinality(ls) >= MaxListeners THEN ls ELSE ls \cup {c}

Subscribe(c) ==
    /\ micro = <<>>
    /\ conn[c].pc \in {"route", "waking"} /\ IsAlive
    /\ conn' = [conn EXCEPT ![c].pc = "open",
                            ![c].sent = SentAfterReplay(conn[c], Replayed(conn[c]))]
    /\ \E ms \in ReplayMsgs(conn[c]) : wire' = Send(wire, c, ms \o <<Msg("ready")>>)
    /\ sess' = [sess EXCEPT !.subs = @ + 1, !.exit = @ \cup {c},
                            !.out = Listening(@, c)]
    /\ UNCHANGED <<store, next, ins, resumes, micro, tab>>

\* resolveLiveSession finds no live session and wakes it ..
Wake(c) ==
    /\ micro = <<>>
    /\ conn[c].pc = "route" /\ ~IsAlive
    /\ conn' = [conn EXCEPT ![c].pc = "waking"]
    /\ UNCHANGED <<store, next, ins, sess, resumes, micro, wire, tab>>

\* .. and resumeSession fails, or the session has ended again meanwhile.
WakeFails(c) ==
    /\ micro = <<>>
    /\ conn[c].pc = "waking" /\ ~IsAlive
    /\ conn' = [conn EXCEPT ![c] = Ended(@)]
    /\ wire' = Send(wire, c, <<Msg("error")>>)
    /\ UNCHANGED <<store, next, ins, sess, resumes, micro, tab>>

\* The server learns that the socket is closed.  The handler that cleans up is
\* registered after subscribeTerminal has returned: before, nobody hears it.
\* (Mutant: the clean-up runs without the subscriber being removed.)
HearsAndKeeps(c) == [sess EXCEPT !.out = @ \ {c}]
CleanedUp(c) == Without(sess, {c})

CloseSeen(c) ==
    /\ micro = <<>>
    /\ conn[c].pc \in {"route", "waking", "open"} /\ ~conn[c].closed
    /\ tab.conn # c
    /\ IF conn[c].pc = "open"
         THEN /\ conn' = [conn EXCEPT ![c] = Ended(@)]
              /\ sess' = CleanedUp(c)
         ELSE /\ conn' = [conn EXCEPT ![c].closed = TRUE]
              /\ UNCHANGED sess
    /\ UNCHANGED <<store, next, ins, resumes, micro, wire, tab>>

\* A keystroke of the tab takes a sequence number.
ClientInput ==
    /\ micro = <<>>
    /\ ins < MaxIn
    /\ tab.st = "live" /\ tab.conn # NoConn /\ conn[tab.conn].pc = "open" /\ IsAlive
    /\ store' = AppendFrame(store, InFrame)
    /\ ins' = ins + 1
    /\ UNCHANGED <<next, sess, resumes, micro, conn, wire, tab>>

(***************************************************************************)
(* The life of the session, and of the transcript file.                    *)
(***************************************************************************)
\* completeHibernate clears the listeners without telling the connections.
Stop ==
    /\ micro = <<>>
    /\ IsAlive
    /\ sess' = Fresh("idle")
    /\ UNCHANGED <<store, next, ins, resumes, micro, conn, wire, tab>>

\* createSession in place of the old object, whose listener sets are emptied.
Resume ==
    /\ micro = <<>>
    /\ ~IsAlive /\ resumes < MaxResumes
    /\ sess' = Fresh("running")
    /\ resumes' = resumes + 1
    /\ UNCHANGED <<store, next, ins, micro, conn, wire, tab>>

\* The control plane dies and starts again.  What the file holds by then is any
\* prefix of the transcript, for a flush writes all that is queued; without
\* "framesLost" it is everything, as after gracefulShutdown.  The stream is
\* attached again, after the last output in the file, or the session is settled.
\* Every connection breaks.
Crash ==
    /\ micro = <<>>
    /\ resumes < MaxResumes
    /\ resumes' = resumes + 1
    /\ \E k \in Len(store.disk)..HeadSeq(store) :
          /\ k = HeadSeq(store) \/ "framesLost" \in Faults
          /\ store' = Reloaded(FlushedTo(store, k))
    /\ \/ /\ IsAlive /\ CanReattach(store')
          /\ sess' = Fresh("running")
          /\ next' = ReattachCursor(store') + 1
       \/ /\ sess' = Fresh("idle")
          /\ UNCHANGED next
    /\ conn' = [c \in Conns |-> IF conn[c].pc = "none" THEN conn[c] ELSE Ended(conn[c])]
    /\ wire' = [c \in Conns |-> <<>>]
    /\ tab' = IF tab.st = "live" THEN [tab EXCEPT !.conn = NoConn, !.st = "retry"]
              ELSE tab
    /\ UNCHANGED <<ins, micro>>

(***************************************************************************)
(* The browser tab.                                                        *)
(***************************************************************************)
\* The reconnect timer is at least 500 ms, longer than any animation frame takes
\* in a visible tab; in a hidden one animation frames are suspended.
Connect(c) ==
    /\ micro = <<>>
    /\ tab.st = "retry" /\ tab.conn = NoConn
    /\ conn[c].pc = "none" /\ \A d \in 1..(c - 1) : conn[d].pc # "none"
    /\ tab.raf = NoConn \/ "hiddenTab" \in Faults
    /\ conn' = [conn EXCEPT ![c].pc = "route",
                            ![c].after = IF tab.first THEN 0 ELSE tab.cursor]
    /\ tab' = [tab EXCEPT !.conn = c, !.st = "live", !.first = FALSE]
    /\ UNCHANGED <<store, next, ins, sess, resumes, micro, wire>>

\* scheduleReconnect
Retry(t) == IF t.attempts >= MaxReconnects
            THEN [t EXCEPT !.conn = NoConn, !.st = "failed"]
            ELSE [t EXCEPT !.conn = NoConn, !.st = "retry", !.attempts = @ + 1]

\* The connection breaks: onclose, not clean.  What was under way is lost.
Disconnect ==
    /\ micro = <<>>
    /\ tab.st = "live"
    /\ tab' = Retry(tab)
    /\ wire' = [wire EXCEPT ![tab.conn] = <<>>]
    /\ UNCHANGED <<store, next, ins, sess, resumes, micro, conn>>

\* flushWriteBuffer of the closure of c.  What it keeps
\* back in syncTermPending, an incomplete block, is left out.
\* (Mutant: the cursor is the number of the first output, not of the last.)
WrittenToCursor(t, c) ==
    [t EXCEPT !.cursor = IF t.seq[c] > 0 THEN t.seq[c] + 1 ELSE @, !.seq[c] = 0,
              !.screen = @ \o t.buf[c], !.buf[c] = <<>>,
              !.again = @ \cup t.old[c], !.old[c] = {}]
Written(t, c) ==
    [t EXCEPT !.cursor = IF t.seq[c] > 0 THEN t.seq[c] ELSE @, !.seq[c] = 0,
              !.screen = @ \o t.buf[c], !.buf[c] = <<>>,
              !.again = @ \cup t.old[c], !.old[c] = {}]

AnimationFrame ==
    /\ micro = <<>>
    /\ tab.raf # NoConn
    /\ tab' = [Written(tab, tab.raf) EXCEPT !.raf = NoConn]
    /\ UNCHANGED <<store, next, ins, sess, resumes, micro, conn, wire>>

\* onmessage
Buffered(t, c, m) ==
    [t EXCEPT !.buf[c] = @ \o m.outs,
              !.seq[c] = m.seq,
              !.raf    = IF @ = NoConn THEN c ELSE @]
Rebuffered(t, c, m) ==
    [t EXCEPT !.old[c] = @ \cup ToSet(m.outs),
              !.raf    = IF @ = NoConn THEN c ELSE @]

\* (Mutant: the exit is shown over a write buffer that is not flushed.)
OverUnflushed(t, c) == [t EXCEPT !.raf = NoConn, !.st = "over", !.conn = NoConn]
Over(t, c) == [Written(t, c) EXCEPT !.raf = NoConn, !.st = "over", !.conn = NoConn]

OnMessage(t, c, m) ==
    CASE m.type = "ready"  -> [t EXCEPT !.attempts = 0]
      [] m.type = "output" -> Buffered(t, c, m)
      [] m.type = "history" -> Rebuffered(t, c, m)
      [] m.type = "exit"   -> Over(t, c)
      [] m.type = "error"  -> Retry([Written(t, c) EXCEPT !.raf = NoConn])

Deliver(c) ==
    /\ micro = <<>>
    /\ tab.conn = c /\ wire[c] # <<>>
    /\ tab' = OnMessage(tab, c, wire[c][1])
    /\ wire' = [wire EXCEPT ![c] = IF tab'.conn = c THEN Tail(@) ELSE <<>>]
    /\ UNCHANGED <<store, next, ins, sess, resumes, micro, conn>>

-----------------------------------------------------------------------------
Next ==
    \/ Output \/ AgentExit \/ RunMicro
    \/ Stop \/ Resume \/ Crash
    \/ ClientInput \/ Disconnect \/ AnimationFrame
    \/ \E c \in Conns :
          \/ Connect(c) \/ Subscribe(c) \/ Wake(c) \/ WakeFails(c)
          \/ CloseSeen(c) \/ FlushBatch(c) \/ Deliver(c)

\* Timers and microtasks of the server run, a socket that is up carries its
\* messages, a broken one is noticed by the heartbeat, and a visible tab is
\* painted.  Nothing is promised of users, agents and the network.
Fairness ==
    /\ WF_vars(RunMicro) /\ WF_vars(AnimationFrame)
    /\ \A c \in Conns : /\ WF_vars(Connect(c)) /\ WF_vars(Subscribe(c))
                        /\ WF_vars(FlushBatch(c)) /\ WF_vars(Deliver(c))
                        /\ WF_vars(CloseSeen(c))

SafeSpec == Init /\ [][Next]_vars
Spec == SafeSpec /\ Fairness

-----------------------------------------------------------------------------
(***************************************************************************)
(* What the terminal promises.                                             *)
(***************************************************************************)
Screen == ToSet(tab.screen)

\* The outputs numbered up to s that a tab which began where this one did has to
\* have shown: the first replay may omit older ones.
Due(scr, s) == {n \in ToSet(OutsOf(store, 1..s)) : scr # <<>> /\ n >= scr[1]}

\* The outputs that come with a sequence number are shown in order, each once, none
\* left out, whatever connections broke, lingered or were replayed in between
\* (subscribeTerminal's cursors, AgentConsole's reconnect).  What session.history
\* shows is not among them: see HistoryRepeats.
ScreenInOrder ==
    \A i \in 1..(Len(tab.screen) - 1) : tab.screen[i + 1] = tab.screen[i] + 1

\* The cursor a tab will reconnect with is never past an output it has not shown:
\* otherwise the replay of readFrom leaves that output out for good.
CursorShown ==
    Due(tab.screen, Min({tab.cursor, HeadSeq(store)})) \subseteq Screen \cup tab.again

\* session.history never runs ahead: when a tab is sent it instead of frames, the tab
\* has already been shown the newest output in it (replayTranscript's last branch,
\* which looks at the frames after the cursor first).
NewestShown    == IF tab.screen = <<>> THEN 0 ELSE Last(tab.screen)
HistoryRepeats == \A n \in tab.again : n <= NewestShown

\* What docs/DurableSessions.md says of a reconnect with the last sequence number:
\* nothing is shown twice.  It is false: a tab that has missed nothing is sent
\* session.history, up to 32 KB it has already shown.
ShownOnce == tab.again \cap Screen = {}

\* The exit of the session is shown only when all it had put out before is shown,
\* although the exit listener runs at once and outputs wait in microtasks and in
\* 33 ms batches.
ExitLast ==
    [][\A c \in Conns :
         /\ tab.conn = c /\ tab.st = "live" /\ tab'.st = "over"
         => Due(tab'.screen, wire[c][1].seq) \subseteq ToSet(tab'.screen)]_vars

\* A session counts no more subscribers than there are connections that will
\* still take themselves off the count, so that a session nobody watches can be
\* swept (shouldHibernateSession) once they have gone.
SubscribersLeave ==
    sess.subs <= Cardinality({c \in Conns : conn[c].pc = "open"})

\* A connection that subscribed to a session object since stopped and replaced,
\* or that found no free listener slot, hears nothing.
Served(c) == c # NoConn /\ conn[c].pc = "open"
Deaf(c)   == Served(c) /\ c \notin sess.out

\* When nothing is on its way to a tab that has a listener, no message, batch,
\* microtask or animation frame, its screen ends with the newest output: none is
\* stuck in lastSentSeq's filters or between the replay and the first live frame.
NothingStuck ==
    /\ Served(tab.conn) /\ ~Deaf(tab.conn)
    /\ wire[tab.conn] = <<>> /\ conn[tab.conn].batch = <<>>
    /\ micro = <<>> /\ tab.raf = NoConn
    => next = 1 \/ (tab.screen # <<>> /\ Last(tab.screen) = next - 1)

\* A tab on a connection with a listener shows every output in the end, unless
\* the connection breaks or stops being served.
CaughtUp ==
    \A n \in 1..MaxOut :
       (n < next /\ Served(tab.conn)) ~>
          \/ n \in Screen
          \/ tab.st \in {"retry", "failed"} \/ Deaf(tab.conn)
          \/ tab.screen # <<>> /\ n < tab.screen[1]
=============================================================================
