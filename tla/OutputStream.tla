----------------------------- MODULE OutputStream -----------------------------
(***************************************************************************)
(* The output of one agent execution on its way into the transcript: the   *)
(* attach sockets of blink, the BoxLiteStreamHandle that re-attaches when  *)
(* its socket breaks, the session object that appends what it receives,    *)
(* and the recovery of the stream when the control plane starts again.     *)
(*                                                                         *)
(* blink numbers the outputs of an execution (rseq) and keeps them: an     *)
(* attach with after = n delivers n + 1, n + 2, .. and, at the end of the  *)
(* execution, the exit message.  Text decoding and the heartbeat's reasons *)
(* for closing a socket are left out: a socket may break at any time.      *)
(***************************************************************************)
EXTENDS Transcript

CONSTANTS
    MaxOut,       \* bound: outputs of the execution
    MaxSockets,   \* bound: sockets that exist at a time
    MaxBreaks,    \* bound: broken connections, refused ones included
    MaxTimeouts,  \* bound: connects that take longer than 5 s
    MaxCrashes,   \* bound: control-plane crashes
    MaxAttempts   \* reattachMaxAttempts

ASSUME StreamAssumption ==
    /\ {MaxOut, MaxSockets, MaxAttempts} \subseteq Nat \ {0}
    /\ {MaxBreaks, MaxTimeouts, MaxCrashes} \subseteq Nat

VARIABLES
    produced,  \* outputs of the execution so far
    ended,     \* the execution has ended
    sock,      \* sockets of the control plane
    handle,    \* the stream handle and whether a session object listens to it
    store,     \* the transcript
    faults,    \* how many breaks, timeouts and crashes there have been
    missed,    \* history: outputs that arrived before the session object
    rewound    \* history: a recovered handle was cut before its first frame

vars == <<produced, ended, sock, handle, store, faults, missed, rewound>>

Sockets == 1..MaxSockets

\* pos: the last frame it delivered, at first the cursor it was opened with.
\* again: opened by _tryReattach, whose error handler stays on the socket.
NoSocket == [st |-> "none", pos |-> 0, again |-> FALSE]
Attached(n) == [st |-> "open", pos |-> n, again |-> FALSE]

\* owner: "none", "attached" until createSession, "session" after it.
\* due: delay timers of _tryReattach that have not fired.
NewHandle(o) == [owner |-> o, closed |-> FALSE, reattaching |-> FALSE,
                 attempts |-> 0, last |-> 0, due |-> 0, recovered |-> FALSE]

TypeOK ==
    /\ produced \in 0..MaxOut
    /\ ended \in BOOLEAN
    /\ sock \in [Sockets -> [st : {"none", "connecting", "open"}, pos : 0..MaxOut,
                           again : BOOLEAN]]
    /\ handle \in [owner : {"none", "attached", "session"}, closed : BOOLEAN,
                   reattaching : BOOLEAN, attempts : 0..(MaxAttempts + 1),
                   last : 0..MaxOut, due : Nat, recovered : BOOLEAN]
    /\ store \in [frames : Seq(Frames(MaxOut)), disk : Seq(Frames(MaxOut)),
                  queue : Seq(Frames(MaxOut))]
    /\ store.frames = store.disk \o store.queue
    /\ faults \in [breaks : 0..MaxBreaks, timeouts : 0..MaxTimeouts,
                   crashes : 0..MaxCrashes]
    /\ missed \subseteq 1..MaxOut
    /\ rewound \in BOOLEAN

\* spawn has attached to the new execution with after = 0.
Init ==
    /\ produced = 0
    /\ ended = FALSE
    /\ sock = [s \in Sockets |-> IF s = 1 THEN Attached(0) ELSE NoSocket]
    /\ handle = NewHandle("attached")
    /\ store = EmptyStore
    /\ faults = [breaks |-> 0, timeouts |-> 0, crashes |-> 0]
    /\ missed = {}
    /\ rewound = FALSE

FreeSocket(s) == sock[s].st = "none" /\ \A t \in 1..(s - 1) : sock[t].st # "none"

(***************************************************************************)
(* The execution.                                                          *)
(***************************************************************************)
Produce ==
    /\ ~ended /\ produced < MaxOut
    /\ produced' = produced + 1
    /\ UNCHANGED <<ended, sock, handle, store, faults, missed, rewound>>

End ==
    /\ ~ended
    /\ ended' = TRUE
    /\ UNCHANGED <<produced, sock, handle, store, faults, missed, rewound>>

(***************************************************************************)
(* _fireExit and _tryReattach, as functions of a handle.                   *)
(***************************************************************************)
\* The exit callback of the session object appends the exit frame.
FireExit(h) == [h EXCEPT !.closed = TRUE]
ExitLogged(h, st) == IF h.owner = "session" /\ ~h.closed
                     THEN AppendFrame(st, ExitFrame) ELSE st

\* (Mutant: when the attempts are used up the handle just stays as it is.)
GiveUpSilently(h) == [h EXCEPT !.reattaching = FALSE]
GiveUp(h) == FireExit([h EXCEPT !.reattaching = FALSE])

\* (Mutant: the attempts are not limited.)
NeverExhausted(n) == FALSE
Exhausted(n) == n > MaxAttempts

TryReattach(h) ==
    LET n == h.attempts + 1 IN
    IF h.closed THEN h
    ELSE IF Exhausted(n) THEN GiveUp([h EXCEPT !.attempts = n])
    ELSE [h EXCEPT !.reattaching = TRUE, !.attempts = n, !.due = @ + 1]

\* A call of _tryReattach from a callback that cleared _reattaching first.
Again(h) == TryReattach([h EXCEPT !.reattaching = FALSE])

\* The transcript after the handle has become h: an exit fired on the way.
LoggedBy(h) == IF h.closed /\ ~handle.closed THEN ExitLogged(handle, store)
               ELSE store

(***************************************************************************)
(* The sockets.                                                            *)
(***************************************************************************)
\* The message handler passes an output on, also when the handle is closed; the
\* session's onData appends it.
Frame(s) ==
    /\ sock[s].st = "open" /\ sock[s].pos < produced
    /\ LET n == sock[s].pos + 1 IN
         /\ sock' = [sock EXCEPT ![s].pos = n]
         /\ handle' = [handle EXCEPT !.last = IF n > @ THEN n ELSE @]
         /\ store' = IF handle.owner = "session" THEN AppendFrame(store, OutFrame(n))
                     ELSE store
         /\ missed' = IF handle.owner = "session" THEN missed ELSE missed \cup {n}
    /\ UNCHANGED <<produced, ended, faults, rewound>>

\* blink has delivered everything and says that the execution has ended.
ExitMessage(s) ==
    /\ sock[s].st = "open" /\ sock[s].pos = produced /\ ended
    /\ sock' = [sock EXCEPT ![s] = NoSocket]
    /\ handle' = FireExit(handle)
    /\ store' = LoggedBy(handle')
    /\ UNCHANGED <<produced, ended, faults, missed, rewound>>

\* (Mutant: the flag that a re-attach is under way is not set back by 'open'.)
OpenedStillBusy(h) == [h EXCEPT !.attempts = 0]
Opened(h) == [h EXCEPT !.attempts = 0, !.reattaching = FALSE]

\* 'close' or 'error' of an open socket: re-attach, unless that is under way.  The
\* error of a re-attached socket does it in any case.
Broken(h) == IF h.closed \/ h.reattaching THEN h ELSE TryReattach(h)

Break(s) ==
    /\ sock[s].st = "open" /\ faults.breaks < MaxBreaks
    /\ faults' = [faults EXCEPT !.breaks = @ + 1]
    /\ sock' = [sock EXCEPT ![s] = NoSocket]
    /\ \/ handle' = Broken(handle)
       \/ sock[s].again /\ handle' = Again(handle)
    /\ store' = LoggedBy(handle')
    /\ rewound' = (rewound \/ (handle.recovered /\ handle.last = 0))
    /\ UNCHANGED <<produced, ended, missed>>

\* The delay is over: a new socket, with the last rseq this handle has seen.
\* (Mutant: the new socket starts after the next output.)
SkippingCursor(h) == IF h.last < produced THEN h.last + 1 ELSE h.last
\* (Mutant: it starts with the last output seen, once more.)
RereadingCursor(h) == IF h.last > 0 THEN h.last - 1 ELSE 0
Cursor(h) == h.last

DelayOver(s) ==
    /\ handle.due > 0
    /\ FreeSocket(s)
    /\ IF handle.closed
         THEN /\ handle' = [handle EXCEPT !.due = @ - 1, !.reattaching = FALSE]
              /\ UNCHANGED sock
         ELSE /\ handle' = [handle EXCEPT !.due = @ - 1]
              /\ sock' = [sock EXCEPT ![s] = [st |-> "connecting", pos |-> Cursor(handle),
                                               again |-> TRUE]]
    /\ UNCHANGED <<produced, ended, store, faults, missed, rewound>>

Open(s) ==
    /\ sock[s].st = "connecting"
    /\ sock' = [sock EXCEPT ![s].st = "open"]
    /\ handle' = Opened(handle)
    /\ UNCHANGED <<produced, ended, store, faults, missed, rewound>>

Refused(s) ==
    /\ sock[s].st = "connecting" /\ faults.breaks < MaxBreaks
    /\ faults' = [faults EXCEPT !.breaks = @ + 1]
    /\ sock' = [sock EXCEPT ![s] = NoSocket]
    /\ handle' = Again(handle)
    /\ store' = LoggedBy(handle')
    /\ UNCHANGED <<produced, ended, missed, rewound>>

\* The 5 s timer closes the socket and re-attaches; closing a socket that is
\* connecting makes it emit 'error', whose handler re-attaches as well.
TimedOut(h) == Again(Again(h))

ConnectTimeout(s) ==
    /\ sock[s].st = "connecting" /\ faults.timeouts < MaxTimeouts
    /\ faults' = [faults EXCEPT !.timeouts = @ + 1]
    /\ sock' = [sock EXCEPT ![s] = NoSocket]
    /\ handle' = TimedOut(handle)
    /\ store' = LoggedBy(handle')
    /\ UNCHANGED <<produced, ended, missed, rewound>>

(***************************************************************************)
(* The control plane.                                                      *)
(***************************************************************************)
\* Between the attach and createSession session/start and recoverRunningSessions
\* read the database: what the stream delivers meanwhile has no callback.
CreateSession ==
    /\ handle.owner = "attached"
    /\ handle' = [handle EXCEPT !.owner = "session"]
    /\ UNCHANGED <<produced, ended, sock, store, faults, missed, rewound>>

\* The control plane dies; the file holds some prefix of the transcript.
Crash ==
    /\ faults.crashes < MaxCrashes /\ handle.owner = "session"
    /\ faults' = [faults EXCEPT !.crashes = @ + 1]
    /\ \E k \in Len(store.disk)..HeadSeq(store) :
          store' = Reloaded(FlushedTo(store, k))
    /\ sock' = [s \in Sockets |-> NoSocket]
    /\ handle' = NewHandle("none")
    /\ UNCHANGED <<produced, ended, missed, rewound>>

\* recoverRunningSessions attaches after the last output in the transcript; a
\* session whose transcript rules that out stays settled.
Recover ==
    /\ faults.crashes > 0 /\ handle.owner = "none" /\ CanReattach(store)
    /\ sock' = [sock EXCEPT ![1] = Attached(ReattachCursor(store))]
    /\ handle' = [NewHandle("attached") EXCEPT !.recovered = TRUE]
    /\ UNCHANGED <<produced, ended, store, faults, missed, rewound>>

-----------------------------------------------------------------------------
Next ==
    \/ Produce \/ End \/ CreateSession \/ Crash \/ Recover
    \/ \E s \in Sockets : \/ Frame(s) \/ ExitMessage(s) \/ Break(s) \/ DelayOver(s)
                          \/ Open(s) \/ Refused(s) \/ ConnectTimeout(s)

\* Timers fire, an attempt to connect comes to some end, an open socket delivers,
\* and a request goes on after its query.  The execution owes nothing.
Fairness ==
    /\ WF_vars(CreateSession)
    /\ \A s \in Sockets :
          /\ WF_vars(Frame(s)) /\ WF_vars(ExitMessage(s)) /\ WF_vars(DelayOver(s))
          /\ WF_vars(Open(s) \/ Refused(s) \/ ConnectTimeout(s))

SafeSpec == Init /\ [][Next]_vars
Spec == SafeSpec /\ Fairness

-----------------------------------------------------------------------------
(***************************************************************************)
(* What the stream promises.                                               *)
(***************************************************************************)
Stored == {n \in 1..MaxOut : \E i \in 1..HeadSeq(store) : store.frames[i] = OutFrame(n)}

\* Nothing the stream went past is missing from the transcript, through breaks,
\* re-attaches and crashes that lose the frames not yet written, but for what
\* arrived before the session object existed (_lastRseq, reattachCursor).
NoHole == handle.owner = "session" => 1..handle.last \subseteq Stored \cup missed

\* Without a timed-out connect, and unless a recovered stream was cut at once, the
\* transcript holds each output once, in order, and the exit comes last.
Exact ==
    faults.timeouts = 0 /\ ~rewound =>
       \A i, j \in 1..HeadSeq(store) :
          i < j => /\ store.frames[i].kind = "out"
                   /\ store.frames[j].kind = "out" => store.frames[i].n < store.frames[j].n

\* The end of an execution that a session listens to is reported, whatever
\* becomes of its sockets: re-attaching neither stops half-way nor goes on for
\* ever.
EndReported ==
    (ended /\ handle.owner = "session" /\ ~handle.closed) ~>
       (handle.closed \/ handle.owner # "session")
=============================================================================
