-------------------------- MODULE OutputStream_proofs --------------------------
(***************************************************************************)
(* The transcript has no holes, and holds each output once and in order    *)
(* where OutputStream says so, for any number of outputs, sockets, faults  *)
(* and attempts.                                                           *)
(***************************************************************************)
EXTENDS OutputStream, Transcript_proofs

\* The attempts are used up only by giving up.
AttemptsLimited == handle.attempts <= MaxAttempts \/ handle.closed

\* The transcript holds outputs of the execution and exits.
OutsAndExits ==
    \A i \in 1..HeadSeq(store) :
        \/ store.frames[i] = ExitFrame
        \/ \E n \in 1..MaxOut : store.frames[i] = OutFrame(n)

\* What precedes an output precedes it in the transcript, or was missed.
NoGap ==
    \A i \in 1..HeadSeq(store) : \A m \in 1..(store.frames[i].n - 1) :
        m \in missed \/ \E j \in 1..(i - 1) : store.frames[j] = OutFrame(m)

\* What a socket has delivered, and what the handle has seen, is dealt with.
Covered(k) == \A m \in 1..k : m \in Stored \/ m \in missed
Caught == Covered(handle.last) /\ \A s \in Sockets : Covered(sock[s].pos)

IInv == TypeOK /\ AttemptsLimited /\ OutsAndExits /\ NoGap /\ Caught

\* At most one socket is in use, or one delay runs, and none of a closed handle.
Silent == handle.due = 0 /\ \A s \in Sockets : sock[s].st = "none"
OneSocket ==
    /\ \A s, t \in Sockets : sock[s].st # "none" /\ sock[t].st # "none" => s = t
    /\ handle.due > 0 => handle.due = 1 /\ \A s \in Sockets : sock[s].st = "none"
    /\ handle.closed \/ handle.owner = "none" => Silent

\* Nothing is stored that lies before what will be delivered.
StoredUpTo(k) == \A i \in 1..HeadSeq(store) : store.frames[i].n <= k
Ahead ==
    /\ \A s \in Sockets : sock[s].st # "none" =>
          /\ StoredUpTo(sock[s].pos)
          /\ \/ sock[s].pos = handle.last
             \/ sock[s].st = "open" /\ handle.recovered /\ handle.last = 0
    /\ handle.due > 0 => StoredUpTo(handle.last)

\* An exit is in the transcript only when nobody writes to it any more.
ExitIsEnd == HasExit(store) => handle.closed \/ handle.owner = "none"

InOrder ==
    \A i, j \in 1..HeadSeq(store) :
       i < j => /\ store.frames[i].kind = "out"
                /\ store.frames[j].kind = "out" => store.frames[i].n < store.frames[j].n

Disciplined == OneSocket /\ Ahead /\ ExitIsEnd /\ InOrder

Undisturbed == faults.timeouts = 0 /\ ~rewound
ExactInv == Undisturbed => Disciplined

(***************************************************************************)
(* The handle.                                                             *)
(***************************************************************************)
HandleType == [owner : {"none", "attached", "session"}, closed : BOOLEAN,
               reattaching : BOOLEAN, attempts : 0..(MaxAttempts + 1),
               last : 0..MaxOut, due : Nat, recovered : BOOLEAN]
SocketType == [st : {"none", "connecting", "open"}, pos : 0..MaxOut, again : BOOLEAN]
FaultType == [breaks : 0..MaxBreaks, timeouts : 0..MaxTimeouts, crashes : 0..MaxCrashes]

LEMMA TypeParts ==
    TypeOK <=> /\ produced \in 0..MaxOut
               /\ ended \in BOOLEAN
               /\ sock \in [Sockets -> SocketType]
               /\ handle \in HandleType
               /\ WellFormed(store, MaxOut)
               /\ faults \in FaultType
               /\ missed \subseteq 1..MaxOut
               /\ rewound \in BOOLEAN
  BY DEF TypeOK, SocketType, HandleType, FaultType, WellFormed

LEMMA TypePartsNext ==
    ASSUME /\ produced' \in 0..MaxOut
           /\ ended' \in BOOLEAN
           /\ sock' \in [Sockets -> SocketType]
           /\ handle' \in HandleType
           /\ WellFormed(store', MaxOut)
           /\ faults' \in FaultType
           /\ missed' \subseteq 1..MaxOut
           /\ rewound' \in BOOLEAN
    PROVE  TypeOK'
  BY DEF TypeOK, SocketType, HandleType, FaultType, WellFormed

Limited(h) == h.attempts <= MaxAttempts \/ h.closed

\* What a call of _tryReattach leaves alone, and that it either plans one more
\* attempt or closes the handle.
Retried(h, r) ==
    /\ r \in HandleType /\ Limited(r)
    /\ r.owner = h.owner /\ r.last = h.last /\ r.recovered = h.recovered
    /\ h.closed => r.closed /\ r.due = h.due
    /\ ~h.closed => \/ r.closed /\ r.due = h.due
                    \/ ~r.closed /\ r.due = h.due + 1

LEMMA TryReattachRetries ==
    ASSUME NEW h \in HandleType, Limited(h), NEW r, r = TryReattach(h)
    PROVE  Retried(h, r)
  <1>0. MaxAttempts \in Nat
    BY StreamAssumption
  <1>1. CASE h.closed
    <2>1. r = h
      BY <1>1 DEF TryReattach
    <2> QED
      BY <1>1, <2>1 DEF Retried
  <1>2. CASE ~h.closed /\ Exhausted(h.attempts + 1)
    <2>1. r = [[[h EXCEPT !.attempts = h.attempts + 1] EXCEPT !.reattaching = FALSE]
                 EXCEPT !.closed = TRUE]
      BY <1>2 DEF TryReattach, GiveUp, FireExit
    <2>2. h.attempts + 1 \in 0..(MaxAttempts + 1)
      BY <1>0, <1>2 DEF Limited, HandleType
    <2> QED
      BY <1>2, <2>1, <2>2 DEF Retried, HandleType, Limited
  <1>3. CASE ~h.closed /\ ~Exhausted(h.attempts + 1)
    <2>1. r = [h EXCEPT !.reattaching = TRUE, !.attempts = h.attempts + 1,
                        !.due = h.due + 1]
      BY <1>3 DEF TryReattach
    <2>2. h.attempts + 1 \in 0..(MaxAttempts + 1) /\ h.attempts + 1 <= MaxAttempts
      BY <1>0, <1>3 DEF Exhausted, HandleType
    <2>3. h.due + 1 \in Nat
      BY DEF HandleType
    <2>4. r \in HandleType
      BY <2>1, <2>2, <2>3 DEF HandleType
    <2>5. /\ r.owner = h.owner /\ r.last = h.last /\ r.recovered = h.recovered
          /\ r.closed = h.closed /\ r.due = h.due + 1 /\ r.attempts = h.attempts + 1
      BY <2>1 DEF HandleType
    <2> QED
      BY <1>3, <2>2, <2>4, <2>5 DEF Retried, Limited
  <1> QED
    BY <1>1, <1>2, <1>3

LEMMA AgainRetries ==
    ASSUME NEW h \in HandleType, Limited(h), NEW r, r = Again(h)
    PROVE  Retried(h, r)
  <1> DEFINE g == [h EXCEPT !.reattaching = FALSE]
  <1>1. /\ g \in HandleType /\ Limited(g) /\ g.owner = h.owner /\ g.last = h.last
        /\ g.recovered = h.recovered /\ g.closed = h.closed /\ g.due = h.due
    BY DEF HandleType, Limited
  <1>2. r = TryReattach(g)
    BY DEF Again
  <1> HIDE DEF g
  <1>3. Retried(g, r)
    BY <1>1, <1>2, TryReattachRetries
  <1> QED
    BY <1>1, <1>3 DEF Retried

LEMMA BrokenRetries ==
    ASSUME NEW h \in HandleType, Limited(h), NEW r, r = Broken(h)
    PROVE  Retried(h, r) \/ r = h
  BY TryReattachRetries DEF Broken

\* The timed-out connect counts twice.
LEMMA TimedOutLimited ==
    ASSUME NEW h \in HandleType, Limited(h), NEW r, r = TimedOut(h)
    PROVE  /\ r \in HandleType /\ Limited(r)
           /\ r.owner = h.owner /\ r.last = h.last
           /\ h.closed => r.closed
  <1>1. Retried(h, Again(h))
    BY AgainRetries
  <1>2. Again(h) \in HandleType /\ Limited(Again(h))
    BY <1>1 DEF Retried
  <1>3. Retried(Again(h), r)
    BY <1>2, AgainRetries DEF TimedOut
  <1> QED
    BY <1>1, <1>3 DEF Retried

(***************************************************************************)
(* No holes.                                                               *)
(***************************************************************************)
\* The end of a socket: the handle may plan another attempt or report the exit.
HangUp(s) ==
    /\ sock' = [sock EXCEPT ![s] = NoSocket]
    /\ handle' \in HandleType /\ Limited(handle')
    /\ handle'.owner = handle.owner /\ handle'.last = handle.last
    /\ handle.closed => handle'.closed
    /\ store' = LoggedBy(handle')
    /\ faults' \in FaultType /\ rewound' \in BOOLEAN
    /\ produced' = produced /\ ended' \in BOOLEAN /\ missed' = missed

LEMMA HangUps ==
    ASSUME IInv, NEW s \in Sockets,
           ExitMessage(s) \/ Break(s) \/ Refused(s) \/ ConnectTimeout(s)
    PROVE  HangUp(s)
  <1>t. /\ handle \in HandleType /\ Limited(handle) /\ faults \in FaultType
        /\ rewound \in BOOLEAN /\ ended \in BOOLEAN
        /\ {MaxBreaks, MaxTimeouts} \subseteq Nat
    BY TypeParts, StreamAssumption DEF IInv, AttemptsLimited, Limited
  <1>f. /\ faults.breaks < MaxBreaks => [faults EXCEPT !.breaks = @ + 1] \in FaultType
        /\ faults.timeouts < MaxTimeouts => [faults EXCEPT !.timeouts = @ + 1] \in FaultType
    BY <1>t DEF FaultType
  <1>1. CASE ExitMessage(s)
    <2>1. handle' = [handle EXCEPT !.closed = TRUE]
      BY <1>1 DEF ExitMessage, FireExit
    <2>2. /\ handle' \in HandleType /\ Limited(handle') /\ handle'.owner = handle.owner
          /\ handle'.last = handle.last /\ handle'.closed
      BY <1>t, <2>1 DEF HandleType, Limited
    <2> QED
      BY <1>t, <1>1, <2>2 DEF ExitMessage, HangUp
  <1>2. CASE Break(s)
    <2>1. handle' = Broken(handle) \/ handle' = Again(handle)
      BY <1>2 DEF Break
    <2>2. Retried(handle, handle') \/ handle' = handle
      BY <1>t, <2>1, BrokenRetries, AgainRetries
    <2>3. rewound' \in BOOLEAN
      BY <1>2 DEF Break
    <2> QED
      BY <1>t, <1>f, <1>2, <2>2, <2>3 DEF Break, HangUp, Retried
  <1>3. CASE Refused(s)
    <2>1. Retried(handle, handle')
      BY <1>t, <1>3, AgainRetries DEF Refused
    <2> QED
      BY <1>t, <1>f, <1>3, <2>1 DEF Refused, HangUp, Retried
  <1>4. CASE ConnectTimeout(s)
    <2>1. /\ handle' \in HandleType /\ Limited(handle')
          /\ handle'.owner = handle.owner /\ handle'.last = handle.last
          /\ handle.closed => handle'.closed
      BY <1>t, <1>4, TimedOutLimited DEF ConnectTimeout
    <2> QED
      BY <1>t, <1>f, <1>4, <2>1 DEF ConnectTimeout, HangUp
  <1> QED
    BY <1>1, <1>2, <1>3, <1>4

LEMMA Bounds ==
    /\ MaxOut \in Nat /\ MaxAttempts \in Nat
    /\ MaxBreaks \in Nat /\ MaxTimeouts \in Nat /\ MaxCrashes \in Nat
  BY StreamAssumption

LEMMA FrameTypes ==
    /\ MaxOut \in Nat
    /\ ExitFrame \in Frames(MaxOut) /\ ExitFrame.n = 0 /\ ExitFrame.kind = "exit"
    /\ \A n \in 1..MaxOut : /\ OutFrame(n) \in Frames(MaxOut) /\ OutFrame(n) # ExitFrame
                            /\ OutFrame(n).n = n /\ OutFrame(n).kind = "out"
  BY StreamAssumption DEF Frames, Kinds, ExitFrame, OutFrame

\* An exit frame, or none, changes nothing about the outputs.
LEMMA ExitKeeps ==
    ASSUME IInv, store' = store \/ store' = AppendFrame(store, ExitFrame),
           missed' = missed
    PROVE  /\ WellFormed(store', MaxOut) /\ OutsAndExits' /\ NoGap'
           /\ \A n : n \in Stored => n \in Stored'
  <1>1. WellFormed(store, MaxOut) /\ OutsAndExits /\ NoGap
    BY TypeParts DEF IInv
  <1>2. CASE store' = store
    BY <1>1, <1>2 DEF WellFormed, OutsAndExits, NoGap, Stored
  <1>3. CASE store' = AppendFrame(store, ExitFrame)
    <2>1. /\ WellFormed(store', MaxOut)
          /\ HeadSeq(store) \in Nat /\ HeadSeq(store') = HeadSeq(store) + 1
          /\ \A i \in 1..HeadSeq(store) : store'.frames[i] = store.frames[i]
          /\ store'.frames[HeadSeq(store')] = ExitFrame
      BY <1>1, <1>3, FrameTypes, Bounds, Appended
    <2>2. OutsAndExits'
      BY <1>1, <2>1 DEF OutsAndExits
    <2>3. NoGap'
      <3>1. SUFFICES ASSUME NEW i \in 1..HeadSeq(store'), NEW m \in 1..(store'.frames[i].n - 1)
                     PROVE  m \in missed \/ \E j \in 1..(i - 1) : store'.frames[j] = OutFrame(m)
        BY <1>3 DEF NoGap
      <3>2. i # HeadSeq(store')
        BY <2>1, FrameTypes
      <3>3. i \in 1..HeadSeq(store) /\ store'.frames[i] = store.frames[i]
        BY <2>1, <3>2
      <3>4. m \in missed \/ \E j \in 1..(i - 1) : store.frames[j] = OutFrame(m)
        BY <1>1, <3>3 DEF NoGap
      <3> QED
        BY <2>1, <3>3, <3>4
    <2>4. \A n : n \in Stored => n \in Stored'
      BY <2>1 DEF Stored
    <2> QED
      BY <2>1, <2>2, <2>3, <2>4
  <1> QED
    BY <1>2, <1>3

LEMMA CoveredKeeps ==
    ASSUME NEW k, Covered(k), \A n : n \in Stored => n \in Stored',
           \A n : n \in missed => n \in missed'
    PROVE  \A m \in 1..k : m \in Stored' \/ m \in missed'
  BY DEF Covered

LEMMA HangUpKeeps ==
    ASSUME IInv, NEW s \in Sockets, HangUp(s)
    PROVE  IInv'
  <1>t. /\ sock \in [Sockets -> SocketType] /\ handle \in HandleType /\ WellFormed(store, MaxOut)
        /\ produced \in 0..MaxOut /\ missed \subseteq 1..MaxOut
    BY TypeParts DEF IInv
  <1>1. store' = store \/ store' = AppendFrame(store, ExitFrame)
    BY DEF HangUp, LoggedBy, ExitLogged
  <1>2. missed' = missed
    BY DEF HangUp
  <1>3. /\ WellFormed(store', MaxOut) /\ OutsAndExits' /\ NoGap'
        /\ \A n : n \in Stored => n \in Stored'
    BY <1>1, <1>2, ExitKeeps
  <1>4. sock' \in [Sockets -> SocketType]
    BY <1>t, FrameTypes DEF HangUp, SocketType, NoSocket
  <1>5. TypeOK'
    BY <1>t, <1>3, <1>4, TypePartsNext DEF HangUp
  <1>6. AttemptsLimited'
    BY DEF HangUp, Limited, AttemptsLimited
  <1>7. Caught'
    <2>1. Covered(handle.last)'
      BY <1>2, <1>3, CoveredKeeps DEF IInv, Caught, HangUp, Covered
    <2>2. ASSUME NEW t \in Sockets PROVE Covered(sock[t].pos)'
      <3>1. sock'[t].pos = sock[t].pos \/ sock'[t].pos = 0
        BY <1>t DEF HangUp, NoSocket
      <3>2. Covered(sock[t].pos)
        BY DEF IInv, Caught
      <3> QED
        BY <1>2, <1>3, <3>1, <3>2 DEF Covered
    <2> QED
      BY <2>1, <2>2 DEF Caught
  <1> QED
    BY <1>3, <1>5, <1>6, <1>7 DEF IInv

\* Frame is the step that adds an output, to the transcript or to what is missed.
LEMMA FrameKeeps ==
    ASSUME IInv, NEW s \in Sockets, Frame(s)
    PROVE  IInv'
  <1>t. /\ sock \in [Sockets -> SocketType] /\ handle \in HandleType /\ WellFormed(store, MaxOut)
        /\ produced \in 0..MaxOut /\ missed \subseteq 1..MaxOut
        /\ ended \in BOOLEAN /\ faults \in FaultType /\ rewound \in BOOLEAN
    BY TypeParts DEF IInv
  <1>i. /\ AttemptsLimited /\ OutsAndExits /\ NoGap
        /\ Covered(handle.last) /\ \A t \in Sockets : Covered(sock[t].pos)
    BY DEF IInv, Caught
  <1> DEFINE n == sock[s].pos + 1
  <1>1. n \in 1..MaxOut /\ sock[s].pos \in 0..MaxOut
    BY <1>t, FrameTypes DEF Frame, SocketType
  <1>2. /\ sock' = [sock EXCEPT ![s].pos = n]
        /\ handle' = [handle EXCEPT !.last = IF n > handle.last THEN n ELSE handle.last]
        /\ store' = IF handle.owner = "session" THEN AppendFrame(store, OutFrame(n))
                    ELSE store
        /\ missed' = IF handle.owner = "session" THEN missed ELSE missed \cup {n}
        /\ UNCHANGED <<produced, ended, faults, rewound>>
    BY DEF Frame
  <1>b. \A m \in 1..(n - 1) : m \in Stored \/ m \in missed
    <2>1. Covered(sock[s].pos) /\ n - 1 = sock[s].pos
      BY <1>i, <1>1
    <2> QED
      BY <2>1 DEF Covered
  <1> HIDE DEF n
  <1>3. /\ WellFormed(store', MaxOut) /\ OutsAndExits' /\ NoGap'
        /\ \A m : m \in Stored => m \in Stored'
        /\ n \in Stored' \/ n \in missed'
    <2>1. CASE handle.owner # "session"
      <3>1. store' = store /\ missed' = missed \cup {n}
        BY <1>2, <2>1
      <3> QED
        BY <1>t, <1>i, <3>1 DEF WellFormed, OutsAndExits, NoGap, Stored
    <2>2. CASE handle.owner = "session"
      <3>0. store' = AppendFrame(store, OutFrame(n)) /\ missed' = missed
        BY <1>2, <2>2
      <3>1. /\ WellFormed(store', MaxOut)
            /\ HeadSeq(store) \in Nat /\ HeadSeq(store') = HeadSeq(store) + 1
            /\ \A i \in 1..HeadSeq(store) : store'.frames[i] = store.frames[i]
            /\ store'.frames[HeadSeq(store')] = OutFrame(n)
        <4>1. OutFrame(n) \in Frames(MaxOut)
          BY <1>1, FrameTypes
        <4> QED
          BY <1>t, <3>0, <4>1, Bounds, Appended
      <3>2. OutsAndExits'
        BY <1>i, <1>1, <3>1 DEF OutsAndExits
      <3>3. NoGap'
        <4>1. SUFFICES ASSUME NEW i \in 1..HeadSeq(store'), NEW m \in 1..(store'.frames[i].n - 1)
                       PROVE  m \in missed' \/ \E j \in 1..(i - 1) : store'.frames[j] = OutFrame(m)
          BY DEF NoGap
        <4>2. CASE i \in 1..HeadSeq(store)
          <5>1. m \in missed \/ \E j \in 1..(i - 1) : store.frames[j] = OutFrame(m)
            BY <1>i, <3>1, <4>2 DEF NoGap
          <5> QED
            BY <3>0, <3>1, <4>2, <5>1
        <4>3. CASE i = HeadSeq(store')
          <5>1. m \in 1..(n - 1)
            BY <1>1, <3>1, <4>3, FrameTypes
          <5>2. m \in missed \/ \E j \in 1..HeadSeq(store) : store.frames[j] = OutFrame(m)
            BY <1>b, <5>1 DEF Stored
          <5> QED
            BY <3>0, <3>1, <4>3, <5>2
        <4> QED
          BY <3>1, <4>2, <4>3
      <3>4. \A m : m \in Stored => m \in Stored'
        BY <3>1 DEF Stored
      <3>5. n \in Stored'
        BY <1>1, <3>1 DEF Stored
      <3> QED
        BY <3>1, <3>2, <3>3, <3>4, <3>5
    <2> QED
      BY <2>1, <2>2
  <1>4. \A m \in 1..n : m \in Stored' \/ m \in missed'
    <2>1. \A m : m \in missed => m \in missed'
      BY <1>2
    <2> QED
      BY <1>b, <1>1, <1>3, <2>1
  <1>5. /\ handle' \in HandleType /\ handle'.attempts = handle.attempts
        /\ handle'.closed = handle.closed
        /\ handle'.last = n \/ handle'.last = handle.last
    BY <1>t, <1>1, <1>2 DEF HandleType
  <1>6. TypeOK'
    <2>1. sock' \in [Sockets -> SocketType]
      BY <1>t, <1>1, <1>2 DEF SocketType
    <2>2. missed' \subseteq 1..MaxOut
      BY <1>t, <1>1, <1>2
    <2> QED
      BY <1>t, <1>2, <1>3, <1>5, <2>1, <2>2, TypePartsNext
  <1>7. AttemptsLimited'
    BY <1>i, <1>5 DEF AttemptsLimited
  <1>8. Caught'
    <2>1. \A m : m \in missed => m \in missed'
      BY <1>2
    <2>2. Covered(handle.last)'
      BY <1>i, <1>3, <1>4, <1>5, <2>1 DEF Covered
    <2>3. ASSUME NEW t \in Sockets PROVE Covered(sock[t].pos)'
      <3>1. sock'[t].pos = sock[t].pos \/ sock'[t].pos = n
        BY <1>t, <1>2 DEF SocketType
      <3> QED
        BY <1>i, <1>3, <1>4, <2>1, <3>1 DEF Covered
    <2> QED
      BY <2>2, <2>3 DEF Caught
  <1> QED
    BY <1>3, <1>6, <1>7, <1>8 DEF IInv

\* A crash leaves a prefix of the transcript.
LEMMA CrashKeeps ==
    ASSUME IInv, Crash
    PROVE  IInv'
  <1>t. /\ WellFormed(store, MaxOut) /\ OutsAndExits /\ NoGap
        /\ produced \in 0..MaxOut /\ missed \subseteq 1..MaxOut
        /\ ended \in BOOLEAN /\ faults \in FaultType /\ rewound \in BOOLEAN
    BY TypeParts DEF IInv
  <1>1. PICK k \in Len(store.disk)..HeadSeq(store) : store' = Reloaded(FlushedTo(store, k))
    BY DEF Crash
  <1>2. /\ WellFormed(store', MaxOut)
        /\ HeadSeq(store) \in Nat /\ HeadSeq(store') = k /\ k \in 0..HeadSeq(store)
        /\ \A i \in 1..k : store'.frames[i] = store.frames[i]
    BY <1>t, <1>1, Bounds, Cut
  <1>3. /\ sock' = [s \in Sockets |-> NoSocket] /\ handle' = NewHandle("none")
        /\ missed' = missed /\ produced' = produced /\ ended' = ended
        /\ rewound' = rewound /\ faults' = [faults EXCEPT !.crashes = @ + 1]
        /\ faults.crashes < MaxCrashes
    BY DEF Crash
  <1>4. OutsAndExits'
    BY <1>t, <1>2 DEF OutsAndExits
  <1>5. NoGap'
    BY <1>t, <1>2, <1>3 DEF NoGap
  <1>6. /\ sock' \in [Sockets -> SocketType] /\ handle' \in HandleType
        /\ faults' \in FaultType
    <2>1. MaxCrashes \in Nat /\ MaxAttempts \in Nat
      BY StreamAssumption
    <2> QED
      BY <1>t, <1>3, <2>1, FrameTypes DEF SocketType, HandleType, FaultType, NoSocket, NewHandle
  <1>7. TypeOK'
    BY <1>t, <1>2, <1>3, <1>6, TypePartsNext
  <1>8. AttemptsLimited'
    BY <1>3, StreamAssumption DEF AttemptsLimited, NewHandle
  <1>9. Caught'
    BY <1>3 DEF Caught, Covered, NewHandle, NoSocket
  <1> QED
    BY <1>4, <1>5, <1>7, <1>8, <1>9 DEF IInv

\* A recovered stream continues after outputs that are all there.
LEMMA RecoverKeeps ==
    ASSUME IInv, Recover
    PROVE  IInv'
  <1>t. /\ WellFormed(store, MaxOut) /\ OutsAndExits /\ NoGap /\ sock \in [Sockets -> SocketType]
        /\ produced \in 0..MaxOut /\ missed \subseteq 1..MaxOut
        /\ ended \in BOOLEAN /\ faults \in FaultType /\ rewound \in BOOLEAN
        /\ \A s \in Sockets : Covered(sock[s].pos)
    BY TypeParts DEF IInv, Caught
  <1> DEFINE c == ReattachCursor(store)
  <1>1. /\ sock' = [sock EXCEPT ![1] = Attached(c)]
        /\ handle' = [NewHandle("attached") EXCEPT !.recovered = TRUE]
        /\ UNCHANGED <<produced, ended, store, faults, missed, rewound>>
    BY DEF Recover
  <1>2. /\ c \in 0..MaxOut
        /\ c = 0 \/ \E i \in 1..HeadSeq(store) : store.frames[i].n = c
    BY <1>t, Bounds, CursorIs
  <1> HIDE DEF c
  <1>3. Covered(c)
    <2>1. CASE c = 0
      BY <2>1 DEF Covered
    <2>2. CASE c # 0
      <3>1. PICK i \in 1..HeadSeq(store) : store.frames[i].n = c
        BY <1>2, <2>2
      <3>2. store.frames[i] = OutFrame(c) /\ c \in 1..MaxOut
        BY <1>t, <2>2, <3>1, FrameTypes DEF OutsAndExits
      <3>3. c \in Stored
        BY <3>1, <3>2 DEF Stored
      <3>4. HeadSeq(store) \in Nat
        BY <1>t, LenProperties DEF WellFormed, HeadSeq
      <3>5. ASSUME NEW m \in 1..(c - 1) PROVE m \in Stored \/ m \in missed
        <4>1. m \in missed \/ \E j \in 1..(i - 1) : store.frames[j] = OutFrame(m)
          BY <1>t, <3>1 DEF NoGap
        <4>2. m \in 1..MaxOut
          BY <3>2, FrameTypes
        <4> QED
          BY <3>4, <4>1, <4>2 DEF Stored
      <3> QED
        BY <3>2, <3>3, <3>5 DEF Covered
    <2> QED
      BY <2>1, <2>2
  <1>4. /\ handle' \in HandleType /\ handle'.last = 0 /\ handle'.attempts = 0
    <2>1. handle' = [owner |-> "attached", closed |-> FALSE, reattaching |-> FALSE,
                     attempts |-> 0, last |-> 0, due |-> 0, recovered |-> TRUE]
      BY <1>1 DEF NewHandle
    <2> QED
      BY <2>1, Bounds DEF HandleType
  <1>5. sock' \in [Sockets -> SocketType]
    BY <1>t, <1>1, <1>2 DEF SocketType, Attached
  <1>6. TypeOK'
    BY <1>t, <1>1, <1>4, <1>5, TypePartsNext
  <1>7. AttemptsLimited'
    BY <1>4, StreamAssumption DEF AttemptsLimited
  <1>8. Caught'
    <2>1. \A s \in Sockets : sock'[s].pos = sock[s].pos \/ sock'[s].pos = c
      BY <1>t, <1>1 DEF Attached
    <2> QED
      BY <1>t, <1>1, <1>3, <1>4, <2>1 DEF Caught, Covered, Stored
  <1>9. OutsAndExits' /\ NoGap'
    BY <1>t, <1>1 DEF OutsAndExits, NoGap
  <1> QED
    BY <1>6, <1>7, <1>8, <1>9 DEF IInv

\* A new socket starts where the handle has got to.
LEMMA DelayKeeps ==
    ASSUME IInv, NEW s \in Sockets, DelayOver(s)
    PROVE  IInv'
  <1>t. /\ WellFormed(store, MaxOut) /\ OutsAndExits /\ NoGap /\ sock \in [Sockets -> SocketType]
        /\ handle \in HandleType /\ AttemptsLimited /\ Caught
        /\ produced \in 0..MaxOut /\ missed \subseteq 1..MaxOut
        /\ ended \in BOOLEAN /\ faults \in FaultType /\ rewound \in BOOLEAN
    BY TypeParts DEF IInv
  <1>1. /\ handle.due > 0
        /\ UNCHANGED <<produced, ended, store, faults, missed, rewound>>
    BY DEF DelayOver
  <1>2. \/ handle' = [handle EXCEPT !.due = handle.due - 1, !.reattaching = FALSE]
        \/ handle' = [handle EXCEPT !.due = handle.due - 1]
    BY DEF DelayOver
  <1>3. \/ sock' = sock
        \/ sock' = [sock EXCEPT ![s] = [st |-> "connecting", pos |-> handle.last, again |-> TRUE]]
    BY DEF DelayOver, Cursor
  <1>4. /\ handle' \in HandleType /\ handle'.last = handle.last
        /\ handle'.attempts = handle.attempts /\ handle'.closed = handle.closed
    <2>1. handle.due - 1 \in Nat
      BY <1>t, <1>1 DEF HandleType
    <2> QED
      BY <1>t, <1>2, <2>1 DEF HandleType
  <1>5. sock' \in [Sockets -> SocketType]
    <2>1. handle.last \in 0..MaxOut
      BY <1>t DEF HandleType
    <2>2. [st |-> "connecting", pos |-> handle.last, again |-> TRUE] \in SocketType
      BY <2>1 DEF SocketType
    <2> QED
      BY <1>t, <1>3, <2>2
  <1>6. TypeOK'
    BY <1>t, <1>1, <1>4, <1>5, TypePartsNext
  <1>7. AttemptsLimited' /\ OutsAndExits' /\ NoGap'
    BY <1>t, <1>1, <1>4 DEF AttemptsLimited, OutsAndExits, NoGap
  <1>8. Caught'
    <2>1. \A t \in Sockets : sock'[t].pos = sock[t].pos \/ sock'[t].pos = handle.last
      BY <1>t, <1>3
    <2> QED
      BY <1>t, <1>1, <1>4, <2>1 DEF Caught, Covered, Stored
  <1> QED
    BY <1>6, <1>7, <1>8 DEF IInv

\* The steps that touch neither the transcript nor a position.
LEMMA QuietKeeps ==
    ASSUME IInv, Produce \/ End \/ CreateSession \/ (\E s \in Sockets : Open(s))
                 \/ UNCHANGED vars
    PROVE  IInv'
  <1>t. /\ WellFormed(store, MaxOut) /\ OutsAndExits /\ NoGap /\ sock \in [Sockets -> SocketType]
        /\ handle \in HandleType /\ AttemptsLimited /\ Caught
        /\ produced \in 0..MaxOut /\ missed \subseteq 1..MaxOut
        /\ ended \in BOOLEAN /\ faults \in FaultType /\ rewound \in BOOLEAN
    BY TypeParts DEF IInv
  <1>1. /\ UNCHANGED <<store, faults, missed, rewound>>
        /\ produced' \in 0..MaxOut /\ ended' \in BOOLEAN
    <2>1. /\ UNCHANGED <<store, faults, missed, rewound>>
          /\ \/ produced' = produced
             \/ produced < MaxOut /\ produced' = produced + 1
      BY DEF Produce, End, CreateSession, Open, vars
    <2>2. produced' \in 0..MaxOut
      BY <1>t, <2>1, Bounds
    <2>3. ended' \in BOOLEAN
      BY <1>t DEF Produce, End, CreateSession, Open, vars
    <2> QED
      BY <2>1, <2>2, <2>3
  <1>2. /\ handle' \in HandleType /\ handle'.last = handle.last
        /\ handle'.closed = handle.closed
        /\ handle'.attempts = handle.attempts \/ handle'.attempts = 0
    <2>1. \/ handle' = handle \/ handle' = [handle EXCEPT !.owner = "session"]
          \/ handle' = [handle EXCEPT !.attempts = 0, !.reattaching = FALSE]
      BY DEF Produce, End, CreateSession, Open, Opened, vars
    <2>2. 0 \in 0..(MaxAttempts + 1)
      BY Bounds
    <2>3. CASE handle' = handle
      BY <1>t, <2>3
    <2>4. CASE handle' = [handle EXCEPT !.owner = "session"]
      BY <1>t, <2>4 DEF HandleType
    <2>5. CASE handle' = [handle EXCEPT !.attempts = 0, !.reattaching = FALSE]
      BY <1>t, <2>2, <2>5 DEF HandleType
    <2> QED
      BY <2>1, <2>3, <2>4, <2>5
  <1>3. /\ sock' \in [Sockets -> SocketType]
        /\ \A t \in Sockets : sock'[t].pos = sock[t].pos
    <2>1. sock' = sock \/ \E s \in Sockets : sock' = [sock EXCEPT ![s].st = "open"]
      BY DEF Produce, End, CreateSession, Open, vars
    <2> QED
      BY <1>t, <2>1 DEF SocketType
  <1>4. TypeOK'
    BY <1>t, <1>1, <1>2, <1>3, TypePartsNext
  <1>5. AttemptsLimited'
    BY <1>t, <1>2, StreamAssumption DEF AttemptsLimited
  <1>6. OutsAndExits' /\ NoGap' /\ Caught'
    BY <1>t, <1>1, <1>2, <1>3 DEF OutsAndExits, NoGap, Caught, Covered, Stored
  <1> QED
    BY <1>4, <1>5, <1>6 DEF IInv

LEMMA InitInv == Init => IInv
  <1> SUFFICES ASSUME Init PROVE IInv
    OBVIOUS
  <1>1. /\ HeadSeq(store) = 0 /\ WellFormed(store, MaxOut)
    <2>1. store = [frames |-> <<>>, disk |-> <<>>, queue |-> <<>>]
      BY DEF Init, EmptyStore
    <2>2. <<>> \in Seq(Frames(MaxOut)) /\ <<>> \o <<>> = <<>> /\ Len(<<>>) = 0
      OBVIOUS
    <2>3. store \in [frames : Seq(Frames(MaxOut)), disk : Seq(Frames(MaxOut)),
                     queue : Seq(Frames(MaxOut))]
      BY <2>1, <2>2
    <2> QED
      BY <2>1, <2>2, <2>3 DEF WellFormed, HeadSeq
  <1>2. /\ handle \in HandleType /\ handle.last = 0 /\ handle.attempts = 0
        /\ faults \in FaultType
    BY Bounds DEF Init, NewHandle, HandleType, FaultType
  <1>3. /\ sock \in [Sockets -> SocketType] /\ \A s \in Sockets : sock[s].pos = 0
    BY Bounds DEF Init, Attached, NoSocket, SocketType
  <1>4. /\ produced \in 0..MaxOut /\ ended \in BOOLEAN /\ missed \subseteq 1..MaxOut
        /\ rewound \in BOOLEAN
    <2>1. produced = 0 /\ missed = {}
      BY DEF Init
    <2>2. ended \in BOOLEAN /\ rewound \in BOOLEAN
      BY DEF Init
    <2> QED
      BY <2>1, <2>2, Bounds
  <1>5. TypeOK
    BY <1>1, <1>2, <1>3, <1>4, TypeParts
  <1>6. AttemptsLimited /\ OutsAndExits /\ NoGap /\ Caught
    BY <1>1, <1>2, <1>3, StreamAssumption
    DEF AttemptsLimited, OutsAndExits, NoGap, Caught, Covered
  <1> QED
    BY <1>5, <1>6 DEF IInv

\* The types, the limit of attempts and the absence of gaps hold in every state.
THEOREM Invariant == Spec => []IInv
  <1>1. ASSUME IInv, [Next]_vars PROVE IInv'
    <2>1. ASSUME NEW s \in Sockets,
                 ExitMessage(s) \/ Break(s) \/ Refused(s) \/ ConnectTimeout(s)
          PROVE  IInv'
      BY <1>1, <2>1, HangUps, HangUpKeeps
    <2> QED
      BY <1>1, <2>1, FrameKeeps, CrashKeeps, RecoverKeeps, DelayKeeps, QuietKeeps
      DEF Next
  <1> QED
    BY <1>1, InitInv, PTL DEF Spec, SafeSpec

\* The handle gives up after MaxAttempts attempts and not later, and the file and
\* the queue of the transcript always make up what is in memory.
THEOREM TypeCorrect == Spec => []TypeOK
  <1>1. IInv => TypeOK
    BY DEF IInv
  <1> QED
    BY <1>1, Invariant, PTL

\* Whatever breaks, times out or crashes, the transcript of a session has every
\* output up to the last one its stream has seen, but for those that came before
\* the session object.
THEOREM NothingLost == Spec => []NoHole
  <1>1. IInv => NoHole
    BY DEF IInv, Caught, Covered, NoHole
  <1> QED
    BY <1>1, Invariant, PTL

(***************************************************************************)
(* Each output once, in order, the exit last.                              *)
(***************************************************************************)
\* A frame that may follow what is there keeps the order.
LEMMA OneMoreInOrder ==
    ASSUME IInv, InOrder, ~HasExit(store), NEW f \in Frames(MaxOut),
           store' = AppendFrame(store, f),
           f.kind = "out" => \A i \in 1..HeadSeq(store) : store.frames[i].n < f.n
    PROVE  /\ InOrder'
           /\ HeadSeq(store) \in Nat /\ HeadSeq(store') = HeadSeq(store) + 1
           /\ \A i \in 1..HeadSeq(store) : store'.frames[i] = store.frames[i]
           /\ store'.frames[HeadSeq(store')] = f
           /\ f.kind # "exit" => ~HasExit(store')
  <1>1. WellFormed(store, MaxOut) /\ OutsAndExits
    BY TypeParts DEF IInv
  <1>2. /\ HeadSeq(store) \in Nat /\ HeadSeq(store') = HeadSeq(store) + 1
        /\ \A i \in 1..HeadSeq(store) : store'.frames[i] = store.frames[i]
        /\ store'.frames[HeadSeq(store')] = f
    BY <1>1, Bounds, Appended
  <1>3. \A i \in 1..HeadSeq(store) : store.frames[i].kind = "out"
    BY <1>1, FrameTypes DEF OutsAndExits, HasExit
  <1>4. InOrder'
    <2>1. SUFFICES ASSUME NEW i \in 1..HeadSeq(store'), NEW j \in 1..HeadSeq(store'), i < j
                   PROVE  /\ store'.frames[i].kind = "out"
                          /\ store'.frames[j].kind = "out" =>
                                store'.frames[i].n < store'.frames[j].n
      BY DEF InOrder
    <2>2. i \in 1..HeadSeq(store) /\ store'.frames[i] = store.frames[i]
      BY <1>2, <2>1
    <2>3. CASE j = HeadSeq(store')
      BY <1>2, <1>3, <2>2, <2>3
    <2>4. CASE j # HeadSeq(store')
      <3>1. j \in 1..HeadSeq(store) /\ store'.frames[j] = store.frames[j]
        BY <1>2, <2>4
      <3> QED
        BY <2>1, <2>2, <3>1 DEF InOrder
    <2> QED
      BY <2>3, <2>4
  <1>5. f.kind # "exit" => ~HasExit(store')
    BY <1>2 DEF HasExit
  <1> QED
    BY <1>2, <1>4, <1>5

\* Where a socket is in use, it is the only one, and no delay runs.
LEMMA InUse ==
    ASSUME IInv, Disciplined, NEW s \in Sockets, sock[s].st # "none"
    PROVE  /\ \A t \in Sockets : t # s => sock[t].st = "none"
           /\ handle \in HandleType /\ handle.due = 0
           /\ ~handle.closed /\ handle.owner # "none"
           /\ StoredUpTo(sock[s].pos) /\ ~HasExit(store)
           /\ sock[s].pos # handle.last =>
                 sock[s].st = "open" /\ handle.recovered /\ handle.last = 0
  <1>1. handle \in HandleType /\ handle.due \in Nat
    BY TypeParts DEF IInv, HandleType
  <1>2. OneSocket /\ Ahead /\ ExitIsEnd
    BY DEF Disciplined
  <1>3. handle.due = 0 /\ ~handle.closed /\ handle.owner # "none"
    BY <1>1, <1>2 DEF OneSocket, Silent
  <1> QED
    BY <1>1, <1>2, <1>3 DEF OneSocket, Ahead, ExitIsEnd

LEMMA FrameDisciplined ==
    ASSUME IInv, Disciplined, NEW s \in Sockets, Frame(s)
    PROVE  Disciplined'
  <1>t. /\ sock \in [Sockets -> SocketType] /\ produced \in 0..MaxOut /\ WellFormed(store, MaxOut)
    BY TypeParts DEF IInv
  <1>u. /\ \A t \in Sockets : t # s => sock[t].st = "none"
        /\ handle \in HandleType /\ handle.due = 0
        /\ ~handle.closed /\ handle.owner # "none"
        /\ StoredUpTo(sock[s].pos) /\ ~HasExit(store)
        /\ sock[s].pos # handle.last => handle.last = 0
    BY InUse DEF Frame
  <1> DEFINE n == sock[s].pos + 1
  <1>1. n \in 1..MaxOut /\ sock[s].pos \in 0..MaxOut /\ sock[s].st = "open"
    BY <1>t, Bounds DEF Frame, SocketType
  <1>2. /\ sock' = [sock EXCEPT ![s].pos = n]
        /\ handle' = [handle EXCEPT !.last = IF n > handle.last THEN n ELSE handle.last]
        /\ store' = IF handle.owner = "session" THEN AppendFrame(store, OutFrame(n))
                    ELSE store
    BY DEF Frame
  <1>b. StoredUpTo(n - 1) /\ n - 1 = sock[s].pos
    BY <1>u, <1>1
  <1> HIDE DEF n
  <1>3. /\ handle'.last = n /\ handle'.due = 0 /\ ~handle'.closed
        /\ handle'.owner # "none"
    <2>1. n > handle.last
      BY <1>u, <1>1, <1>b
    <2> QED
      BY <1>u, <1>2, <2>1 DEF HandleType
  <1>4. /\ sock'[s].pos = n /\ sock'[s].st = "open"
        /\ \A t \in Sockets : t # s => sock'[t].st = "none"
    BY <1>t, <1>u, <1>1, <1>2 DEF SocketType
  <1>5. /\ InOrder' /\ ~HasExit(store')
        /\ \A i \in 1..HeadSeq(store') : store'.frames[i].n <= n
    <2>0. \A i \in 1..HeadSeq(store) : store.frames[i].n \in Nat /\ store.frames[i].n < n
      <3>1. \A i \in 1..HeadSeq(store) : store.frames[i].n \in Nat
        BY FrameTypes DEF IInv, OutsAndExits
      <3> QED
        BY <1>1, <1>b, <3>1 DEF StoredUpTo
    <2>1. CASE handle.owner # "session"
      <3>1. store' = store
        BY <1>2, <2>1
      <3> QED
        BY <1>u, <1>1, <2>0, <3>1 DEF Disciplined, InOrder
    <2>2. CASE handle.owner = "session"
      <3>1. OutFrame(n) \in Frames(MaxOut) /\ OutFrame(n).kind = "out" /\ OutFrame(n).n = n
        BY <1>1, FrameTypes
      <3>2. store' = AppendFrame(store, OutFrame(n))
        BY <1>2, <2>2
      <3>3. /\ InOrder' /\ ~HasExit(store')
            /\ HeadSeq(store) \in Nat /\ HeadSeq(store') = HeadSeq(store) + 1
            /\ \A i \in 1..HeadSeq(store) : store'.frames[i] = store.frames[i]
            /\ store'.frames[HeadSeq(store')] = OutFrame(n)
        BY <1>u, <2>0, <3>1, <3>2, OneMoreInOrder DEF Disciplined
      <3>4. ASSUME NEW i \in 1..HeadSeq(store') PROVE store'.frames[i].n <= n
        BY <1>1, <2>0, <3>1, <3>3
      <3> QED
        BY <3>3, <3>4
    <2> QED
      BY <2>1, <2>2
  <1>6. OneSocket'
    BY <1>3, <1>4 DEF OneSocket
  <1>7. Ahead'
    <2>1. \A t \in Sockets : sock'[t].st # "none" => t = s
      BY <1>4
    <2> QED
      BY <1>3, <1>4, <1>5, <2>1 DEF Ahead, StoredUpTo
  <1>8. ExitIsEnd'
    BY <1>5 DEF ExitIsEnd
  <1> QED
    BY <1>5, <1>6, <1>7, <1>8 DEF Disciplined

\* The only socket ends: one delay runs afterwards, or none and the exit is known.
LEMMA HangUpDisciplined ==
    ASSUME IInv, Disciplined, NEW s \in Sockets,
           ExitMessage(s) \/ Break(s) \/ Refused(s), ~rewound'
    PROVE  Disciplined'
  <1>t. sock \in [Sockets -> SocketType] /\ Limited(handle)
    BY TypeParts DEF IInv, AttemptsLimited, Limited
  <1>u. /\ \A t \in Sockets : t # s => sock[t].st = "none"
        /\ handle \in HandleType /\ handle.due = 0
        /\ ~handle.closed /\ handle.owner # "none"
        /\ StoredUpTo(sock[s].pos) /\ ~HasExit(store)
        /\ sock[s].pos # handle.last =>
              sock[s].st = "open" /\ handle.recovered /\ handle.last = 0
    BY InUse DEF ExitMessage, Break, Refused
  <1>1. /\ sock' = [sock EXCEPT ![s] = NoSocket] /\ store' = LoggedBy(handle')
        /\ handle'.owner = handle.owner /\ handle'.last = handle.last
    BY HangUps DEF HangUp
  <1>2. \A t \in Sockets : sock'[t].st = "none"
    BY <1>t, <1>u, <1>1 DEF NoSocket
  <1>3. /\ handle'.due \in Nat
        /\ handle'.due > 0 => handle'.due = 1 /\ ~handle'.closed /\ ~ExitMessage(s)
    <2>1. CASE ExitMessage(s)
      <3>1. handle' = [handle EXCEPT !.closed = TRUE]
        BY <2>1 DEF ExitMessage, FireExit
      <3> QED
        BY <1>u, <3>1 DEF HandleType
    <2>2. CASE Break(s) \/ Refused(s)
      <3>1. handle' = Broken(handle) \/ handle' = Again(handle)
        BY <2>2 DEF Break, Refused
      <3>2. Retried(handle, handle') \/ handle' = handle
        BY <1>t, <1>u, <3>1, BrokenRetries, AgainRetries
      <3>3. ~ExitMessage(s) \/ handle'.closed
        <4>1. ExitMessage(s) => handle' = [handle EXCEPT !.closed = TRUE]
          BY DEF ExitMessage, FireExit
        <4> QED
          BY <1>u, <4>1 DEF HandleType
      <3> QED
        BY <1>u, <3>2, <3>3 DEF Retried
    <2> QED
      BY <2>1, <2>2
  <1>4. \/ store' = store
        \/ store' = AppendFrame(store, ExitFrame) /\ handle'.closed
    BY <1>1 DEF LoggedBy, ExitLogged
  <1>5. InOrder' /\ (HasExit(store') => handle'.closed)
    <2>1. CASE store' = store
      BY <1>u, <2>1 DEF Disciplined, InOrder
    <2>2. CASE store' = AppendFrame(store, ExitFrame) /\ handle'.closed
      BY <1>u, <2>2, FrameTypes, OneMoreInOrder DEF Disciplined
    <2> QED
      BY <1>4, <2>1, <2>2
  <1>6. handle'.due > 0 => StoredUpTo(handle.last)'
    <2>1. SUFFICES ASSUME handle'.due > 0 PROVE StoredUpTo(handle.last)'
      OBVIOUS
    <2>2. store' = store
      BY <1>3, <1>4, <2>1
    <2>3. sock[s].pos = handle.last
      <3>1. CASE Break(s)
        BY <1>u, <3>1 DEF Break
      <3>2. CASE Refused(s)
        BY <1>u, <3>2 DEF Refused
      <3> QED
        BY <1>3, <2>1, <3>1, <3>2
    <2> QED
      BY <1>u, <1>1, <2>2, <2>3 DEF StoredUpTo
  <1>7. OneSocket'
    BY <1>u, <1>1, <1>2, <1>3 DEF OneSocket, Silent
  <1>8. Ahead'
    BY <1>2, <1>6 DEF Ahead
  <1>9. ExitIsEnd'
    BY <1>5 DEF ExitIsEnd
  <1> QED
    BY <1>5, <1>7, <1>8, <1>9 DEF Disciplined

\* The only delay becomes the only socket.
LEMMA DelayDisciplined ==
    ASSUME IInv, Disciplined, NEW s \in Sockets, DelayOver(s)
    PROVE  Disciplined'
  <1>t. sock \in [Sockets -> SocketType] /\ handle \in HandleType
    BY TypeParts DEF IInv
  <1>1. /\ handle.due = 1 /\ \A t \in Sockets : sock[t].st = "none"
        /\ ~handle.closed /\ handle.owner # "none" /\ StoredUpTo(handle.last)
    BY <1>t DEF DelayOver, Disciplined, OneSocket, Ahead, Silent, HandleType
  <1>2. /\ handle' = [handle EXCEPT !.due = @ - 1]
        /\ sock' = [sock EXCEPT ![s] = [st |-> "connecting", pos |-> handle.last, again |-> TRUE]]
        /\ store' = store
    BY <1>1 DEF DelayOver, Cursor
  <1>3. /\ handle'.due = 0 /\ handle'.last = handle.last
        /\ ~handle'.closed /\ handle'.owner # "none"
    BY <1>t, <1>1, <1>2 DEF HandleType
  <1>4. /\ sock'[s].st = "connecting" /\ sock'[s].pos = handle.last
        /\ \A t \in Sockets : t # s => sock'[t].st = "none"
    BY <1>t, <1>1, <1>2
  <1>5. OneSocket'
    BY <1>3, <1>4 DEF OneSocket
  <1>6. Ahead'
    <2>1. \A t \in Sockets : sock'[t].st # "none" => t = s
      BY <1>4
    <2> QED
      BY <1>1, <1>2, <1>3, <1>4, <2>1 DEF Ahead, StoredUpTo
  <1>7. ExitIsEnd' /\ InOrder'
    BY <1>1, <1>2 DEF Disciplined, ExitIsEnd, InOrder
  <1> QED
    BY <1>5, <1>6, <1>7 DEF Disciplined

\* Nothing is in use after a crash.
LEMMA CrashDisciplined ==
    ASSUME IInv, Disciplined, Crash
    PROVE  Disciplined'
  <1>1. PICK k \in Len(store.disk)..HeadSeq(store) : store' = Reloaded(FlushedTo(store, k))
    BY DEF Crash
  <1>2. /\ HeadSeq(store) \in Nat /\ HeadSeq(store') = k /\ k \in 0..HeadSeq(store)
        /\ \A i \in 1..k : store'.frames[i] = store.frames[i]
    <2>1. WellFormed(store, MaxOut)
      BY TypeParts DEF IInv
    <2> QED
      BY <1>1, <2>1, Bounds, Cut
  <1>3. /\ \A s \in Sockets : sock'[s].st = "none"
        /\ handle'.due = 0 /\ handle'.owner = "none"
    BY DEF Crash, NoSocket, NewHandle
  <1>4. InOrder'
    <2>1. SUFFICES ASSUME NEW i \in 1..k, NEW j \in 1..k, i < j
                   PROVE  /\ store.frames[i].kind = "out"
                          /\ store.frames[j].kind = "out" => store.frames[i].n < store.frames[j].n
      BY <1>2 DEF InOrder
    <2> QED
      BY <1>2, <2>1 DEF Disciplined, InOrder
  <1>5. OneSocket' /\ Ahead' /\ ExitIsEnd'
    BY <1>3 DEF OneSocket, Silent, Ahead, ExitIsEnd
  <1> QED
    BY <1>4, <1>5 DEF Disciplined

\* The recovered stream is the only one, and starts after all that is stored.
LEMMA RecoverDisciplined ==
    ASSUME IInv, Disciplined, Recover
    PROVE  Disciplined'
  <1>t. sock \in [Sockets -> SocketType] /\ WellFormed(store, MaxOut)
    BY TypeParts DEF IInv
  <1>1. \A s \in Sockets : sock[s].st = "none"
    BY DEF Recover, Disciplined, OneSocket, Silent
  <1>2. /\ sock' = [sock EXCEPT ![1] = Attached(ReattachCursor(store))]
        /\ store' = store /\ ~HasExit(store)
    BY DEF Recover, CanReattach
  <1>3. handle' = [owner |-> "attached", closed |-> FALSE, reattaching |-> FALSE,
                   attempts |-> 0, last |-> 0, due |-> 0, recovered |-> TRUE]
    BY DEF Recover, NewHandle
  <1>4. StoredUpTo(ReattachCursor(store))
    BY <1>t, Bounds, CursorIs DEF StoredUpTo
  <1>5. \A s \in Sockets :
           sock'[s].st # "none" =>
             s = 1 /\ sock'[s].st = "open" /\ sock'[s].pos = ReattachCursor(store)
    BY <1>t, <1>1, <1>2 DEF Attached
  <1>6. OneSocket'
    BY <1>3, <1>5 DEF OneSocket
  <1>7. Ahead'
    BY <1>2, <1>3, <1>4, <1>5 DEF Ahead, StoredUpTo
  <1>8. ExitIsEnd' /\ InOrder'
    BY <1>2 DEF Disciplined, ExitIsEnd, InOrder
  <1> QED
    BY <1>6, <1>7, <1>8 DEF Disciplined

LEMMA QuietDisciplined ==
    ASSUME IInv, Disciplined,
           Produce \/ End \/ CreateSession \/ (\E s \in Sockets : Open(s)) \/ UNCHANGED vars
    PROVE  Disciplined'
  <1>t. sock \in [Sockets -> SocketType] /\ handle \in HandleType
    BY TypeParts DEF IInv
  <1>1. store' = store
    BY DEF Produce, End, CreateSession, Open, vars
  <1>2. /\ handle'.due = handle.due /\ handle'.last = handle.last
        /\ handle'.closed = handle.closed /\ handle'.recovered = handle.recovered
        /\ handle'.owner = "none" <=> handle.owner = "none"
    <2>1. CASE handle' = handle
      BY <2>1
    <2>2. CASE handle' = [handle EXCEPT !.owner = "session"] /\ handle.owner = "attached"
      BY <1>t, <2>2 DEF HandleType
    <2>3. CASE handle' = [handle EXCEPT !.attempts = 0, !.reattaching = FALSE]
      BY <1>t, <2>3 DEF HandleType
    <2> QED
      BY <2>1, <2>2, <2>3 DEF Produce, End, CreateSession, Open, Opened, vars
  <1>3. \A t \in Sockets :
           /\ sock'[t].pos = sock[t].pos
           /\ (sock'[t].st = "none") <=> (sock[t].st = "none")
           /\ sock[t].st = "open" => sock'[t].st = "open"
           /\ sock'[t].st # "connecting" \/ sock[t].st = "connecting"
    <2>1. \/ sock' = sock
          \/ \E s \in Sockets : sock[s].st = "connecting" /\ sock' = [sock EXCEPT ![s].st = "open"]
      BY DEF Produce, End, CreateSession, Open, vars
    <2> QED
      BY <1>t, <2>1 DEF SocketType
  <1>4. OneSocket'
    BY <1>2, <1>3 DEF Disciplined, OneSocket, Silent
  <1>5. Ahead'
    BY <1>1, <1>2, <1>3 DEF Disciplined, Ahead, StoredUpTo
  <1>6. ExitIsEnd' /\ InOrder'
    BY <1>1, <1>2 DEF Disciplined, ExitIsEnd, InOrder
  <1> QED
    BY <1>4, <1>5, <1>6 DEF Disciplined

LEMMA ExactStep ==
    ASSUME IInv, ExactInv, [Next]_vars
    PROVE  ExactInv'
  <1>0. SUFFICES ASSUME Undisturbed' PROVE Disciplined'
    BY DEF ExactInv
  <1>t. faults \in FaultType /\ faults.timeouts \in Nat
    BY TypeParts DEF IInv, FaultType
  <1>1. \A s \in Sockets : ~ConnectTimeout(s)
    BY <1>0, <1>t DEF Undisturbed, ConnectTimeout, FaultType
  <1>2. Undisturbed
    <2>1. rewound => rewound'
      BY DEF Next, Produce, End, CreateSession, Crash, Recover, Frame, ExitMessage, Break,
             DelayOver, Open, Refused, ConnectTimeout, vars
    <2>2. \/ faults' = faults
          \/ faults' = [faults EXCEPT !.crashes = @ + 1]
          \/ faults' = [faults EXCEPT !.breaks = @ + 1]
      BY <1>1 DEF Next, Produce, End, CreateSession, Crash, Recover, Frame, ExitMessage, Break,
                  DelayOver, Open, Refused, vars
    <2>3. faults'.timeouts = faults.timeouts
      BY <1>t, <2>2 DEF FaultType
    <2> QED
      BY <1>0, <2>1, <2>3 DEF Undisturbed
  <1>3. Disciplined
    BY <1>2 DEF ExactInv
  <1>4. ~rewound'
    BY <1>0 DEF Undisturbed
  <1> QED
    BY <1>1, <1>3, <1>4, FrameDisciplined, HangUpDisciplined, DelayDisciplined,
       CrashDisciplined, RecoverDisciplined, QuietDisciplined
    DEF Next

\* As long as no connect has timed out and no recovered stream was cut before its
\* first frame, the transcript holds each output once, in order, and the exit last:
\* the handle never has two sockets, and each one starts after what is stored.
THEOREM OnceInOrder == Spec => []Exact
  <1>1. Init => ExactInv
    <2>1. SUFFICES ASSUME Init PROVE Disciplined
      BY DEF ExactInv
    <2>2. HeadSeq(store) = 0 /\ ~HasExit(store)
      BY <2>1 DEF Init, EmptyStore, HeadSeq, HasExit
    <2>3. /\ handle.due = 0 /\ handle.last = 0 /\ ~handle.closed /\ handle.owner = "attached"
          /\ \A s \in Sockets : s # 1 => sock[s].st = "none"
          /\ \A s \in Sockets : sock[s].pos = 0
      BY <2>1 DEF Init, NewHandle, Attached, NoSocket
    <2> QED
      BY <2>2, <2>3 DEF Disciplined, OneSocket, Silent, Ahead, StoredUpTo, ExitIsEnd, InOrder
  <1>2. IInv /\ IInv' /\ ExactInv /\ [Next]_vars => ExactInv'
    BY ExactStep
  <1>3. ExactInv => Exact
    BY DEF ExactInv, Undisturbed, Disciplined, InOrder, Exact
  <1> QED
    BY <1>1, <1>2, <1>3, Invariant, PTL DEF Spec, SafeSpec
=============================================================================
