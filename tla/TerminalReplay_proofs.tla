------------------------- MODULE TerminalReplay_proofs -------------------------
(***************************************************************************)
(* Proofs about TerminalReplay, for any number of connections, outputs,    *)
(* keystrokes and resumes.  Under every fault: the subscribers of a session*)
(* leave (CountInv), and the variables keep their types (StoreInv,         *)
(* TypeInv), the sequence numbers their bound.  While the transcript loses *)
(* no frame and the tab is visible: the screen shows the numbered outputs  *)
(* in order, session.history repeats none that is newer, the cursor is     *)
(* never ahead of the screen, no output gets stuck and the exit comes last *)
(* (OrderInv: from the screen to the agent runs one line of outputs).      *)
(***************************************************************************)
EXTENDS TerminalReplay, Transcript_proofs

Opened == {c \in Conns : conn[c].pc = "open"}

\* The fields of the records, whatever they hold.
ConnForm(k) == k = [pc |-> k.pc, closed |-> k.closed, after |-> k.after,
                    sent |-> k.sent, batch |-> k.batch]
Forms ==
    /\ conn = [c \in Conns |-> conn[c]] /\ \A c \in Conns : ConnForm(conn[c])
    /\ sess = [status |-> sess.status, subs |-> sess.subs, out |-> sess.out,
               exit |-> sess.exit]
    /\ sess.subs \in Nat

\* Whoever has an exit listener will take itself off the count, and nobody else is
\* counted.
CountInv ==
    /\ Forms
    /\ sess.exit \subseteq Opened
    /\ sess.subs <= Cardinality(sess.exit)

LEMMA ConnsFinite == IsFiniteSet(Conns) /\ \A S : S \subseteq Conns => IsFiniteSet(S)
  <1>1. MaxConns \in Nat
    BY TerminalAssumption
  <1>2. IsFiniteSet(Conns)
    BY <1>1, FS_Interval DEF Conns
  <1> QED
    BY <1>2, FS_Subset

\* What a step does to one record of a connection keeps its form.
LEMMA ClosedForm ==
    ASSUME NEW k, ConnForm(k), NEW v, NEW m, m = [k EXCEPT !.closed = v]
    PROVE  ConnForm(m) /\ m.pc = k.pc
  BY DEF ConnForm

\* Taking cs away from the listeners lowers the count at least as far.
LEMMA WithoutCounts ==
    ASSUME NEW s, s = [status |-> s.status, subs |-> s.subs, out |-> s.out, exit |-> s.exit],
           s.subs \in Nat, s.exit \subseteq Conns, s.subs <= Cardinality(s.exit),
           NEW cs, IsFiniteSet(cs), NEW t, t = Without(s, cs)
    PROVE  /\ t = [status |-> t.status, subs |-> t.subs, out |-> t.out, exit |-> t.exit]
           /\ t.status = s.status /\ t.exit = s.exit \ cs
           /\ t.subs \in Nat /\ t.subs <= Cardinality(t.exit)
  <1>1. t = [status |-> s.status,
             subs |-> IF s.subs < Cardinality(cs) THEN 0 ELSE s.subs - Cardinality(cs),
             out |-> s.out \ cs, exit |-> s.exit \ cs]
    BY DEF Without
  <1>2. IsFiniteSet(s.exit) /\ IsFiniteSet(s.exit \ cs)
    BY ConnsFinite
  <1>3. /\ Cardinality(s.exit) \in Nat /\ Cardinality(cs) \in Nat
        /\ Cardinality(s.exit \ cs) \in Nat
    BY <1>2, FS_CardinalityType
  <1>4. Cardinality(s.exit) <= Cardinality(s.exit \ cs) + Cardinality(cs)
    <2>1. IsFiniteSet(s.exit \cap cs) /\ Cardinality(s.exit \cap cs) <= Cardinality(cs)
      BY FS_Subset
    <2>2. Cardinality(s.exit \ cs) = Cardinality(s.exit) - Cardinality(s.exit \cap cs)
      BY <1>2, FS_Difference
    <2>3. Cardinality(s.exit \cap cs) \in Nat
      BY <2>1, FS_CardinalityType
    <2> QED
      BY <1>3, <2>1, <2>2, <2>3
  <1> QED
    BY <1>1, <1>3, <1>4

\* A step that lets nobody in or out.
LEMMA QuietCounts ==
    ASSUME CountInv,
           sess' = sess \/ (sess'.exit = sess.exit /\ sess'.subs = sess.subs
                            /\ sess' = [status |-> sess'.status, subs |-> sess'.subs,
                                        out |-> sess'.out, exit |-> sess'.exit]),
           conn' = [c \in Conns |-> conn'[c]], \A c \in Conns : ConnForm(conn'[c]),
           \A c \in Conns : conn[c].pc = "open" => conn'[c].pc = "open"
    PROVE  CountInv'
  BY DEF CountInv, Forms, ConnForm, Opened

LEMMA SubscribeCounts ==
    ASSUME CountInv, NEW c \in Conns, Subscribe(c)
    PROVE  CountInv'
  <1>1. /\ conn[c].pc \in {"route", "waking"} /\ c \notin sess.exit
    BY DEF Subscribe, CountInv, Opened
  <1>2. PICK n : conn' = [conn EXCEPT ![c].pc = "open", ![c].sent = n]
    BY DEF Subscribe
  <1>3. sess' = [status |-> sess.status, subs |-> sess.subs + 1,
                 out |-> Listening(sess.out, c), exit |-> sess.exit \cup {c}]
    BY DEF Subscribe, CountInv, Forms
  <1>4. conn' = [d \in Conns |-> conn'[d]] /\ \A d \in Conns : ConnForm(conn'[d])
    BY <1>2 DEF CountInv, Forms, ConnForm
  <1>5. \A d \in Conns : conn'[d].pc = IF d = c THEN "open" ELSE conn[d].pc
    BY <1>2 DEF CountInv, Forms, ConnForm
  <1>6. sess'.exit \subseteq Opened'
    BY <1>3, <1>5 DEF CountInv, Opened
  <1>7. Cardinality(sess.exit \cup {c}) = Cardinality(sess.exit) + 1
        /\ Cardinality(sess.exit) \in Nat
    <2>1. IsFiniteSet(sess.exit)
      BY ConnsFinite DEF CountInv, Opened
    <2> QED
      BY <1>1, <2>1, FS_AddElement, FS_CardinalityType
  <1> QED
    BY <1>3, <1>4, <1>6, <1>7 DEF CountInv, Forms

LEMMA CloseCounts ==
    ASSUME CountInv, NEW c \in Conns, CloseSeen(c)
    PROVE  CountInv'
  <1>1. /\ sess.exit \subseteq Conns /\ sess.subs \in Nat
        /\ sess.subs <= Cardinality(sess.exit)
        /\ sess = [status |-> sess.status, subs |-> sess.subs, out |-> sess.out,
                   exit |-> sess.exit]
    BY DEF CountInv, Forms, Opened
  <1>2. CASE conn[c].pc = "open"
    <2> DEFINE cs == {c}
               t == Without(sess, cs)
    <2>1. conn' = [conn EXCEPT ![c] = Ended(conn[c])] /\ sess' = t
      BY <1>2 DEF CloseSeen, CleanedUp
    <2>2. IsFiniteSet(cs)
      BY FS_Singleton
    <2>b. sess.exit \ cs = sess.exit \ {c}
      OBVIOUS
    <2> HIDE DEF cs
    <2>a. /\ t = [status |-> t.status, subs |-> t.subs, out |-> t.out, exit |-> t.exit]
          /\ t.exit = sess.exit \ cs
          /\ t.subs \in Nat /\ t.subs <= Cardinality(t.exit)
      BY <1>1, <2>2, WithoutCounts
    <2> HIDE DEF t
    <2>3. /\ sess' = [status |-> sess'.status, subs |-> sess'.subs, out |-> sess'.out,
                      exit |-> sess'.exit]
          /\ sess'.exit = sess.exit \ {c}
          /\ sess'.subs \in Nat /\ sess'.subs <= Cardinality(sess'.exit)
      BY <2>1, <2>a, <2>b
    <2>4. conn' = [d \in Conns |-> conn'[d]] /\ \A d \in Conns : ConnForm(conn'[d])
      BY <2>1 DEF CountInv, Forms, ConnForm, Ended
    <2>5. \A d \in Conns : d # c => conn'[d] = conn[d]
      BY <2>1 DEF CountInv, Forms
    <2>6. sess'.exit \subseteq Opened'
      BY <2>3, <2>5 DEF CountInv, Opened
    <2> QED
      BY <2>3, <2>4, <2>6 DEF CountInv, Forms
  <1>3. CASE conn[c].pc # "open"
    <2>1. conn' = [conn EXCEPT ![c].closed = TRUE] /\ sess' = sess
      BY <1>3 DEF CloseSeen
    <2>2. /\ conn' = [d \in Conns |-> conn'[d]] /\ \A d \in Conns : ConnForm(conn'[d])
          /\ \A d \in Conns : conn'[d].pc = conn[d].pc
      <3>1. /\ conn = [d \in Conns |-> conn[d]]
            /\ \A d \in Conns : ConnForm(conn[d])
        BY DEF CountInv, Forms
      <3>2. conn' = [d \in Conns |-> IF d = c THEN [conn[d] EXCEPT !.closed = TRUE] ELSE conn[d]]
        BY <2>1, <3>1
      <3> QED
        BY <3>1, <3>2, ClosedForm
    <2> QED
      BY <2>1, <2>2, QuietCounts
  <1> QED
    BY <1>2, <1>3

LEMMA ExitCounts ==
    ASSUME CountInv, AgentExit
    PROVE  CountInv'
  <1>1. /\ sess.exit \subseteq Conns /\ sess.subs \in Nat
        /\ sess.subs <= Cardinality(sess.exit)
        /\ sess = [status |-> sess.status, subs |-> sess.subs, out |-> sess.out,
                   exit |-> sess.exit]
    BY DEF CountInv, Forms, Opened
  <1>2. conn' = [c \in Conns |-> IF c \in sess.exit THEN Ended(conn[c]) ELSE conn[c]]
    BY DEF AgentExit
  <1> DEFINE t == Without(sess, sess.exit)
  <1>3. sess' = [t EXCEPT !.status = "exited", !.out = {}]
    BY DEF AgentExit
  <1>4. IsFiniteSet(sess.exit)
    BY <1>1, ConnsFinite
  <1>5. /\ t = [status |-> t.status, subs |-> t.subs, out |-> t.out, exit |-> t.exit]
        /\ t.exit = {} /\ t.subs \in Nat /\ t.subs <= Cardinality({})
    <2>1. /\ t = [status |-> t.status, subs |-> t.subs, out |-> t.out, exit |-> t.exit]
          /\ t.exit = sess.exit \ sess.exit
          /\ t.subs \in Nat /\ t.subs <= Cardinality(t.exit)
      BY <1>1, <1>4, WithoutCounts
    <2> QED
      BY <2>1
  <1> HIDE DEF t
  <1>6. /\ sess' = [status |-> sess'.status, subs |-> sess'.subs, out |-> sess'.out,
                    exit |-> sess'.exit]
        /\ sess'.exit = {} /\ sess'.subs \in Nat /\ sess'.subs <= Cardinality(sess'.exit)
    BY <1>3, <1>5
  <1>7. conn' = [c \in Conns |-> conn'[c]] /\ \A c \in Conns : ConnForm(conn'[c])
    BY <1>2 DEF CountInv, Forms, ConnForm, Ended
  <1> QED
    BY <1>6, <1>7 DEF CountInv, Forms

\* A new session object has no subscribers.
LEMMA FreshCounts ==
    ASSUME CountInv, NEW st, sess' = Fresh(st),
           conn' = [c \in Conns |-> conn'[c]], \A c \in Conns : ConnForm(conn'[c])
    PROVE  CountInv'
  <1>1. Cardinality({}) = 0
    BY FS_EmptySet
  <1> QED
    BY <1>1 DEF CountInv, Forms, Fresh

LEMMA CountStep ==
    ASSUME CountInv, [Next]_vars
    PROVE  CountInv'
  <1>f. conn = [c \in Conns |-> conn[c]] /\ \A c \in Conns : ConnForm(conn[c])
    BY DEF CountInv, Forms
  <1>1. ASSUME UNCHANGED <<sess, conn>> PROVE CountInv'
    BY <1>1 DEF CountInv, Forms, ConnForm, Opened
  <1>2. CASE Stop \/ Resume
    <2>1. conn' = conn /\ \E st : sess' = Fresh(st)
      BY <1>2 DEF Stop, Resume
    <2> QED
      BY <1>f, <2>1, FreshCounts
  <1>3. CASE Crash
    <2>1. /\ \E st : sess' = Fresh(st)
          /\ conn' = [c \in Conns |-> IF conn[c].pc = "none" THEN conn[c] ELSE Ended(conn[c])]
      BY <1>3 DEF Crash
    <2>2. conn' = [c \in Conns |-> conn'[c]] /\ \A c \in Conns : ConnForm(conn'[c])
      BY <1>f, <2>1 DEF ConnForm, Ended
    <2> QED
      BY <2>1, <2>2, FreshCounts
  <1>4. CASE RunMicro
    <2>1. /\ sess' = sess
          /\ conn' = [c \in Conns |-> IF c \in micro[1].to
                        THEN Queue(conn[c], [seq |-> micro[1].seq, n |-> micro[1].n])
                        ELSE conn[c]]
      BY <1>4 DEF RunMicro
    <2>2. ASSUME NEW c \in Conns PROVE ConnForm(conn'[c]) /\ conn'[c].pc = conn[c].pc
      <3>1. conn'[c] = conn[c] \/ \E v : conn'[c] = [conn[c] EXCEPT !.batch = v]
        BY <2>1 DEF Queue
      <3>2. ConnForm(conn[c])
        BY <1>f
      <3>3. CASE conn'[c] = conn[c]
        BY <3>2, <3>3
      <3>4. ASSUME NEW v, conn'[c] = [conn[c] EXCEPT !.batch = v]
            PROVE  ConnForm(conn'[c]) /\ conn'[c].pc = conn[c].pc
        BY <3>2, <3>4 DEF ConnForm
      <3> QED
        BY <3>1, <3>3, <3>4
    <2>3. conn' = [c \in Conns |-> conn'[c]]
      BY <2>1
    <2> QED
      BY <2>1, <2>2, <2>3, QuietCounts
  <1>5. ASSUME NEW c \in Conns, Connect(c) PROVE CountInv'
    <2>1. /\ sess' = sess
          /\ \E n : conn' = [conn EXCEPT ![c].pc = "route", ![c].after = n]
          /\ conn[c].pc = "none"
      BY <1>5 DEF Connect
    <2>2. /\ conn' = [d \in Conns |-> conn'[d]]
          /\ \A d \in Conns : /\ ConnForm(conn'[d])
                              /\ conn[d].pc = "open" => conn'[d].pc = "open"
      BY <1>f, <2>1 DEF ConnForm
    <2> QED
      BY <2>1, <2>2, QuietCounts
  <1>6. ASSUME NEW c \in Conns, Wake(c) PROVE CountInv'
    <2>1. sess' = sess /\ conn' = [conn EXCEPT ![c].pc = "waking"] /\ conn[c].pc = "route"
      BY <1>6 DEF Wake
    <2>2. /\ conn' = [d \in Conns |-> conn'[d]]
          /\ \A d \in Conns : /\ ConnForm(conn'[d])
                              /\ conn[d].pc = "open" => conn'[d].pc = "open"
      BY <1>f, <2>1 DEF ConnForm
    <2> QED
      BY <2>1, <2>2, QuietCounts
  <1>7. ASSUME NEW c \in Conns, WakeFails(c) PROVE CountInv'
    <2>1. sess' = sess /\ conn' = [conn EXCEPT ![c] = Ended(@)] /\ conn[c].pc = "waking"
      BY <1>7 DEF WakeFails
    <2>2. /\ conn' = [d \in Conns |-> conn'[d]]
          /\ \A d \in Conns : /\ ConnForm(conn'[d])
                              /\ conn[d].pc = "open" => conn'[d].pc = "open"
      BY <1>f, <2>1 DEF ConnForm, Ended
    <2> QED
      BY <2>1, <2>2, QuietCounts
  <1>8. ASSUME NEW c \in Conns, FlushBatch(c) PROVE CountInv'
    <2>1. /\ sess' = sess
          /\ \E n : conn' = [conn EXCEPT ![c].batch = <<>>, ![c].sent = n]
      BY <1>8 DEF FlushBatch
    <2>2. /\ conn' = [d \in Conns |-> conn'[d]]
          /\ \A d \in Conns : ConnForm(conn'[d]) /\ conn'[d].pc = conn[d].pc
      <3>1. PICK n : conn' = [conn EXCEPT ![c].batch = <<>>, ![c].sent = n]
        BY <2>1
      <3>2. conn' = [d \in Conns |-> IF d = c THEN [conn[d] EXCEPT !.batch = <<>>, !.sent = n]
                                     ELSE conn[d]]
        BY <1>f, <3>1
      <3>3. ASSUME NEW d \in Conns PROVE ConnForm(conn'[d]) /\ conn'[d].pc = conn[d].pc
        <4>1. ConnForm(conn[d])
          BY <1>f
        <4>2. conn'[d] = conn[d] \/ conn'[d] = [conn[d] EXCEPT !.batch = <<>>, !.sent = n]
          BY <3>2
        <4> QED
          BY <4>1, <4>2 DEF ConnForm
      <3> QED
        BY <3>2, <3>3
    <2> QED
      BY <2>1, <2>2, QuietCounts
  <1>9. ASSUME \/ Output \/ ClientInput \/ Disconnect \/ AnimationFrame
               \/ (\E c \in Conns : Deliver(c)) \/ UNCHANGED vars
        PROVE  UNCHANGED <<sess, conn>>
    BY <1>9 DEF Output, ClientInput, Disconnect, AnimationFrame, Deliver, vars
  <1> QED
    BY <1>1, <1>2, <1>3, <1>4, <1>5, <1>6, <1>7, <1>8, <1>9,
       SubscribeCounts, CloseCounts, ExitCounts
    DEF Next

LEMMA CountInit == Init => CountInv
  <1>1. Cardinality({}) = 0
    BY FS_EmptySet
  <1> QED
    BY <1>1 DEF Init, CountInv, Forms, ConnForm, Fresh, NoConnection

\* The count of a session's subscribers never exceeds the connections that will
\* still take themselves off it, through stops, resumes, crashes and sockets that
\* close while a route waits: the sweep sees a session nobody watches.
THEOREM NoLastingSubscribers == Spec => []SubscribersLeave
  <1>1. Init => CountInv
    BY CountInit
  <1>2. CountInv /\ [Next]_vars => CountInv'
    BY CountStep
  <1>3. CountInv => SubscribersLeave
    <2>1. SUFFICES ASSUME CountInv PROVE SubscribersLeave
      OBVIOUS
    <2>2. /\ sess.exit \subseteq Opened /\ sess.subs \in Nat
          /\ sess.subs <= Cardinality(sess.exit)
      BY <2>1 DEF CountInv, Forms
    <2>3. IsFiniteSet(Opened)
      BY ConnsFinite DEF Opened
    <2>4. /\ Cardinality(sess.exit) <= Cardinality(Opened)
          /\ Cardinality(sess.exit) \in Nat /\ Cardinality(Opened) \in Nat
      BY <2>2, <2>3, FS_Subset, FS_CardinalityType
    <2> QED
      BY <2>2, <2>4 DEF SubscribersLeave, Opened
  <1> QED
    BY <1>1, <1>2, <1>3, PTL DEF Spec, SafeSpec

(***************************************************************************)
(* The transcript: how many frames there are.                              *)
(***************************************************************************)
KindAt(st, k) == {i \in 1..HeadSeq(st) : st.frames[i].kind = k}

\* The outputs in the transcript are numbered in its order, below nx.
OrderedBelow(st, nx) ==
    /\ \A i \in KindAt(st, "out") : st.frames[i].n \in 1..(nx - 1)
    /\ \A i, j \in KindAt(st, "out") : i < j => st.frames[i].n < st.frames[j].n

\* An exit takes a life of the session, and a keystroke is counted.
Lives == IF sess.status = "exited" THEN resumes + 1 ELSE resumes
Counted ==
    /\ Cardinality(KindAt(store, "in")) <= ins
    /\ Cardinality(KindAt(store, "exit")) <= Lives

StoreInv ==
    /\ WellFormed(store, MaxOut)
    /\ next \in 1..(MaxOut + 1) /\ ins \in 0..MaxIn /\ resumes \in 0..MaxResumes
    /\ OrderedBelow(store, next)
    /\ Counted

LEMMA Bounds ==
    /\ MaxConns \in Nat /\ MaxOut \in Nat /\ MaxListeners \in Nat /\ TailOuts \in Nat
    /\ MaxConns # 0 /\ MaxOut # 0 /\ MaxListeners # 0 /\ TailOuts # 0
    /\ MaxIn \in Nat /\ MaxResumes \in Nat /\ MaxReconnects \in Nat
  BY TerminalAssumption

LEMMA KindFinite ==
    ASSUME NEW st, WellFormed(st, MaxOut), NEW k
    PROVE  /\ HeadSeq(st) \in Nat /\ IsFiniteSet(1..HeadSeq(st))
           /\ Cardinality(1..HeadSeq(st)) = HeadSeq(st)
           /\ KindAt(st, k) \subseteq 1..HeadSeq(st)
           /\ IsFiniteSet(KindAt(st, k)) /\ Cardinality(KindAt(st, k)) \in Nat
  <1>1. HeadSeq(st) \in Nat
    <2>1. st.frames \in Seq(Frames(MaxOut))
      BY DEF WellFormed
    <2> QED
      BY <2>1, LenProperties DEF HeadSeq
  <1>2. /\ IsFiniteSet(1..HeadSeq(st)) /\ Cardinality(1..HeadSeq(st)) = HeadSeq(st)
    <2>1. 1 \in Int /\ HeadSeq(st) \in Int
      BY <1>1
    <2>2. /\ IsFiniteSet(1..HeadSeq(st))
          /\ Cardinality(1..HeadSeq(st)) = IF 1 > HeadSeq(st) THEN 0 ELSE HeadSeq(st) - 1 + 1
      BY <2>1, FS_Interval
    <2> QED
      BY <1>1, <2>2
  <1>3. KindAt(st, k) \in SUBSET (1..HeadSeq(st))
    BY DEF KindAt
  <1>4. IsFiniteSet(KindAt(st, k))
    BY <1>2, <1>3, FS_Subset
  <1> QED
    BY <1>1, <1>2, <1>3, <1>4, FS_CardinalityType

LEMMA FramesAre ==
    ASSUME NEW st, WellFormed(st, MaxOut), NEW i \in 1..HeadSeq(st)
    PROVE  /\ st.frames[i] \in Frames(MaxOut)
           /\ st.frames[i].n \in Nat /\ st.frames[i].kind \in Kinds
           /\ \A n : st.frames[i] = OutFrame(n)
                        <=> st.frames[i].kind = "out" /\ st.frames[i].n = n
  <1>1. st.frames[i] \in Frames(MaxOut)
    <2>1. st.frames \in Seq(Frames(MaxOut)) /\ i \in 1..Len(st.frames)
      BY DEF WellFormed, HeadSeq
    <2> QED
      BY <2>1, LenProperties
  <1>2. st.frames[i] = [kind |-> st.frames[i].kind, n |-> st.frames[i].n]
    BY <1>1 DEF Frames
  <1> QED
    BY <1>1, <1>2, Bounds DEF Frames, OutFrame

\* An appended frame adds its position to those of its kind.
LEMMA KindAppended ==
    ASSUME NEW st, WellFormed(st, MaxOut), NEW f \in Frames(MaxOut),
           NEW new, new = AppendFrame(st, f), NEW k
    PROVE  /\ f.kind = k => /\ KindAt(new, k) = KindAt(st, k) \cup {HeadSeq(st) + 1}
                            /\ Cardinality(KindAt(new, k)) = Cardinality(KindAt(st, k)) + 1
           /\ f.kind # k => KindAt(new, k) = KindAt(st, k)
  <1>1. /\ HeadSeq(st) \in Nat /\ HeadSeq(new) = HeadSeq(st) + 1
        /\ \A i \in 1..HeadSeq(st) : new.frames[i] = st.frames[i]
        /\ new.frames[HeadSeq(new)] = f
    BY Bounds, Appended
  <1>2. f.kind # k => KindAt(new, k) = KindAt(st, k)
    BY <1>1 DEF KindAt
  <1>3. ASSUME f.kind = k
        PROVE  /\ KindAt(new, k) = KindAt(st, k) \cup {HeadSeq(st) + 1}
               /\ Cardinality(KindAt(new, k)) = Cardinality(KindAt(st, k)) + 1
    <2>1. KindAt(new, k) = KindAt(st, k) \cup {HeadSeq(st) + 1}
      BY <1>1, <1>3 DEF KindAt
    <2>2. HeadSeq(st) + 1 \notin KindAt(st, k)
      BY <1>1 DEF KindAt
    <2>3. IsFiniteSet(KindAt(st, k))
      BY KindFinite
    <2> QED
      BY <2>1, <2>2, <2>3, FS_AddElement
  <1> QED
    BY <1>2, <1>3

\* No transcript outgrows the numbers a cursor may have.
LEMMA HeadBound ==
    ASSUME NEW st, WellFormed(st, MaxOut), NEW nx \in 1..(MaxOut + 1), OrderedBelow(st, nx),
           Cardinality(KindAt(st, "in")) <= MaxIn,
           Cardinality(KindAt(st, "exit")) <= MaxResumes + 1
    PROVE  HeadSeq(st) \in Nat /\ 0..HeadSeq(st) \subseteq Seqs
  <1> DEFINE O == KindAt(st, "out")
             I == KindAt(st, "in")
             X == KindAt(st, "exit")
  <1>1. /\ HeadSeq(st) \in Nat /\ Cardinality(1..HeadSeq(st)) = HeadSeq(st)
        /\ IsFiniteSet(O) /\ IsFiniteSet(I) /\ IsFiniteSet(X)
        /\ Cardinality(O) \in Nat /\ Cardinality(I) \in Nat /\ Cardinality(X) \in Nat
    BY KindFinite
  <1>2. Cardinality(O) <= MaxOut
    <2> DEFINE r == [i \in O |-> st.frames[i].n]
    <2>1. r \in Injection(O, 1..MaxOut)
      <3>1. r \in [O -> 1..MaxOut]
        BY Bounds DEF OrderedBelow
      <3>2. \A i \in O : i \in Nat /\ st.frames[i].n \in Nat
        BY <1>1 DEF OrderedBelow, KindAt
      <3>3. \A i, j \in O : r[i] = r[j] => i = j
        BY <3>2 DEF OrderedBelow
      <3> QED
        BY <3>1, <3>3 DEF Injection, IsInjective
    <2>2. IsFiniteSet(1..MaxOut) /\ Cardinality(1..MaxOut) = MaxOut
      <3>1. 1 \in Int /\ MaxOut \in Int
        BY Bounds
      <3>2. IsFiniteSet(1..MaxOut) /\ Cardinality(1..MaxOut) = IF 1 > MaxOut THEN 0 ELSE MaxOut - 1 + 1
        BY <3>1, FS_Interval
      <3> QED
        BY <3>2, Bounds
    <2> HIDE DEF r, O
    <2> QED
      BY <2>1, <2>2, FS_Injection
  <1>3. 1..HeadSeq(st) = O \cup I \cup X
    BY FramesAre DEF KindAt, Kinds
  <1> HIDE DEF O, I, X
  <1>4. /\ IsFiniteSet(O \cup I) /\ Cardinality(O \cup I) \in Nat
        /\ Cardinality(O \cup I) <= Cardinality(O) + Cardinality(I)
    <2>1. IsFiniteSet(O \cup I) /\ Cardinality(O \cup I)
             = Cardinality(O) + Cardinality(I) - Cardinality(O \cap I)
      BY <1>1, FS_Union
    <2>2. Cardinality(O \cap I) \in Nat /\ Cardinality(O \cup I) \in Nat
      BY <1>1, <2>1, FS_Subset, FS_CardinalityType
    <2> QED
      BY <1>1, <2>1, <2>2
  <1>5. HeadSeq(st) <= Cardinality(O \cup I) + Cardinality(X)
    <2>1. Cardinality((O \cup I) \cup X)
             = Cardinality(O \cup I) + Cardinality(X) - Cardinality((O \cup I) \cap X)
      BY <1>1, <1>4, FS_Union
    <2>2. Cardinality((O \cup I) \cap X) \in Nat
      BY <1>4, FS_Subset, FS_CardinalityType
    <2>3. HeadSeq(st) = Cardinality((O \cup I) \cup X)
      BY <1>1, <1>3
    <2> HIDE DEF O, I, X
    <2> QED
      BY <1>1, <1>4, <2>1, <2>2, <2>3
  <1>6. HeadSeq(st) <= MaxOut + MaxIn + MaxResumes + 1
    BY <1>1, <1>2, <1>4, <1>5, Bounds DEF I, X
  <1> QED
    BY <1>1, <1>6, Bounds DEF Seqs

LEMMA LivesIs == /\ resumes \in Nat => Lives \in Nat
                 /\ resumes' \in Nat => Lives' \in Nat
  BY DEF Lives

\* What the actions do to the transcript, and to what counts its frames.
LEMMA StoreKept ==
    ASSUME StoreInv, UNCHANGED <<store, next, ins>>, resumes' \in 0..MaxResumes,
           Lives <= Lives'
    PROVE  StoreInv'
  <1>1. /\ Cardinality(KindAt(store, "exit")) \in Nat
    BY KindFinite DEF StoreInv
  <1>2. Lives \in Nat /\ Lives' \in Nat
    <2>1. resumes \in Nat /\ resumes' \in Nat
      BY Bounds DEF StoreInv
    <2> QED
      BY <2>1, LivesIs
  <1>3. Counted'
    <2>1. Counted /\ store' = store /\ ins' = ins
      BY DEF StoreInv
    <2> HIDE DEF Lives
    <2> QED
      BY <1>1, <1>2, <2>1 DEF Counted
  <1>4. store' = store /\ next' = next /\ ins' = ins
    OBVIOUS
  <1> QED
    BY <1>3, <1>4 DEF StoreInv

LEMMA OutputStored ==
    ASSUME StoreInv, Output
    PROVE  StoreInv'
  <1>t. /\ WellFormed(store, MaxOut) /\ OrderedBelow(store, next) /\ Counted
        /\ next \in 1..MaxOut /\ MaxOut \in Nat
    BY Bounds DEF Output, StoreInv
  <1> DEFINE f == OutFrame(next)
  <1>1. f \in Frames(MaxOut) /\ f.kind = "out" /\ f.n = next
    BY <1>t DEF OutFrame, Frames, Kinds
  <1>2. store' = AppendFrame(store, f) /\ next' = next + 1
        /\ UNCHANGED <<ins, sess, resumes>>
    BY DEF Output
  <1> HIDE DEF f
  <1>3. /\ WellFormed(store', MaxOut)
        /\ HeadSeq(store) \in Nat
        /\ \A i \in 1..HeadSeq(store) : store'.frames[i] = store.frames[i]
        /\ store'.frames[HeadSeq(store) + 1] = f
    BY <1>t, <1>1, <1>2, Appended
  <1>4. /\ KindAt(store', "out") = KindAt(store, "out") \cup {HeadSeq(store) + 1}
        /\ KindAt(store', "in") = KindAt(store, "in")
        /\ KindAt(store', "exit") = KindAt(store, "exit")
    BY <1>t, <1>1, <1>2, KindAppended
  <1>5. \A i \in KindAt(store, "out") :
           /\ i \in 1..HeadSeq(store) /\ store'.frames[i] = store.frames[i]
           /\ store.frames[i].n \in 1..(next - 1)
    BY <1>t, <1>3 DEF OrderedBelow, KindAt
  <1>6. OrderedBelow(store', next')
    <2>1. ASSUME NEW i \in KindAt(store', "out") PROVE store'.frames[i].n \in 1..(next' - 1)
      BY <1>t, <1>1, <1>2, <1>3, <1>4, <1>5
    <2>2. ASSUME NEW i \in KindAt(store', "out"), NEW j \in KindAt(store', "out"), i < j
          PROVE  store'.frames[i].n < store'.frames[j].n
      <3>1. i \in KindAt(store, "out")
        BY <1>3, <1>4, <1>5, <2>2
      <3>2. CASE j = HeadSeq(store) + 1
        <4>1. store'.frames[j].n = next
          BY <1>1, <1>3, <3>2
        <4>2. store'.frames[i].n \in 1..(next - 1)
          BY <1>5, <3>1
        <4> QED
          BY <1>t, <4>1, <4>2
      <3>3. CASE j \in KindAt(store, "out")
        BY <1>t, <1>5, <2>2, <3>1, <3>3 DEF OrderedBelow
      <3> QED
        BY <1>4, <3>2, <3>3
    <2> QED
      BY <2>1, <2>2 DEF OrderedBelow
  <1>7. Counted'
    BY <1>t, <1>2, <1>4 DEF Counted, Lives
  <1> QED
    BY <1>t, <1>2, <1>3, <1>6, <1>7 DEF StoreInv

\* A frame that is no output.
LEMMA OtherStored ==
    ASSUME StoreInv, NEW f \in {InFrame, ExitFrame}, store' = AppendFrame(store, f),
           next' = next, ins' \in 0..MaxIn, resumes' \in 0..MaxResumes,
           f = InFrame  => ins' = ins + 1 /\ Lives' = Lives,
           f = ExitFrame => ins' = ins /\ Lives' = Lives + 1
    PROVE  StoreInv'
  <1>t. /\ WellFormed(store, MaxOut) /\ OrderedBelow(store, next) /\ Counted
        /\ MaxOut \in Nat /\ ins \in Nat /\ Lives \in Nat
    BY Bounds DEF StoreInv, Lives
  <1>1. /\ f \in Frames(MaxOut) /\ f.kind # "out"
        /\ f = InFrame => f.kind = "in"
        /\ f = ExitFrame => f.kind = "exit"
    BY <1>t DEF InFrame, ExitFrame, Frames, Kinds
  <1>2. /\ WellFormed(store', MaxOut)
        /\ \A i \in 1..HeadSeq(store) : store'.frames[i] = store.frames[i]
    BY <1>t, <1>1, Appended
  <1>3. KindAt(store', "out") = KindAt(store, "out")
    BY <1>t, <1>1, KindAppended
  <1>4. \A i \in KindAt(store, "out") : store'.frames[i] = store.frames[i]
    BY <1>2 DEF KindAt
  <1>5. OrderedBelow(store', next')
    BY <1>t, <1>3, <1>4 DEF OrderedBelow
  <1>6. /\ Cardinality(KindAt(store, "in")) \in Nat /\ Cardinality(KindAt(store, "exit")) \in Nat
    BY <1>t, KindFinite
  <1>7. Counted'
    <2>1. CASE f = InFrame
      <3>1. /\ Cardinality(KindAt(store', "in")) = Cardinality(KindAt(store, "in")) + 1
            /\ KindAt(store', "exit") = KindAt(store, "exit")
        BY <1>t, <1>1, <2>1, KindAppended
      <3> QED
        BY <1>t, <1>6, <2>1, <3>1 DEF Counted
    <2>2. CASE f = ExitFrame
      <3>1. /\ Cardinality(KindAt(store', "exit")) = Cardinality(KindAt(store, "exit")) + 1
            /\ KindAt(store', "in") = KindAt(store, "in")
        BY <1>t, <1>1, <2>2, KindAppended
      <3> QED
        BY <1>t, <1>6, <2>2, <3>1 DEF Counted
    <2> QED
      BY <2>1, <2>2
  <1> QED
    BY <1>2, <1>5, <1>7 DEF StoreInv

\* A crash leaves a prefix; a stream that is attached again goes on after it.
LEMMA CrashStored ==
    ASSUME StoreInv, Crash
    PROVE  StoreInv'
  <1>t. /\ WellFormed(store, MaxOut) /\ OrderedBelow(store, next) /\ Counted
        /\ MaxOut \in Nat /\ next \in 1..(MaxOut + 1) /\ resumes \in 0..MaxResumes
    BY Bounds DEF StoreInv
  <1>1. PICK k \in Len(store.disk)..HeadSeq(store) : store' = Reloaded(FlushedTo(store, k))
    BY DEF Crash
  <1>2. /\ WellFormed(store', MaxOut)
        /\ HeadSeq(store) \in Nat /\ HeadSeq(store') = k /\ k \in 0..HeadSeq(store)
        /\ \A i \in 1..k : store'.frames[i] = store.frames[i]
    BY <1>t, <1>1, Cut
  <1>3. ASSUME NEW d PROVE /\ KindAt(store', d) \subseteq KindAt(store, d)
                           /\ Cardinality(KindAt(store', d)) \in Nat
                           /\ Cardinality(KindAt(store, d)) \in Nat
                           /\ Cardinality(KindAt(store', d)) <= Cardinality(KindAt(store, d))
    <2>1. KindAt(store', d) \in SUBSET KindAt(store, d)
      BY <1>2 DEF KindAt
    <2>2. /\ IsFiniteSet(KindAt(store, d)) /\ Cardinality(KindAt(store, d)) \in Nat
          /\ Cardinality(KindAt(store', d)) \in Nat
      BY <1>t, <1>2, KindFinite
    <2> QED
      BY <2>1, <2>2, FS_Subset
  <1>4. \A i \in KindAt(store', "out") : store'.frames[i] = store.frames[i]
    BY <1>2 DEF KindAt
  <1>5. resumes' \in 0..MaxResumes /\ resumes' = resumes + 1 /\ ins' = ins
    BY <1>t, Bounds DEF Crash
  <1>6. \/ next' = next
        \/ next' = ReattachCursor(store') + 1
    BY DEF Crash
  <1>7. next' \in 1..(MaxOut + 1) /\ OrderedBelow(store', next')
    <2>1. CASE next' = next
      BY <1>t, <1>3, <1>4, <2>1 DEF OrderedBelow
    <2>2. CASE next' = ReattachCursor(store') + 1
      <3> DEFINE c == ReattachCursor(store')
      <3>1. /\ c \in 0..MaxOut
            /\ \A i \in 1..HeadSeq(store') : store'.frames[i].n <= c
        BY <1>t, <1>2, CursorIs
      <3> HIDE DEF c
      <3>2. \A i \in KindAt(store', "out") :
               i \in 1..HeadSeq(store') /\ store'.frames[i].n \in 1..(next - 1)
        BY <1>t, <1>3, <1>4 DEF OrderedBelow, KindAt
      <3>3. \A i \in KindAt(store', "out") : store'.frames[i].n \in 1..(next' - 1)
        BY <1>t, <2>2, <3>1, <3>2 DEF c
      <3>4. next' \in 1..(MaxOut + 1)
        BY <1>t, <2>2, <3>1 DEF c
      <3> QED
        BY <1>t, <1>3, <1>4, <3>3, <3>4 DEF OrderedBelow
    <2> QED
      BY <1>6, <2>1, <2>2
  <1>8. Counted'
    <2>1. Lives <= resumes' /\ resumes' <= Lives' /\ Lives \in Nat /\ Lives' \in Nat
      BY <1>t, <1>5 DEF Lives
    <2> QED
      BY <1>t, <1>3, <1>5, <2>1 DEF Counted, StoreInv
  <1> QED
    BY <1>2, <1>5, <1>7, <1>8 DEF StoreInv

\* The status of a session when nothing but its subscribers changes.
LEMMA StatusKept ==
    ASSUME CountInv, NEW c \in Conns, Subscribe(c) \/ CloseSeen(c)
    PROVE  sess'.status = sess.status
  <1>1. CASE Subscribe(c)
    BY <1>1 DEF Subscribe, CountInv, Forms
  <1>2. CASE CloseSeen(c)
    BY <1>2 DEF CloseSeen, CleanedUp, Without, CountInv, Forms
  <1> QED
    BY <1>1, <1>2

LEMMA StoreStep ==
    ASSUME CountInv, StoreInv, [Next]_vars
    PROVE  StoreInv'
  <1>t. /\ resumes \in 0..MaxResumes /\ ins \in 0..MaxIn /\ Lives \in Nat
        /\ MaxResumes \in Nat /\ MaxIn \in Nat
    BY Bounds DEF StoreInv, Lives
  <1>1. CASE Stop \/ Resume
    <2>1. UNCHANGED <<store, next, ins>> /\ resumes' \in 0..MaxResumes
      BY <1>1, <1>t DEF Stop, Resume
    <2>2. Lives <= Lives'
      BY <1>1, <1>t DEF Stop, Resume, Lives, Fresh, IsAlive
    <2> QED
      BY <2>1, <2>2, StoreKept
  <1>2. CASE AgentExit
    <2>1. /\ sess.status = "running" /\ sess'.status = "exited"
          /\ store' = AppendFrame(store, ExitFrame) /\ UNCHANGED <<next, ins, resumes>>
      BY <1>2 DEF AgentExit, IsAlive, CountInv, Forms, Without
    <2>2. Lives' = Lives + 1
      BY <1>t, <2>1 DEF Lives
    <2>3. InFrame # ExitFrame
      BY DEF InFrame, ExitFrame
    <2> QED
      BY <1>t, <2>1, <2>2, <2>3, OtherStored
  <1>3. CASE ClientInput
    <2>1. /\ store' = AppendFrame(store, InFrame) /\ UNCHANGED <<next, resumes>>
          /\ ins' = ins + 1 /\ ins' \in 0..MaxIn /\ Lives' = Lives
      BY <1>3, <1>t DEF ClientInput, Lives
    <2>2. InFrame # ExitFrame
      BY DEF InFrame, ExitFrame
    <2> QED
      BY <1>t, <2>1, <2>2, OtherStored
  <1>4. ASSUME \/ RunMicro \/ Disconnect \/ AnimationFrame \/ UNCHANGED vars
               \/ \E c \in Conns : \/ Connect(c) \/ Subscribe(c) \/ Wake(c) \/ WakeFails(c)
                                   \/ CloseSeen(c) \/ FlushBatch(c) \/ Deliver(c)
        PROVE  StoreInv'
    <2>1. UNCHANGED <<store, next, ins, resumes>>
      BY <1>4 DEF RunMicro, Disconnect, AnimationFrame, vars, Connect, Subscribe, Wake,
                  WakeFails, CloseSeen, FlushBatch, Deliver
    <2>2. sess'.status = sess.status
      <3>1. (\E c \in Conns : Subscribe(c) \/ CloseSeen(c)) \/ sess' = sess
        BY <1>4 DEF RunMicro, Disconnect, AnimationFrame, vars, Connect, Wake,
                    WakeFails, FlushBatch, Deliver
      <3> QED
        BY <3>1, StatusKept
    <2>3. Lives' = Lives
      BY <2>1, <2>2 DEF Lives
    <2> QED
      BY <1>t, <2>1, <2>3, StoreKept
  <1> QED
    BY <1>1, <1>2, <1>3, <1>4, OutputStored, CrashStored DEF Next
(***************************************************************************)
(* The types of what travels from the transcript to the screen.            *)
(***************************************************************************)
Item      == [seq : Seqs, n : Nat]
MicroItem == [to : SUBSET Conns, seq : Seqs, n : Nat]
Message   == [type : {"output", "history", "exit", "ready", "error"}, outs : Seq(Nat), seq : Seqs]
SessType  == [status : {"running", "idle", "exited"}, subs : Nat, out : SUBSET Conns,
              exit : SUBSET Conns]
ConnType  == [pc : {"none", "route", "waking", "open", "ended"}, closed : BOOLEAN,
              after : Seqs, sent : Seqs, batch : Seq(Item)]
TabType   == [st : {"retry", "live", "over", "failed"}, conn : Conns \cup {NoConn},
              first : BOOLEAN, attempts : Nat, cursor : Seqs,
              raf : Conns \cup {NoConn}, screen : Seq(Nat),
              again : SUBSET Nat,
              buf : [Conns -> Seq(Nat)], seq : [Conns -> Seqs],
              old : [Conns -> SUBSET Nat]]

SessOK  == sess \in SessType /\ sess.out \subseteq sess.exit
           /\ Cardinality(sess.out) <= MaxListeners
MicroOK == micro \in Seq(MicroItem)
ConnOK  == conn \in [Conns -> ConnType]
WireOK  == wire \in [Conns -> Seq(Message)]
TabOK   == tab \in TabType
TypeInv == SessOK /\ MicroOK /\ ConnOK /\ WireOK /\ TabOK

LEMMA SeqsHold ==
    ASSUME StoreInv
    PROVE  HeadSeq(store) \in Nat /\ 0..HeadSeq(store) \subseteq Seqs
  <1>1. /\ WellFormed(store, MaxOut) /\ OrderedBelow(store, next)
        /\ next \in 1..(MaxOut + 1) /\ ins \in 0..MaxIn /\ resumes \in 0..MaxResumes
    BY DEF StoreInv
  <1>2. /\ Cardinality(KindAt(store, "in")) \in Nat
        /\ Cardinality(KindAt(store, "exit")) \in Nat
    BY <1>1, KindFinite
  <1>3. Cardinality(KindAt(store, "in")) <= MaxIn
    <2>1. Cardinality(KindAt(store, "in")) <= ins
      BY DEF StoreInv, Counted
    <2> QED
      BY <1>1, <1>2, <2>1, Bounds
  <1>4. Cardinality(KindAt(store, "exit")) <= MaxResumes + 1
    <2>1. Cardinality(KindAt(store, "exit")) <= Lives
      BY DEF StoreInv, Counted
    <2>2. Lives \in Nat /\ Lives <= MaxResumes + 1
      BY <1>1, Bounds DEF Lives
    <2> HIDE DEF Lives
    <2> QED
      BY <1>2, <2>1, <2>2, Bounds
  <1> QED
    BY <1>1, <1>3, <1>4, HeadBound

Numbered == HeadSeq(store) \in Nat /\ 0..HeadSeq(store) \subseteq Seqs
LEMMA SeqsHoldNext == StoreInv' => Numbered'
  <1>1. StoreInv => Numbered
    BY SeqsHold DEF Numbered
  <1> QED
    BY <1>1, PTL

\* The last output among some frames.
LEMMA LastOutIs ==
    ASSUME NEW st, WellFormed(st, MaxOut), NEW ns, ns \subseteq 1..HeadSeq(st)
    PROVE  /\ LastOut(st, ns) \in 0..HeadSeq(st)
           /\ OutsAt(st, ns) # {} => LastOut(st, ns) \in OutsAt(st, ns)
           /\ \A i \in OutsAt(st, ns) : i <= LastOut(st, ns)
  <1>1. HeadSeq(st) \in Nat /\ OutsAt(st, ns) \subseteq 1..HeadSeq(st)
    BY KindFinite DEF OutsAt
  <1> DEFINE S == {0} \cup OutsAt(st, ns)
  <1>2. S \subseteq Nat /\ S # {} /\ \A x \in S : x \in Nat /\ x <= HeadSeq(st)
    BY <1>1
  <1>3. Max(S) \in S /\ \A x \in S : x <= Max(S)
    <2> HIDE DEF S
    <2> QED
      BY <1>1, <1>2, MaxIs
  <1>4. LastOut(st, ns) = Max(S)
    BY DEF LastOut
  <1>5. OutsAt(st, ns) # {} => Max(S) # 0
    <2>1. \A i \in OutsAt(st, ns) : i \in Nat /\ i # 0
      BY <1>1
    <2>2. 0 \in Nat /\ Max(S) \in Nat /\ \A i \in OutsAt(st, ns) : i <= Max(S)
      BY <1>2, <1>3
    <2> HIDE DEF S
    <2> QED
      BY <2>1, <2>2
  <1> HIDE DEF S
  <1>6. Max(S) \in 0..HeadSeq(st)
    <2>1. Max(S) \in Nat /\ Max(S) <= HeadSeq(st)
      BY <1>2, <1>3
    <2> QED
      BY <1>1, <2>1
  <1> QED
    BY <1>1, <1>3, <1>4, <1>5, <1>6 DEF S

LEMMA OutsTyped ==
    ASSUME NEW st, WellFormed(st, MaxOut), NEW ns, ns \subseteq 1..HeadSeq(st)
    PROVE  OutsOf(st, ns) \in Seq(Nat)
  <1>1. OutsOf(st, ns) \in Seq(0..MaxOut)
    BY Bounds, OutsIs
  <1>2. 0..MaxOut \subseteq Nat
    BY Bounds
  <1> QED
    BY <1>1, <1>2, SeqMonotonic

LEMMA FlushedTyped ==
    ASSUME NEW st, WellFormed(st, MaxOut), NEW ns, ns \subseteq 1..HeadSeq(st),
           0..HeadSeq(st) \subseteq Seqs
    PROVE  Flushed(st, ns) \in Seq(Message)
  <1>1. OutputMsg(OutsOf(st, ns), LastOut(st, ns)) \in Message
    BY OutsTyped, LastOutIs DEF OutputMsg, Message
  <1> QED
    BY <1>1 DEF Flushed

LEMMA SmallMessages ==
    /\ 0 \in Seqs
    /\ \A s \in Seqs : ExitMsg(s) \in Message
    /\ \A t \in {"ready", "error"} : Msg(t) \in Message
  <1>1. 0 \in Seqs
    BY Bounds DEF Seqs
  <1>2. <<>> \in Seq(Nat)
    OBVIOUS
  <1> QED
    BY <1>1, <1>2 DEF ExitMsg, Msg, Message

LEMMA SendTyped ==
    ASSUME WireOK, NEW c, NEW ms \in Seq(Message)
    PROVE  /\ Send(wire, c, ms) \in [Conns -> Seq(Message)]
           /\ \A d \in Conns : d # c => Send(wire, c, ms)[d] = wire[d]
           /\ c \in Conns => Send(wire, c, ms)[c] =
                 IF conn[c].closed \/ tab.conn # c THEN wire[c] ELSE wire[c] \o ms
  <1>1. CASE conn[c].closed \/ tab.conn # c
    BY <1>1 DEF WireOK, Send
  <1>2. CASE ~(conn[c].closed \/ tab.conn # c)
    <2>1. Send(wire, c, ms) = [wire EXCEPT ![c] = wire[c] \o ms]
      BY <1>2 DEF Send
    <2>2. c \in Conns => wire[c] \o ms \in Seq(Message)
      BY DEF WireOK
    <2>3. \/ c \in Conns /\ Send(wire, c, ms) \in [Conns -> Seq(Message)]
          \/ c \notin Conns /\ Send(wire, c, ms) = wire
      BY <2>1, <2>2 DEF WireOK
    <2> QED
      BY <1>2, <2>1, <2>3 DEF WireOK
  <1> QED
    BY <1>1, <1>2

LEMMA WithoutTyped ==
    ASSUME NEW s \in SessType, s.out \subseteq s.exit, Cardinality(s.out) <= MaxListeners,
           NEW cs, IsFiniteSet(cs), NEW t, t = Without(s, cs)
    PROVE  /\ t \in SessType /\ t.out = s.out \ cs /\ t.exit = s.exit \ cs
           /\ t.status = s.status /\ t.out \subseteq t.exit
           /\ Cardinality(t.out) <= MaxListeners
  <1>1. Cardinality(cs) \in Nat
    BY FS_CardinalityType
  <1>2. t = [status |-> s.status,
             subs |-> IF s.subs < Cardinality(cs) THEN 0 ELSE s.subs - Cardinality(cs),
             out |-> s.out \ cs, exit |-> s.exit \ cs]
    BY DEF Without, SessType
  <1>3. (IF s.subs < Cardinality(cs) THEN 0 ELSE s.subs - Cardinality(cs)) \in Nat
    BY <1>1 DEF SessType
  <1>4. t \in SessType
    BY <1>2, <1>3 DEF SessType
  <1>5. Cardinality(s.out \ cs) <= MaxListeners
    <2>1. IsFiniteSet(s.out)
      BY ConnsFinite DEF SessType
    <2>2. s.out \ cs \in SUBSET s.out
      OBVIOUS
    <2>3. /\ Cardinality(s.out \ cs) <= Cardinality(s.out) /\ IsFiniteSet(s.out \ cs)
      BY <2>1, <2>2, FS_Subset
    <2>4. Cardinality(s.out) \in Nat /\ Cardinality(s.out \ cs) \in Nat
      BY <2>1, <2>3, FS_CardinalityType
    <2> QED
      BY <2>3, <2>4, Bounds
  <1> QED
    BY <1>2, <1>4, <1>5

LEMMA FreshTyped ==
    ASSUME NEW st \in {"running", "idle"}, sess' = Fresh(st)
    PROVE  SessOK'
  <1>1. Cardinality({}) = 0
    BY FS_EmptySet
  <1>2. sess' = [status |-> st, subs |-> 0, out |-> {}, exit |-> {}]
    BY DEF Fresh
  <1>3. sess' \in SessType
    BY <1>2 DEF SessType
  <1> QED
    BY <1>1, <1>2, <1>3, Bounds DEF SessOK

LEMMA EndedTyped ==
    ASSUME NEW k \in ConnType
    PROVE  /\ Ended(k) \in ConnType /\ Ended(k).pc = "ended" /\ Ended(k).closed
           /\ Ended(k).after = k.after
  <1>1. <<>> \in Seq(Item)
    OBVIOUS
  <1>2. /\ Ended(k).pc = "ended" /\ Ended(k).closed = TRUE
        /\ Ended(k).after = k.after
    BY DEF Ended, ConnType
  <1>3. Ended(k) \in ConnType
    BY <1>1 DEF Ended, ConnType
  <1> QED
    BY <1>2, <1>3

LEMMA WrittenTyped ==
    ASSUME NEW t \in TabType, NEW c \in Conns
    PROVE  /\ Written(t, c) \in TabType
           /\ Written(t, c).cursor = IF t.seq[c] > 0 THEN t.seq[c] ELSE t.cursor
           /\ Written(t, c).screen = t.screen \o t.buf[c]
           /\ Written(t, c).buf = [t.buf EXCEPT ![c] = <<>>]
           /\ Written(t, c).seq = [t.seq EXCEPT ![c] = 0]
           /\ Written(t, c).again = t.again \cup t.old[c]
           /\ Written(t, c).old = [t.old EXCEPT ![c] = {}]
           /\ Written(t, c).conn = t.conn /\ Written(t, c).raf = t.raf
           /\ Written(t, c).st = t.st /\ Written(t, c).first = t.first
           /\ Written(t, c).attempts = t.attempts
  <1>1. /\ t.screen \in Seq(Nat) /\ t.buf \in [Conns -> Seq(Nat)] /\ t.seq \in [Conns -> Seqs]
        /\ t.cursor \in Seqs /\ <<>> \in Seq(Nat) /\ 0 \in Seqs
        /\ t.again \in SUBSET Nat /\ t.old \in [Conns -> SUBSET Nat]
    BY SmallMessages DEF TabType
  <1> DEFINE w == Written(t, c)
  <1>2. /\ w.cursor = IF t.seq[c] > 0 THEN t.seq[c] ELSE t.cursor
        /\ w.screen = t.screen \o t.buf[c]
        /\ w.buf = [t.buf EXCEPT ![c] = <<>>] /\ w.seq = [t.seq EXCEPT ![c] = 0]
        /\ w.again = t.again \cup t.old[c] /\ w.old = [t.old EXCEPT ![c] = {}]
    BY DEF Written, TabType
  <1>3. /\ w.conn = t.conn /\ w.raf = t.raf /\ w.st = t.st /\ w.first = t.first
        /\ w.attempts = t.attempts
    BY DEF Written, TabType
  <1>4. /\ t.screen \o t.buf[c] \in Seq(Nat)
        /\ [t.buf EXCEPT ![c] = <<>>] \in [Conns -> Seq(Nat)]
        /\ [t.seq EXCEPT ![c] = 0] \in [Conns -> Seqs]
        /\ (IF t.seq[c] > 0 THEN t.seq[c] ELSE t.cursor) \in Seqs
        /\ t.again \cup t.old[c] \in SUBSET Nat
        /\ [t.old EXCEPT ![c] = {}] \in [Conns -> SUBSET Nat]
    BY <1>1
  <1>5. w \in TabType
    BY <1>1, <1>4 DEF Written, TabType
  <1> QED
    BY <1>2, <1>3, <1>5

\* onmessage, as a relation between the tab before and after.
LEMMA OnMessageIs ==
    ASSUME NEW t \in TabType, NEW c \in Conns, NEW m \in Message,
           NEW u, u = OnMessage(t, c, m)
    PROVE  /\ m.type = "ready"  => u = [t EXCEPT !.attempts = 0]
           /\ m.type = "output" => u = Buffered(t, c, m)
           /\ m.type = "history" => u = Rebuffered(t, c, m)
           /\ m.type = "exit"   => u = Over(t, c)
           /\ m.type = "error"  => u = Retry([Written(t, c) EXCEPT !.raf = NoConn])
           /\ m.type \in {"ready", "output", "history", "exit", "error"}
  BY DEF OnMessage, Message
LEMMA SessStep ==
    ASSUME TypeInv, [Next]_vars
    PROVE  SessOK'
  <1>t. /\ sess \in SessType /\ sess.out \subseteq sess.exit
        /\ Cardinality(sess.out) <= MaxListeners
    BY DEF TypeInv, SessOK
  <1>f. IsFiniteSet(sess.out) /\ Cardinality(sess.out) \in Nat
    BY <1>t, ConnsFinite, FS_CardinalityType DEF SessType
  <1>1. CASE AgentExit
    <2> DEFINE t == Without(sess, sess.exit)
    <2>1. sess' = [t EXCEPT !.status = "exited", !.out = {}]
      BY <1>1 DEF AgentExit
    <2>2. IsFiniteSet(sess.exit)
      BY <1>t, ConnsFinite DEF SessType
    <2>3. t \in SessType
      BY <1>t, <2>2, WithoutTyped
    <2> HIDE DEF t
    <2>4. sess' \in SessType /\ sess'.out = {}
      BY <2>1, <2>3 DEF SessType
    <2>5. Cardinality({}) = 0
      BY FS_EmptySet
    <2> QED
      BY <2>4, <2>5, Bounds DEF SessOK
  <1>2. ASSUME NEW c \in Conns, Subscribe(c) PROVE SessOK'
    <2>1. sess' = [sess EXCEPT !.subs = sess.subs + 1, !.exit = sess.exit \cup {c},
                              !.out = Listening(sess.out, c)]
      BY <1>2 DEF Subscribe
    <2>2. /\ Listening(sess.out, c) \subseteq sess.out \cup {c}
          /\ Cardinality(Listening(sess.out, c)) <= MaxListeners
      <3>1. CASE Cardinality(sess.out) >= MaxListeners
        BY <1>t, <3>1 DEF Listening
      <3>2. CASE ~(Cardinality(sess.out) >= MaxListeners)
        <4>1. /\ Cardinality(sess.out \cup {c}) = IF c \in sess.out THEN Cardinality(sess.out)
                                                ELSE Cardinality(sess.out) + 1
          BY <1>f, FS_AddElement
        <4>2. Listening(sess.out, c) = sess.out \cup {c}
          BY <3>2 DEF Listening
        <4> QED
          BY <1>f, <3>2, <4>1, <4>2, Bounds
      <3> QED
        BY <3>1, <3>2
    <2> DEFINE ls == Listening(sess.out, c)
    <2> HIDE DEF ls
    <2>3. /\ ls \subseteq sess.out \cup {c} /\ Cardinality(ls) <= MaxListeners
          /\ sess' = [sess EXCEPT !.subs = sess.subs + 1, !.exit = sess.exit \cup {c}, !.out = ls]
      BY <2>1, <2>2 DEF ls
    <2>4. /\ sess'.out = ls /\ sess'.exit = sess.exit \cup {c}
      BY <1>t, <2>3 DEF SessType
    <2>5. ls \in SUBSET Conns /\ sess.exit \cup {c} \in SUBSET Conns /\ sess.subs + 1 \in Nat
      BY <1>t, <2>3 DEF SessType
    <2>6. sess' \in SessType
      BY <1>t, <2>3, <2>5 DEF SessType
    <2> QED
      BY <1>t, <2>3, <2>4, <2>6 DEF SessOK
  <1>3. ASSUME NEW c \in Conns, CloseSeen(c) PROVE SessOK'
    <2>1. sess' = sess \/ sess' = Without(sess, {c})
      BY <1>3 DEF CloseSeen, CleanedUp
    <2>2. IsFiniteSet({c})
      BY FS_Singleton
    <2>3. CASE sess' = sess
      BY <1>t, <2>3 DEF SessOK
    <2>4. CASE sess' = Without(sess, {c})
      BY <1>t, <2>2, <2>4, WithoutTyped DEF SessOK
    <2> QED
      BY <2>1, <2>3, <2>4
  <1>4. CASE Stop \/ Resume \/ Crash
    BY <1>4, FreshTyped DEF Stop, Resume, Crash
  <1>5. CASE UNCHANGED sess
    BY <1>t, <1>5 DEF SessOK
  <1> QED
    BY <1>1, <1>2, <1>3, <1>4, <1>5
    DEF Next, vars, Output, RunMicro, ClientInput, Disconnect, AnimationFrame, Connect, Wake,
        WakeFails, FlushBatch, Deliver

LEMMA MicroStep ==
    ASSUME StoreInv, StoreInv', TypeInv, [Next]_vars
    PROVE  MicroOK'
  <1>t. micro \in Seq(MicroItem) /\ sess.out \in SUBSET Conns
    BY DEF TypeInv, MicroOK, SessOK, SessType
  <1>1. CASE Output
    <2>1. HeadSeq(store) + 1 \in Seqs
      <3>1. store' = AppendFrame(store, OutFrame(next)) /\ OutFrame(next) \in Frames(MaxOut)
        BY <1>1, Bounds DEF Output, OutFrame, Frames, Kinds, StoreInv
      <3>2. HeadSeq(store') = HeadSeq(store) + 1
        BY <3>1, Bounds, Appended DEF StoreInv
      <3>3. HeadSeq(store') \in Nat /\ 0..HeadSeq(store') \subseteq Seqs
        BY SeqsHoldNext DEF Numbered
      <3> QED
        BY <3>2, <3>3
    <2>2. next \in Nat
      BY DEF StoreInv
    <2>3. [to |-> sess.out, seq |-> HeadSeq(store) + 1, n |-> next] \in MicroItem
      BY <1>t, <2>1, <2>2 DEF MicroItem
    <2> QED
      BY <1>1, <1>t, <2>3 DEF Output, MicroOK
  <1>2. CASE RunMicro
    BY <1>2, <1>t DEF RunMicro, MicroOK
  <1>3. CASE UNCHANGED micro
    BY <1>t, <1>3 DEF MicroOK
  <1> QED
    BY <1>1, <1>2, <1>3
    DEF Next, vars, AgentExit, Stop, Resume, Crash, ClientInput, Disconnect, AnimationFrame,
        Connect, Subscribe, Wake, WakeFails, CloseSeen, FlushBatch, Deliver

LEMMA ReplayedIs ==
    ASSUME StoreInv, NEW k \in ConnType
    PROVE  Replayed(k) \subseteq 1..HeadSeq(store)
  <1>1. HeadSeq(store) \in Nat /\ k.after \in Nat
    BY SeqsHold, Bounds DEF ConnType, Seqs
  <1>2. ReadTail(store, TailOuts) \subseteq 1..HeadSeq(store)
    BY DEF ReadTail
  <1>3. ReadFrom(store, k.after) \subseteq 1..HeadSeq(store)
    BY <1>1 DEF ReadFrom
  <1> QED
    BY <1>2, <1>3 DEF Replayed

\* What replayTranscript sends is the frames, or, if there are none, a history of
\* some outputs of the transcript.
LEMMA HistoriesAre ==
    ASSUME StoreInv, NEW h \in Histories
    PROVE  /\ h \in Seq(Nat)
           /\ \A x \in ToSet(h) : \E i \in 1..HeadSeq(store) :
                 store.frames[i].kind = "out" /\ store.frames[i].n = x
  <1> DEFINE os == OutsOf(store, 1..HeadSeq(store))
  <1>1. WellFormed(store, MaxOut) /\ HeadSeq(store) \in Nat /\ MaxOut \in Nat
    BY SeqsHold, Bounds DEF StoreInv
  <1>2. /\ os \in Seq(Nat) /\ os \in Seq(0..MaxOut)
        /\ \A k \in 1..Len(os) :
              /\ Nth(OutsAt(store, 1..HeadSeq(store)), k) \in OutsAt(store, 1..HeadSeq(store))
              /\ os[k] = store.frames[Nth(OutsAt(store, 1..HeadSeq(store)), k)].n
    BY <1>1, OutsIs, OutsTyped
  <1> HIDE DEF os
  <1>3. PICK k \in 1..Len(os) : h = SubSeq(os, k, Len(os))
    BY DEF Histories, os
  <1>4. /\ Len(os) \in Nat /\ k \in Nat /\ k >= 1
    BY <1>2, LenProperties
  <1>5. /\ h \in Seq(Nat) /\ Len(h) = Len(os) - k + 1
        /\ \A j \in 1..Len(h) : h[j] = os[k + j - 1] /\ k + j - 1 \in 1..Len(os)
    <2>1. \A i \in k..Len(os) : i \in 1..Len(os) /\ os[i] \in Nat
      BY <1>2, <1>4, LenProperties
    <2>2. h = [j \in 1..(Len(os) - k + 1) |-> os[k + j - 1]]
      BY <1>3, <1>4
    <2>3. \A j \in 1..(Len(os) - k + 1) : k + j - 1 \in k..Len(os)
      BY <1>4
    <2> DEFINE l == Len(os) - k + 1
    <2>4. l \in Nat
      <3>1. k \in 1..Len(os)
        BY <1>3
      <3> QED
        BY <1>4, <3>1
    <2>6. h \in [1..l -> Nat]
      BY <2>1, <2>2, <2>3
    <2>5. h \in Seq(Nat) /\ Len(h) = Len(os) - k + 1
      <3> HIDE DEF l
      <3>1. h \in Seq(Nat) /\ Len(h) = l
        BY <2>4, <2>6, SeqDef, LenProperties
      <3> QED
        BY <3>1 DEF l
    <2> QED
      BY <2>1, <2>2, <2>3, <2>5
  <1>6. ASSUME NEW x \in ToSet(h)
        PROVE  \E i \in 1..HeadSeq(store) :
                  store.frames[i].kind = "out" /\ store.frames[i].n = x
    <2>1. PICK j \in 1..Len(h) : x = h[j]
      BY <1>5, LenProperties DEF ToSet
    <2> QED
      BY <1>2, <1>5, <2>1 DEF OutsAt
  <1> QED
    BY <1>5, <1>6

LEMMA ReplayTyped ==
    ASSUME StoreInv, NEW k \in ConnType, NEW ms \in ReplayMsgs(k)
    PROVE  ms \in Seq(Message)
  <1>1. Flushed(store, Replayed(k)) \in Seq(Message)
    BY ReplayedIs, SeqsHold, FlushedTyped DEF StoreInv
  <1>2. ASSUME NEW h \in Histories PROVE <<HistoryMsg(h)>> \in Seq(Message)
    <2>1. HistoryMsg(h) \in Message
      BY HistoriesAre, SmallMessages DEF HistoryMsg, Message
    <2> QED
      BY <2>1
  <1> QED
    BY <1>1, <1>2 DEF ReplayMsgs

LEMMA SentTyped ==
    ASSUME StoreInv, NEW k \in ConnType, NEW s, s = SentAfterReplay(k, Replayed(k))
    PROVE  /\ s \in {k.after} \cup Replayed(k) /\ s \in Seqs
           /\ \A x \in {k.after} \cup Replayed(k) : x <= s
  <1> DEFINE S == {k.after} \cup Replayed(k)
  <1>1. HeadSeq(store) \in Nat /\ 0..HeadSeq(store) \subseteq Seqs /\ k.after \in Seqs
    BY SeqsHold DEF ConnType
  <1>2. \A x \in S : x \in Seqs
    BY <1>1, ReplayedIs
  <1> DEFINE B == MaxOut + MaxIn + MaxResumes + 1
  <1>3. B \in Nat /\ \A x \in Seqs : x \in Nat /\ x <= B
    BY Bounds DEF Seqs
  <1>4. S \subseteq Nat /\ S # {} /\ \A x \in S : x <= B
    BY <1>2, <1>3
  <1>5. s = Max(S)
    BY DEF SentAfterReplay
  <1> HIDE DEF S, B
  <1>6. s \in S /\ \A x \in S : x <= s
    BY <1>3, <1>4, <1>5, MaxIs
  <1> QED
    BY <1>2, <1>6 DEF S

\* What a flush of the batch leaves of it.
LEMMA BatchTyped ==
    ASSUME NEW k \in ConnType, NEW I, I \subseteq 1..Len(k.batch), NEW new,
           new = Picked(k.batch, I)
    PROVE  /\ new \in Seq(Item)
           /\ new # <<>> => Last(new) = new[Len(new)] /\ Last(new).seq \in Seqs
           /\ [i \in 1..Len(new) |-> new[i].n] \in Seq(Nat)
           /\ Len([i \in 1..Len(new) |-> new[i].n]) = Len(new)
  <1>1. new \in Seq(Item)
    BY PickedIs DEF ConnType
  <1>2. Len(new) \in Nat /\ \A i \in 1..Len(new) : new[i] \in Item
    BY <1>1, LenProperties
  <1>3. ASSUME new # <<>> PROVE Last(new) = new[Len(new)] /\ Last(new).seq \in Seqs
    <2>1. Len(new) \in 1..Len(new)
      BY <1>1, <1>2, <1>3, EmptySeq
    <2> QED
      BY <1>2, <2>1 DEF Last, Item
  <1> DEFINE o == [i \in 1..Len(new) |-> new[i].n]
  <1>4. o \in [1..Len(new) -> Nat]
    BY <1>2 DEF Item
  <1> HIDE DEF o
  <1>5. o \in Seq(Nat) /\ Len(o) = Len(new)
    BY <1>2, <1>4, SeqDef, LenProperties
  <1> QED
    BY <1>1, <1>3, <1>5 DEF o
LEMMA ConnStep ==
    ASSUME StoreInv, TypeInv, [Next]_vars
    PROVE  ConnOK'
  <1>t. /\ conn \in [Conns -> ConnType] /\ micro \in Seq(MicroItem) /\ tab \in TabType
    BY DEF TypeInv, ConnOK, MicroOK, TabOK
  <1>e. <<>> \in Seq(Item)
    OBVIOUS
  <1>1. CASE AgentExit
    BY <1>1, <1>t, EndedTyped DEF AgentExit, ConnOK
  <1>2. CASE RunMicro
    <2> DEFINE m == [seq |-> micro[1].seq, n |-> micro[1].n]
    <2>1. conn' = [c \in Conns |-> IF c \in micro[1].to THEN Queue(conn[c], m) ELSE conn[c]]
      BY <1>2 DEF RunMicro
    <2>2. m \in Item
      <3>1. micro # <<>>
        BY <1>2 DEF RunMicro
      <3>2. micro[1] \in MicroItem
        BY <1>t, <3>1
      <3> QED
        BY <3>2 DEF MicroItem, Item
    <2> HIDE DEF m
    <2>3. ASSUME NEW c \in Conns PROVE Queue(conn[c], m) \in ConnType
      <3>1. conn[c] \in ConnType
        BY <1>t
      <3>2. Append(conn[c].batch, m) \in Seq(Item)
        BY <2>2, <3>1 DEF ConnType
      <3> QED
        BY <3>1, <3>2 DEF Queue, ConnType
    <2> QED
      BY <1>t, <2>1, <2>3 DEF ConnOK
  <1>3. ASSUME NEW c \in Conns, FlushBatch(c) PROVE ConnOK'
    <2> DEFINE I == {i \in 1..Len(conn[c].batch) : conn[c].batch[i].seq > conn[c].sent}
               new == Picked(conn[c].batch, I)
               last == IF new = <<>> THEN conn[c].sent ELSE Last(new).seq
    <2>1. conn' = [conn EXCEPT ![c].batch = <<>>, ![c].sent = last]
      BY <1>3 DEF FlushBatch
    <2>2. last \in Seqs
      <3>1. conn[c] \in ConnType /\ I \subseteq 1..Len(conn[c].batch)
        BY <1>t
      <3> HIDE DEF I
      <3>2. new # <<>> => Last(new).seq \in Seqs
        BY <3>1, BatchTyped
      <3> QED
        BY <3>1, <3>2 DEF ConnType
    <2> HIDE DEF last
    <2> QED
      BY <1>t, <1>e, <2>1, <2>2 DEF ConnOK, ConnType
  <1>4. ASSUME NEW c \in Conns, Subscribe(c) PROVE ConnOK'
    <2> DEFINE s == SentAfterReplay(conn[c], Replayed(conn[c]))
    <2>1. conn' = [conn EXCEPT ![c].pc = "open", ![c].sent = s]
      BY <1>4 DEF Subscribe
    <2>2. s \in Seqs
      BY <1>t, SentTyped
    <2> HIDE DEF s
    <2> QED
      BY <1>t, <2>1, <2>2 DEF ConnOK, ConnType
  <1>5. ASSUME NEW c \in Conns, Wake(c) PROVE ConnOK'
    BY <1>5, <1>t DEF Wake, ConnOK, ConnType
  <1>6. ASSUME NEW c \in Conns, WakeFails(c) PROVE ConnOK'
    BY <1>6, <1>t, EndedTyped DEF WakeFails, ConnOK
  <1>7. ASSUME NEW c \in Conns, CloseSeen(c) PROVE ConnOK'
    <2>1. conn' = [conn EXCEPT ![c] = Ended(conn[c])] \/ conn' = [conn EXCEPT ![c].closed = TRUE]
      BY <1>7 DEF CloseSeen
    <2>2. CASE conn' = [conn EXCEPT ![c] = Ended(conn[c])]
      BY <1>t, <2>2, EndedTyped DEF ConnOK
    <2>3. CASE conn' = [conn EXCEPT ![c].closed = TRUE]
      BY <1>t, <2>3 DEF ConnOK, ConnType
    <2> QED
      BY <2>1, <2>2, <2>3
  <1>8. CASE Crash
    BY <1>8, <1>t, EndedTyped DEF Crash, ConnOK
  <1>9. ASSUME NEW c \in Conns, Connect(c) PROVE ConnOK'
    <2> DEFINE a == IF tab.first THEN 0 ELSE tab.cursor
    <2>1. conn' = [conn EXCEPT ![c].pc = "route", ![c].after = a]
      BY <1>9 DEF Connect
    <2>2. a \in Seqs
      BY <1>t, SmallMessages DEF TabType
    <2> HIDE DEF a
    <2> QED
      BY <1>t, <2>1, <2>2 DEF ConnOK, ConnType
  <1>10. CASE UNCHANGED conn
    BY <1>t, <1>10 DEF ConnOK
  <1> QED
    BY <1>1, <1>2, <1>3, <1>4, <1>5, <1>6, <1>7, <1>8, <1>9, <1>10
    DEF Next, vars, Output, Stop, Resume, ClientInput, Disconnect, AnimationFrame, Deliver

\* A message on the wire is gone, or all of them are.
LEMMA WireCut ==
    ASSUME WireOK, NEW c \in Conns, NEW w,
           w = [wire EXCEPT ![c] = <<>>]
              \/ (wire[c] # <<>> /\ w = [wire EXCEPT ![c] = Tail(wire[c])])
    PROVE  w \in [Conns -> Seq(Message)]
  <1>1. wire \in [Conns -> Seq(Message)] /\ <<>> \in Seq(Message)
    BY DEF WireOK
  <1>2. wire[c] # <<>> => Tail(wire[c]) \in Seq(Message)
    BY <1>1
  <1> QED
    BY <1>1, <1>2

LEMMA ExitMsgsTyped ==
    ASSUME NEW st, WellFormed(st, MaxOut), 0..HeadSeq(st) \subseteq Seqs,
           NEW k \in ConnType
    PROVE  ExitMsgs(st, k) \in Seq(Message)
  <1>1. HeadSeq(st) \in Nat
    BY KindFinite
  <1>2. ReadFrom(st, k.sent) \subseteq 1..HeadSeq(st)
    BY <1>1, Bounds DEF ReadFrom, ConnType, Seqs
  <1>3. Flushed(st, ReadFrom(st, k.sent)) \in Seq(Message)
    BY <1>2, FlushedTyped
  <1>4. ExitMsg(HeadSeq(st)) \in Message
    BY <1>1, SmallMessages
  <1>5. <<ExitMsg(HeadSeq(st))>> \in Seq(Message)
    BY <1>4
  <1> QED
    BY <1>3, <1>5 DEF ExitMsgs

LEMMA WireStep ==
    ASSUME StoreInv, StoreInv', TypeInv, [Next]_vars
    PROVE  WireOK'
  <1>t. /\ conn \in [Conns -> ConnType] /\ tab \in TabType /\ WireOK
        /\ wire \in [Conns -> Seq(Message)]
    BY DEF TypeInv, ConnOK, WireOK, TabOK
  <1>1. CASE AgentExit
    <2> DEFINE st == AppendFrame(store, ExitFrame)
    <2>1. /\ store' = st
          /\ wire' = [c \in Conns |-> IF c \in sess.exit
                                      THEN Send(wire, c, ExitMsgs(st, conn[c]))[c]
                                      ELSE wire[c]]
      BY <1>1 DEF AgentExit
    <2>2. WellFormed(st, MaxOut) /\ 0..HeadSeq(st) \subseteq Seqs
      BY <2>1, SeqsHoldNext DEF StoreInv, Numbered
    <2> HIDE DEF st
    <2>3. ASSUME NEW c \in Conns PROVE Send(wire, c, ExitMsgs(st, conn[c]))[c] \in Seq(Message)
      <3>1. ExitMsgs(st, conn[c]) \in Seq(Message)
        BY <1>t, <2>2, ExitMsgsTyped
      <3> QED
        BY <1>t, <3>1, SendTyped
    <2> QED
      BY <1>t, <2>1, <2>3 DEF WireOK
  <1>2. ASSUME NEW c \in Conns, FlushBatch(c) PROVE WireOK'
    <2> DEFINE I == {i \in 1..Len(conn[c].batch) : conn[c].batch[i].seq > conn[c].sent}
               new == Picked(conn[c].batch, I)
               last == IF new = <<>> THEN conn[c].sent ELSE Last(new).seq
               outs == [i \in 1..Len(new) |-> new[i].n]
    <2>1. wire' = IF new = <<>> THEN wire ELSE Send(wire, c, <<OutputMsg(outs, last)>>)
      BY <1>2 DEF FlushBatch
    <2>2. outs \in Seq(Nat) /\ last \in Seqs
      <3>1. conn[c] \in ConnType /\ I \subseteq 1..Len(conn[c].batch)
        BY <1>t
      <3> HIDE DEF I
      <3>2. outs \in Seq(Nat) /\ (new # <<>> => Last(new).seq \in Seqs)
        BY <3>1, BatchTyped
      <3> HIDE DEF outs, new
      <3> QED
        BY <3>1, <3>2 DEF ConnType
    <2> HIDE DEF outs, last, new
    <2>3. <<OutputMsg(outs, last)>> \in Seq(Message)
      <3>1. OutputMsg(outs, last) \in Message
        BY <2>2 DEF OutputMsg, Message
      <3> QED
        BY <3>1
    <2> QED
      BY <1>t, <2>1, <2>3, SendTyped DEF WireOK
  <1>3. ASSUME NEW c \in Conns, Subscribe(c) PROVE WireOK'
    <2>r. PICK rs \in ReplayMsgs(conn[c]) : wire' = Send(wire, c, rs \o <<Msg("ready")>>)
      BY <1>3 DEF Subscribe
    <2> DEFINE ms == rs \o <<Msg("ready")>>
    <2>1. wire' = Send(wire, c, ms)
      BY <2>r
    <2>2. ms \in Seq(Message)
      <3>1. rs \in Seq(Message)
        BY <1>t, ReplayTyped
      <3>2. <<Msg("ready")>> \in Seq(Message)
        <4>1. Msg("ready") \in Message
          BY SmallMessages
        <4> QED
          BY <4>1
      <3> QED
        BY <3>1, <3>2
    <2> HIDE DEF ms
    <2> QED
      BY <1>t, <2>1, <2>2, SendTyped DEF WireOK
  <1>4. ASSUME NEW c \in Conns, WakeFails(c) PROVE WireOK'
    <2>1. wire' = Send(wire, c, <<Msg("error")>>)
      BY <1>4 DEF WakeFails
    <2>2. <<Msg("error")>> \in Seq(Message)
      <3>1. Msg("error") \in Message
        BY SmallMessages
      <3> QED
        BY <3>1
    <2> QED
      BY <1>t, <2>1, <2>2, SendTyped DEF WireOK
  <1>5. CASE Crash
    <2>1. wire' = [c \in Conns |-> <<>>] /\ <<>> \in Seq(Message)
      BY <1>5 DEF Crash
    <2> QED
      BY <2>1 DEF WireOK
  <1>6. CASE Disconnect
    <2>1. wire' = [wire EXCEPT ![tab.conn] = <<>>]
      BY <1>6 DEF Disconnect
    <2>2. CASE tab.conn \in Conns
      BY <1>t, <2>1, <2>2, WireCut DEF WireOK
    <2>3. CASE tab.conn \notin Conns
      BY <1>t, <2>1, <2>3 DEF WireOK
    <2> QED
      BY <2>2, <2>3
  <1>7. ASSUME NEW c \in Conns, Deliver(c) PROVE WireOK'
    <2>1. /\ wire[c] # <<>>
          /\ \/ wire' = [wire EXCEPT ![c] = <<>>]
             \/ wire' = [wire EXCEPT ![c] = Tail(wire[c])]
      BY <1>7 DEF Deliver
    <2> QED
      BY <1>t, <2>1, WireCut DEF WireOK
  <1>8. CASE UNCHANGED wire
    BY <1>t, <1>8 DEF WireOK
  <1> QED
    BY <1>1, <1>2, <1>3, <1>4, <1>5, <1>6, <1>7, <1>8
    DEF Next, vars, Output, RunMicro, Stop, Resume, ClientInput, AnimationFrame, Connect,
        Wake, CloseSeen

LEMMA RetryTyped ==
    ASSUME NEW t \in TabType, NEW u, u = Retry(t)
    PROVE  /\ u \in TabType /\ u.conn = NoConn /\ u.st \in {"retry", "failed"}
           /\ u.cursor = t.cursor /\ u.screen = t.screen /\ u.buf = t.buf
           /\ u.seq = t.seq /\ u.raf = t.raf /\ u.first = t.first
           /\ u.old = t.old /\ u.again = t.again
  <1>1. CASE t.attempts >= MaxReconnects
    <2>1. u = [t EXCEPT !.conn = NoConn, !.st = "failed"]
      BY <1>1 DEF Retry
    <2> QED
      BY <2>1 DEF TabType
  <1>2. CASE ~(t.attempts >= MaxReconnects)
    <2>1. u = [t EXCEPT !.conn = NoConn, !.st = "retry", !.attempts = t.attempts + 1]
      BY <1>2 DEF Retry
    <2>2. t.attempts + 1 \in Nat
      BY DEF TabType
    <2>3. u \in TabType
      BY <2>1, <2>2 DEF TabType
    <2>4. /\ u.conn = NoConn /\ u.st = "retry"
          /\ u.cursor = t.cursor /\ u.screen = t.screen /\ u.buf = t.buf
          /\ u.seq = t.seq /\ u.raf = t.raf /\ u.first = t.first
          /\ u.old = t.old /\ u.again = t.again
      BY <2>1 DEF TabType
    <2> QED
      BY <2>3, <2>4
  <1> QED
    BY <1>1, <1>2

LEMMA TabStep ==
    ASSUME StoreInv, TypeInv, [Next]_vars
    PROVE  TabOK'
  <1>t. /\ tab \in TabType /\ wire \in [Conns -> Seq(Message)]
    BY DEF TypeInv, TabOK, WireOK
  <1>1. CASE Crash
    BY <1>1, <1>t DEF Crash, TabOK, TabType
  <1>2. ASSUME NEW c \in Conns, Connect(c) PROVE TabOK'
    BY <1>2, <1>t DEF Connect, TabOK, TabType
  <1>3. CASE Disconnect
    BY <1>3, <1>t, RetryTyped DEF Disconnect, TabOK
  <1>4. CASE AnimationFrame
    <2> DEFINE w == Written(tab, tab.raf)
    <2>1. tab' = [w EXCEPT !.raf = NoConn] /\ tab.raf \in Conns
      BY <1>4, <1>t DEF AnimationFrame, TabType
    <2>2. w \in TabType
      BY <1>t, <2>1, WrittenTyped
    <2> HIDE DEF w
    <2> QED
      BY <2>1, <2>2 DEF TabOK, TabType
  <1>5. ASSUME NEW c \in Conns, Deliver(c) PROVE TabOK'
    <2> DEFINE m == wire[c][1]
               w == Written(tab, c)
    <2>1. tab' = OnMessage(tab, c, m) /\ m \in Message
      BY <1>5, <1>t DEF Deliver
    <2> HIDE DEF m
    <2>2. w \in TabType
      BY <1>t, WrittenTyped
    <2>3. w = Written(tab, c)
      OBVIOUS
    <2> HIDE DEF w
    <2>4. CASE m.type = "ready"
      <3>1. tab' = [tab EXCEPT !.attempts = 0]
        BY <1>t, <2>1, <2>4, OnMessageIs
      <3> QED
        BY <1>t, <3>1 DEF TabOK, TabType
    <2>5. CASE m.type = "output"
      <3>1. tab' = Buffered(tab, c, m)
        BY <1>t, <2>1, <2>5, OnMessageIs
      <3>2. m.outs \in Seq(Nat) /\ m.seq \in Seqs /\ tab.buf[c] \o m.outs \in Seq(Nat)
        BY <1>t, <2>1 DEF Message, TabType
      <3> QED
        BY <1>t, <3>1, <3>2 DEF Buffered, TabOK, TabType
    <2>8. CASE m.type = "history"
      <3>1. tab' = Rebuffered(tab, c, m)
        BY <1>t, <2>1, <2>8, OnMessageIs
      <3>2. tab.old[c] \cup ToSet(m.outs) \in SUBSET Nat
        <4>1. m.outs \in Seq(Nat)
          BY <2>1 DEF Message
        <4>2. ToSet(m.outs) \subseteq Nat
          BY <4>1, LenProperties DEF ToSet
        <4> QED
          BY <1>t, <4>2 DEF TabType
      <3> DEFINE new == [tab.old EXCEPT ![c] = tab.old[c] \cup ToSet(m.outs)]
                 r   == IF tab.raf = NoConn THEN c ELSE tab.raf
      <3>3. new \in [Conns -> SUBSET Nat] /\ r \in Conns \cup {NoConn}
        BY <1>t, <3>2 DEF TabType
      <3>4. tab' = [tab EXCEPT !.old = new, !.raf = r]
        BY <1>t, <3>1 DEF Rebuffered, TabType
      <3> HIDE DEF new, r
      <3> QED
        BY <1>t, <3>3, <3>4 DEF TabOK, TabType
    <2>6. CASE m.type = "exit"
      <3>0. tab' = Over(tab, c)
        BY <1>t, <2>1, <2>6, OnMessageIs
      <3>1. tab' = [w EXCEPT !.raf = NoConn, !.st = "over", !.conn = NoConn]
        BY <2>3, <3>0 DEF Over
      <3> QED
        BY <2>2, <3>1 DEF TabOK, TabType
    <2>7. CASE m.type = "error"
      <3>1. tab' = Retry([w EXCEPT !.raf = NoConn])
        BY <1>t, <2>1, <2>3, <2>7, OnMessageIs
      <3>2. [w EXCEPT !.raf = NoConn] \in TabType
        BY <2>2 DEF TabType
      <3> QED
        BY <3>1, <3>2, RetryTyped DEF TabOK
    <2> QED
      BY <1>t, <2>1, <2>4, <2>5, <2>6, <2>7, <2>8, OnMessageIs
  <1>6. CASE UNCHANGED tab
    BY <1>t, <1>6 DEF TabOK
  <1> QED
    BY <1>1, <1>2, <1>3, <1>4, <1>5, <1>6
    DEF Next, vars, Output, AgentExit, RunMicro, Stop, Resume, ClientInput, Subscribe, Wake,
        WakeFails, CloseSeen, FlushBatch
LEMMA SafeInvariant == Spec => [](CountInv /\ StoreInv /\ TypeInv)
  <1>1. Init => CountInv
    BY CountInit
  <1>2. Init => StoreInv
    <2> SUFFICES ASSUME Init PROVE StoreInv
      OBVIOUS
    <2>1. /\ store = EmptyStore /\ next = 1 /\ ins = 0 /\ resumes = 0
          /\ sess.status = "running"
      BY DEF Init, Fresh
    <2>2. \A S : <<>> \in Seq(S) /\ <<>> = <<>> \o <<>> /\ Len(<<>>) = 0
      OBVIOUS
    <2>3. WellFormed(store, MaxOut) /\ HeadSeq(store) = 0
      BY <2>1, <2>2 DEF WellFormed, EmptyStore, HeadSeq
    <2>4. \A k : KindAt(store, k) = {}
      BY <2>3 DEF KindAt
    <2>5. Cardinality({}) = 0
      BY FS_EmptySet
    <2> QED
      BY <2>1, <2>3, <2>4, <2>5, Bounds DEF StoreInv, OrderedBelow, Counted, Lives
  <1>3. Init => TypeInv
    <2> SUFFICES ASSUME Init PROVE TypeInv
      OBVIOUS
    <2>1. SessOK
      <3>1. Cardinality({}) = 0
        BY FS_EmptySet
      <3>2. sess = [status |-> "running", subs |-> 0, out |-> {}, exit |-> {}]
        BY DEF Init, Fresh
      <3>3. sess \in SessType
        BY <3>2 DEF SessType
      <3> QED
        BY <3>1, <3>2, <3>3, Bounds DEF SessOK
    <2>2. MicroOK
      BY DEF Init, MicroOK
    <2>3. ConnOK
      <3>1. <<>> \in Seq(Item)
        OBVIOUS
      <3>2. NoConnection \in ConnType
        BY <3>1, SmallMessages DEF NoConnection, ConnType
      <3> QED
        BY <3>2 DEF Init, ConnOK
    <2>4. WireOK
      BY DEF Init, WireOK
    <2>5. TabOK
      BY SmallMessages DEF Init, TabOK, TabType, NewTab
    <2> QED
      BY <2>1, <2>2, <2>3, <2>4, <2>5 DEF TypeInv
  <1>4. CountInv /\ [Next]_vars => CountInv'
    BY CountStep
  <1>5. CountInv /\ StoreInv /\ [Next]_vars => StoreInv'
    BY StoreStep
  <1>6. StoreInv /\ StoreInv' /\ TypeInv /\ [Next]_vars => TypeInv'
    BY SessStep, MicroStep, ConnStep, WireStep, TabStep DEF TypeInv
  <1> QED
    BY <1>1, <1>2, <1>3, <1>4, <1>5, <1>6, PTL DEF Spec, SafeSpec

\* The variables keep their types under every fault.  In particular no sequence
\* number, of a frame, a message or a cursor, exceeds the frames a transcript can
\* hold, and the listener limit of the session is kept.
THEOREM TypeCorrect == Spec => []TypeOK
  <1>1. CountInv /\ StoreInv /\ TypeInv => TypeOK
    <2> SUFFICES ASSUME CountInv, StoreInv, TypeInv PROVE TypeOK
      OBVIOUS
    <2>1. /\ \A i \in 1..HeadSeq(store) : store.frames[i] \in Frames(MaxOut)
          /\ store.frames = store.disk \o store.queue
          /\ next \in 1..(MaxOut + 1) /\ ins \in 0..MaxIn /\ resumes \in 0..MaxResumes
      BY FramesAre DEF StoreInv, WellFormed
    <2>2. /\ sess.status \in {"running", "idle", "exited"} /\ sess.out \subseteq sess.exit
          /\ sess.exit \subseteq Conns /\ Cardinality(sess.out) <= MaxListeners
      BY DEF TypeInv, SessOK, SessType
    <2>3. sess.subs \in 0..MaxConns
      <3>1. sess.subs \in Nat /\ sess.subs <= Cardinality(sess.exit)
        BY DEF CountInv, Forms
      <3>2. IsFiniteSet(Conns) /\ Cardinality(Conns) = MaxConns
        <4>1. 1 \in Int /\ MaxConns \in Int
          BY Bounds
        <4>2. Cardinality(1..MaxConns) = IF 1 > MaxConns THEN 0 ELSE MaxConns - 1 + 1
          BY <4>1, FS_Interval
        <4> QED
          BY <4>2, ConnsFinite, Bounds DEF Conns
      <3>3. Cardinality(sess.exit) <= MaxConns /\ Cardinality(sess.exit) \in Nat
        BY <2>2, <3>2, FS_Subset, FS_CardinalityType
      <3> QED
        BY <3>1, <3>3, Bounds
    <2>4. ASSUME NEW i \in 1..Len(micro) PROVE micro[i].to \subseteq Conns
      <3>1. micro \in Seq(MicroItem)
        BY DEF TypeInv, MicroOK
      <3>2. micro[i] \in MicroItem
        BY <3>1, ElementOfSeq
      <3> QED
        BY <3>2 DEF MicroItem
    <2>5. \A c \in Conns :
             /\ conn[c].pc \in {"none", "route", "waking", "open", "ended"}
             /\ {conn[c].sent, conn[c].after} \subseteq Seqs
      BY DEF TypeInv, ConnOK, ConnType
    <2>6. /\ tab.st \in {"retry", "live", "over", "failed"}
          /\ {tab.conn, tab.raf} \subseteq Conns \cup {NoConn}
          /\ tab.again \subseteq Nat
      BY DEF TypeInv, TabOK, TabType
    <2> QED
      BY <2>1, <2>2, <2>3, <2>4, <2>5, <2>6 DEF TypeOK
  <1> QED
    BY <1>1, SafeInvariant, PTL
(***************************************************************************)
(* The order of the outputs, while the transcript loses no frame and the   *)
(* tab stays visible.                                                      *)
(***************************************************************************)
\* Frame s is output n.  Up to frame s the last output is n, or none if n = 0.
At(st, s, n) == s \in 1..HeadSeq(st) /\ st.frames[s] = OutFrame(n)
UpTo(st, s, n) ==
    /\ s \in 0..HeadSeq(st)
    /\ n # 0 => \E i \in 1..s : At(st, i, n)
    /\ \A i \in 1..s : st.frames[i].kind = "out" => st.frames[i].n <= n

\* The outputs below nx are there, and no other frame bears a number.
Complete(st, nx) ==
    /\ \A n \in 1..(nx - 1) : \E i \in 1..HeadSeq(st) : At(st, i, n)
    /\ \A i \in 1..HeadSeq(st) : st.frames[i].kind # "out" => st.frames[i].n = 0

\* The outputs os come one after the other, and after output n if there is one.
Consecutive(os) == \A i \in 1..(Len(os) - 1) : os[i + 1] = os[i] + 1
Follows(n, os) == os # <<>> /\ Consecutive(os) /\ (n # 0 => os[1] = n + 1)

\* Message m takes a tab that has seen the outputs up to n to output k.
Carries(st, m, n, k) ==
    IF m.type = "output" THEN Follows(n, m.outs) /\ k = Last(m.outs) /\ At(st, m.seq, k)
    ELSE /\ k = n
         /\ m.type = "exit" => UpTo(st, m.seq, n)
         /\ m.type = "history" => \A x \in ToSet(m.outs) : x <= n
Chain(st, w, a, b) ==
    \E t \in [0..Len(w) -> Nat] :
       /\ t[0] = a /\ t[Len(w)] = b
       /\ \A i \in 1..Len(w) : Carries(st, w[i], t[i - 1], t[i])

\* The last output on the screen, and in the write buffer after it.
Shown(t) == IF t.screen = <<>> THEN 0 ELSE Last(t.screen)
Waits(t) == t.raf # NoConn /\ t.buf[t.raf] # <<>>
Held(t)  == IF Waits(t) THEN Last(t.buf[t.raf]) ELSE Shown(t)
TabOrder(st, t) ==
    /\ IF t.cursor = 0 THEN t.screen = <<>>
       ELSE /\ t.screen # <<>> /\ Consecutive(t.screen)
            /\ At(st, t.cursor, Last(t.screen))
    /\ \A c \in Conns : c # t.raf => t.buf[c] = <<>> /\ t.seq[c] = 0
    /\ t.raf # NoConn => /\ t.conn \in {NoConn, t.raf}
                         /\ ~Waits(t) => t.seq[t.raf] = 0
    /\ Waits(t) => /\ Follows(Shown(t), t.buf[t.raf])
                   /\ At(st, t.seq[t.raf], Last(t.buf[t.raf]))
    /\ t.first => t.cursor = 0 /\ t.conn = NoConn /\ t.raf = NoConn
    /\ t.st = "live" <=> t.conn # NoConn

\* The outputs in the microtasks are the newest ones, each for all listeners.
MicroOrder ==
    /\ \A i \in 1..Len(micro) :
          /\ micro[i].n + Len(micro) = (next - 1) + i
          /\ At(store, micro[i].seq, micro[i].n)
          /\ sess.out \subseteq micro[i].to
          /\ \A c \in micro[i].to : conn[c].pc = "open" => c \in sess.out
    /\ micro # <<>> /\ IsAlive => sess.out # {}

ConnsQuiet ==
    \A c \in Conns :
       /\ c # tab.conn => wire[c] = <<>>
       /\ conn[c].pc \in {"none", "route", "waking"} => conn[c].batch = <<>>
       /\ conn[c].pc = "none" => ~conn[c].closed

\* Connection c has sent the outputs up to n; the batch comes next, then, if it
\* listens, the microtasks.
Live(c, n) ==
    /\ ~conn[c].closed
    /\ UpTo(store, conn[c].sent, n)
    /\ \A i \in 1..Len(conn[c].batch) : /\ conn[c].batch[i].n = n + i
                                        /\ At(store, conn[c].batch[i].seq, n + i)
    /\ c \in sess.out => n + Len(conn[c].batch) + Len(micro) = next - 1

\* From the screen over the write buffer, the wire and the batch to the microtasks
\* runs one line of outputs without a gap.
LineOf(c) ==
    /\ conn[c].pc # "none"
    /\ conn[c].pc \in {"route", "waking"} =>
          /\ wire[c] = <<>> /\ tab.raf = NoConn /\ ~conn[c].closed
          /\ conn[c].after = tab.cursor
    /\ \E n \in Nat : /\ Chain(store, wire[c], Held(tab), n)
                      /\ conn[c].pc = "open" => Live(c, n)
LineInv == tab.conn # NoConn => LineOf(tab.conn)

OrderInv ==
    /\ Complete(store, next)
    /\ TabOrder(store, tab)
    /\ MicroOrder /\ ConnsQuiet /\ LineInv

\* What a transcript that only grows keeps.
Extends(st, new) ==
    /\ HeadSeq(st) \in Nat /\ HeadSeq(new) \in Nat /\ HeadSeq(st) <= HeadSeq(new)
    /\ \A i \in 1..HeadSeq(st) : new.frames[i] = st.frames[i]

LEMMA AtKept ==
    ASSUME NEW st, NEW new, Extends(st, new)
    PROVE  /\ \A s, n : At(st, s, n) => At(new, s, n)
           /\ \A s, n : UpTo(st, s, n) => UpTo(new, s, n)
  <1>1. ASSUME NEW s, NEW n, At(st, s, n) PROVE At(new, s, n)
    BY <1>1 DEF At, Extends
  <1>2. ASSUME NEW s, NEW n, UpTo(st, s, n) PROVE UpTo(new, s, n)
    <2>1. s \in 0..HeadSeq(new) /\ \A i \in 1..s : i \in 1..HeadSeq(st)
      BY <1>2 DEF UpTo, Extends
    <2> QED
      BY <1>1, <1>2, <2>1 DEF UpTo, Extends
  <1> QED
    BY <1>1, <1>2

LEMMA CarriesKept ==
    ASSUME NEW st, NEW new, Extends(st, new), NEW m, NEW n, NEW k, Carries(st, m, n, k)
    PROVE  Carries(new, m, n, k)
  BY AtKept DEF Carries

LEMMA ChainKept ==
    ASSUME NEW st, NEW new, Extends(st, new), NEW w, NEW a, NEW b, Chain(st, w, a, b)
    PROVE  Chain(new, w, a, b)
  <1>1. PICK t \in [0..Len(w) -> Nat] :
           /\ t[0] = a /\ t[Len(w)] = b
           /\ \A i \in 1..Len(w) : Carries(st, w[i], t[i - 1], t[i])
    BY DEF Chain
  <1>2. \A i \in 1..Len(w) : Carries(new, w[i], t[i - 1], t[i])
    BY <1>1, CarriesKept
  <1> QED
    BY <1>1, <1>2 DEF Chain

LEMMA ChainEmpty ==
    ASSUME NEW st, NEW w, w = <<>>
    PROVE  /\ \A a \in Nat : Chain(st, w, a, a)
           /\ \A a, b : Chain(st, w, a, b) => a = b
  <1>1. Len(w) = 0
    OBVIOUS
  <1>2. ASSUME NEW a \in Nat PROVE Chain(st, w, a, a)
    <2> DEFINE t == [i \in 0..Len(w) |-> a]
    <2>1. t \in [0..Len(w) -> Nat] /\ t[0] = a /\ t[Len(w)] = a
      BY <1>1
    <2>2. \A i \in 1..Len(w) : Carries(st, w[i], t[i - 1], t[i])
      BY <1>1
    <2> HIDE DEF t
    <2> QED
      BY <2>1, <2>2 DEF Chain
  <1>3. ASSUME NEW a, NEW b, Chain(st, w, a, b) PROVE a = b
    BY <1>1, <1>3 DEF Chain
  <1> QED
    BY <1>2, <1>3

LEMMA ChainAppend ==
    ASSUME NEW st, NEW w \in Seq(Message), NEW a, NEW b, Chain(st, w, a, b),
           NEW m \in Message, NEW k \in Nat, Carries(st, m, b, k)
    PROVE  Chain(st, w \o <<m>>, a, k)
  <1>1. PICK t \in [0..Len(w) -> Nat] :
           /\ t[0] = a /\ t[Len(w)] = b
           /\ \A i \in 1..Len(w) : Carries(st, w[i], t[i - 1], t[i])
    BY DEF Chain
  <1> DEFINE l == Len(w)
             v == w \o <<m>>
             u == [i \in 0..(l + 1) |-> IF i = l + 1 THEN k ELSE t[i]]
  <1>2. /\ l \in Nat /\ Len(v) = l + 1 /\ v[l + 1] = m
        /\ \A i \in 1..l : v[i] = w[i]
    OBVIOUS
  <1>3. /\ u \in [0..(l + 1) -> Nat] /\ u[0] = a /\ u[l + 1] = k /\ u[l] = b
        /\ \A i \in 0..l : u[i] = t[i]
    BY <1>1, <1>2
  <1> HIDE DEF u, v, l
  <1>4. ASSUME NEW i \in 1..(l + 1) PROVE Carries(st, v[i], u[i - 1], u[i])
    <2>1. CASE i = l + 1
      <3>1. i - 1 = l
        BY <1>2, <2>1
      <3> QED
        BY <1>2, <1>3, <2>1, <3>1
    <2>2. CASE i # l + 1
      <3>1. i \in 1..l /\ i - 1 \in 0..l /\ i \in 0..l
        BY <1>2, <2>2
      <3>2. Carries(st, w[i], t[i - 1], t[i])
        BY <1>1, <3>1 DEF l
      <3> QED
        BY <1>2, <1>3, <3>1, <3>2
    <2> QED
      BY <2>1, <2>2
  <1>5. Chain(st, v, a, k)
    BY <1>2, <1>3, <1>4 DEF Chain
  <1> QED
    BY <1>5 DEF v

LEMMA ChainTail ==
    ASSUME NEW st, NEW w \in Seq(Message), w # <<>>, NEW a, NEW b, Chain(st, w, a, b)
    PROVE  \E k \in Nat : Carries(st, w[1], a, k) /\ Chain(st, Tail(w), k, b)
  <1>1. PICK t \in [0..Len(w) -> Nat] :
           /\ t[0] = a /\ t[Len(w)] = b
           /\ \A i \in 1..Len(w) : Carries(st, w[i], t[i - 1], t[i])
    BY DEF Chain
  <1> DEFINE l == Len(w)
             v == Tail(w)
             u == [i \in 0..(l - 1) |-> t[i + 1]]
  <1>2. /\ l \in Nat /\ l >= 1 /\ Len(v) = l - 1
        /\ \A i \in 1..(l - 1) : v[i] = w[i + 1]
    OBVIOUS
  <1>3. Carries(st, w[1], a, t[1]) /\ t[1] \in Nat
    <2>1. 1 \in 1..Len(w) /\ 1 \in 0..Len(w) /\ 1 - 1 = 0
      BY <1>2
    <2>2. Carries(st, w[1], t[1 - 1], t[1])
      BY <1>1, <2>1
    <2> QED
      BY <1>1, <2>1, <2>2
  <1>4. /\ u \in [0..(l - 1) -> Nat] /\ u[0] = t[1] /\ u[l - 1] = b
        /\ \A i \in 0..(l - 1) : u[i] = t[i + 1]
    <2>1. \A i \in 0..(l - 1) : i + 1 \in 0..Len(w)
      BY <1>2
    <2>2. u \in [0..(l - 1) -> Nat] /\ \A i \in 0..(l - 1) : u[i] = t[i + 1]
      BY <2>1
    <2>3. 0 \in 0..(l - 1) /\ l - 1 \in 0..(l - 1) /\ (l - 1) + 1 = Len(w) /\ 0 + 1 = 1
      BY <1>2
    <2> HIDE DEF u
    <2> QED
      BY <1>1, <2>2, <2>3
  <1> HIDE DEF u, v, l
  <1>5. ASSUME NEW i \in 1..(l - 1) PROVE Carries(st, v[i], u[i - 1], u[i])
    <2>1. i + 1 \in 1..Len(w) /\ i \in 0..(l - 1) /\ i - 1 \in 0..(l - 1)
          /\ (i + 1) - 1 = i /\ (i - 1) + 1 = i
      BY <1>2 DEF l
    <2>2. Carries(st, w[i + 1], t[(i + 1) - 1], t[i + 1])
      BY <1>1, <2>1
    <2> QED
      BY <1>2, <1>4, <2>1, <2>2
  <1>6. Chain(st, v, t[1], b)
    BY <1>2, <1>4, <1>5 DEF Chain
  <1> QED
    BY <1>3, <1>6 DEF v
(***************************************************************************)
(* What the readers of the transcript send.                                *)
(***************************************************************************)
\* A transcript whose outputs are 1, 2, .. below nx, in order.
Sound(st, nx) ==
    WellFormed(st, MaxOut) /\ nx \in 1..(MaxOut + 1) /\ OrderedBelow(st, nx) /\ Complete(st, nx)

LEMMA SoundHas ==
    ASSUME NEW st, NEW nx, Sound(st, nx)
    PROVE  /\ HeadSeq(st) \in Nat /\ nx \in Nat
           /\ \A i \in 1..HeadSeq(st) : st.frames[i].n \in Nat
           /\ \A s, n : At(st, s, n) <=> /\ s \in 1..HeadSeq(st)
                                         /\ st.frames[s].kind = "out" /\ st.frames[s].n = n
           /\ \A s, n : At(st, s, n) => n \in 1..(nx - 1) /\ s \in Nat
           /\ \A n \in 1..(nx - 1) : \E i \in 1..HeadSeq(st) : At(st, i, n)
  <1>1. HeadSeq(st) \in Nat /\ nx \in Nat
    BY KindFinite, Bounds DEF Sound
  <1>2. \A i \in 1..HeadSeq(st) : st.frames[i].n \in Nat
    BY FramesAre DEF Sound
  <1>3. \A s, n : At(st, s, n) <=> /\ s \in 1..HeadSeq(st)
                                   /\ st.frames[s].kind = "out" /\ st.frames[s].n = n
    BY FramesAre DEF Sound, At
  <1>4. \A s, n : At(st, s, n) => n \in 1..(nx - 1) /\ s \in Nat
    BY <1>1, <1>3 DEF Sound, OrderedBelow, KindAt
  <1> QED
    BY <1>1, <1>2, <1>3, <1>4 DEF Sound, Complete

LEMMA SoundOrder ==
    ASSUME NEW st, NEW nx, Sound(st, nx), NEW s, NEW n, NEW r, NEW m,
           At(st, s, n), At(st, r, m)
    PROVE  /\ s < r <=> n < m
           /\ s \in Nat /\ r \in Nat /\ n \in Nat /\ m \in Nat
  <1>1. s \in KindAt(st, "out") /\ r \in KindAt(st, "out")
    BY SoundHas DEF KindAt
  <1>2. st.frames[s].n = n /\ st.frames[r].n = m
    BY SoundHas
  <1>3. /\ s < r => n < m
        /\ r < s => m < n
    BY <1>1, <1>2 DEF Sound, OrderedBelow
  <1>4. s \in Nat /\ r \in Nat /\ n \in Nat /\ m \in Nat
    BY SoundHas
  <1>5. s = r => n = m
    BY <1>2
  <1> QED
    BY <1>3, <1>4, <1>5

\* Up to an output the last one is that output, and up to the end the newest.
LEMMA UpToAt ==
    ASSUME NEW st, NEW nx, Sound(st, nx), NEW s, NEW n, At(st, s, n)
    PROVE  UpTo(st, s, n)
  <1>1. s \in 1..HeadSeq(st) /\ HeadSeq(st) \in Nat /\ n \in Nat
    BY SoundHas
  <1>2. ASSUME NEW i \in 1..s, st.frames[i].kind = "out" PROVE st.frames[i].n <= n
    <2>1. At(st, i, st.frames[i].n) /\ i \in Nat /\ s \in Nat
      BY <1>1, <1>2, SoundHas
    <2>2. ~(n < st.frames[i].n)
      <3>1. ~(s < i)
        BY <1>1, <2>1
      <3>2. \A m : At(st, i, m) => (s < i <=> n < m)
        BY SoundOrder
      <3> QED
        BY <2>1, <3>1, <3>2
    <2>3. st.frames[i].n \in Nat
      BY <2>1, SoundHas
    <2> QED
      BY <1>1, <2>2, <2>3
  <1>3. s \in 1..s
    BY <1>1
  <1> QED
    BY <1>1, <1>2, <1>3 DEF UpTo

LEMMA UpToEnd ==
    ASSUME NEW st, NEW nx, Sound(st, nx)
    PROVE  /\ UpTo(st, HeadSeq(st), nx - 1)
           /\ \A n \in Nat : UpTo(st, HeadSeq(st), n) => n = nx - 1
  <1>1. HeadSeq(st) \in Nat /\ nx \in Nat /\ nx >= 1
    BY SoundHas DEF Sound
  <1>2. UpTo(st, HeadSeq(st), nx - 1)
    <2>1. nx - 1 # 0 => \E i \in 1..HeadSeq(st) : At(st, i, nx - 1)
      <3>1. nx - 1 # 0 => nx - 1 \in 1..(nx - 1)
        BY <1>1
      <3> QED
        BY <3>1, SoundHas
    <2>2. ASSUME NEW i \in 1..HeadSeq(st), st.frames[i].kind = "out"
          PROVE  st.frames[i].n <= nx - 1
      <3>1. At(st, i, st.frames[i].n)
        BY <2>2, SoundHas
      <3>2. st.frames[i].n \in 1..(nx - 1)
        BY <3>1, SoundHas
      <3> QED
        BY <1>1, <3>2
    <2> QED
      BY <1>1, <2>1, <2>2 DEF UpTo
  <1>3. ASSUME NEW n \in Nat, UpTo(st, HeadSeq(st), n) PROVE n = nx - 1
    <2>1. n # 0 => n \in 1..(nx - 1)
      BY <1>3, SoundHas DEF UpTo
    <2>2. nx - 1 # 0 => nx - 1 <= n
      <3>1. SUFFICES ASSUME nx - 1 # 0 PROVE nx - 1 <= n
        OBVIOUS
      <3>2. nx - 1 \in 1..(nx - 1)
        BY <1>1, <3>1
      <3>3. PICK i \in 1..HeadSeq(st) : At(st, i, nx - 1)
        BY <3>2, SoundHas
      <3>4. st.frames[i].kind = "out" /\ st.frames[i].n = nx - 1
        BY <3>3, SoundHas
      <3> QED
        BY <1>3, <3>4 DEF UpTo
    <2> QED
      BY <1>1, <2>1, <2>2
  <1> QED
    BY <1>2, <1>3

\* The outputs after some frame of the transcript, as the loops collect them.
Final(st, ns) == ns \subseteq 1..HeadSeq(st)
                 /\ \A i \in ns : \A j \in i..HeadSeq(st) : j \in ns

LEMMA OutsFollow ==
    ASSUME NEW st, NEW nx, Sound(st, nx), NEW ns, Final(st, ns),
           NEW I, I = OutsAt(st, ns), I # {}, NEW os, os = OutsOf(st, ns)
    PROVE  /\ os # <<>> /\ Consecutive(os) /\ os \in Seq(Nat)
           /\ Last(os) = nx - 1 /\ At(st, LastOut(st, ns), nx - 1)
           /\ \A a \in Nat, n \in Nat :
                 ns = (a + 1)..HeadSeq(st) /\ UpTo(st, a, n) => os[1] = n + 1
  <1> DEFINE H == HeadSeq(st)
  <1>1. /\ I \subseteq 1..H /\ I \subseteq Nat /\ IsFiniteSet(I) /\ Cardinality(I) \in Nat
        /\ Len(os) = Cardinality(I) /\ os # <<>>
        /\ \A k \in 1..Len(os) : Nth(I, k) \in I /\ os[k] = st.frames[Nth(I, k)].n
        /\ \A i \in I : Rank(I, i) \in 1..Len(os) /\ os[Rank(I, i)] = st.frames[i].n
    <2>1. ns \subseteq 1..HeadSeq(st) /\ WellFormed(st, MaxOut) /\ MaxOut \in Nat
      BY Bounds DEF Final, Sound
    <2>2. /\ I \subseteq 1..HeadSeq(st) /\ I \subseteq Nat /\ IsFiniteSet(I)
          /\ Cardinality(I) \in Nat
          /\ Len(os) = Cardinality(I)
          /\ os = <<>> <=> I = {}
      BY <2>1, OutsIs
    <2>3. \A k \in 1..Len(os) : Nth(I, k) \in I /\ os[k] = st.frames[Nth(I, k)].n
      BY <2>1, OutsIs
    <2>4. \A i \in I : Rank(I, i) \in 1..Len(os) /\ os[Rank(I, i)] = st.frames[i].n
      BY <2>1, OutsIs
    <2> QED
      BY <2>2, <2>3, <2>4
  <1>s. os \in Seq(Nat) /\ H \in Nat
    BY OutsTyped, SoundHas DEF Final, Sound
  <1>2. \A i \in I : i \in ns /\ At(st, i, st.frames[i].n) /\ i \in Nat
    BY <1>1, SoundHas DEF OutsAt
  <1>3. \A i \in ns : \A s, n : At(st, s, n) /\ i <= s => s \in I
    <2> SUFFICES ASSUME NEW i \in ns, NEW s, NEW n, At(st, s, n), i <= s PROVE s \in I
      OBVIOUS
    <2>1. s \in 1..H /\ i \in 1..H /\ st.frames[s].kind = "out"
      BY SoundHas DEF Final
    <2>2. s \in i..H
      BY <1>s, <2>1
    <2> QED
      BY <2>1, <2>2 DEF OutsAt, Final
  <1>n. \A k \in 1..Len(os) : Nth(I, k) \in I
    BY <1>1
  <1>r. ASSUME NEW i \in I, NEW j \in I PROVE i < j <=> Rank(I, i) < Rank(I, j)
    <2>1. /\ i < j => Rank(I, i) < Rank(I, j)
          /\ j < i => Rank(I, j) < Rank(I, i)
      BY <1>1, RankIs
    <2>2. i \in Nat /\ j \in Nat
      BY <1>2
    <2>3. Rank(I, i) \in 1..Len(os) /\ Rank(I, j) \in 1..Len(os) /\ Len(os) \in Nat
      BY <1>1
    <2>4. i = j => Rank(I, i) = Rank(I, j)
      OBVIOUS
    <2>5. ~(i < i) /\ ~(j < j)
      BY <2>2
    <2> QED
      BY <2>1, <2>2, <2>3, <2>4, <2>5
  <1> HIDE DEF H
  <1>o. \A k \in 1..Len(os) : Rank(I, Nth(I, k)) = k
    BY <1>1, NthIs
  <1>4. Consecutive(os)
    <2> SUFFICES ASSUME NEW k \in 1..(Len(os) - 1) PROVE os[k + 1] = os[k] + 1
      BY DEF Consecutive
    <2> DEFINE i == Nth(I, k)
               j == Nth(I, k + 1)
    <2>1. k \in 1..Len(os) /\ k + 1 \in 1..Len(os) /\ k \in Nat
      BY <1>1
    <2>2. i \in I /\ j \in I /\ Rank(I, i) = k /\ Rank(I, j) = k + 1
          /\ os[k] = st.frames[i].n /\ os[k + 1] = st.frames[j].n
      BY <1>1, <1>o, <2>1
    <2> HIDE DEF i, j
    <2>3. i < j /\ At(st, i, os[k]) /\ At(st, j, os[k + 1]) /\ i \in ns
      BY <1>2, <1>r, <2>1, <2>2
    <2>4. os[k] < os[k + 1] /\ os[k] \in 1..(nx - 1) /\ os[k + 1] \in 1..(nx - 1) /\ nx \in Nat
      <3>1. os[k] < os[k + 1]
        BY <2>3, SoundOrder
      <3>2. os[k] \in 1..(nx - 1) /\ nx \in Nat
        BY <2>3, SoundHas
      <3>3. os[k + 1] \in 1..(nx - 1)
        BY <2>3, SoundHas
      <3> QED
        BY <3>1, <3>2, <3>3
    <2>5. os[k] + 1 \in 1..(nx - 1)
      BY <2>4
    <2>6. PICK p \in 1..HeadSeq(st) : At(st, p, os[k] + 1)
      BY <2>5, SoundHas
    <2>7. i < p
      <3>1. os[k] < os[k] + 1
        BY <2>4
      <3> QED
        BY <2>3, <2>6, <3>1, SoundOrder
    <2>8. ~(j < p)
      <3>1. ~(os[k + 1] < os[k] + 1)
        BY <2>4
      <3> QED
        BY <2>3, <2>6, <3>1, SoundOrder
    <2>9. p \in I
      <3>1. i \in Nat /\ p \in Nat
        BY <1>2, <2>2, <2>6, SoundHas
      <3> QED
        BY <1>3, <2>3, <2>6, <2>7, <3>1
    <2>10. Rank(I, p) \in Nat /\ k < Rank(I, p) /\ ~(k + 1 < Rank(I, p))
      BY <1>1, <1>r, <2>2, <2>7, <2>8, <2>9
    <2>11. Rank(I, p) = k + 1
      BY <2>1, <2>10
    <2>12. os[k + 1] = st.frames[p].n
      BY <1>1, <2>9, <2>11
    <2> QED
      BY <2>6, <2>12, SoundHas
  <1>5. Len(os) \in 1..Len(os) /\ 1 \in 1..Len(os) /\ Last(os) = os[Len(os)]
    <2>1. Len(os) \in Nat /\ Len(os) # 0
      BY <1>1, <1>s, EmptySeq
    <2> QED
      BY <2>1 DEF Last
  <1> DEFINE l == LastOut(st, ns)
  <1>6. l \in I /\ \A i \in I : i <= l
    <2>1. ns \subseteq 1..HeadSeq(st) /\ WellFormed(st, MaxOut)
      BY DEF Final, Sound
    <2> QED
      BY <2>1, LastOutIs
  <1> HIDE DEF l
  <1>7. At(st, l, nx - 1)
    <2>1. At(st, l, st.frames[l].n) /\ l \in ns /\ l \in Nat
      BY <1>2, <1>6
    <2>2. st.frames[l].n \in 1..(nx - 1) /\ nx \in Nat
      BY <2>1, SoundHas
    <2>3. nx - 1 \in 1..(nx - 1)
      BY <2>2
    <2>4. PICK p \in 1..HeadSeq(st) : At(st, p, nx - 1)
      BY <2>3, SoundHas
    <2>5. CASE l < p
      <3>1. p \in I
        BY <1>3, <2>1, <2>4, <2>5, SoundHas
      <3> QED
        BY <1>6, <2>1, <2>5, <3>1, <1>2
    <2>6. CASE ~(l < p)
      <3>1. ~(st.frames[l].n < nx - 1)
        BY <2>1, <2>4, <2>6, SoundOrder
      <3>2. st.frames[l].n = nx - 1
        BY <2>2, <3>1
      <3> QED
        BY <2>1, <3>2
    <2> QED
      BY <2>5, <2>6
  <1>8. Last(os) = nx - 1
    <2> DEFINE i == Nth(I, Len(os))
    <2>1. i \in I /\ Rank(I, i) = Len(os) /\ os[Len(os)] = st.frames[i].n
      BY <1>1, <1>o, <1>5
    <2> HIDE DEF i
    <2>2. ~(i < l)
      <3>1. Rank(I, l) \in 1..Len(os) /\ Len(os) \in Nat
        BY <1>1, <1>6
      <3>2. ~(Rank(I, i) < Rank(I, l))
        BY <2>1, <3>1
      <3> QED
        BY <1>6, <1>r, <2>1, <3>2
    <2>3. i = l
      <3>1. i \in Nat /\ l \in Nat /\ i <= l
        BY <1>2, <1>6, <2>1
      <3> QED
        BY <2>2, <3>1
    <2> QED
      BY <1>5, <1>7, <2>1, <2>3, SoundHas
  <1>9. ASSUME NEW a \in Nat, NEW n \in Nat, ns = (a + 1)..HeadSeq(st), UpTo(st, a, n)
        PROVE  os[1] = n + 1
    <2> DEFINE i == Nth(I, 1)
    <2>1. i \in I /\ Rank(I, i) = 1 /\ os[1] = st.frames[i].n
      BY <1>1, <1>o, <1>5
    <2> HIDE DEF i
    <2>2. /\ i \in ns /\ At(st, i, os[1]) /\ i \in Nat /\ a < i
          /\ os[1] \in 1..(nx - 1) /\ nx \in Nat
      BY <1>2, <1>9, <2>1, SoundHas
    <2>3. n < os[1]
      <3>1. CASE n = 0
        BY <2>2, <3>1
      <3>2. CASE n # 0
        <4>1. PICK q \in 1..a : At(st, q, n)
          BY <1>9, <3>2 DEF UpTo
        <4>2. q < i
          BY <1>9, <2>2, <4>1
        <4> QED
          BY <2>2, <4>1, <4>2, SoundOrder
      <3> QED
        BY <3>1, <3>2
    <2>4. n + 1 \in 1..(nx - 1)
      BY <2>2, <2>3
    <2>5. PICK p \in 1..HeadSeq(st) : At(st, p, n + 1)
      BY <2>4, SoundHas
    <2>6. p > a
      <3>1. SUFFICES ASSUME p <= a PROVE FALSE
        BY <2>5, <1>s DEF H
      <3>2. p \in 1..a
        BY <2>5, <3>1, <1>s DEF H
      <3>3. n + 1 <= n
        BY <1>9, <2>5, <3>2, SoundHas DEF UpTo
      <3> QED
        BY <3>3
    <2>7. p \in I
      <3>1. p \in ns
        BY <1>9, <2>5, <2>6, <1>s DEF H
      <3>2. p <= p
        BY <2>5, <1>s DEF H
      <3> QED
        BY <1>3, <2>5, <3>1, <3>2
    <2>8. ~(p < i)
      <3>1. Rank(I, p) \in Nat /\ Rank(I, p) >= 1
        BY <1>1, <2>7
      <3> QED
        BY <1>r, <2>1, <2>7, <3>1
    <2>9. ~(n + 1 < os[1])
      BY <2>2, <2>5, <2>8, SoundOrder
    <2> QED
      BY <2>2, <2>3, <2>9
  <1> QED
    BY <1>1, <1>4, <1>7, <1>8, <1>9, <1>s DEF l

LEMMA FlushedChain ==
    ASSUME NEW st, NEW nx, Sound(st, nx), 0..HeadSeq(st) \subseteq Seqs,
           NEW ns, Final(st, ns), NEW n \in Nat,
           \/ OutsAt(st, ns) = {} /\ n = nx - 1
           \/ OutsAt(st, ns) # {} /\ (n = 0 \/ OutsOf(st, ns)[1] = n + 1)
    PROVE  Chain(st, Flushed(st, ns), n, nx - 1)
  <1> DEFINE os == OutsOf(st, ns)
             m == OutputMsg(os, LastOut(st, ns))
  <1>1. /\ ns \subseteq 1..HeadSeq(st) /\ WellFormed(st, MaxOut) /\ MaxOut \in Nat
        /\ nx - 1 \in Nat
    BY Bounds DEF Final, Sound
  <1>2. os = <<>> <=> OutsAt(st, ns) = {}
    BY <1>1, OutsIs
  <1>3. CASE OutsAt(st, ns) = {}
    <2>1. Flushed(st, ns) = <<>> /\ n = nx - 1
      BY <1>2, <1>3 DEF Flushed
    <2> QED
      BY <2>1, ChainEmpty
  <1>4. CASE OutsAt(st, ns) # {}
    <2>1. Flushed(st, ns) = <<m>>
      BY <1>2, <1>4 DEF Flushed
    <2>2. /\ os # <<>> /\ Consecutive(os) /\ Last(os) = nx - 1
          /\ At(st, LastOut(st, ns), nx - 1) /\ os \in Seq(Nat)
      BY <1>4, OutsFollow
    <2>3. n # 0 => os[1] = n + 1
      BY <1>4
    <2> HIDE DEF os
    <2>4. Carries(st, m, n, nx - 1)
      BY <2>2, <2>3 DEF Carries, OutputMsg, Follows
    <2>5. LastOut(st, ns) \in 0..HeadSeq(st)
      BY <1>1, LastOutIs
    <2>6. m \in Message
      BY <2>2, <2>5 DEF OutputMsg, Message
    <2>7. Chain(st, <<>>, n, n) /\ <<>> \in Seq(Message)
      BY ChainEmpty
    <2> HIDE DEF m
    <2>8. Chain(st, <<>> \o <<m>>, n, nx - 1)
      BY <1>1, <2>4, <2>6, <2>7, ChainAppend
    <2>9. <<>> \o <<m>> = <<m>>
      BY <2>6
    <2> QED
      BY <2>1, <2>8, <2>9
  <1> QED
    BY <1>3, <1>4

\* A reader that has the outputs up to n gets all the later ones.
LEMMA ReadFromChain ==
    ASSUME NEW st, NEW nx, Sound(st, nx), 0..HeadSeq(st) \subseteq Seqs,
           NEW a, NEW n \in Nat, UpTo(st, a, n)
    PROVE  Chain(st, Flushed(st, ReadFrom(st, a)), n, nx - 1)
  <1> DEFINE ns == ReadFrom(st, a)
  <1>1. HeadSeq(st) \in Nat /\ a \in Nat /\ a <= HeadSeq(st) /\ ns = (a + 1)..HeadSeq(st)
    BY SoundHas DEF UpTo, ReadFrom
  <1>2. Final(st, ns)
    BY <1>1 DEF Final
  <1> HIDE DEF ns
  <1>3. OutsAt(st, ns) = {} => n = nx - 1
    <2> SUFFICES ASSUME OutsAt(st, ns) = {} PROVE n = nx - 1
      OBVIOUS
    <2>1. ASSUME NEW i \in 1..HeadSeq(st), st.frames[i].kind = "out" PROVE i \in 1..a
      <3>1. i \notin ns
        BY <2>1 DEF OutsAt
      <3> QED
        BY <1>1, <3>1
    <2>2. \A i \in 1..a : i \in 1..HeadSeq(st)
      BY <1>1
    <2>3. HeadSeq(st) \in 0..HeadSeq(st)
      BY <1>1
    <2>4. UpTo(st, HeadSeq(st), n)
      BY <2>1, <2>2, <2>3 DEF UpTo
    <2> QED
      BY <2>4, UpToEnd
  <1>4. OutsAt(st, ns) # {} => OutsOf(st, ns)[1] = n + 1
    BY <1>1, <1>2, OutsFollow
  <1>5. Chain(st, Flushed(st, ns), n, nx - 1)
    BY <1>2, <1>3, <1>4, FlushedChain
  <1> QED
    BY <1>5 DEF ns

\* A reader that has none gets the newest of them, the newest one included.
LEMMA ReadTailChain ==
    ASSUME NEW st, NEW nx, Sound(st, nx), 0..HeadSeq(st) \subseteq Seqs
    PROVE  Chain(st, Flushed(st, ReadTail(st, TailOuts)), 0, nx - 1)
  <1> DEFINE ns == ReadTail(st, TailOuts)
             H == HeadSeq(st)
  <1>1. H \in Nat /\ nx \in Nat /\ nx >= 1 /\ WellFormed(st, MaxOut) /\ MaxOut \in Nat
        /\ TailOuts \in Nat /\ TailOuts >= 1
    BY SoundHas, Bounds DEF Sound
  <1>2. Final(st, ns)
    <2> SUFFICES ASSUME NEW i \in ns, NEW j \in i..H PROVE j \in ns
      BY DEF Final, ReadTail
    <2>1. i \in 1..H /\ Len(OutsOf(st, i..H)) <= TailOuts
      BY DEF ReadTail
    <2>2. j \in 1..H /\ i..H \subseteq 1..H /\ j..H \subseteq 1..H /\ j..H \subseteq i..H
      BY <1>1, <2>1
    <2>3. OutsAt(st, j..H) \subseteq OutsAt(st, i..H)
      BY <2>2 DEF OutsAt
    <2>4. /\ Len(OutsOf(st, i..H)) = Cardinality(OutsAt(st, i..H))
          /\ IsFiniteSet(OutsAt(st, i..H)) /\ Cardinality(OutsAt(st, i..H)) \in Nat
      BY <1>1, <2>2, OutsIs
    <2>5. /\ Len(OutsOf(st, j..H)) = Cardinality(OutsAt(st, j..H))
          /\ Cardinality(OutsAt(st, j..H)) \in Nat
      BY <1>1, <2>2, OutsIs
    <2>6. Cardinality(OutsAt(st, j..H)) <= Cardinality(OutsAt(st, i..H))
      BY <2>3, <2>4, FS_Subset
    <2>7. Len(OutsOf(st, j..H)) <= TailOuts
      BY <1>1, <2>1, <2>4, <2>5, <2>6
    <2> QED
      BY <2>2, <2>7 DEF ReadTail
  <1>3. OutsAt(st, ns) = {} => 0 = nx - 1
    <2> SUFFICES ASSUME nx - 1 # 0 PROVE OutsAt(st, ns) # {}
      OBVIOUS
    <2>1. nx - 1 \in 1..(nx - 1)
      BY <1>1
    <2>2. PICK p \in 1..H : At(st, p, nx - 1)
      BY <2>1, SoundHas
    <2>3. ASSUME NEW q \in OutsAt(st, p..H) PROVE q = p
      <3>1. q \in p..H /\ q \in 1..H /\ st.frames[q].kind = "out"
        BY <1>1 DEF OutsAt
      <3> DEFINE m == st.frames[q].n
      <3>2. At(st, q, m)
        BY <3>1, SoundHas
      <3> HIDE DEF m
      <3>3. m \in 1..(nx - 1) /\ ~(nx - 1 < m)
        BY <1>1, <3>2, SoundHas
      <3>4. ~(p < q)
        BY <2>2, <3>2, <3>3, SoundOrder
      <3> QED
        BY <1>1, <3>1, <3>4
    <2>4. p..H \subseteq 1..H /\ p \in p..H
      BY <1>1
    <2>5. Cardinality(OutsAt(st, p..H)) <= 1
      <3>1. OutsAt(st, p..H) \subseteq {p}
        BY <2>3
      <3>2. IsFiniteSet({p}) /\ Cardinality({p}) = 1
        BY FS_Singleton
      <3> QED
        BY <3>1, <3>2, FS_Subset
    <2>6. Len(OutsOf(st, p..H)) = Cardinality(OutsAt(st, p..H))
          /\ Cardinality(OutsAt(st, p..H)) \in Nat
      BY <1>1, <2>4, OutsIs
    <2>7. p \in ns
      BY <1>1, <2>5, <2>6 DEF ReadTail
    <2>8. st.frames[p].kind = "out"
      BY <2>2, SoundHas
    <2> HIDE DEF ns
    <2> QED
      BY <2>7, <2>8 DEF OutsAt
  <1> HIDE DEF ns
  <1>4. Chain(st, Flushed(st, ns), 0, nx - 1)
    BY <1>2, <1>3, FlushedChain
  <1> QED
    BY <1>4 DEF ns

LEMMA ChainConcat ==
    ASSUME NEW st, NEW w \in Seq(Message), NEW a, NEW b, Chain(st, w, a, b),
           NEW v \in Seq(Message), NEW d, Chain(st, v, b, d)
    PROVE  Chain(st, w \o v, a, d)
  <1>1. PICK t \in [0..Len(w) -> Nat] :
           /\ t[0] = a /\ t[Len(w)] = b
           /\ \A i \in 1..Len(w) : Carries(st, w[i], t[i - 1], t[i])
    BY DEF Chain
  <1>2. PICK u \in [0..Len(v) -> Nat] :
           /\ u[0] = b /\ u[Len(v)] = d
           /\ \A i \in 1..Len(v) : Carries(st, v[i], u[i - 1], u[i])
    BY DEF Chain
  <1> DEFINE k == Len(w)
             l == Len(v)
             x == w \o v
             y == [i \in 0..(k + l) |-> IF i <= k THEN t[i] ELSE u[i - k]]
  <1>3. /\ k \in Nat /\ l \in Nat /\ Len(x) = k + l
        /\ \A i \in 1..k : x[i] = w[i]
        /\ \A i \in 1..l : x[k + i] = v[i]
    OBVIOUS
  <1>4. \A i \in 1..(k + l) : i > k => x[i] = v[i - k]
    <2> HIDE DEF x, k, l
    <2> SUFFICES ASSUME NEW i \in 1..(k + l), i > k PROVE x[i] = v[i - k]
      OBVIOUS
    <2>1. i - k \in 1..l /\ k + (i - k) = i
      BY <1>3
    <2> QED
      BY <1>3, <2>1
  <1>5. /\ y \in [0..(k + l) -> Nat]
        /\ \A i \in 0..k : y[i] = t[i]
        /\ \A i \in 0..(k + l) : i >= k => y[i] = u[i - k]
    <2>1. \A i \in 0..(k + l) : i > k => i - k \in 0..l
      BY <1>3
    <2>2. u[0] = t[k] /\ k - k = 0
      BY <1>1, <1>2
    <2>3. y \in [0..(k + l) -> Nat]
      BY <2>1
    <2>4. \A i \in 0..k : i \in 0..(k + l) /\ i <= k
      BY <1>3
    <2>5. \A i \in 0..k : y[i] = t[i]
      BY <2>4
    <2>6. ASSUME NEW i \in 0..(k + l), i >= k PROVE y[i] = u[i - k]
      <3>1. CASE i = k
        BY <1>3, <2>2, <2>5, <3>1
      <3>2. CASE i # k
        <4>1. ~(i <= k)
          BY <1>3, <2>6, <3>2
        <4> QED
          BY <4>1
      <3> QED
        BY <3>1, <3>2
    <2> QED
      BY <2>3, <2>5, <2>6
  <1> HIDE DEF x, y
  <1>6. y[0] = a /\ y[k + l] = d
    <2>1. 0 \in 0..k /\ k + l \in 0..(k + l) /\ k + l >= k /\ (k + l) - k = l
      BY <1>3
    <2> QED
      BY <1>1, <1>2, <1>5, <2>1
  <1>7. ASSUME NEW i \in 1..(k + l) PROVE Carries(st, x[i], y[i - 1], y[i])
    <2>1. CASE i <= k
      <3>1. i \in 1..k /\ i \in 0..k /\ i - 1 \in 0..k
        BY <1>3, <2>1
      <3>2. Carries(st, w[i], t[i - 1], t[i])
        BY <1>1, <3>1
      <3> QED
        BY <1>3, <1>5, <3>1, <3>2
    <2>2. CASE ~(i <= k)
      <3>1. /\ i - k \in 1..l /\ i > k /\ i >= k /\ i - 1 >= k
            /\ i \in 0..(k + l) /\ i - 1 \in 0..(k + l)
            /\ (i - k) - 1 = (i - 1) - k
        BY <1>3, <2>2
      <3>2. Carries(st, v[i - k], u[(i - k) - 1], u[i - k])
        BY <1>2, <3>1
      <3>3. x[i] = v[i - k] /\ y[i] = u[i - k] /\ y[i - 1] = u[(i - 1) - k]
        BY <1>4, <1>5, <3>1
      <3> QED
        BY <3>1, <3>2, <3>3
    <2> QED
      BY <2>1, <2>2
  <1>8. Chain(st, x, a, d)
    BY <1>3, <1>5, <1>6, <1>7 DEF Chain
  <1> QED
    BY <1>8 DEF x

LEMMA ConsecutiveConcat ==
    ASSUME NEW s \in Seq(Nat), NEW u \in Seq(Nat), Consecutive(s), Consecutive(u),
           u # <<>>, s # <<>> => u[1] = Last(s) + 1
    PROVE  /\ Consecutive(s \o u) /\ Last(s \o u) = Last(u) /\ s \o u # <<>>
           /\ s # <<>> => (s \o u)[1] = s[1]
           /\ s = <<>> => s \o u = u
  <1> DEFINE k == Len(s)
             l == Len(u)
             x == s \o u
  <1>1. /\ k \in Nat /\ l \in Nat /\ Len(x) = k + l
        /\ \A i \in 1..k : x[i] = s[i]
        /\ \A i \in 1..l : x[k + i] = u[i]
        /\ x \in Seq(Nat)
    OBVIOUS
  <1>2. l # 0 /\ (s = <<>> <=> k = 0)
    BY EmptySeq
  <1>3. \A i \in 1..(k + l) : i > k => i - k \in 1..l /\ x[i] = u[i - k]
    <2> HIDE DEF x, k, l
    <2> SUFFICES ASSUME NEW i \in 1..(k + l), i > k PROVE i - k \in 1..l /\ x[i] = u[i - k]
      OBVIOUS
    <2>1. i - k \in 1..l /\ k + (i - k) = i
      BY <1>1
    <2> QED
      BY <1>1, <2>1
  <1>4. x # <<>>
    <2> HIDE DEF x, k, l
    <2>1. Len(x) # 0
      BY <1>1, <1>2
    <2> QED
      BY <2>1
  <1>5. s = <<>> => x = u
    OBVIOUS
  <1>l. Last(x) = x[k + l] /\ Last(u) = u[l] /\ Last(s) = s[k]
    BY <1>1 DEF Last
  <1> HIDE DEF x, k, l
  <1>6. x[k + l] = u[l]
    BY <1>1, <1>2
  <1>7. k # 0 => x[1] = s[1]
    BY <1>1
  <1>8. ASSUME NEW i \in 1..(k + l - 1) PROVE x[i + 1] = x[i] + 1
    <2>1. CASE i < k
      <3>1. i \in 1..(k - 1) /\ i \in 1..k /\ i + 1 \in 1..k
        BY <1>1, <2>1
      <3>2. s[i + 1] = s[i] + 1
        BY <3>1 DEF Consecutive, k
      <3> QED
        BY <1>1, <3>1, <3>2
    <2>2. CASE i = k
      <3>1. k \in 1..k /\ k # 0 /\ 1 \in 1..l
        BY <1>1, <1>2, <2>2
      <3>2. x[k] = s[k] /\ x[k + 1] = u[1] /\ u[1] = s[k] + 1
        BY <1>1, <1>2, <1>l, <3>1
      <3> QED
        BY <2>2, <3>2
    <2>3. CASE i > k
      <3>1. /\ i - k \in 1..(Len(u) - 1) /\ i \in 1..(k + l) /\ i + 1 \in 1..(k + l)
            /\ i + 1 > k /\ (i + 1) - k = (i - k) + 1
        BY <1>1, <2>3 DEF l
      <3>2. u[(i - k) + 1] = u[i - k] + 1
        BY <3>1 DEF Consecutive
      <3> QED
        BY <1>3, <2>3, <3>1, <3>2
    <2> QED
      BY <1>1, <2>1, <2>2, <2>3
  <1>9. Consecutive(x)
    BY <1>1, <1>8 DEF Consecutive
  <1> QED
    BY <1>2, <1>4, <1>5, <1>6, <1>7, <1>9, <1>l DEF x, k

LEMMA ConsecutiveRises ==
    ASSUME NEW s \in Seq(Nat), s # <<>>, Consecutive(s)
    PROVE  s[1] \in Nat /\ Last(s) \in Nat /\ s[1] <= Last(s)
  <1> DEFINE l == Len(s)
             S == {i \in 1..l : s[1] <= s[i]}
  <1>1. /\ l \in Nat /\ l # 0 /\ 1 \in 1..l /\ l \in 1..l
        /\ \A i \in 1..l : s[i] \in Nat
    <2>1. l \in Nat /\ l # 0 /\ \A i \in 1..l : s[i] \in Nat
      BY LenProperties, EmptySeq
    <2> QED
      BY <2>1
  <1>2. 1 \in S /\ S \subseteq Nat /\ S # {} /\ \A x \in S : x <= l
    BY <1>1
  <1> DEFINE m == Max(S)
  <1>3. m \in S /\ \A x \in S : x <= m
    <2> HIDE DEF S, l
    <2> QED
      BY <1>1, <1>2, MaxIs
  <1> HIDE DEF m
  <1>4. m \in 1..l /\ s[1] <= s[m]
    BY <1>3
  <1>5. m = l
    <2> SUFFICES ASSUME m # l PROVE FALSE
      OBVIOUS
    <2>1. m \in 1..(l - 1) /\ m + 1 \in 1..l /\ m \in Nat
      <3>1. l \in Nat /\ m \in 1..l
        BY <1>1, <1>4
      <3> HIDE DEF l, S
      <3> QED
        BY <3>1
    <2>2. s[m + 1] = s[m] + 1
      BY <2>1 DEF Consecutive
    <2>3. m + 1 \in S
      BY <1>1, <1>4, <2>1, <2>2
    <2>4. m + 1 <= m
      BY <1>3, <2>3
    <2> QED
      BY <2>1, <2>4
  <1> QED
    BY <1>1, <1>4, <1>5 DEF Last

LEMMA TabKept ==
    ASSUME NEW st, NEW new, Extends(st, new), NEW t, TabOrder(st, t)
    PROVE  TabOrder(new, t)
  BY AtKept DEF TabOrder

\* The write buffer goes to the screen: of the closure that asked for the frame, or
\* of the connection whose exit or error has come.
Emptied(t, c) == [Written(t, c) EXCEPT !.raf = NoConn]
LEMMA WrittenOrder ==
    ASSUME NEW st, NEW nx, Sound(st, nx), NEW t \in TabType, TabOrder(st, t),
           NEW c \in Conns, t.raf \in {NoConn, c},
           NEW u, u = Emptied(t, c)
    PROVE  /\ TabOrder(st, u) /\ Shown(u) = Held(t) /\ Held(u) = Held(t)
           /\ u.conn = t.conn /\ u.raf = NoConn /\ u.st = t.st /\ u.first = t.first
           /\ u \in TabType
  <1> DEFINE v == Written(t, c)
  <1>1. /\ v \in TabType
        /\ v.cursor = IF t.seq[c] > 0 THEN t.seq[c] ELSE t.cursor
        /\ v.screen = t.screen \o t.buf[c]
        /\ v.buf = [t.buf EXCEPT ![c] = <<>>]
        /\ v.seq = [t.seq EXCEPT ![c] = 0]
        /\ v.conn = t.conn /\ v.st = t.st /\ v.first = t.first
    BY WrittenTyped
  <1>2. /\ t.screen \in Seq(Nat) /\ t.buf \in [Conns -> Seq(Nat)] /\ t.seq \in [Conns -> Seqs]
        /\ t.buf[c] \in Seq(Nat) /\ t.seq[c] \in Nat
    BY Bounds DEF TabType, Seqs
  <1>n. NoConn \notin Conns
    BY DEF NoConn, Conns
  <1> HIDE DEF v
  <1>3. /\ u.cursor = v.cursor /\ u.screen = v.screen /\ u.buf = v.buf /\ u.seq = v.seq
        /\ u.conn = v.conn /\ u.st = v.st /\ u.first = v.first /\ u.raf = NoConn
        /\ u \in TabType
    BY <1>1 DEF Emptied, v, TabType
  <1>4. Held(u) = Shown(u)
    BY <1>3 DEF Held, Waits
  <1>5. \A d \in Conns : u.buf[d] = <<>> /\ u.seq[d] = 0
    <2>1. \A d \in Conns : d # c => t.buf[d] = <<>> /\ t.seq[d] = 0
      BY <1>n DEF TabOrder
    <2> QED
      BY <1>1, <1>2, <1>3, <2>1
  <1>6. CASE ~Waits(t)
    <2>1. t.buf[c] = <<>> /\ t.seq[c] = 0
      BY <1>6, <1>n DEF TabOrder, Waits
    <2>2. u.cursor = t.cursor /\ u.screen = t.screen
      BY <1>1, <1>2, <1>3, <2>1
    <2>3. Shown(u) = Held(t)
      BY <1>6, <2>2 DEF Held, Shown
    <2>4. TabOrder(st, u)
      BY <1>1, <1>3, <1>5, <2>2 DEF TabOrder, Waits
    <2> QED
      BY <1>1, <1>3, <1>4, <1>6, <2>3, <2>4
  <1>7. CASE Waits(t)
    <2> DEFINE b == t.buf[c]
    <2>0. t.raf = c
      BY <1>7 DEF Waits
    <2>1. /\ Follows(Shown(t), b) /\ At(st, t.seq[c], Last(b)) /\ ~t.first
          /\ t.conn # NoConn <=> t.st = "live"
      BY <1>7, <1>n, <2>0 DEF TabOrder
    <2>2. t.seq[c] # 0 /\ t.seq[c] \in Nat
      BY <1>2, <2>1 DEF At
    <2>3. u.cursor = t.seq[c] /\ u.screen = t.screen \o b
      <3>1. t.seq[c] > 0
        BY <2>2
      <3> QED
        BY <1>1, <1>3, <3>1
    <2>4. t.screen # <<>> => Consecutive(t.screen) /\ Shown(t) = Last(t.screen) /\ Shown(t) # 0
      <3> SUFFICES ASSUME t.screen # <<>>
                   PROVE  Consecutive(t.screen) /\ Shown(t) = Last(t.screen) /\ Shown(t) # 0
        OBVIOUS
      <3>1. Consecutive(t.screen) /\ At(st, t.cursor, Last(t.screen))
        BY DEF TabOrder
      <3>2. Last(t.screen) \in 1..(nx - 1)
        BY <3>1, SoundHas
      <3> QED
        BY <3>1, <3>2 DEF Shown
    <2>5. t.screen = <<>> => Consecutive(t.screen)
      BY DEF Consecutive
    <2>6. b # <<>> /\ Consecutive(b) /\ (t.screen # <<>> => b[1] = Last(t.screen) + 1)
      BY <2>1, <2>4 DEF Follows
    <2> HIDE DEF b
    <2>7. Consecutive(u.screen) /\ Last(u.screen) = Last(b) /\ u.screen # <<>>
      BY <1>2, <2>3, <2>4, <2>5, <2>6, ConsecutiveConcat DEF b
    <2>8. Shown(u) = Held(t)
      BY <1>7, <2>0, <2>7 DEF Shown, Held, b
    <2>9. TabOrder(st, u)
      BY <1>1, <1>3, <1>5, <2>1, <2>2, <2>3, <2>7 DEF TabOrder, Waits, b
    <2> QED
      BY <1>1, <1>3, <1>4, <2>3, <2>8, <2>9
  <1> QED
    BY <1>6, <1>7

(***************************************************************************)
(* That each action keeps the order.                                       *)
(***************************************************************************)
Ordered == CountInv /\ StoreInv /\ TypeInv /\ OrderInv

LEMMA OrderHas ==
    ASSUME Ordered
    PROVE  /\ Sound(store, next) /\ HeadSeq(store) \in Nat /\ 0..HeadSeq(store) \subseteq Seqs
           /\ next \in Nat /\ next >= 1
           /\ tab \in TabType /\ tab.conn \in Conns \cup {NoConn} /\ TabOrder(store, tab)
           /\ conn \in [Conns -> ConnType] /\ wire \in [Conns -> Seq(Message)]
           /\ micro \in Seq(MicroItem) /\ Len(micro) \in Nat
           /\ NoConn \notin Conns
           /\ MicroOrder /\ ConnsQuiet /\ LineInv
  <1>1. HeadSeq(store) \in Nat /\ 0..HeadSeq(store) \subseteq Seqs
    BY SeqsHold DEF Ordered
  <1>2. Sound(store, next)
    BY DEF Ordered, Sound, StoreInv, OrderInv
  <1>3. next \in Nat /\ next >= 1
    BY <1>2, SoundHas DEF Sound
  <1>4. tab.conn \in Conns \cup {NoConn}
    BY DEF Ordered, TypeInv, TabOK, TabType
  <1>5. micro \in Seq(MicroItem) /\ Len(micro) \in Nat
    BY LenProperties DEF Ordered, TypeInv, MicroOK
  <1>6. NoConn \notin Conns
    BY DEF NoConn, Conns
  <1> QED
    BY <1>1, <1>2, <1>3, <1>4, <1>5, <1>6 DEF Ordered, OrderInv, TypeInv, TabOK, ConnOK, WireOK

LEMMA SameStore ==
    ASSUME StoreInv, store' = store
    PROVE  Extends(store, store')
  BY SeqsHold DEF Extends

\* The transcript with one more frame.
LEMMA Grown ==
    ASSUME Ordered, NEW f, store' = AppendFrame(store, f),
           \/ f \in {InFrame, ExitFrame} /\ next' = next
           \/ f = OutFrame(next) /\ next' = next + 1 /\ next <= MaxOut
    PROVE  /\ Extends(store, store') /\ Complete(store', next')
           /\ HeadSeq(store') = HeadSeq(store) + 1
           /\ store'.frames[HeadSeq(store) + 1] = f
  <1>1. WellFormed(store, MaxOut) /\ MaxOut \in Nat /\ next \in Nat /\ Complete(store, next)
    BY OrderHas, Bounds DEF Sound
  <1>2. f \in Frames(MaxOut) /\ (f.kind # "out" => f.n = 0)
    BY <1>1 DEF InFrame, ExitFrame, OutFrame, Frames, Kinds
  <1>3. /\ HeadSeq(store) \in Nat /\ HeadSeq(store') = HeadSeq(store) + 1
        /\ \A i \in 1..HeadSeq(store) : store'.frames[i] = store.frames[i]
        /\ store'.frames[HeadSeq(store')] = f
    BY <1>1, <1>2, Appended
  <1>4. Extends(store, store')
    BY <1>3 DEF Extends
  <1>5. \A i \in 1..HeadSeq(store') : i \in 1..HeadSeq(store) \/ i = HeadSeq(store')
    BY <1>3
  <1>6. \A i \in 1..HeadSeq(store') : store'.frames[i].kind # "out" => store'.frames[i].n = 0
    BY <1>1, <1>2, <1>3, <1>5 DEF Complete
  <1>7. ASSUME NEW n \in 1..(next' - 1) PROVE \E i \in 1..HeadSeq(store') : At(store', i, n)
    <2>1. CASE n \in 1..(next - 1)
      <3>1. PICK i \in 1..HeadSeq(store) : At(store, i, n)
        BY <1>1, <2>1 DEF Complete
      <3>2. At(store', i, n)
        BY <1>4, <3>1, AtKept
      <3> QED
        BY <3>2 DEF At
    <2>2. CASE n \notin 1..(next - 1)
      <3>1. n = next /\ f = OutFrame(next)
        BY <1>1, <1>7, <2>2
      <3>2. HeadSeq(store') \in 1..HeadSeq(store')
        BY <1>3
      <3> QED
        BY <1>3, <3>1, <3>2 DEF At
    <2> QED
      BY <2>1, <2>2
  <1> QED
    BY <1>3, <1>4, <1>6, <1>7 DEF Complete

LEMMA LineKept ==
    ASSUME Ordered, Extends(store, store'), UNCHANGED tab,
           next' \in Nat, Len(micro') \in Nat,
           tab.conn # NoConn =>
              /\ conn'[tab.conn] = conn[tab.conn] /\ wire'[tab.conn] = wire[tab.conn]
              /\ tab.conn \in sess'.out => /\ tab.conn \in sess.out
                                           /\ Len(micro') + next = Len(micro) + next'
    PROVE  LineInv'
  <1> SUFFICES ASSUME tab.conn # NoConn PROVE LineOf(tab.conn)'
    BY DEF LineInv
  <1> DEFINE c == tab.conn
  <1>1. /\ LineOf(c) /\ c \in Conns /\ conn[c].batch \in Seq(Item) /\ next \in Nat
        /\ Len(micro) \in Nat
    BY OrderHas DEF LineInv, ConnType
  <1>2. Len(conn[c].batch) \in Nat
    BY <1>1, LenProperties
  <1>3. PICK n \in Nat : /\ Chain(store, wire[c], Held(tab), n)
                         /\ conn[c].pc = "open" => Live(c, n)
    BY <1>1 DEF LineOf
  <1>4. Chain(store', wire'[c], Held(tab), n)
    BY <1>3, ChainKept
  <1>5. conn'[c].pc = "open" => Live(c, n)'
    <2> SUFFICES ASSUME conn'[c].pc = "open" PROVE Live(c, n)'
      OBVIOUS
    <2>1. Live(c, n)
      BY <1>3
    <2>2. c \in sess'.out => n + Len(conn[c].batch) + Len(micro') = next' - 1
      <3> SUFFICES ASSUME c \in sess'.out
                   PROVE  n + Len(conn[c].batch) + Len(micro') = next' - 1
        OBVIOUS
      <3>1. n + Len(conn[c].batch) + Len(micro) = next - 1 /\ Len(micro') + next = Len(micro) + next'
        BY <2>1 DEF Live
      <3>2. \A l, m, x, m2, x2 \in Nat :
               n + l + m = x - 1 /\ m2 + x = m + x2 => n + l + m2 = x2 - 1
        OBVIOUS
      <3>3. next \in Nat /\ next' \in Nat /\ Len(micro) \in Nat /\ Len(micro') \in Nat
        BY <1>1
      <3> QED
        BY <1>2, <3>1, <3>2, <3>3
    <2>3. conn'[c] = conn[c] /\ tab' = tab
      OBVIOUS
    <2>4. UpTo(store', conn[c].sent, n) /\ ~conn[c].closed
      BY <2>1, AtKept DEF Live
    <2>5. \A i \in 1..Len(conn[c].batch) : /\ conn[c].batch[i].n = n + i
                                           /\ At(store', conn[c].batch[i].seq, n + i)
      BY <2>1, AtKept DEF Live
    <2> QED
      BY <2>2, <2>3, <2>4, <2>5 DEF Live
  <1>6. Held(tab)' = Held(tab)
    OBVIOUS
  <1> QED
    BY <1>1, <1>4, <1>5 DEF LineOf

\* A connection that has not subscribed waits with an empty batch.
LEMMA QuietKept ==
    ASSUME Ordered, tab'.conn = tab.conn,
           \A d \in Conns :
              /\ d # tab.conn => wire'[d] = wire[d]
              /\ conn'[d].pc \in {"none", "route", "waking"} =>
                    /\ conn[d].pc \in {"none", "route", "waking"}
                    /\ conn'[d].batch = conn[d].batch
              /\ conn'[d].pc = "none" => conn[d].pc = "none" /\ conn'[d].closed = conn[d].closed
    PROVE  ConnsQuiet'
  BY OrderHas DEF ConnsQuiet

LEMMA OutputOrder ==
    ASSUME Ordered, StoreInv', TypeInv', Output
    PROVE  OrderInv'
  <1>1. /\ IsAlive /\ next <= MaxOut
        /\ store' = AppendFrame(store, OutFrame(next)) /\ next' = next + 1
        /\ micro' = IF sess.out = {} THEN micro
                    ELSE Append(micro, [to |-> sess.out, seq |-> HeadSeq(store) + 1, n |-> next])
        /\ sess' = sess /\ conn' = conn /\ wire' = wire /\ tab' = tab
    BY DEF Output
  <1>2. /\ Extends(store, store') /\ Complete(store', next')
        /\ HeadSeq(store') = HeadSeq(store) + 1
        /\ store'.frames[HeadSeq(store) + 1] = OutFrame(next)
    BY <1>1, Grown
  <1>3. /\ next \in Nat /\ micro \in Seq(MicroItem) /\ Len(micro) \in Nat
        /\ HeadSeq(store) \in Nat /\ MicroOrder
    BY OrderHas
  <1> DEFINE it == [to |-> sess.out, seq |-> HeadSeq(store) + 1, n |-> next]
  <1>4. CASE sess.out = {}
    <2>1. micro = <<>> /\ micro' = <<>>
      BY <1>1, <1>3, <1>4 DEF MicroOrder, IsAlive
    <2>2. MicroOrder'
      BY <2>1 DEF MicroOrder
    <2>3. LineInv'
      BY <1>1, <1>2, <1>3, <1>4, LineKept
    <2> QED
      BY <1>1, <1>2, <2>2, <2>3, QuietKept, OrderHas, TabKept DEF OrderInv
  <1>5. CASE sess.out # {}
    <2>1. micro' = Append(micro, it)
      BY <1>1, <1>5
    <2> HIDE DEF it
    <2>2. /\ Len(micro') = Len(micro) + 1 /\ micro'[Len(micro) + 1] = it
          /\ \A i \in 1..Len(micro) : micro'[i] = micro[i]
      BY <1>3, <2>1
    <2>3. LineInv'
      BY <1>1, <1>2, <1>3, <2>2, LineKept
    <2>4. ASSUME NEW i \in 1..Len(micro')
          PROVE  /\ micro'[i].n + Len(micro') = (next' - 1) + i
                 /\ At(store', micro'[i].seq, micro'[i].n)
                 /\ sess.out \subseteq micro'[i].to
                 /\ \A c \in micro'[i].to : conn[c].pc = "open" => c \in sess.out
      <3>1. CASE i = Len(micro) + 1
        <4>1. micro'[i] = it /\ it.n = next /\ it.seq = HeadSeq(store) + 1 /\ it.to = sess.out
          BY <2>2, <3>1 DEF it
        <4>2. next + Len(micro') = (next' - 1) + i
          BY <1>1, <1>3, <2>2, <3>1
        <4>3. At(store', HeadSeq(store) + 1, next)
          BY <1>2, <1>3 DEF At
        <4> QED
          BY <4>1, <4>2, <4>3
      <3>2. CASE i # Len(micro) + 1
        <4>1. i \in 1..Len(micro)
          BY <1>3, <2>2, <3>2
        <4>2. /\ micro[i].n + Len(micro) = (next - 1) + i
              /\ At(store, micro[i].seq, micro[i].n)
              /\ sess.out \subseteq micro[i].to
              /\ \A c \in micro[i].to : conn[c].pc = "open" => c \in sess.out
          BY <1>3, <4>1 DEF MicroOrder
        <4>3. micro[i].n \in Nat
          <5>1. micro[i] \in MicroItem
            BY <1>3, <4>1, LenProperties
          <5> QED
            BY <5>1 DEF MicroItem
        <4>4. micro[i].n + Len(micro') = (next' - 1) + i
          <5>1. \A x, l, m, j \in Nat : m + l = (x - 1) + j => m + (l + 1) = ((x + 1) - 1) + j
            OBVIOUS
          <5>2. i \in Nat /\ Len(micro) \in Nat /\ next \in Nat
            BY <1>3, <4>1
          <5>3. next' = next + 1 /\ Len(micro') = Len(micro) + 1
            BY <1>1, <2>2
          <5>4. micro[i].n + Len(micro) = (next - 1) + i
            BY <4>2
          <5> HIDE DEF it
          <5> QED
            BY <4>3, <5>1, <5>2, <5>3, <5>4
        <4> QED
          BY <1>2, <2>2, <4>1, <4>2, <4>4, AtKept
      <3> QED
        BY <3>1, <3>2
    <2>5. MicroOrder'
      BY <1>1, <1>5, <2>4 DEF MicroOrder
    <2> QED
      BY <1>1, <1>2, <2>3, <2>5, QuietKept, OrderHas, TabKept DEF OrderInv
  <1> QED
    BY <1>4, <1>5


LEMMA NoMicrotasks == micro' = <<>> => MicroOrder'
  BY DEF MicroOrder

\* Steps that change the life of the session and nothing on the way to the screen.
LEMMA LifeOrder ==
    ASSUME Ordered, StoreInv', TypeInv', Stop \/ Resume \/ ClientInput
    PROVE  OrderInv'
  <1>1. /\ next' = next /\ micro = <<>> /\ micro' = micro
        /\ conn' = conn /\ wire' = wire /\ tab' = tab
        /\ sess'.out \subseteq sess.out
    BY DEF Stop, Resume, ClientInput, Fresh
  <1>2. Extends(store, store') /\ Complete(store', next')
    <2>1. CASE Stop \/ Resume
      <3>1. store' = store /\ StoreInv
        BY <2>1 DEF Stop, Resume, Ordered
      <3> QED
        BY <1>1, <3>1, SameStore, OrderHas DEF Sound
    <2>2. CASE ClientInput
      <3>1. store' = AppendFrame(store, InFrame)
        BY <2>2 DEF ClientInput
      <3> QED
        BY <1>1, <3>1, Grown
    <2> QED
      BY <2>1, <2>2
  <1>3. LineInv'
    BY <1>1, <1>2, LineKept, OrderHas
  <1>4. ConnsQuiet'
    BY <1>1, QuietKept
  <1> QED
    BY <1>1, <1>2, <1>3, <1>4, NoMicrotasks, OrderHas, TabKept DEF OrderInv

\* A tab whose connection has gone keeps what it has shown and what it holds.
LEMMA LeftOrder ==
    ASSUME NEW st, NEW t, TabOrder(st, t), NEW u,
           u.cursor = t.cursor, u.screen = t.screen, u.buf = t.buf, u.seq = t.seq,
           u.raf = t.raf, u.first = t.first, u.conn = NoConn, u.st # "live"
    PROVE  TabOrder(st, u)
  BY DEF TabOrder, Shown, Waits

LEMMA DisconnectOrder ==
    ASSUME Ordered, StoreInv', TypeInv', Disconnect
    PROVE  OrderInv'
  <1>1. /\ micro = <<>> /\ tab.st = "live" /\ tab' = Retry(tab)
        /\ wire' = [wire EXCEPT ![tab.conn] = <<>>]
        /\ store' = store /\ next' = next /\ sess' = sess /\ micro' = micro /\ conn' = conn
    BY DEF Disconnect
  <1>2. /\ tab'.conn = NoConn /\ tab'.st # "live"
        /\ tab'.cursor = tab.cursor /\ tab'.screen = tab.screen /\ tab'.buf = tab.buf
        /\ tab'.seq = tab.seq /\ tab'.raf = tab.raf /\ tab'.first = tab.first
    BY <1>1, RetryTyped, OrderHas
  <1>3. TabOrder(store', tab')
    BY <1>1, <1>2, LeftOrder, OrderHas
  <1>4. ConnsQuiet'
    <2>1. ConnsQuiet /\ wire \in [Conns -> Seq(Message)]
      BY OrderHas
    <2>2. \A d \in Conns : wire'[d] = <<>>
      BY <1>1, <2>1 DEF ConnsQuiet
    <2> QED
      BY <1>1, <2>1, <2>2 DEF ConnsQuiet
  <1>5. LineInv'
    BY <1>2 DEF LineInv
  <1>6. Complete(store', next')
    BY <1>1, OrderHas DEF Sound
  <1> QED
    BY <1>1, <1>3, <1>4, <1>5, <1>6, NoMicrotasks DEF OrderInv

LEMMA CrashOrder ==
    ASSUME Ordered, StoreInv', TypeInv', Crash, "framesLost" \notin Faults
    PROVE  OrderInv'
  <1>1. /\ micro = <<>> /\ micro' = micro
        /\ \/ CanReattach(store') /\ next' = ReattachCursor(store') + 1
           \/ next' = next
        /\ conn' = [c \in Conns |-> IF conn[c].pc = "none" THEN conn[c] ELSE Ended(conn[c])]
        /\ wire' = [c \in Conns |-> <<>>]
        /\ tab' = IF tab.st = "live" THEN [tab EXCEPT !.conn = NoConn, !.st = "retry"] ELSE tab
    BY DEF Crash
  <1>2. store' = Reloaded(FlushedTo(store, HeadSeq(store)))
        /\ HeadSeq(store) \in Len(store.disk)..HeadSeq(store)
    BY DEF Crash
  <1>3. /\ WellFormed(store, MaxOut) /\ MaxOut \in Nat /\ Sound(store, next)
        /\ HeadSeq(store) \in Nat /\ next \in Nat /\ next >= 1
    BY OrderHas, Bounds DEF Sound
  <1>4. /\ WellFormed(store', MaxOut)
        /\ HeadSeq(store') = HeadSeq(store)
        /\ \A i \in 1..HeadSeq(store) : store'.frames[i] = store.frames[i]
    BY <1>2, <1>3, Cut
  <1>5. Extends(store, store')
    BY <1>3, <1>4 DEF Extends
  <1>6. next' <= next /\ next' \in Nat
    <2>1. CASE next' = next
      BY <1>3, <2>1
    <2>2. CASE next' = ReattachCursor(store') + 1
      <3> DEFINE c == ReattachCursor(store')
      <3>1. /\ c \in 0..MaxOut
            /\ c = 0 \/ \E i \in 1..HeadSeq(store') : store'.frames[i].n = c
        BY <1>3, <1>4, CursorIs
      <3> HIDE DEF c
      <3>2. CASE c = 0
        BY <1>3, <2>2, <3>2 DEF c
      <3>3. CASE c # 0
        <4>1. PICK i \in 1..HeadSeq(store) : store.frames[i].n = c
          BY <1>4, <3>1, <3>3
        <4>2. store.frames[i].kind = "out"
          BY <1>3, <3>3, <4>1 DEF Sound, Complete
        <4>3. At(store, i, c)
          BY <1>3, <4>1, <4>2, SoundHas
        <4>4. c \in 1..(next - 1)
          BY <1>3, <4>3, SoundHas
        <4> QED
          BY <1>3, <2>2, <4>4 DEF c
      <3> QED
        BY <3>2, <3>3
    <2> QED
      BY <1>1, <2>1, <2>2
  <1>7. Complete(store', next')
    <2>1. Complete(store, next)
      BY <1>3 DEF Sound
    <2>2. \A n \in 1..(next' - 1) : n \in 1..(next - 1)
      <3>1. \A x, y \in Nat : x <= y => \A n \in 1..(x - 1) : n \in 1..(y - 1)
        OBVIOUS
      <3> QED
        BY <1>3, <1>6, <3>1
    <2> QED
      BY <1>4, <1>5, <2>1, <2>2, AtKept DEF Complete
  <1>8. tab'.conn = NoConn /\ TabOrder(store', tab')
    <2>1. TabOrder(store, tab) /\ tab \in TabType
      BY OrderHas
    <2>2. CASE tab.st = "live"
      <3>1. tab' = [tab EXCEPT !.conn = NoConn, !.st = "retry"]
        BY <1>1, <2>2
      <3>2. /\ tab'.conn = NoConn /\ tab'.st = "retry"
            /\ tab'.cursor = tab.cursor /\ tab'.screen = tab.screen /\ tab'.buf = tab.buf
            /\ tab'.seq = tab.seq /\ tab'.raf = tab.raf /\ tab'.first = tab.first
        BY <2>1, <3>1 DEF TabType
      <3>3. TabOrder(store, tab')
        BY <2>1, <3>2, LeftOrder
      <3> QED
        BY <1>5, <3>2, <3>3, TabKept
    <2>3. CASE tab.st # "live"
      <3>1. tab' = tab /\ tab.conn = NoConn
        BY <1>1, <2>1, <2>3 DEF TabOrder
      <3> QED
        BY <1>5, <2>1, <3>1, TabKept
    <2> QED
      BY <2>2, <2>3
  <1>9. ConnsQuiet'
    <2>1. \A d \in Conns : conn'[d].pc \in {"none", "route", "waking"} => conn'[d] = conn[d]
      <3> SUFFICES ASSUME NEW d \in Conns, conn'[d].pc \in {"none", "route", "waking"}
                   PROVE  conn'[d] = conn[d]
        OBVIOUS
      <3>1. conn[d] \in ConnType
        BY OrderHas
      <3>2. conn[d].pc # "none" => conn'[d].pc = "ended"
        BY <1>1, <3>1, EndedTyped
      <3> QED
        BY <1>1, <3>2
    <2>2. \A d \in Conns : wire'[d] = <<>>
      BY <1>1
    <2> QED
      BY <2>1, <2>2, OrderHas DEF ConnsQuiet
  <1>10. LineInv'
    BY <1>8 DEF LineInv
  <1> QED
    BY <1>1, <1>7, <1>8, <1>9, <1>10, NoMicrotasks DEF OrderInv

LEMMA FrameOrder ==
    ASSUME Ordered, StoreInv', TypeInv', AnimationFrame
    PROVE  OrderInv'
  <1>1. /\ micro = <<>> /\ micro' = micro /\ tab.raf # NoConn
        /\ tab' = [Written(tab, tab.raf) EXCEPT !.raf = NoConn]
        /\ store' = store /\ next' = next /\ sess' = sess /\ conn' = conn /\ wire' = wire
    BY DEF AnimationFrame
  <1>2. tab \in TabType /\ tab.raf \in Conns /\ Sound(store, next) /\ TabOrder(store, tab)
    BY <1>1, OrderHas DEF TabType
  <1>3. /\ TabOrder(store, tab') /\ Held(tab') = Held(tab)
        /\ tab'.conn = tab.conn /\ tab'.raf = NoConn
    <2> DEFINE c == tab.raf
    <2>1. /\ c \in Conns /\ tab.raf \in {NoConn, c}
          /\ tab' = Emptied(tab, c)
      BY <1>1, <1>2 DEF Emptied
    <2> HIDE DEF c
    <2> QED
      BY <1>2, <2>1, WrittenOrder
  <1>4. LineInv'
    <2> SUFFICES ASSUME tab.conn # NoConn PROVE LineOf(tab.conn)'
      BY <1>3 DEF LineInv
    <2>1. LineOf(tab.conn)
      BY OrderHas DEF LineInv
    <2>2. conn[tab.conn].pc \notin {"none", "route", "waking"}
      BY <1>1, <2>1 DEF LineOf
    <2>3. PICK n \in Nat : /\ Chain(store, wire[tab.conn], Held(tab), n)
                           /\ conn[tab.conn].pc = "open" => Live(tab.conn, n)
      BY <2>1 DEF LineOf
    <2>4. conn[tab.conn].pc = "open" => Live(tab.conn, n)'
      BY <1>1, <1>3, <2>3 DEF Live
    <2>5. Chain(store', wire'[tab.conn], Held(tab'), n)
      BY <1>1, <1>3, <2>3
    <2> QED
      BY <1>1, <1>3, <2>2, <2>4, <2>5 DEF LineOf
  <1>5. ConnsQuiet'
    BY <1>1, <1>3, QuietKept
  <1>6. Complete(store', next')
    BY <1>1, OrderHas DEF Sound
  <1> QED
    BY <1>1, <1>3, <1>4, <1>5, <1>6, NoMicrotasks DEF OrderInv


LEMMA ShownIs ==
    ASSUME NEW st, NEW nx, Sound(st, nx), NEW t, TabOrder(st, t)
    PROVE  /\ Shown(t) \in Nat
           /\ t.screen # <<>> => Shown(t) = Last(t.screen) /\ Shown(t) # 0
                                 /\ At(st, t.cursor, Shown(t))
           /\ t.screen = <<>> => Shown(t) = 0 /\ t.cursor = 0
           /\ Waits(t) => Held(t) = Last(t.buf[t.raf]) /\ Held(t) # 0
           /\ ~Waits(t) => Held(t) = Shown(t)
           /\ Held(t) \in Nat
           /\ t.raf = NoConn => ~Waits(t)
  <1>1. t.screen # <<>> => At(st, t.cursor, Last(t.screen))
    BY DEF TabOrder
  <1>2. t.screen # <<>> => Last(t.screen) \in 1..(nx - 1) /\ nx \in Nat
    BY <1>1, SoundHas
  <1>3. t.screen = <<>> => t.cursor = 0
    BY DEF TabOrder
  <1>4. Waits(t) => At(st, t.seq[t.raf], Last(t.buf[t.raf]))
    BY DEF TabOrder
  <1>5. Waits(t) => Last(t.buf[t.raf]) \in 1..(nx - 1) /\ nx \in Nat
    BY <1>4, SoundHas
  <1>6. t.raf = NoConn => ~Waits(t)
    BY DEF Waits
  <1> QED
    BY <1>1, <1>2, <1>3, <1>5, <1>6 DEF Shown, Held

LEMMA ConnectOrder ==
    ASSUME Ordered, StoreInv', TypeInv', NEW c \in Conns, Connect(c),
           "hiddenTab" \notin Faults
    PROVE  OrderInv'
  <1>1. /\ micro = <<>> /\ micro' = micro /\ tab.conn = NoConn /\ tab.raf = NoConn
        /\ conn[c].pc = "none"
        /\ conn' = [conn EXCEPT ![c].pc = "route",
                                ![c].after = IF tab.first THEN 0 ELSE tab.cursor]
        /\ tab' = [tab EXCEPT !.conn = c, !.st = "live", !.first = FALSE]
        /\ store' = store /\ next' = next /\ sess' = sess /\ wire' = wire
    BY DEF Connect
  <1>2. /\ tab \in TabType /\ Sound(store, next) /\ TabOrder(store, tab)
        /\ conn \in [Conns -> ConnType] /\ ConnsQuiet /\ NoConn \notin Conns
    BY OrderHas
  <1>3. /\ tab'.conn = c /\ tab'.st = "live" /\ ~tab'.first /\ tab'.cursor = tab.cursor
        /\ tab'.screen = tab.screen /\ tab'.buf = tab.buf /\ tab'.seq = tab.seq
        /\ tab'.raf = NoConn
    BY <1>1, <1>2 DEF TabType
  <1>4. /\ conn'[c].pc = "route" /\ conn'[c].closed = conn[c].closed
        /\ conn'[c].batch = conn[c].batch
        /\ conn'[c].after = IF tab.first THEN 0 ELSE tab.cursor
        /\ \A d \in Conns : d # c => conn'[d] = conn[d]
    BY <1>1, <1>2 DEF ConnType
  <1>5. /\ wire[c] = <<>> /\ ~conn[c].closed /\ conn[c].batch = <<>>
        /\ \A d \in Conns : wire[d] = <<>>
    BY <1>1, <1>2 DEF ConnsQuiet
  <1>6. conn'[c].after = tab'.cursor
    BY <1>2, <1>3, <1>4 DEF TabOrder
  <1>7. TabOrder(store', tab')
    BY <1>1, <1>2, <1>3 DEF TabOrder, Shown, Waits
  <1>8. Held(tab') \in Nat
    BY <1>1, <1>2, <1>3, <1>7, ShownIs
  <1>9. LineInv'
    <2>1. Chain(store', wire'[c], Held(tab'), Held(tab'))
      BY <1>1, <1>5, <1>8, ChainEmpty
    <2>2. LineOf(c)'
      BY <1>1, <1>3, <1>4, <1>5, <1>6, <1>8, <2>1 DEF LineOf
    <2> QED
      BY <1>3, <2>2 DEF LineInv
  <1>10. ConnsQuiet'
    BY <1>1, <1>2, <1>3, <1>4, <1>5 DEF ConnsQuiet
  <1>11. Complete(store', next')
    BY <1>1, <1>2 DEF Sound
  <1> QED
    BY <1>1, <1>7, <1>9, <1>10, <1>11, NoMicrotasks DEF OrderInv

LEMMA WakeOrder ==
    ASSUME Ordered, StoreInv', TypeInv', NEW c \in Conns, Wake(c)
    PROVE  OrderInv'
  <1>1. /\ micro = <<>> /\ micro' = micro /\ conn[c].pc = "route"
        /\ conn' = [conn EXCEPT ![c].pc = "waking"]
        /\ store' = store /\ next' = next /\ sess' = sess /\ wire' = wire /\ tab' = tab
    BY DEF Wake
  <1>2. /\ conn \in [Conns -> ConnType] /\ Sound(store, next) /\ TabOrder(store, tab)
        /\ Extends(store, store') /\ next' \in Nat /\ Len(micro') \in Nat
    BY <1>1, OrderHas, SameStore DEF Ordered
  <1>3. /\ conn'[c].pc = "waking" /\ conn'[c].closed = conn[c].closed
        /\ conn'[c].batch = conn[c].batch /\ conn'[c].after = conn[c].after
        /\ \A d \in Conns : d # c => conn'[d] = conn[d]
    BY <1>1, <1>2 DEF ConnType
  <1>4. ConnsQuiet'
    BY <1>1, <1>3, QuietKept
  <1>5. LineInv'
    <2>1. CASE tab.conn = c
      <3>1. LineOf(c)
        BY <2>1, OrderHas DEF LineInv
      <3>2. PICK n \in Nat : Chain(store, wire[c], Held(tab), n)
        BY <3>1 DEF LineOf
      <3>3. /\ Chain(store', wire'[c], Held(tab'), n) /\ conn'[c].pc # "open"
            /\ conn'[c].pc # "none"
        BY <1>1, <1>3, <3>2
      <3>4. wire[c] = <<>> /\ tab.raf = NoConn /\ ~conn[c].closed /\ conn[c].after = tab.cursor
        BY <1>1, <3>1 DEF LineOf
      <3>5. LineOf(c)'
        BY <1>1, <1>3, <3>3, <3>4 DEF LineOf
      <3> QED
        BY <1>1, <2>1, <3>5 DEF LineInv
    <2>2. CASE tab.conn # c
      <3>1. tab.conn # NoConn => tab.conn \in Conns /\ conn'[tab.conn] = conn[tab.conn]
        BY <1>3, <2>2, OrderHas
      <3> QED
        BY <1>1, <1>2, <3>1, LineKept
    <2> QED
      BY <2>1, <2>2
  <1> QED
    BY <1>1, <1>2, <1>4, <1>5, NoMicrotasks DEF OrderInv, Sound

LEMMA WakeFailsOrder ==
    ASSUME Ordered, StoreInv', TypeInv', NEW c \in Conns, WakeFails(c)
    PROVE  OrderInv'
  <1>1. /\ micro = <<>> /\ micro' = micro /\ conn[c].pc = "waking"
        /\ conn' = [conn EXCEPT ![c] = Ended(@)]
        /\ wire' = Send(wire, c, <<Msg("error")>>)
        /\ store' = store /\ next' = next /\ sess' = sess /\ tab' = tab
    BY DEF WakeFails
  <1>2. /\ conn \in [Conns -> ConnType] /\ Sound(store, next) /\ TabOrder(store, tab)
        /\ Extends(store, store') /\ next' \in Nat /\ Len(micro') \in Nat
        /\ wire \in [Conns -> Seq(Message)]
    BY <1>1, OrderHas, SameStore DEF Ordered
  <1>3. /\ conn'[c].pc = "ended"
        /\ \A d \in Conns : d # c => conn'[d] = conn[d]
    BY <1>1, <1>2, EndedTyped
  <1>4. /\ \A d \in Conns : d # c => wire'[d] = wire[d]
        /\ wire'[c] = IF conn[c].closed \/ tab.conn # c THEN wire[c]
                      ELSE wire[c] \o <<Msg("error")>>
    <2>1. <<Msg("error")>> \in Seq(Message) /\ WireOK
      BY SmallMessages, <1>2 DEF WireOK
    <2> QED
      BY <1>1, <2>1, SendTyped
  <1>5. ConnsQuiet'
    BY <1>1, <1>3, <1>4, QuietKept
  <1>6. LineInv'
    <2>1. CASE tab.conn = c
      <3>1. LineOf(c)
        BY <2>1, OrderHas DEF LineInv
      <3>2. PICK n \in Nat : Chain(store, wire[c], Held(tab), n)
        BY <3>1 DEF LineOf
      <3>3. ~conn[c].closed
        BY <1>1, <3>1 DEF LineOf
      <3>4. wire'[c] = wire[c] \o <<Msg("error")>>
        BY <1>4, <2>1, <3>3
      <3>5. Msg("error") \in Message /\ Carries(store, Msg("error"), n, n)
        BY SmallMessages DEF Carries, Msg
      <3>6. wire[c] \in Seq(Message)
        BY <1>2
      <3>7. Chain(store, wire'[c], Held(tab), n)
        BY <3>2, <3>4, <3>5, <3>6, ChainAppend
      <3>8. LineOf(c)'
        BY <1>1, <1>3, <3>7 DEF LineOf
      <3> QED
        BY <1>1, <2>1, <3>8 DEF LineInv
    <2>2. CASE tab.conn # c
      <3>1. tab.conn # NoConn => /\ tab.conn \in Conns /\ conn'[tab.conn] = conn[tab.conn]
                                 /\ wire'[tab.conn] = wire[tab.conn]
        BY <1>3, <1>4, <2>2, OrderHas
      <3> QED
        BY <1>1, <1>2, <3>1, LineKept
    <2> QED
      BY <2>1, <2>2
  <1> QED
    BY <1>1, <1>2, <1>5, <1>6, NoMicrotasks DEF OrderInv, Sound

LEMMA CloseOrder ==
    ASSUME Ordered, StoreInv', TypeInv', NEW c \in Conns, CloseSeen(c)
    PROVE  OrderInv'
  <1>1. /\ micro = <<>> /\ micro' = micro /\ tab.conn # c
        /\ conn[c].pc \in {"route", "waking", "open"}
        /\ \/ conn[c].pc = "open" /\ conn' = [conn EXCEPT ![c] = Ended(@)]
              /\ sess' = CleanedUp(c)
           \/ conn[c].pc # "open" /\ conn' = [conn EXCEPT ![c].closed = TRUE] /\ sess' = sess
        /\ store' = store /\ next' = next /\ tab' = tab /\ wire' = wire
    BY DEF CloseSeen
  <1>2. /\ conn \in [Conns -> ConnType] /\ Sound(store, next) /\ TabOrder(store, tab)
        /\ Extends(store, store') /\ next' \in Nat /\ Len(micro') \in Nat
    BY <1>1, OrderHas, SameStore DEF Ordered
  <1>3. /\ \A d \in Conns : d # c => conn'[d] = conn[d]
        /\ conn'[c].pc # "none"
        /\ conn'[c].pc \in {"route", "waking"} => /\ conn[c].pc \in {"route", "waking"}
                                                  /\ conn'[c].batch = conn[c].batch
    <2>1. CASE conn[c].pc = "open"
      BY <1>1, <1>2, <2>1, EndedTyped
    <2>2. CASE conn[c].pc # "open"
      <3>1. conn' = [conn EXCEPT ![c].closed = TRUE]
        BY <1>1, <2>2
      <3>2. conn'[c].pc = conn[c].pc /\ conn'[c].batch = conn[c].batch
            /\ \A d \in Conns : d # c => conn'[d] = conn[d]
        BY <1>2, <3>1 DEF ConnType
      <3> QED
        BY <1>1, <3>2
    <2> QED
      BY <2>1, <2>2
  <1>4. sess'.out \subseteq sess.out
    <2>1. sess \in SessType /\ sess.out \subseteq sess.exit /\ Cardinality(sess.out) <= MaxListeners
      BY DEF Ordered, TypeInv, SessOK
    <2>2. Without(sess, {c}).out = sess.out \ {c}
      BY <2>1, WithoutTyped, FS_Singleton
    <2> QED
      BY <1>1, <2>2 DEF CleanedUp
  <1>5. ConnsQuiet'
    BY <1>1, <1>3, QuietKept
  <1>6. LineInv'
    <2>1. tab.conn # NoConn => tab.conn \in Conns /\ conn'[tab.conn] = conn[tab.conn]
      BY <1>1, <1>3, OrderHas
    <2> QED
      BY <1>1, <1>2, <1>4, <2>1, LineKept
  <1> QED
    BY <1>1, <1>2, <1>5, <1>6, NoMicrotasks DEF OrderInv, Sound


LEMMA ReadTailLast ==
    ASSUME NEW st, NEW nx, Sound(st, nx), HeadSeq(st) # 0
    PROVE  HeadSeq(st) \in ReadTail(st, TailOuts)
  <1> DEFINE H == HeadSeq(st)
  <1>1. /\ H \in Nat /\ WellFormed(st, MaxOut) /\ MaxOut \in Nat
        /\ TailOuts \in Nat /\ TailOuts >= 1
    BY SoundHas, Bounds DEF Sound
  <1>2. H \in 1..H /\ H..H \subseteq 1..H /\ H..H = {H}
    BY <1>1
  <1>3. Cardinality(OutsAt(st, H..H)) <= 1
    <2>1. OutsAt(st, H..H) \subseteq {H}
      BY <1>2 DEF OutsAt
    <2>2. IsFiniteSet({H}) /\ Cardinality({H}) = 1
      BY FS_Singleton
    <2> QED
      BY <2>1, <2>2, FS_Subset
  <1>4. Len(OutsOf(st, H..H)) = Cardinality(OutsAt(st, H..H))
        /\ Cardinality(OutsAt(st, H..H)) \in Nat
    BY <1>1, <1>2, OutsIs
  <1>5. Len(OutsOf(st, H..H)) <= TailOuts
    BY <1>1, <1>3, <1>4
  <1> QED
    BY <1>2, <1>5 DEF ReadTail

\* What a tab is sent when it subscribes continues what it has shown, and lastSentSeq
\* is then the end of the transcript.
LEMMA ReplayChain ==
    ASSUME Ordered, NEW k \in ConnType, tab.raf = NoConn, k.after = tab.cursor
    PROVE  /\ Chain(store, Flushed(store, Replayed(k)), Held(tab), next - 1)
           /\ SentAfterReplay(k, Replayed(k)) = HeadSeq(store)
           /\ Held(tab) \in Nat
  <1> DEFINE a == k.after
             H == HeadSeq(store)
             s == SentAfterReplay(k, Replayed(k))
  <1>1. /\ Sound(store, next) /\ 0..HeadSeq(store) \subseteq Seqs /\ TabOrder(store, tab)
        /\ H \in Nat /\ StoreInv
    BY OrderHas DEF Ordered
  <1>2. /\ Held(tab) = Shown(tab) /\ Shown(tab) \in Nat
        /\ a # 0 => At(store, a, Shown(tab))
        /\ a = 0 => Shown(tab) = 0
    <2>1. tab.cursor = 0 <=> tab.screen = <<>>
      BY <1>1, ShownIs DEF TabOrder
    <2> QED
      BY <1>1, <2>1, ShownIs
  <1>3. /\ s \in {a} \cup Replayed(k) /\ \A x \in {a} \cup Replayed(k) : x <= s
        /\ Replayed(k) \subseteq 1..H /\ s \in Nat /\ a \in Nat
    <2>1. s \in {a} \cup Replayed(k) /\ s \in Seqs /\ \A x \in {a} \cup Replayed(k) : x <= s
      BY <1>1, SentTyped
    <2>2. Replayed(k) \subseteq 1..H
      BY <1>1, ReplayedIs
    <2>3. \A x \in Seqs : x \in Nat
      BY Bounds DEF Seqs
    <2>4. a \in Seqs
      BY DEF ConnType
    <2> QED
      BY <2>1, <2>2, <2>3, <2>4
  <1> HIDE DEF s
  <1>4. CASE a # 0
    <2>1. Replayed(k) = ReadFrom(store, a) /\ ReadFrom(store, a) = (a + 1)..H
      <3>1. a > 0
        BY <1>3, <1>4
      <3> QED
        BY <3>1 DEF Replayed, ReadFrom
    <2>2. UpTo(store, a, Shown(tab)) /\ a \in 1..H
      BY <1>1, <1>2, <1>4, UpToAt DEF At
    <2>3. Chain(store, Flushed(store, ReadFrom(store, a)), Shown(tab), next - 1)
      BY <1>1, <1>2, <2>2, ReadFromChain
    <2>4. s = H
      <3>1. s \in 1..H
        BY <1>3, <2>2
      <3>2. H = a \/ H \in (a + 1)..H
        BY <1>1, <2>2
      <3>3. H <= s
        BY <1>3, <2>1, <3>2
      <3> QED
        BY <1>1, <3>1, <3>3
    <2> QED
      BY <1>2, <2>1, <2>3, <2>4 DEF s
  <1>5. CASE a = 0
    <2>1. Replayed(k) = ReadTail(store, TailOuts)
      <3>1. ~(a > 0)
        BY <1>5
      <3> QED
        BY <3>1 DEF Replayed
    <2>2. Chain(store, Flushed(store, ReadTail(store, TailOuts)), 0, next - 1)
      BY <1>1, ReadTailChain
    <2>3. s = H
      <3>1. s \in 0..H
        BY <1>1, <1>3, <1>5
      <3>2. H # 0 => H <= s
        BY <1>1, <1>3, <2>1, ReadTailLast
      <3> QED
        BY <1>1, <3>1, <3>2
    <2> QED
      BY <1>2, <1>5, <2>1, <2>2, <2>3 DEF s
  <1> QED
    BY <1>4, <1>5

\* When session.history is sent instead, the tab has shown the newest output.
LEMMA ReplayMsgsChain ==
    ASSUME Ordered, NEW k \in ConnType, tab.raf = NoConn, k.after = tab.cursor,
           NEW rs \in ReplayMsgs(k)
    PROVE  Chain(store, rs, Held(tab), next - 1)
  <1>1. /\ Chain(store, Flushed(store, Replayed(k)), Held(tab), next - 1)
        /\ Held(tab) \in Nat
    BY ReplayChain
  <1>2. CASE rs = Flushed(store, Replayed(k))
    BY <1>1, <1>2
  <1>3. CASE rs # Flushed(store, Replayed(k))
    <2>1. Replayed(k) = {} /\ \E h \in Histories : rs = <<HistoryMsg(h)>>
      BY <1>3 DEF ReplayMsgs
    <2>2. PICK h \in Histories : rs = <<HistoryMsg(h)>>
      BY <2>1
    <2>3. /\ Sound(store, next) /\ next \in Nat /\ StoreInv /\ HeadSeq(store) \in Nat
      BY OrderHas DEF Ordered
    <2>4. Held(tab) = next - 1
      <3>1. WellFormed(store, MaxOut) /\ MaxOut \in Nat /\ {} \subseteq 1..HeadSeq(store)
        BY <2>3, Bounds DEF Sound
      <3>2. OutsAt(store, {}) = {}
        BY DEF OutsAt
      <3>3. Flushed(store, Replayed(k)) = <<>>
        BY <2>1, <3>1, <3>2, OutsIs DEF Flushed
      <3> QED
        BY <1>1, <3>3, ChainEmpty
    <2>5. \A x \in ToSet(h) : x <= next - 1
      <3> SUFFICES ASSUME NEW x \in ToSet(h) PROVE x <= next - 1
        OBVIOUS
      <3>1. PICK i \in 1..HeadSeq(store) :
               store.frames[i].kind = "out" /\ store.frames[i].n = x
        BY <2>3, HistoriesAre
      <3>3. At(store, i, x)
        BY <2>3, <3>1, SoundHas
      <3>2. x \in 1..(next - 1)
        BY <2>3, <3>3, SoundHas
      <3> QED
        BY <2>3, <3>2
    <2> DEFINE m == HistoryMsg(h)
    <2>6. m \in Message /\ Carries(store, m, Held(tab), Held(tab))
      <3>1. m \in Message
        BY <2>3, HistoriesAre, SmallMessages DEF HistoryMsg, Message
      <3> QED
        BY <2>4, <2>5, <3>1 DEF Carries, HistoryMsg
    <2> HIDE DEF m
    <2>7. Chain(store, <<>>, Held(tab), Held(tab)) /\ <<>> \in Seq(Message)
      BY <1>1, ChainEmpty
    <2>8. Chain(store, <<>> \o <<m>>, Held(tab), Held(tab))
      BY <1>1, <2>6, <2>7, ChainAppend
    <2>9. <<>> \o <<m>> = <<m>>
      BY <2>6
    <2> QED
      BY <2>2, <2>4, <2>8, <2>9 DEF m
  <1> QED
    BY <1>2, <1>3

LEMMA SubscribeOrder ==
    ASSUME Ordered, StoreInv', TypeInv', NEW c \in Conns, Subscribe(c)
    PROVE  OrderInv'
  <1> DEFINE k == conn[c]
             ns == Replayed(k)
  <1>r. PICK rs \in ReplayMsgs(k) : wire' = Send(wire, c, rs \o <<Msg("ready")>>)
    BY DEF Subscribe
  <1> DEFINE ms == rs \o <<Msg("ready")>>
  <1>1. /\ micro = <<>> /\ micro' = micro /\ k.pc \in {"route", "waking"}
        /\ conn' = [conn EXCEPT ![c].pc = "open", ![c].sent = SentAfterReplay(k, ns)]
        /\ wire' = Send(wire, c, ms)
        /\ store' = store /\ next' = next /\ tab' = tab
    BY <1>r DEF Subscribe
  <1>s. sess'.out \subseteq sess.out \cup {c}
    <2>1. sess' = [sess EXCEPT !.subs = @ + 1, !.exit = @ \cup {c}, !.out = Listening(@, c)]
      BY DEF Subscribe
    <2>2. sess \in SessType
      BY DEF Ordered, TypeInv, SessOK
    <2>3. sess'.out = Listening(sess.out, c)
      BY <2>1, <2>2 DEF SessType
    <2> QED
      BY <2>3 DEF Listening
  <1>2. /\ conn \in [Conns -> ConnType] /\ Sound(store, next) /\ TabOrder(store, tab)
        /\ Extends(store, store') /\ next \in Nat /\ Len(micro) = 0 /\ next >= 1
        /\ wire \in [Conns -> Seq(Message)] /\ k \in ConnType /\ StoreInv
        /\ 0..HeadSeq(store) \subseteq Seqs /\ WellFormed(store, MaxOut)
    BY <1>1, OrderHas, SameStore DEF Ordered, Sound
  <1>3. /\ conn'[c].pc = "open" /\ conn'[c].closed = k.closed /\ conn'[c].batch = k.batch
        /\ conn'[c].sent = SentAfterReplay(k, ns)
        /\ \A d \in Conns : d # c => conn'[d] = conn[d]
    BY <1>1, <1>2 DEF ConnType
  <1>4. rs \in Seq(Message) /\ Msg("ready") \in Message /\ ms \in Seq(Message)
    <2>1. rs \in Seq(Message) /\ Msg("ready") \in Message
      BY <1>2, ReplayTyped, SmallMessages
    <2> QED
      BY <2>1
  <1> HIDE DEF k, ns, ms
  <1>5. /\ \A d \in Conns : d # c => wire'[d] = wire[d]
        /\ wire'[c] = IF conn[c].closed \/ tab.conn # c THEN wire[c] ELSE wire[c] \o ms
    BY <1>1, <1>2, <1>4, SendTyped DEF WireOK
  <1>6. ConnsQuiet'
    BY <1>1, <1>3, <1>5, QuietKept
  <1>7. LineInv'
    <2>1. CASE tab.conn = c
      <3>1. /\ LineOf(c) /\ wire[c] = <<>> /\ tab.raf = NoConn /\ ~k.closed
            /\ k.after = tab.cursor
        BY <1>1, <2>1, OrderHas DEF LineInv, LineOf, k
      <3>2. /\ Chain(store, rs, Held(tab), next - 1)
            /\ conn'[c].sent = HeadSeq(store)
        <4>1. rs \in ReplayMsgs(k)
          BY DEF k
        <4> QED
          BY <1>2, <1>3, <3>1, <4>1, ReplayChain, ReplayMsgsChain DEF ns
      <3>3. Carries(store, Msg("ready"), next - 1, next - 1) /\ next - 1 \in Nat
        BY <1>2 DEF Carries, Msg
      <3>4. Chain(store, ms, Held(tab), next - 1)
        BY <1>4, <3>2, <3>3, ChainAppend DEF ms
      <3>5. wire'[c] = ms
        <4>1. wire'[c] = <<>> \o ms
          BY <1>5, <2>1, <3>1 DEF k
        <4> QED
          BY <1>4, <4>1
      <3>n. PICK n \in Nat : n = next - 1
        BY <3>3
      <3>6. Live(c, n)'
        <4>1. conn'[c].batch = <<>> /\ Len(conn'[c].batch) = 0 /\ ~conn'[c].closed
          BY <1>1, <1>3, <3>1, OrderHas DEF ConnsQuiet, k
        <4>2. UpTo(store', conn'[c].sent, n)
          BY <1>1, <1>2, <3>2, <3>n, UpToEnd
        <4>3. n + Len(conn'[c].batch) + Len(micro') = next' - 1
          BY <1>1, <1>2, <3>n, <4>1
        <4>4. \A i \in 1..Len(conn'[c].batch) : FALSE
          BY <4>1
        <4> QED
          BY <1>1, <4>1, <4>2, <4>3, <4>4 DEF Live
      <3>7. LineOf(c)'
        <4>1. Chain(store', wire'[c], Held(tab'), n)
          BY <1>1, <3>4, <3>5, <3>n
        <4> QED
          BY <1>3, <3>6, <4>1 DEF LineOf
      <3> QED
        BY <1>1, <2>1, <3>7 DEF LineInv
    <2>2. CASE tab.conn # c
      <3>1. tab.conn # NoConn => /\ tab.conn \in Conns /\ conn'[tab.conn] = conn[tab.conn]
                                 /\ wire'[tab.conn] = wire[tab.conn]
                                 /\ tab.conn \in sess'.out => tab.conn \in sess.out
        BY <1>3, <1>5, <1>s, <2>2, OrderHas
      <3> QED
        BY <1>1, <1>2, <3>1, LineKept
    <2> QED
      BY <2>1, <2>2
  <1> QED
    BY <1>1, <1>2, <1>6, <1>7, NoMicrotasks DEF OrderInv, Sound


\* flushLiveBatch finds nothing in the batch that has been sent already.
LEMMA FlushOrder ==
    ASSUME Ordered, StoreInv', TypeInv', NEW c \in Conns, FlushBatch(c)
    PROVE  OrderInv'
  <1> DEFINE k == conn[c]
             b == k.batch
             fresh == {i \in 1..Len(b) : b[i].seq > k.sent}
             new == Picked(b, fresh)
             last == IF new = <<>> THEN k.sent ELSE Last(new).seq
             outs == [i \in 1..Len(new) |-> new[i].n]
  <1>1. /\ micro = <<>> /\ micro' = micro /\ k.pc = "open" /\ b # <<>>
        /\ conn' = [conn EXCEPT ![c].batch = <<>>, ![c].sent = last]
        /\ wire' = IF new = <<>> THEN wire ELSE Send(wire, c, <<OutputMsg(outs, last)>>)
        /\ store' = store /\ next' = next /\ tab' = tab /\ sess' = sess
    BY DEF FlushBatch
  <1>2. /\ conn \in [Conns -> ConnType] /\ Sound(store, next) /\ TabOrder(store, tab)
        /\ Extends(store, store') /\ next \in Nat /\ Len(micro) = 0
        /\ wire \in [Conns -> Seq(Message)] /\ k \in ConnType
        /\ b \in Seq(Item) /\ fresh \subseteq 1..Len(b)
    BY <1>1, OrderHas, SameStore DEF Ordered, ConnType
  <1>3. /\ \A d \in Conns : d # c => conn'[d] = conn[d]
        /\ conn'[c].pc = "open" /\ conn'[c].closed = k.closed
        /\ conn'[c].batch = <<>> /\ conn'[c].sent = last
    <2> HIDE DEF last
    <2> QED
      BY <1>1, <1>2 DEF ConnType
  <1>4. /\ outs \in Seq(Nat) /\ Len(outs) = Len(new)
        /\ new # <<>> => Last(new).seq \in Seqs
    <2>1. k \in ConnType /\ fresh \subseteq 1..Len(k.batch) /\ new = Picked(k.batch, fresh)
      BY <1>2
    <2> HIDE DEF fresh, new
    <2>2. /\ new # <<>> => Last(new).seq \in Seqs
          /\ [i \in 1..Len(new) |-> new[i].n] \in Seq(Nat)
          /\ Len([i \in 1..Len(new) |-> new[i].n]) = Len(new)
      BY <2>1, BatchTyped
    <2> QED
      BY <2>2
  <1>5. new # <<>> => OutputMsg(outs, last) \in Message
    BY <1>4 DEF OutputMsg, Message
  <1> HIDE DEF fresh, new, last, outs
  <1>6. /\ \A d \in Conns : d # c => wire'[d] = wire[d]
        /\ tab.conn # c => wire'[c] = wire[c]
        /\ new # <<>> /\ tab.conn = c /\ ~k.closed =>
              wire'[c] = wire[c] \o <<OutputMsg(outs, last)>>
    <2>1. CASE new = <<>>
      BY <1>1, <2>1
    <2>2. CASE new # <<>>
      <3> DEFINE ms == <<OutputMsg(outs, last)>>
      <3>1. ms \in Seq(Message) /\ WireOK
        BY <1>2, <1>5, <2>2 DEF WireOK
      <3>2. wire' = Send(wire, c, ms)
        BY <1>1, <2>2
      <3> HIDE DEF ms
      <3>3. /\ \A d \in Conns : d # c => wire'[d] = wire[d]
            /\ wire'[c] = IF conn[c].closed \/ tab.conn # c THEN wire[c] ELSE wire[c] \o ms
        BY <3>1, <3>2, SendTyped
      <3> QED
        BY <3>3 DEF ms
    <2> QED
      BY <2>1, <2>2
  <1>7. ConnsQuiet'
    BY <1>1, <1>3, <1>6, QuietKept
  <1>8. LineInv'
    <2>1. CASE tab.conn # c
      <3>1. tab.conn # NoConn => /\ tab.conn \in Conns /\ conn'[tab.conn] = conn[tab.conn]
                                 /\ wire'[tab.conn] = wire[tab.conn]
        BY <1>3, <1>6, <2>1, OrderHas
      <3>2. next' \in Nat /\ Len(micro') \in Nat
        BY <1>1, <1>2
      <3> QED
        BY <1>1, <1>2, <3>1, <3>2, LineKept
    <2>2. CASE tab.conn = c
      <3>1. LineOf(c)
        BY <2>2, OrderHas DEF LineInv
      <3>2. PICK n \in Nat : Chain(store, wire[c], Held(tab), n) /\ Live(c, n)
        BY <1>1, <3>1 DEF LineOf
      <3>3. /\ ~k.closed /\ UpTo(store, k.sent, n)
            /\ \A i \in 1..Len(b) : b[i].n = n + i /\ At(store, b[i].seq, n + i)
            /\ c \in sess.out => n + Len(b) + Len(micro) = next - 1
        BY <3>2 DEF Live
      <3>4. Len(b) \in Nat /\ Len(b) # 0 /\ Len(b) \in 1..Len(b) /\ Last(b) = b[Len(b)]
        <4>1. Len(b) \in Nat /\ Len(b) # 0
          BY <1>1, <1>2, LenProperties, EmptySeq
        <4> QED
          BY <4>1 DEF Last
      <3>5. fresh = 1..Len(b)
        <4>1. ASSUME NEW i \in 1..Len(b) PROVE b[i].seq > k.sent
          <5>1. At(store, b[i].seq, n + i) /\ i \in Nat /\ i >= 1
            BY <3>3, <3>4
          <5>2. store.frames[b[i].seq].kind = "out" /\ store.frames[b[i].seq].n = n + i
                /\ b[i].seq \in Nat /\ b[i].seq >= 1
            <6>1. \A s, m : At(store, s, m) => /\ s \in 1..HeadSeq(store) /\ HeadSeq(store) \in Nat
                                              /\ store.frames[s].kind = "out"
                                              /\ store.frames[s].n = m
              BY <1>2, SoundHas
            <6>2. \A s \in 1..HeadSeq(store) : HeadSeq(store) \in Nat => s \in Nat /\ s >= 1
              OBVIOUS
            <6> HIDE DEF b, k
            <6> QED
              BY <5>1, <6>1, <6>2
          <5>3. k.sent \in Nat
            BY <1>2, <3>3, SoundHas DEF UpTo
          <5>4. SUFFICES ASSUME b[i].seq \in 1..k.sent PROVE FALSE
            BY <5>2, <5>3
          <5>5. n + i <= n
            BY <3>3, <5>2, <5>4 DEF UpTo
          <5> QED
            BY <5>1, <5>5
        <4> QED
          BY <4>1 DEF fresh
      <3>6. new = b
        BY <1>2, <3>5, PickedAll DEF new
      <3>7. last = b[Len(b)].seq
        BY <1>1, <3>4, <3>6 DEF last
      <3>8. /\ Len(outs) = Len(b) /\ \A i \in 1..Len(b) : outs[i] = n + i
        BY <1>4, <3>3, <3>6 DEF outs
      <3>9. At(store, last, n + Len(b)) /\ n + Len(b) \in Nat
        <4>1. At(store, b[Len(b)].seq, n + Len(b))
          <5> HIDE DEF b, k
          <5> QED
            BY <3>3, <3>4
        <4> QED
          BY <3>4, <3>7, <4>1
      <3>10. Carries(store, OutputMsg(outs, last), n, n + Len(b))
        <4>1. Consecutive(outs)
          <5>1. ASSUME NEW i \in 1..(Len(b) - 1) PROVE outs[i + 1] = outs[i] + 1
            <6>1. i \in 1..Len(b) /\ i + 1 \in 1..Len(b) /\ i \in Nat
              BY <3>4
            <6>2. outs[i] = n + i /\ outs[i + 1] = n + (i + 1)
              BY <3>8, <6>1
            <6> QED
              BY <6>1, <6>2
          <5> QED
            BY <3>8, <5>1 DEF Consecutive
        <4>2. outs # <<>> /\ outs[1] = n + 1 /\ Last(outs) = n + Len(b)
          <5>1. 1 \in 1..Len(b)
            BY <3>4
          <5>2. outs # <<>>
            BY <1>4, <3>4, <3>8, EmptySeq
          <5> QED
            BY <3>4, <3>8, <5>1, <5>2 DEF Last
        <4> QED
          BY <3>9, <4>1, <4>2 DEF Carries, OutputMsg, Follows
      <3>11. Chain(store, wire'[c], Held(tab), n + Len(b))
        <4>1. wire'[c] = wire[c] \o <<OutputMsg(outs, last)>> /\ OutputMsg(outs, last) \in Message
          BY <1>1, <1>5, <1>6, <2>2, <3>3, <3>6
        <4>2. wire[c] \in Seq(Message)
          BY <1>2
        <4> QED
          BY <3>2, <3>9, <3>10, <4>1, <4>2, ChainAppend
      <3>n. PICK x \in Nat : x = n + Len(b)
        BY <3>9
      <3>12. Live(c, x)'
        <4>1. Len(conn'[c].batch) = 0 /\ ~conn'[c].closed
          BY <1>3, <3>3
        <4>2. UpTo(store', conn'[c].sent, x)
          BY <1>1, <1>2, <1>3, <3>9, <3>n, UpToAt
        <4>3. c \in sess'.out => x + Len(conn'[c].batch) + Len(micro') = next' - 1
          <5>1. SUFFICES ASSUME c \in sess'.out
                         PROVE  x + Len(conn'[c].batch) + Len(micro') = next' - 1
            OBVIOUS
          <5>2. n + Len(b) + Len(micro) = next - 1
            BY <1>1, <3>3, <5>1
          <5>3. Len(micro') = 0 /\ Len(micro) = 0 /\ next' = next
            BY <1>1, <1>2
          <5> QED
            BY <1>2, <3>4, <3>n, <4>1, <5>2, <5>3
        <4>4. \A i \in 1..Len(conn'[c].batch) : FALSE
          BY <4>1
        <4> QED
          BY <1>1, <4>1, <4>2, <4>3, <4>4 DEF Live
      <3>13. LineOf(c)'
        <4>1. Chain(store', wire'[c], Held(tab'), x)
          BY <1>1, <3>11, <3>n
        <4> QED
          BY <1>3, <3>12, <4>1 DEF LineOf
      <3> QED
        BY <1>1, <2>2, <3>13 DEF LineInv
    <2> QED
      BY <2>1, <2>2
  <1> QED
    BY <1>1, <1>2, <1>7, <1>8, NoMicrotasks DEF OrderInv, Sound


LEMMA QueueIs ==
    ASSUME NEW k \in ConnType, NEW it, NEW u, u = Queue(k, it)
    PROVE  /\ u.pc = k.pc /\ u.closed = k.closed /\ u.after = k.after /\ u.sent = k.sent
           /\ k.pc # "open" => u = k
           /\ k.pc = "open" /\ ~(it.seq <= k.sent) => u.batch = Append(k.batch, it)
  BY DEF Queue, ConnType

\* The output listener drops no output: it has not been sent yet.
LEMMA MicroTaskOrder ==
    ASSUME Ordered, StoreInv', TypeInv', RunMicro
    PROVE  OrderInv'
  <1> DEFINE m == micro[1]
             it == [seq |-> m.seq, n |-> m.n]
  <1>1. /\ micro # <<>> /\ micro' = Tail(micro)
        /\ conn' = [d \in Conns |-> IF d \in m.to THEN Queue(conn[d], it) ELSE conn[d]]
        /\ store' = store /\ next' = next /\ tab' = tab /\ sess' = sess /\ wire' = wire
    BY DEF RunMicro
  <1>2. /\ conn \in [Conns -> ConnType] /\ Sound(store, next) /\ TabOrder(store, tab)
        /\ next \in Nat /\ micro \in Seq(MicroItem) /\ MicroOrder /\ ConnsQuiet
        /\ Extends(store, store')
    BY <1>1, OrderHas, SameStore DEF Ordered
  <1>3. /\ Len(micro) \in Nat /\ Len(micro) >= 1 /\ Len(micro') = Len(micro) - 1
        /\ \A i \in 1..Len(micro') : i + 1 \in 1..Len(micro) /\ micro'[i] = micro[i + 1]
        /\ m \in MicroItem /\ 1 \in 1..Len(micro)
    BY <1>1, <1>2
  <1>4. \A i \in 1..Len(micro) : micro[i].n \in Nat
    <2>1. \A i \in 1..Len(micro) : micro[i] \in MicroItem
      BY <1>2, LenProperties
    <2> QED
      BY <2>1 DEF MicroItem
  <1>5. ASSUME NEW d \in Conns
        PROVE  /\ conn'[d].pc = conn[d].pc /\ conn'[d].closed = conn[d].closed
               /\ conn'[d].after = conn[d].after /\ conn'[d].sent = conn[d].sent
               /\ conn[d].pc # "open" \/ d \notin m.to => conn'[d] = conn[d]
               /\ d \in m.to => conn'[d] = Queue(conn[d], it)
    <2> HIDE DEF m, it
    <2>1. conn[d] \in ConnType
      BY <1>2
    <2>2. CASE d \in m.to
      <3>1. conn'[d] = Queue(conn[d], it)
        BY <1>1, <2>2
      <3> QED
        BY <2>1, <2>2, <3>1, QueueIs
    <2>3. CASE d \notin m.to
      BY <1>1, <2>3
    <2> QED
      BY <2>2, <2>3
  <1>6. MicroOrder'
    <2>1. ASSUME NEW i \in 1..Len(micro')
          PROVE  /\ micro'[i].n + Len(micro') = (next' - 1) + i
                 /\ At(store', micro'[i].seq, micro'[i].n)
                 /\ sess'.out \subseteq micro'[i].to
                 /\ \A c \in micro'[i].to : conn'[c].pc = "open" => c \in sess'.out
      <3>1. i + 1 \in 1..Len(micro) /\ micro'[i] = micro[i + 1]
        BY <1>3
      <3>2. /\ micro[i + 1].n + Len(micro) = (next - 1) + (i + 1)
            /\ At(store, micro[i + 1].seq, micro[i + 1].n)
            /\ sess.out \subseteq micro[i + 1].to
            /\ \A c \in micro[i + 1].to : conn[c].pc = "open" => c \in sess.out
        BY <1>2, <3>1 DEF MicroOrder
      <3>3. micro'[i].n + Len(micro') = (next' - 1) + i
        <4>1. \A x, l, k, j \in Nat : k + l = (x - 1) + (j + 1) => k + (l - 1) = (x - 1) + j
          OBVIOUS
        <4>2. micro[i + 1].n \in Nat /\ i \in Nat /\ next \in Nat /\ Len(micro) \in Nat
          BY <1>2, <1>3, <1>4, <3>1
        <4>3. Len(micro') = Len(micro) - 1 /\ next' = next /\ micro'[i] = micro[i + 1]
          BY <1>1, <1>3, <3>1
        <4>4. micro[i + 1].n + Len(micro) = (next - 1) + (i + 1)
          BY <3>2
        <4>5. micro[i + 1].n + (Len(micro) - 1) = (next - 1) + i
          BY <4>1, <4>2, <4>4
        <4> QED
          BY <4>3, <4>5
      <3>4. micro[i + 1].to \subseteq Conns
        <4>1. micro[i + 1] \in MicroItem
          BY <1>2, <3>1, LenProperties
        <4> QED
          BY <4>1 DEF MicroItem
      <3>5. \A c \in micro[i + 1].to : conn'[c].pc = conn[c].pc
        BY <1>5, <3>4
      <3> QED
        BY <1>1, <3>1, <3>2, <3>3, <3>5
    <2>2. micro' # <<>> /\ IsAlive' => sess'.out # {}
      BY <1>1, <1>2 DEF MicroOrder, IsAlive
    <2> QED
      BY <2>1, <2>2 DEF MicroOrder
  <1>7. ConnsQuiet'
    BY <1>1, <1>2, <1>5 DEF ConnsQuiet
  <1>8. LineInv'
    <2> SUFFICES ASSUME tab.conn # NoConn PROVE LineOf(tab.conn)'
      BY <1>1 DEF LineInv
    <2> DEFINE c == tab.conn
    <2>1. LineOf(c) /\ c \in Conns
      BY OrderHas DEF LineInv
    <2>2. PICK n \in Nat : /\ Chain(store, wire[c], Held(tab), n)
                           /\ conn[c].pc = "open" => Live(c, n)
      BY <2>1 DEF LineOf
    <2>3. conn'[c].pc = "open" => Live(c, n)'
      <3> SUFFICES ASSUME conn[c].pc = "open" PROVE Live(c, n)'
        BY <1>5, <2>1
      <3> DEFINE b == conn[c].batch
      <3>1. /\ ~conn[c].closed /\ UpTo(store, conn[c].sent, n)
            /\ \A i \in 1..Len(b) : b[i].n = n + i /\ At(store, b[i].seq, n + i)
            /\ c \in sess.out => n + Len(b) + Len(micro) = next - 1
        BY <2>2 DEF Live
      <3>2. b \in Seq(Item) /\ Len(b) \in Nat /\ conn[c] \in ConnType
        BY <1>2, <2>1, LenProperties DEF ConnType
      <3>3. CASE c \notin m.to
        <4>1. conn'[c] = conn[c]
          BY <1>5, <2>1, <3>3
        <4>2. c \notin sess.out
          BY <1>2, <1>3, <3>3 DEF MicroOrder
        <4> QED
          BY <1>1, <3>1, <4>1, <4>2 DEF Live
      <3>4. CASE c \in m.to
        <4>1. /\ c \in sess.out /\ m.n + Len(micro) = (next - 1) + 1
              /\ At(store, m.seq, m.n)
          BY <1>2, <1>3, <3>4 DEF MicroOrder
        <4>2. m.n = n + (Len(b) + 1) /\ m.n \in Nat
          <5>1. n + Len(b) + Len(micro) = next - 1
            BY <3>1, <4>1
          <5>2. m.n \in Nat
            BY <1>3, <1>4
          <5>3. \A k, l, x, y \in Nat : /\ k + x = (y - 1) + 1
                                        /\ n + l + x = y - 1
                                        => k = n + (l + 1)
            OBVIOUS
          <5>4. next \in Nat /\ Len(micro) \in Nat /\ Len(b) \in Nat
            BY <1>2, <1>3, <3>2
          <5>5. m.n + Len(micro) = (next - 1) + 1
            BY <4>1
          <5> HIDE DEF m, b
          <5> QED
            BY <5>1, <5>2, <5>3, <5>4, <5>5
        <4>3. ~(m.seq <= conn[c].sent)
          <5>1. m.seq \in 1..HeadSeq(store) /\ store.frames[m.seq].kind = "out"
                /\ store.frames[m.seq].n = m.n /\ HeadSeq(store) \in Nat
            BY <1>2, <4>1, SoundHas
          <5>2. conn[c].sent \in Nat
            BY <1>2, <3>1, SoundHas DEF UpTo
          <5>3. SUFFICES ASSUME m.seq \in 1..conn[c].sent PROVE FALSE
            BY <5>1, <5>2
          <5>4. m.n <= n
            BY <3>1, <5>1, <5>3 DEF UpTo
          <5> HIDE DEF m, b
          <5> QED
            BY <3>2, <4>2, <5>4
        <4>4. conn'[c].batch = Append(b, it)
          <5>1. conn'[c] = Queue(conn[c], it)
            BY <1>5, <2>1, <3>4
          <5>2. ~(it.seq <= conn[c].sent)
            BY <4>3
          <5> HIDE DEF it
          <5> QED
            BY <3>2, <5>1, <5>2, QueueIs
        <4>5. it.n = m.n /\ it.seq = m.seq
          OBVIOUS
        <4> HIDE DEF m, it, b
        <4>6. /\ Len(conn'[c].batch) = Len(b) + 1 /\ conn'[c].batch[Len(b) + 1] = it
              /\ \A i \in 1..Len(b) : conn'[c].batch[i] = b[i]
          BY <3>2, <4>4
        <4>7. ASSUME NEW i \in 1..Len(conn'[c].batch)
              PROVE  /\ conn'[c].batch[i].n = n + i
                     /\ At(store, conn'[c].batch[i].seq, n + i)
          <5>1. CASE i = Len(b) + 1
            BY <4>1, <4>2, <4>5, <4>6, <5>1
          <5>2. CASE i # Len(b) + 1
            <6>1. i \in 1..Len(b)
              BY <3>2, <4>6, <5>2
            <6> QED
              BY <3>1, <4>6, <6>1
          <5> QED
            BY <5>1, <5>2
        <4>8. n + Len(conn'[c].batch) + Len(micro') = next' - 1
          <5>1. \A l, x, y \in Nat : n + l + x = y - 1 => n + (l + 1) + (x - 1) = y - 1
            OBVIOUS
          <5>2. next \in Nat /\ Len(micro) \in Nat /\ Len(b) \in Nat
            BY <1>2, <1>3, <3>2
          <5>3. n + Len(b) + Len(micro) = next - 1
            BY <3>1, <4>1
          <5>4. n + (Len(b) + 1) + (Len(micro) - 1) = next - 1
            BY <5>1, <5>2, <5>3
          <5>5. /\ Len(conn'[c].batch) = Len(b) + 1 /\ Len(micro') = Len(micro) - 1
                /\ next' = next
            BY <1>1, <1>3, <4>6
          <5> QED
            BY <5>4, <5>5
        <4>9. ~conn'[c].closed /\ conn'[c].sent = conn[c].sent
          BY <1>5, <2>1, <3>1
        <4> QED
          BY <1>1, <3>1, <4>7, <4>8, <4>9 DEF Live
      <3> QED
        BY <3>3, <3>4
    <2>4. Chain(store', wire'[c], Held(tab'), n)
      BY <1>1, <2>2
    <2>5. /\ conn'[c].pc = conn[c].pc /\ conn'[c].closed = conn[c].closed
          /\ conn'[c].after = conn[c].after
      BY <1>5, <2>1
    <2> QED
      BY <1>1, <2>1, <2>3, <2>4, <2>5 DEF LineOf
  <1> QED
    BY <1>1, <1>2, <1>6, <1>7, <1>8 DEF OrderInv, Sound


\* The exit follows all that the agent had put out, on every connection that listens.
LEMMA ExitOrder ==
    ASSUME Ordered, StoreInv', TypeInv', AgentExit
    PROVE  OrderInv'
  <1> DEFINE cs == sess.exit
  <1>1. /\ store' = AppendFrame(store, ExitFrame)
        /\ conn' = [d \in Conns |-> IF d \in cs THEN Ended(conn[d]) ELSE conn[d]]
        /\ wire' = [d \in Conns |-> IF d \in cs THEN Send(wire, d, ExitMsgs(store', conn[d]))[d]
                                    ELSE wire[d]]
        /\ next' = next /\ tab' = tab /\ micro' = micro
    BY DEF AgentExit
  <1>2. /\ conn \in [Conns -> ConnType] /\ Sound(store, next) /\ TabOrder(store, tab)
        /\ next \in Nat /\ Len(micro) \in Nat /\ MicroOrder
        /\ wire \in [Conns -> Seq(Message)]
    BY OrderHas
  <1>3. /\ cs \subseteq Conns /\ sess.out \subseteq cs
        /\ \A d \in cs : conn[d].pc = "open"
    BY DEF Ordered, CountInv, Opened, TypeInv, SessOK
  <1>4. /\ sess'.out = {} /\ sess'.status = "exited"
    <2>1. /\ sess \in SessType /\ sess.out \subseteq sess.exit
          /\ Cardinality(sess.out) <= MaxListeners /\ IsFiniteSet(cs)
      BY <1>3, ConnsFinite DEF Ordered, TypeInv, SessOK
    <2>2. Without(sess, cs) \in SessType
      BY <2>1, WithoutTyped
    <2>3. sess' = [Without(sess, cs) EXCEPT !.status = "exited", !.out = {}]
      BY DEF AgentExit
    <2> QED
      BY <2>2, <2>3 DEF SessType
  <1>5. Extends(store, store') /\ Complete(store', next')
    BY <1>1, Grown
  <1>6. Sound(store', next') /\ 0..HeadSeq(store') \subseteq Seqs /\ WellFormed(store', MaxOut)
        /\ HeadSeq(store') \in Nat
    BY <1>5, SeqsHoldNext DEF Sound, StoreInv, Numbered
  <1>7. \A d \in Conns : /\ d \in cs => conn'[d].pc = "ended"
                         /\ d \notin cs => conn'[d] = conn[d]
    BY <1>1, <1>2, EndedTyped
  <1>8. ASSUME NEW d \in Conns
        PROVE  /\ d \notin cs \/ d # tab.conn => wire'[d] = wire[d]
               /\ d \in cs /\ d = tab.conn /\ ~conn[d].closed =>
                     wire'[d] = wire[d] \o ExitMsgs(store', conn[d])
    <2>1. CASE d \in cs
      <3> DEFINE ms == ExitMsgs(store', conn[d])
      <3>1. ms \in Seq(Message) /\ WireOK
        BY <1>2, <1>6, ExitMsgsTyped DEF WireOK
      <3>2. wire'[d] = Send(wire, d, ms)[d]
        BY <1>1, <2>1
      <3> HIDE DEF ms
      <3>3. wire'[d] = IF conn[d].closed \/ tab.conn # d THEN wire[d] ELSE wire[d] \o ms
        BY <3>1, <3>2, SendTyped
      <3> QED
        BY <2>1, <3>3 DEF ms
    <2>2. CASE d \notin cs
      BY <1>1, <2>2
    <2> QED
      BY <2>1, <2>2
  <1> HIDE DEF cs
  <1>9. ConnsQuiet'
    BY <1>1, <1>7, <1>8, QuietKept
  <1>10. MicroOrder'
    <2>1. ASSUME NEW i \in 1..Len(micro)
          PROVE  /\ micro[i].n + Len(micro) = (next - 1) + i
                 /\ At(store', micro[i].seq, micro[i].n)
                 /\ \A c \in micro[i].to : conn'[c].pc # "open"
      <3>1. /\ micro[i].n + Len(micro) = (next - 1) + i
            /\ At(store, micro[i].seq, micro[i].n)
            /\ \A c \in micro[i].to : conn[c].pc = "open" => c \in sess.out
        BY <1>2 DEF MicroOrder
      <3>2. micro[i].to \subseteq Conns
        <4>1. micro[i] \in MicroItem
          BY OrderHas, LenProperties
        <4> QED
          BY <4>1 DEF MicroItem
      <3> QED
        BY <1>3, <1>5, <1>7, <3>1, <3>2, AtKept
    <2> QED
      BY <1>1, <1>4, <2>1 DEF MicroOrder, IsAlive
  <1>11. LineInv'
    <2>1. CASE tab.conn \notin cs
      <3>1. tab.conn # NoConn => /\ tab.conn \in Conns /\ conn'[tab.conn] = conn[tab.conn]
                                 /\ wire'[tab.conn] = wire[tab.conn]
        BY <1>7, <1>8, <2>1, OrderHas
      <3> QED
        BY <1>1, <1>2, <1>4, <1>5, <3>1, LineKept
    <2>2. CASE tab.conn \in cs
      <3> DEFINE c == tab.conn
                 f == Flushed(store', ReadFrom(store', conn[c].sent))
                 e == ExitMsg(HeadSeq(store'))
      <3>1. c \in Conns /\ LineOf(c) /\ conn[c].pc = "open" /\ c # NoConn
        BY <1>3, <2>2, OrderHas DEF LineInv
      <3>2. PICK n \in Nat : Chain(store, wire[c], Held(tab), n) /\ Live(c, n)
        BY <3>1 DEF LineOf
      <3>3. ~conn[c].closed /\ UpTo(store', conn[c].sent, n)
        BY <1>5, <3>2, AtKept DEF Live
      <3>4. PICK x \in Nat : x = next' - 1
        <4>1. next \in Nat /\ next >= 1 /\ next' = next
          BY <1>1, OrderHas
        <4>2. next' - 1 \in Nat
          BY <4>1
        <4> QED
          BY <4>2
      <3>5. Chain(store', f, n, x)
        BY <1>6, <3>3, <3>4, ReadFromChain
      <3>6. Carries(store', e, x, x) /\ e \in Message
        <4>1. HeadSeq(store') \in Seqs
          BY <1>6
        <4>2. UpTo(store', HeadSeq(store'), x)
          BY <1>6, <3>4, UpToEnd
        <4> QED
          BY <4>1, <4>2, SmallMessages DEF Carries, ExitMsg
      <3>7. f \in Seq(Message)
        <4>1. conn[c].sent \in Nat
          BY <1>6, <3>3 DEF UpTo
        <4>2. ReadFrom(store', conn[c].sent) \subseteq 1..HeadSeq(store')
          BY <1>6, <4>1 DEF ReadFrom
        <4> QED
          BY <1>6, <4>2, FlushedTyped
      <3>8. wire'[c] = wire[c] \o (f \o <<e>>) /\ wire[c] \in Seq(Message)
        BY <1>2, <1>8, <2>2, <3>1, <3>3 DEF ExitMsgs
      <3> HIDE DEF f, e
      <3>9. Chain(store', f \o <<e>>, n, x) /\ f \o <<e>> \in Seq(Message)
        BY <3>5, <3>6, <3>7, ChainAppend
      <3>10. Chain(store', wire[c], Held(tab), n)
        BY <1>5, <3>2, ChainKept
      <3>11. Chain(store', wire'[c], Held(tab), x)
        BY <3>8, <3>9, <3>10, ChainConcat
      <3>12. LineOf(c)'
        BY <1>1, <1>7, <2>2, <3>1, <3>11 DEF LineOf
      <3> QED
        BY <1>1, <3>12 DEF LineInv
    <2> QED
      BY <2>1, <2>2
  <1> QED
    BY <1>1, <1>2, <1>5, <1>9, <1>10, <1>11, TabKept DEF OrderInv

\* An output message goes into the write buffer, after what the buffer holds.
LEMMA BufferedOrder ==
    ASSUME NEW st, NEW nx, Sound(st, nx), NEW t \in TabType, TabOrder(st, t),
           NEW c \in Conns, t.conn = c, NEW m \in Message, NEW k, m.type = "output",
           Carries(st, m, Held(t), k), NEW u, u = Buffered(t, c, m)
    PROVE  /\ TabOrder(st, u) /\ Held(u) = k
           /\ u.conn = c /\ u.cursor = t.cursor
  <1>1. /\ Follows(Held(t), m.outs) /\ k = Last(m.outs) /\ At(st, m.seq, k)
        /\ m.outs \in Seq(Nat)
    BY DEF Carries, Message
  <1>2. /\ t.buf \in [Conns -> Seq(Nat)] /\ t.seq \in [Conns -> Seqs]
        /\ t.raf \in Conns \cup {NoConn} /\ NoConn \notin Conns
    BY DEF TabType, NoConn, Conns
  <1>3. t.raf \in {NoConn, c}
    BY <1>2 DEF TabOrder
  <1>4. /\ u.cursor = t.cursor /\ u.screen = t.screen /\ u.conn = t.conn /\ u.st = t.st
        /\ u.first = t.first /\ u.raf = c
        /\ u.buf[c] = t.buf[c] \o m.outs /\ u.seq[c] = m.seq
        /\ \A d \in Conns : d # c => u.buf[d] = t.buf[d] /\ u.seq[d] = t.seq[d]
    <2>1. u = [t EXCEPT !.buf[c] = @ \o m.outs, !.seq[c] = m.seq,
                        !.raf = IF @ = NoConn THEN c ELSE @]
      BY DEF Buffered
    <2>2. u.raf = IF t.raf = NoConn THEN c ELSE t.raf
      BY <2>1 DEF TabType
    <2>3. /\ u.cursor = t.cursor /\ u.screen = t.screen /\ u.conn = t.conn /\ u.st = t.st
          /\ u.first = t.first
          /\ u.buf = [t.buf EXCEPT ![c] = @ \o m.outs] /\ u.seq = [t.seq EXCEPT ![c] = m.seq]
      BY <2>1 DEF TabType
    <2> QED
      BY <1>2, <1>3, <2>2, <2>3
  <1>5. /\ Follows(Shown(t), u.buf[c]) /\ Last(u.buf[c]) = k
    <2>1. CASE ~Waits(t)
      <3>1. t.buf[c] = <<>> /\ Held(t) = Shown(t)
        BY <1>2, <1>3, <2>1 DEF TabOrder, Held, Waits
      <3>2. u.buf[c] = m.outs
        BY <1>1, <1>4, <3>1
      <3> QED
        BY <1>1, <3>1, <3>2
    <2>2. CASE Waits(t)
      <3> DEFINE b == t.buf[c]
      <3>0. t.raf = c
        BY <1>3, <2>2 DEF Waits
      <3>1. /\ Follows(Shown(t), b) /\ Held(t) = Last(b) /\ Held(t) # 0
            /\ b \in Seq(Nat)
        BY <1>2, <2>2, <3>0, ShownIs DEF TabOrder
      <3>2. /\ b # <<>> /\ Consecutive(b) /\ m.outs # <<>> /\ Consecutive(m.outs)
            /\ m.outs[1] = Last(b) + 1
        BY <1>1, <3>1 DEF Follows
      <3> HIDE DEF b
      <3>3. /\ Consecutive(b \o m.outs) /\ Last(b \o m.outs) = Last(m.outs)
            /\ b \o m.outs # <<>> /\ (b \o m.outs)[1] = b[1]
        BY <1>1, <3>1, <3>2, ConsecutiveConcat
      <3> QED
        BY <1>1, <1>4, <3>1, <3>3 DEF Follows, b
    <2> QED
      BY <2>1, <2>2
  <1>6. Shown(u) = Shown(t) /\ Held(u) = k /\ Waits(u)
    <2>1. Waits(u)
      BY <1>2, <1>4, <1>5 DEF Waits, Follows
    <2> QED
      BY <1>4, <1>5, <2>1 DEF Shown, Held
  <1>7. TabOrder(st, u)
    BY <1>1, <1>2, <1>3, <1>4, <1>5, <1>6 DEF TabOrder
  <1> QED
    BY <1>4, <1>6, <1>7

\* What comes from session.history leaves the numbered outputs as they are.
LEMMA RebufferedOrder ==
    ASSUME NEW st, NEW t \in TabType, TabOrder(st, t), NEW c \in Conns, t.conn = c,
           NEW m \in Message, NEW u, u = Rebuffered(t, c, m)
    PROVE  /\ TabOrder(st, u) /\ Held(u) = Held(t) /\ Shown(u) = Shown(t)
           /\ u.conn = c /\ u.cursor = t.cursor /\ u.raf = c
           /\ u.again = t.again
           /\ u.old[c] = t.old[c] \cup ToSet(m.outs)
           /\ \A d \in Conns : d # c => u.old[d] = t.old[d]
  <1>1. /\ t.raf \in Conns \cup {NoConn} /\ NoConn \notin Conns /\ t.raf \in {NoConn, c}
    BY DEF TabType, TabOrder, NoConn, Conns
  <1>2. /\ u.cursor = t.cursor /\ u.screen = t.screen /\ u.conn = t.conn /\ u.st = t.st
        /\ u.first = t.first /\ u.buf = t.buf /\ u.seq = t.seq /\ u.raf = c
        /\ u.again = t.again /\ u.old = [t.old EXCEPT ![c] = t.old[c] \cup ToSet(m.outs)]
    <2>1. u = [t EXCEPT !.old[c] = @ \cup ToSet(m.outs),
                        !.raf = IF @ = NoConn THEN c ELSE @]
      BY DEF Rebuffered
    <2>2. u.raf = IF t.raf = NoConn THEN c ELSE t.raf
      BY <2>1 DEF TabType
    <2>3. /\ u.cursor = t.cursor /\ u.screen = t.screen /\ u.conn = t.conn /\ u.st = t.st
          /\ u.first = t.first /\ u.buf = t.buf /\ u.seq = t.seq /\ u.again = t.again
          /\ u.old = [t.old EXCEPT ![c] = t.old[c] \cup ToSet(m.outs)]
      BY <2>1 DEF TabType
    <2> QED
      BY <1>1, <2>2, <2>3
  <1>3. t.raf = NoConn => t.buf[c] = <<>> /\ t.seq[c] = 0
    BY <1>1 DEF TabOrder
  <1>4. Waits(u) <=> Waits(t)
    BY <1>1, <1>2, <1>3 DEF Waits
  <1>5. Shown(u) = Shown(t)
    BY <1>2 DEF Shown
  <1>6. Held(u) = Held(t)
    BY <1>1, <1>2, <1>4, <1>5 DEF Held, Waits
  <1>7. TabOrder(st, u)
    <2>1. u.raf = c /\ (Waits(t) => t.raf = c)
      BY <1>1, <1>2 DEF Waits
    <2>2. ~Waits(u) => u.seq[c] = 0
      BY <1>1, <1>2, <1>3, <1>4 DEF TabOrder
    <2> QED
      BY <1>1, <1>2, <1>3, <1>4, <1>5, <2>1, <2>2 DEF TabOrder
  <1>8. u.old[c] = t.old[c] \cup ToSet(m.outs) /\ \A d \in Conns : d # c => u.old[d] = t.old[d]
    BY <1>2 DEF TabType
  <1> QED
    BY <1>2, <1>5, <1>6, <1>7, <1>8


LEMMA DeliverOrder ==
    ASSUME Ordered, StoreInv', TypeInv', NEW c \in Conns, Deliver(c)
    PROVE  OrderInv'
  <1> DEFINE m == wire[c][1]
  <1>1. /\ micro = <<>> /\ micro' = micro /\ tab.conn = c /\ wire[c] # <<>>
        /\ tab' = OnMessage(tab, c, m)
        /\ wire' = [wire EXCEPT ![c] = IF tab'.conn = c THEN Tail(@) ELSE <<>>]
        /\ store' = store /\ next' = next /\ sess' = sess /\ conn' = conn
    BY DEF Deliver
  <1>2. /\ tab \in TabType /\ Sound(store, next) /\ TabOrder(store, tab) /\ c # NoConn
        /\ wire \in [Conns -> Seq(Message)] /\ ConnsQuiet /\ LineOf(c) /\ next \in Nat
        /\ conn \in [Conns -> ConnType]
    BY <1>1, OrderHas DEF LineInv
  <1>3. m \in Message /\ wire[c] \in Seq(Message)
    <2>1. wire[c] \in Seq(Message) /\ Len(wire[c]) \in Nat /\ Len(wire[c]) # 0
      BY <1>1, <1>2, LenProperties, EmptySeq
    <2>2. 1 \in 1..Len(wire[c])
      BY <2>1
    <2> QED
      BY <2>1, <2>2, LenProperties
  <1>4. PICK n \in Nat : /\ Chain(store, wire[c], Held(tab), n)
                         /\ conn[c].pc = "open" => Live(c, n)
    BY <1>2 DEF LineOf
  <1>5. PICK k \in Nat : Carries(store, m, Held(tab), k) /\ Chain(store, Tail(wire[c]), k, n)
    BY <1>1, <1>3, <1>4, ChainTail
  <1>6. conn[c].pc \notin {"none", "route", "waking"}
    BY <1>1, <1>2 DEF LineOf
  <1>7. tab.raf \in {NoConn, c}
    BY <1>1, <1>2 DEF TabOrder
  <1> HIDE DEF m
  <1>8. /\ m.type = "ready"  => tab' = [tab EXCEPT !.attempts = 0]
        /\ m.type = "output" => tab' = Buffered(tab, c, m)
        /\ m.type = "history" => tab' = Rebuffered(tab, c, m)
        /\ m.type = "exit"   => tab' = Over(tab, c)
        /\ m.type = "error"  => tab' = Retry([Written(tab, c) EXCEPT !.raf = NoConn])
        /\ m.type \in {"ready", "output", "history", "exit", "error"}
    <2>1. /\ m.type = "ready"  => OnMessage(tab, c, m) = [tab EXCEPT !.attempts = 0]
          /\ m.type = "output" => OnMessage(tab, c, m) = Buffered(tab, c, m)
          /\ m.type = "history" => OnMessage(tab, c, m) = Rebuffered(tab, c, m)
          /\ m.type = "exit"   => OnMessage(tab, c, m) = Over(tab, c)
          /\ m.type = "error"  =>
                OnMessage(tab, c, m) = Retry([Written(tab, c) EXCEPT !.raf = NoConn])
      BY DEF OnMessage
    <2> QED
      BY <1>1, <1>3, <2>1 DEF Message
  <1>9. /\ \A d \in Conns : d # c => wire'[d] = wire[d]
        /\ wire'[c] = IF tab'.conn = c THEN Tail(wire[c]) ELSE <<>>
    BY <1>1, <1>2
  <1>10. CASE m.type \in {"ready", "output", "history"}
    <2>1. TabOrder(store, tab') /\ Held(tab') = k /\ tab'.conn = c /\ tab'.cursor = tab.cursor
      <3>1. CASE m.type = "ready"
        <4>1. tab' = [tab EXCEPT !.attempts = 0]
          BY <1>8, <3>1
        <4>2. /\ tab'.st = tab.st /\ tab'.conn = tab.conn /\ tab'.first = tab.first
              /\ tab'.cursor = tab.cursor /\ tab'.raf = tab.raf /\ tab'.screen = tab.screen
              /\ tab'.buf = tab.buf /\ tab'.seq = tab.seq
          BY <1>2, <4>1 DEF TabType
        <4>3. k = Held(tab)
          BY <1>5, <3>1 DEF Carries
        <4>4. Held(tab') = Held(tab) /\ Shown(tab') = Shown(tab)
          BY <4>2 DEF Held, Shown, Waits
        <4>5. TabOrder(store, tab')
          BY <1>2, <4>2, <4>4 DEF TabOrder, Waits
        <4> QED
          BY <1>1, <4>2, <4>3, <4>4, <4>5
      <3>2. CASE m.type = "output"
        BY <1>1, <1>2, <1>3, <1>5, <1>8, <3>2, BufferedOrder
      <3>3. CASE m.type = "history"
        <4>1. k = Held(tab)
          BY <1>5, <3>3 DEF Carries
        <4>2. tab' = Rebuffered(tab, c, m)
          BY <1>8, <3>3
        <4>3. /\ TabOrder(store, tab') /\ Held(tab') = Held(tab)
              /\ tab'.conn = c /\ tab'.cursor = tab.cursor
          BY <1>1, <1>2, <1>3, <4>2, RebufferedOrder
        <4> QED
          BY <4>1, <4>3
      <3> QED
        BY <1>10, <3>1, <3>2, <3>3
    <2>2. ConnsQuiet'
      BY <1>1, <1>2, <1>9, <2>1 DEF ConnsQuiet
    <2>3. Chain(store', wire'[c], Held(tab'), n)
      BY <1>1, <1>5, <1>9, <2>1
    <2>4. conn[c].pc = "open" => Live(c, n)'
      BY <1>1, <1>4 DEF Live
    <2>5. LineOf(c)'
      BY <1>1, <1>6, <2>3, <2>4 DEF LineOf
    <2> QED
      BY <1>1, <1>2, <2>1, <2>2, <2>5, NoMicrotasks DEF OrderInv, LineInv, Sound
  <1>11. CASE m.type \in {"exit", "error"}
    <2> DEFINE e == Emptied(tab, c)
    <2>1. /\ TabOrder(store, e) /\ e.conn = tab.conn /\ e.raf = NoConn /\ e \in TabType
      BY <1>2, <1>7, WrittenOrder
    <2> HIDE DEF e
    <2>2. /\ TabOrder(store, tab') /\ tab'.conn = NoConn
      <3>1. CASE m.type = "exit"
        <4>1. /\ tab'.cursor = e.cursor /\ tab'.screen = e.screen /\ tab'.buf = e.buf
              /\ tab'.seq = e.seq /\ tab'.first = e.first /\ tab'.raf = NoConn
              /\ tab'.conn = NoConn /\ tab'.st = "over"
          <5>1. Written(tab, c) \in TabType
            BY <1>2, WrittenTyped
          <5>2. tab' = [Written(tab, c) EXCEPT !.raf = NoConn, !.st = "over", !.conn = NoConn]
            BY <1>8, <3>1 DEF Over
          <5>3. e = [Written(tab, c) EXCEPT !.raf = NoConn]
            BY DEF e, Emptied
          <5> QED
            BY <5>1, <5>2, <5>3 DEF TabType
        <4> QED
          BY <2>1, <4>1, LeftOrder
      <3>2. CASE m.type = "error"
        <4>1. tab' = Retry(e)
          BY <1>8, <3>2 DEF e, Emptied
        <4>2. /\ tab'.conn = NoConn /\ tab'.st # "live"
              /\ tab'.cursor = e.cursor /\ tab'.screen = e.screen /\ tab'.buf = e.buf
              /\ tab'.seq = e.seq /\ tab'.raf = e.raf /\ tab'.first = e.first
          BY <2>1, <4>1, RetryTyped
        <4> QED
          BY <2>1, <4>2, LeftOrder
      <3> QED
        BY <1>11, <3>1, <3>2
    <2>3. ConnsQuiet'
      <3>1. wire'[c] = <<>>
        BY <1>2, <1>9, <2>2
      <3> QED
        BY <1>1, <1>2, <1>9, <3>1 DEF ConnsQuiet
    <2> QED
      BY <1>1, <1>2, <2>2, <2>3, NoMicrotasks DEF OrderInv, LineInv, Sound
  <1> QED
    BY <1>8, <1>10, <1>11

LEMMA OrderStep ==
    ASSUME "framesLost" \notin Faults, "hiddenTab" \notin Faults,
           Ordered, StoreInv', TypeInv', [Next]_vars
    PROVE  OrderInv'
  <1>1. CASE Output
    BY <1>1, OutputOrder
  <1>2. CASE AgentExit
    BY <1>2, ExitOrder
  <1>3. CASE RunMicro
    BY <1>3, MicroTaskOrder
  <1>4. CASE Stop \/ Resume \/ ClientInput
    BY <1>4, LifeOrder
  <1>5. CASE Crash
    BY <1>5, CrashOrder
  <1>6. CASE Disconnect
    BY <1>6, DisconnectOrder
  <1>7. CASE AnimationFrame
    BY <1>7, FrameOrder
  <1>8. ASSUME NEW c \in Conns, Connect(c) PROVE OrderInv'
    BY <1>8, ConnectOrder
  <1>9. ASSUME NEW c \in Conns, Subscribe(c) PROVE OrderInv'
    BY <1>9, SubscribeOrder
  <1>10. ASSUME NEW c \in Conns, Wake(c) PROVE OrderInv'
    BY <1>10, WakeOrder
  <1>11. ASSUME NEW c \in Conns, WakeFails(c) PROVE OrderInv'
    BY <1>11, WakeFailsOrder
  <1>12. ASSUME NEW c \in Conns, CloseSeen(c) PROVE OrderInv'
    BY <1>12, CloseOrder
  <1>13. ASSUME NEW c \in Conns, FlushBatch(c) PROVE OrderInv'
    BY <1>13, FlushOrder
  <1>14. ASSUME NEW c \in Conns, Deliver(c) PROVE OrderInv'
    BY <1>14, DeliverOrder
  <1>15. CASE UNCHANGED vars
    BY <1>15 DEF vars, Ordered, OrderInv, TabOrder, MicroOrder, ConnsQuiet, LineInv, LineOf,
                 Live, IsAlive, Held, Shown
  <1> QED
    BY <1>1, <1>2, <1>3, <1>4, <1>5, <1>6, <1>7, <1>8, <1>9, <1>10, <1>11, <1>12, <1>13,
       <1>14, <1>15 DEF Next

LEMMA OrderInit == Init => OrderInv
  <1> SUFFICES ASSUME Init PROVE OrderInv
    OBVIOUS
  <1>1. /\ store = EmptyStore /\ next = 1 /\ micro = <<>> /\ tab = NewTab
        /\ conn = [c \in Conns |-> NoConnection] /\ wire = [c \in Conns |-> <<>>]
    BY DEF Init
  <1>2. HeadSeq(store) = 0
    BY <1>1 DEF EmptyStore, HeadSeq
  <1>3. Complete(store, next)
    BY <1>1, <1>2 DEF Complete
  <1>4. TabOrder(store, tab)
    BY <1>1 DEF NewTab, TabOrder, Waits
  <1>5. MicroOrder
    BY <1>1 DEF MicroOrder
  <1>6. ConnsQuiet
    BY <1>1 DEF ConnsQuiet, NoConnection
  <1>7. LineInv
    BY <1>1 DEF LineInv, NewTab
  <1> QED
    BY <1>3, <1>4, <1>5, <1>6, <1>7 DEF OrderInv

LEMMA OrderInvariant ==
    ASSUME "framesLost" \notin Faults, "hiddenTab" \notin Faults
    PROVE  Spec => []Ordered
  <1>1. Init => OrderInv
    BY OrderInit
  <1>2. CountInv /\ StoreInv /\ TypeInv /\ OrderInv /\ StoreInv' /\ TypeInv' /\ [Next]_vars
           => OrderInv'
    BY OrderStep DEF Ordered
  <1>3. Spec => [](CountInv /\ StoreInv /\ TypeInv)
    BY SafeInvariant
  <1>4. CountInv /\ StoreInv /\ TypeInv /\ OrderInv => Ordered
    BY DEF Ordered
  <1> QED
    BY <1>1, <1>2, <1>3, <1>4, PTL DEF Spec, SafeSpec

(***************************************************************************)
(* What the tab sees.                                                      *)
(***************************************************************************)
LEMMA Between ==
    ASSUME NEW s \in Seq(Nat), s # <<>>, Consecutive(s), NEW n \in Nat,
           s[1] <= n, n <= Last(s)
    PROVE  n \in ToSet(s)
  <1> DEFINE l == Len(s)
             S == {i \in 1..l : s[i] <= n}
  <1>1. /\ l \in Nat /\ l # 0 /\ 1 \in 1..l /\ l \in 1..l /\ DOMAIN s = 1..l
        /\ \A i \in 1..l : s[i] \in Nat
    <2>1. l \in Nat /\ l # 0 /\ DOMAIN s = 1..l /\ \A i \in 1..l : s[i] \in Nat
      BY LenProperties, EmptySeq
    <2> QED
      BY <2>1
  <1>2. S \subseteq Nat /\ S # {} /\ \A x \in S : x <= l
    BY <1>1
  <1> DEFINE m == Max(S)
  <1>3. m \in S /\ \A x \in S : x <= m
    <2> HIDE DEF S, l
    <2> QED
      BY <1>1, <1>2, MaxIs
  <1> HIDE DEF m
  <1>4. m \in 1..l /\ s[m] <= n
    BY <1>3
  <1>5. s[m] = n
    <2> SUFFICES ASSUME s[m] # n PROVE FALSE
      OBVIOUS
    <2>1. s[m] \in Nat /\ s[m] + 1 <= n
      BY <1>1, <1>4
    <2>2. m # l
      BY <1>1, <2>1 DEF Last
    <2>3. m \in 1..(l - 1) /\ m + 1 \in 1..l /\ m \in Nat
      <3>1. l \in Nat /\ m \in 1..l
        BY <1>1, <1>4
      <3> HIDE DEF l, S
      <3> QED
        BY <2>2, <3>1
    <2>4. s[m + 1] = s[m] + 1
      BY <2>3 DEF Consecutive
    <2>5. m + 1 \in S
      BY <2>1, <2>3, <2>4
    <2>6. m + 1 <= m
      BY <1>3, <2>5
    <2> QED
      BY <2>3, <2>6
  <1> QED
    BY <1>1, <1>4, <1>5 DEF ToSet

\* A screen that ends with the last output up to frame s has all that is due.
LEMMA DueShown ==
    ASSUME Sound(store, next), NEW scr \in Seq(Nat), NEW s,
           scr = <<>> \/ (Consecutive(scr) /\ UpTo(store, s, Last(scr)))
    PROVE  Due(scr, s) \subseteq ToSet(scr)
  <1> SUFFICES ASSUME NEW n \in ToSet(OutsOf(store, 1..s)), scr # <<>>, n >= scr[1]
               PROVE  n \in ToSet(scr)
    BY DEF Due
  <1>1. /\ Consecutive(scr) /\ UpTo(store, s, Last(scr)) /\ s \in 0..HeadSeq(store)
        /\ WellFormed(store, MaxOut) /\ MaxOut \in Nat /\ HeadSeq(store) \in Nat
    BY Bounds, SoundHas DEF UpTo, Sound
  <1>2. 1..s \subseteq 1..HeadSeq(store)
    BY <1>1
  <1> DEFINE os == OutsOf(store, 1..s)
  <1>3. /\ os \in Seq(0..MaxOut)
        /\ \A k \in 1..Len(os) : /\ Nth(OutsAt(store, 1..s), k) \in OutsAt(store, 1..s)
                                 /\ os[k] = store.frames[Nth(OutsAt(store, 1..s), k)].n
    BY <1>1, <1>2, OutsIs
  <1> HIDE DEF os
  <1>4. PICK k \in 1..Len(os) : n = os[k]
    BY <1>3, LenProperties DEF ToSet, os
  <1>5. PICK i \in 1..s : store.frames[i].kind = "out" /\ n = store.frames[i].n
    BY <1>3, <1>4 DEF OutsAt
  <1>6. n <= Last(scr)
    BY <1>1, <1>5 DEF UpTo
  <1>7. n \in Nat /\ scr[1] \in Nat
    <2>1. n \in Nat
      BY <1>1, <1>2, <1>5, SoundHas
    <2>2. Len(scr) \in Nat /\ Len(scr) # 0 /\ \A j \in 1..Len(scr) : scr[j] \in Nat
      BY LenProperties, EmptySeq
    <2>3. 1 \in 1..Len(scr)
      BY <2>2
    <2> QED
      BY <2>1, <2>2, <2>3
  <1>8. scr[1] <= n
    BY <1>7
  <1> QED
    BY <1>1, <1>6, <1>7, <1>8, Between

\* While the transcript loses no frame and the tab is visible, the outputs that come
\* with a sequence number are shown in order, each once and without a gap, over any
\* number of connections and resumes and any size of batch (subscribeTerminal,
\* AgentConsole).  What session.history shows again comes without one: HistoryIsOld.
THEOREM OutputsInOrder ==
    ASSUME "framesLost" \notin Faults, "hiddenTab" \notin Faults
    PROVE  Spec => []ScreenInOrder
  <1>1. Ordered => ScreenInOrder
    <2> SUFFICES ASSUME Ordered PROVE ScreenInOrder
      OBVIOUS
    <2>1. tab.screen = <<>> \/ Consecutive(tab.screen)
      BY OrderHas DEF TabOrder
    <2>2. Consecutive(<<>>)
      BY DEF Consecutive
    <2> QED
      BY <2>1, <2>2 DEF ScreenInOrder, Consecutive
  <1> QED
    BY <1>1, OrderInvariant, PTL

(***************************************************************************)
(* What session.history repeats.                                           *)
(***************************************************************************)
\* Nothing that session.history has brought is newer than what the tab has anyway.
Repeats(t) ==
    /\ \A n \in t.again : n <= Shown(t)
    /\ \A c \in Conns : /\ c # t.raf => t.old[c] = {}
                        /\ \A n \in t.old[c] : n <= Held(t)

\* The write buffer is ahead of the screen.
LEMMA HeldAhead ==
    ASSUME NEW st, NEW nx, Sound(st, nx), NEW t \in TabType, TabOrder(st, t)
    PROVE  Shown(t) \in Nat /\ Held(t) \in Nat /\ Shown(t) <= Held(t)
  <1>1. /\ Shown(t) \in Nat /\ Held(t) \in Nat
        /\ Waits(t) => Held(t) = Last(t.buf[t.raf])
        /\ ~Waits(t) => Held(t) = Shown(t)
    BY ShownIs
  <1>2. CASE Waits(t)
    <2> DEFINE b == t.buf[t.raf]
    <2>1. b # <<>> /\ Consecutive(b) /\ (Shown(t) # 0 => b[1] = Shown(t) + 1)
      BY <1>2 DEF TabOrder, Follows
    <2>2. b \in Seq(Nat)
      BY <1>2 DEF TabType, Waits
    <2> HIDE DEF b
    <2>3. Last(b) \in Nat /\ b[1] <= Last(b) /\ b[1] \in Nat
      BY <2>1, <2>2, ConsecutiveRises
    <2> QED
      BY <1>1, <1>2, <2>1, <2>3 DEF b
  <1> QED
    BY <1>1, <1>2

LEMMA SameRepeats ==
    ASSUME NEW t, Repeats(t), NEW u, u.again = t.again, u.old = t.old,
           u.screen = t.screen, u.buf = t.buf, u.raf = t.raf
    PROVE  Repeats(u)
  BY DEF Repeats, Shown, Held, Waits

LEMMA WrittenRepeats ==
    ASSUME NEW st, NEW nx, Sound(st, nx), NEW t \in TabType, TabOrder(st, t), Repeats(t),
           NEW c \in Conns, t.raf \in {NoConn, c}
    PROVE  Repeats(Emptied(t, c))
  <1> DEFINE u == Emptied(t, c)
  <1>1. Shown(u) = Held(t) /\ Held(u) = Held(t) /\ u.raf = NoConn
    BY WrittenOrder
  <1>2. u.again = t.again \cup t.old[c] /\ u.old = [t.old EXCEPT ![c] = {}]
    <2>1. /\ Written(t, c) \in TabType /\ Written(t, c).again = t.again \cup t.old[c]
          /\ Written(t, c).old = [t.old EXCEPT ![c] = {}]
      BY WrittenTyped
    <2> QED
      BY <2>1 DEF Emptied, TabType
  <1>3. Shown(t) \in Nat /\ Held(t) \in Nat /\ Shown(t) <= Held(t)
    BY HeldAhead
  <1>4. t.again \subseteq Nat /\ t.old \in [Conns -> SUBSET Nat] /\ NoConn \notin Conns
    BY DEF TabType, NoConn, Conns
  <1>5. \A d \in Conns : u.old[d] = {}
    BY <1>2, <1>4 DEF Repeats
  <1>6. \A n \in u.again : n <= Held(t)
    BY <1>2, <1>3, <1>4 DEF Repeats
  <1> HIDE DEF u
  <1> QED
    BY <1>1, <1>5, <1>6 DEF Repeats, u

LEMMA DeliverRepeats ==
    ASSUME Ordered, Repeats(tab), NEW c \in Conns, Deliver(c)
    PROVE  Repeats(tab')
  <1> DEFINE m == wire[c][1]
  <1>1. tab.conn = c /\ wire[c] # <<>> /\ tab' = OnMessage(tab, c, m)
    BY DEF Deliver
  <1>2. /\ tab \in TabType /\ Sound(store, next) /\ TabOrder(store, tab)
        /\ wire \in [Conns -> Seq(Message)] /\ LineOf(c) /\ NoConn \notin Conns
    BY <1>1, OrderHas DEF LineInv
  <1>3. m \in Message /\ wire[c] \in Seq(Message)
    <2>1. wire[c] \in Seq(Message) /\ Len(wire[c]) \in Nat /\ Len(wire[c]) # 0
      BY <1>1, <1>2, LenProperties, EmptySeq
    <2>2. 1 \in 1..Len(wire[c])
      BY <2>1
    <2> QED
      BY <2>1, <2>2, LenProperties
  <1>4. PICK k \in Nat : Carries(store, m, Held(tab), k)
    <2>1. PICK n \in Nat : Chain(store, wire[c], Held(tab), n)
      BY <1>2 DEF LineOf
    <2> QED
      BY <1>1, <1>3, <2>1, ChainTail
  <1>5. tab.raf \in {NoConn, c}
    BY <1>1, <1>2 DEF TabOrder
  <1>6. /\ Shown(tab) \in Nat /\ Held(tab) \in Nat
        /\ tab.again \subseteq Nat /\ tab.old \in [Conns -> SUBSET Nat]
    BY <1>2, HeldAhead DEF TabType
  <1> HIDE DEF m
  <1>7. CASE m.type = "ready"
    <2>1. tab' = [tab EXCEPT !.attempts = 0]
      BY <1>1, <1>2, <1>3, <1>7, OnMessageIs
    <2>2. /\ tab'.again = tab.again /\ tab'.old = tab.old /\ tab'.screen = tab.screen
          /\ tab'.buf = tab.buf /\ tab'.raf = tab.raf
      BY <1>2, <2>1 DEF TabType
    <2> QED
      BY <2>2, SameRepeats
  <1>8. CASE m.type = "output"
    <2>1. tab' = Buffered(tab, c, m)
      BY <1>1, <1>2, <1>3, <1>8, OnMessageIs
    <2>2. /\ tab'.again = tab.again /\ tab'.old = tab.old /\ tab'.screen = tab.screen
          /\ tab'.raf = c
      BY <1>2, <1>5, <2>1 DEF Buffered, TabType
    <2>3. Held(tab') = k
      BY <1>1, <1>2, <1>3, <1>4, <1>8, <2>1, BufferedOrder
    <2>4. Held(tab) <= k
      <3>1. /\ Follows(Held(tab), m.outs) /\ k = Last(m.outs) /\ m.outs \in Seq(Nat)
        BY <1>3, <1>4, <1>8 DEF Carries, Message
      <3>2. m.outs[1] \in Nat /\ m.outs[1] <= Last(m.outs)
        BY <3>1, ConsecutiveRises DEF Follows
      <3>3. Held(tab) # 0 => m.outs[1] = Held(tab) + 1
        BY <3>1 DEF Follows
      <3> QED
        BY <1>6, <3>1, <3>2, <3>3
    <2>5. Shown(tab') = Shown(tab)
      BY <2>2 DEF Shown
    <2>6. \A d \in Conns : \A n \in tab.old[d] : n \in Nat /\ n <= k
      BY <1>6, <2>4 DEF Repeats
    <2>7. \A d \in Conns : d # c => tab.old[d] = {}
      BY <1>2, <1>5 DEF Repeats
    <2> QED
      BY <2>2, <2>3, <2>5, <2>6, <2>7 DEF Repeats
  <1>9. CASE m.type = "history"
    <2>1. tab' = Rebuffered(tab, c, m)
      BY <1>1, <1>2, <1>3, <1>9, OnMessageIs
    <2>2. /\ Held(tab') = Held(tab) /\ Shown(tab') = Shown(tab) /\ tab'.raf = c
          /\ tab'.again = tab.again
          /\ tab'.old[c] = tab.old[c] \cup ToSet(m.outs)
          /\ \A d \in Conns : d # c => tab'.old[d] = tab.old[d]
      <3>1. tab \in TabType /\ TabOrder(store, tab) /\ tab.conn = c /\ m \in Message
        BY <1>1, <1>2, <1>3
      <3>2. /\ Held(tab') = Held(tab) /\ Shown(tab') = Shown(tab) /\ tab'.raf = c
            /\ tab'.again = tab.again
        BY <2>1, <3>1, RebufferedOrder
      <3>3. tab'.old[c] = tab.old[c] \cup ToSet(m.outs)
        BY <2>1, <3>1, RebufferedOrder
      <3>4. \A d \in Conns : d # c => tab'.old[d] = tab.old[d]
        BY <2>1, <3>1, RebufferedOrder
      <3> QED
        BY <3>2, <3>3, <3>4
    <2>3. \A n \in ToSet(m.outs) : n <= Held(tab)
      BY <1>4, <1>9 DEF Carries
    <2>4. \A d \in Conns : d # c => tab'.old[d] = {}
      BY <1>2, <1>5, <1>6, <2>2 DEF Repeats
    <2>5. \A n \in tab'.old[c] : n <= Held(tab)
      BY <1>6, <2>2, <2>3 DEF Repeats
    <2> QED
      BY <2>2, <2>4, <2>5 DEF Repeats
  <1>10. CASE m.type \in {"exit", "error"}
    <2> DEFINE e == Emptied(tab, c)
    <2>1. Repeats(e)
      BY <1>2, <1>5, WrittenRepeats
    <2>2. e \in TabType /\ e = [Written(tab, c) EXCEPT !.raf = NoConn]
          /\ Written(tab, c) \in TabType
      BY <1>2, <1>5, WrittenOrder, WrittenTyped DEF Emptied
    <2> HIDE DEF e
    <2>3. CASE m.type = "exit"
      <3>1. tab' = Over(tab, c)
        BY <1>1, <1>2, <1>3, <2>3, OnMessageIs
      <3>2. tab' = [Written(tab, c) EXCEPT !.raf = NoConn, !.st = "over", !.conn = NoConn]
        BY <3>1 DEF Over
      <3>3. /\ tab'.again = e.again /\ tab'.old = e.old /\ tab'.screen = e.screen
            /\ tab'.buf = e.buf /\ tab'.raf = e.raf
        BY <2>2, <3>2 DEF TabType
      <3> QED
        BY <2>1, <3>3, SameRepeats
    <2>4. CASE m.type = "error"
      <3>1. tab' = Retry([Written(tab, c) EXCEPT !.raf = NoConn])
        BY <1>1, <1>2, <1>3, <2>4, OnMessageIs
      <3>2. tab' = Retry(e)
        BY <2>2, <3>1
      <3>3. /\ tab'.again = e.again /\ tab'.old = e.old /\ tab'.screen = e.screen
            /\ tab'.buf = e.buf /\ tab'.raf = e.raf
        BY <2>2, <3>2, RetryTyped
      <3> QED
        BY <2>1, <3>3, SameRepeats
    <2> QED
      BY <1>10, <2>3, <2>4
  <1> QED
    BY <1>3, <1>7, <1>8, <1>9, <1>10 DEF Message

LEMMA RepeatStep ==
    ASSUME Ordered, Repeats(tab), [Next]_vars
    PROVE  Repeats(tab')
  <1>1. tab \in TabType /\ Sound(store, next) /\ TabOrder(store, tab)
    BY OrderHas
  <1>2. CASE Crash
    <2>1. tab' = IF tab.st = "live" THEN [tab EXCEPT !.conn = NoConn, !.st = "retry"] ELSE tab
      BY <1>2 DEF Crash
    <2>2. /\ tab'.again = tab.again /\ tab'.old = tab.old /\ tab'.screen = tab.screen
          /\ tab'.buf = tab.buf /\ tab'.raf = tab.raf
      BY <1>1, <2>1 DEF TabType
    <2> QED
      BY <2>2, SameRepeats
  <1>3. ASSUME NEW c \in Conns, Connect(c) PROVE Repeats(tab')
    <2>1. tab' = [tab EXCEPT !.conn = c, !.st = "live", !.first = FALSE]
      BY <1>3 DEF Connect
    <2>2. /\ tab'.again = tab.again /\ tab'.old = tab.old /\ tab'.screen = tab.screen
          /\ tab'.buf = tab.buf /\ tab'.raf = tab.raf
      BY <1>1, <2>1 DEF TabType
    <2> QED
      BY <2>2, SameRepeats
  <1>4. CASE Disconnect
    <2>1. tab' = Retry(tab)
      BY <1>4 DEF Disconnect
    <2> QED
      BY <1>1, <2>1, RetryTyped, SameRepeats
  <1>5. CASE AnimationFrame
    <2> DEFINE c == tab.raf
    <2>1. c \in Conns /\ tab.raf \in {NoConn, c} /\ tab' = Emptied(tab, c)
      BY <1>1, <1>5 DEF AnimationFrame, Emptied, TabType
    <2> HIDE DEF c
    <2> QED
      BY <1>1, <2>1, WrittenRepeats
  <1>6. ASSUME NEW c \in Conns, Deliver(c) PROVE Repeats(tab')
    BY <1>6, DeliverRepeats
  <1>7. CASE UNCHANGED tab
    BY <1>7, SameRepeats
  <1> QED
    BY <1>2, <1>3, <1>4, <1>5, <1>6, <1>7
    DEF Next, vars, Output, AgentExit, RunMicro, Stop, Resume, ClientInput, Subscribe, Wake,
        WakeFails, CloseSeen, FlushBatch

\* Under the same conditions session.history, which comes without a sequence number,
\* never runs ahead of the numbered outputs: it shows the tab again what it has been
\* shown, or older (replayTranscript sends it only when no frame follows the cursor).
THEOREM HistoryIsOld ==
    ASSUME "framesLost" \notin Faults, "hiddenTab" \notin Faults
    PROVE  Spec => []HistoryRepeats
  <1>1. Init => Repeats(tab)
    BY DEF Init, NewTab, Repeats
  <1>2. Ordered /\ Repeats(tab) /\ [Next]_vars => Repeats(tab)'
    BY RepeatStep
  <1>3. Repeats(tab) => HistoryRepeats
    BY DEF Repeats, HistoryRepeats, NewestShown, Shown
  <1> QED
    BY <1>1, <1>2, <1>3, OrderInvariant, PTL DEF Spec, SafeSpec

\* Under the same conditions the cursor a tab reconnects with never passes an output
\* it has not shown (the sessionStorage cursor that readFrom is called with).
THEOREM CursorIsShown ==
    ASSUME "framesLost" \notin Faults, "hiddenTab" \notin Faults
    PROVE  Spec => []CursorShown
  <1>1. Ordered => CursorShown
    <2> SUFFICES ASSUME Ordered PROVE CursorShown
      OBVIOUS
    <2> DEFINE s == Min({tab.cursor, HeadSeq(store)})
    <2>1. /\ Sound(store, next) /\ TabOrder(store, tab) /\ HeadSeq(store) \in Nat
          /\ tab.screen \in Seq(Nat)
      BY OrderHas DEF TabType
    <2>2. tab.screen # <<>> =>
             /\ Consecutive(tab.screen) /\ At(store, tab.cursor, Last(tab.screen))
             /\ UpTo(store, tab.cursor, Last(tab.screen))
      BY <2>1, UpToAt DEF TabOrder
    <2>3. tab.screen # <<>> => s = tab.cursor
      <3> SUFFICES ASSUME tab.screen # <<>> PROVE s = tab.cursor
        OBVIOUS
      <3>1. tab.cursor \in 1..HeadSeq(store)
        BY <2>2 DEF At
      <3>2. /\ tab.cursor \in {tab.cursor, HeadSeq(store)}
            /\ \A x \in {tab.cursor, HeadSeq(store)} : x \in Nat /\ tab.cursor <= x
        BY <2>1, <3>1
      <3> DEFINE P(x) == /\ x \in {tab.cursor, HeadSeq(store)}
                         /\ \A y \in {tab.cursor, HeadSeq(store)} : x <= y
      <3>3. P(tab.cursor) /\ \A x : P(x) => x = tab.cursor
        BY <3>2
      <3> QED
        BY <3>2, <3>3 DEF Min
    <2> HIDE DEF s
    <2>4. Due(tab.screen, s) \subseteq ToSet(tab.screen)
      BY <2>1, <2>2, <2>3, DueShown
    <2> QED
      BY <2>4 DEF CursorShown, Screen, s
  <1> QED
    BY <1>1, OrderInvariant, PTL

\* Under the same conditions no output gets stuck: a tab that is served, and has
\* nothing on its way, shows the newest output.
THEOREM NoOutputStuck ==
    ASSUME "framesLost" \notin Faults, "hiddenTab" \notin Faults
    PROVE  Spec => []NothingStuck
  <1>1. Ordered => NothingStuck
    <2> SUFFICES ASSUME Ordered, Served(tab.conn), ~Deaf(tab.conn),
                        wire[tab.conn] = <<>>, conn[tab.conn].batch = <<>>,
                        micro = <<>>, tab.raf = NoConn, next # 1
                 PROVE  tab.screen # <<>> /\ Last(tab.screen) = next - 1
      BY DEF NothingStuck
    <2> DEFINE c == tab.conn
    <2>1. c # NoConn /\ conn[c].pc = "open" /\ c \in sess.out
      BY DEF Served, Deaf
    <2>2. /\ Sound(store, next) /\ TabOrder(store, tab) /\ LineOf(c)
          /\ next \in Nat /\ next >= 1
      BY <2>1, OrderHas DEF LineInv
    <2>3. PICK n \in Nat : Chain(store, wire[c], Held(tab), n) /\ Live(c, n)
      BY <2>1, <2>2 DEF LineOf
    <2>4. Held(tab) = n
      BY <2>3, ChainEmpty
    <2>5. n = next - 1
      <3>1. n + Len(conn[c].batch) + Len(micro) = next - 1
        BY <2>1, <2>3 DEF Live
      <3>2. Len(conn[c].batch) = 0 /\ Len(micro) = 0
        OBVIOUS
      <3> QED
        BY <2>2, <3>1, <3>2
    <2>6. Shown(tab) = next - 1 /\ Shown(tab) # 0
      BY <2>2, <2>4, <2>5, ShownIs
    <2> QED
      BY <2>2, <2>6, ShownIs
  <1> QED
    BY <1>1, OrderInvariant, PTL

\* Under the same conditions an exit is shown only over a screen that has all the
\* outputs before it (the exit listener's flush, flushWriteBuffer on 'exit').
THEOREM ExitShownLast ==
    ASSUME "framesLost" \notin Faults, "hiddenTab" \notin Faults
    PROVE  Spec => ExitLast
  <1>1. ASSUME Ordered, [Next]_vars, NEW c \in Conns, tab.conn = c, tab.st = "live",
               tab'.st = "over"
        PROVE  Due(tab'.screen, wire[c][1].seq) \subseteq ToSet(tab'.screen)
    <2> DEFINE m == wire[c][1]
    <2>1. /\ tab \in TabType /\ Sound(store, next) /\ TabOrder(store, tab) /\ c # NoConn
          /\ wire \in [Conns -> Seq(Message)] /\ LineOf(c)
      BY <1>1, OrderHas DEF LineInv
    <2>2. tab.raf \in {NoConn, c}
      BY <1>1, <2>1 DEF TabOrder
    <2>3. wire[c] # <<>> /\ m \in Message /\ m.type = "exit" /\ tab' = Over(tab, c)
      <3>1. Deliver(c)
        <4>1. tab' # tab
          BY <1>1
        <4>2. ~Crash
          <5> SUFFICES ASSUME Crash PROVE FALSE
            OBVIOUS
          <5>1. tab' = [tab EXCEPT !.conn = NoConn, !.st = "retry"]
            BY <1>1 DEF Crash
          <5> QED
            BY <1>1, <2>1, <5>1 DEF TabType
        <4>3. ~Disconnect
          BY <1>1, <2>1, RetryTyped DEF Disconnect
        <4>4. ~AnimationFrame
          <5> SUFFICES ASSUME AnimationFrame PROVE FALSE
            OBVIOUS
          <5> DEFINE r == tab.raf
          <5>1. r \in Conns /\ tab' = [Written(tab, r) EXCEPT !.raf = NoConn]
            BY <2>1 DEF AnimationFrame, TabType
          <5> HIDE DEF r
          <5>2. Written(tab, r) \in TabType /\ Written(tab, r).st = tab.st
            BY <2>1, <5>1, WrittenTyped
          <5> QED
            BY <1>1, <5>1, <5>2 DEF TabType
        <4>5. \A d \in Conns : ~Connect(d)
          BY <1>1 DEF Connect
        <4>6. \A d \in Conns : Deliver(d) => d = c
          BY <1>1 DEF Deliver
        <4>7. /\ Output \/ AgentExit \/ RunMicro \/ Stop \/ Resume \/ ClientInput
                    => tab' = tab
              /\ \A d \in Conns : Subscribe(d) \/ Wake(d) \/ WakeFails(d) \/ CloseSeen(d)
                                  \/ FlushBatch(d) => tab' = tab
          BY DEF Output, AgentExit, RunMicro, Stop, Resume, ClientInput, Subscribe, Wake,
                 WakeFails, CloseSeen, FlushBatch
        <4>8. ~UNCHANGED vars
          BY <4>1 DEF vars
        <4> QED
          BY <1>1, <4>1, <4>2, <4>3, <4>4, <4>5, <4>6, <4>7, <4>8 DEF Next
      <3>2. wire[c] # <<>> /\ tab' = OnMessage(tab, c, m)
        BY <3>1 DEF Deliver
      <3>3. m \in Message
        <4>1. wire[c] \in Seq(Message) /\ Len(wire[c]) \in Nat /\ Len(wire[c]) # 0
          BY <2>1, <3>2, LenProperties, EmptySeq
        <4>2. 1 \in 1..Len(wire[c])
          BY <4>1
        <4> QED
          BY <4>1, <4>2, LenProperties
      <3> HIDE DEF m
      <3>4. m.type # "ready"
        <4> SUFFICES ASSUME m.type = "ready" PROVE FALSE
          OBVIOUS
        <4>1. tab' = [tab EXCEPT !.attempts = 0]
          BY <3>2 DEF OnMessage
        <4> QED
          BY <1>1, <2>1, <4>1 DEF TabType
      <3>5. m.type # "output"
        <4> SUFFICES ASSUME m.type = "output" PROVE FALSE
          OBVIOUS
        <4>1. tab' = Buffered(tab, c, m)
          BY <3>2 DEF OnMessage
        <4> QED
          BY <1>1, <2>1, <4>1 DEF Buffered, TabType
      <3>8. m.type # "history"
        <4> SUFFICES ASSUME m.type = "history" PROVE FALSE
          OBVIOUS
        <4>1. tab' = Rebuffered(tab, c, m)
          BY <3>2 DEF OnMessage
        <4> QED
          BY <1>1, <2>1, <4>1 DEF Rebuffered, TabType
      <3>6. m.type # "error"
        <4> SUFFICES ASSUME m.type = "error" PROVE FALSE
          OBVIOUS
        <4>1. tab' = Retry(Emptied(tab, c))
          BY <3>2 DEF OnMessage, Emptied
        <4>2. Emptied(tab, c) \in TabType
          BY <2>1, <2>2, WrittenOrder
        <4> QED
          BY <1>1, <4>1, <4>2, RetryTyped
      <3>7. m.type = "exit"
        BY <3>3, <3>4, <3>5, <3>6, <3>8 DEF Message
      <3> QED
        BY <3>2, <3>3, <3>7 DEF OnMessage
    <2>4. UpTo(store, m.seq, Held(tab))
      <3>1. PICK n \in Nat : Chain(store, wire[c], Held(tab), n)
        BY <2>1 DEF LineOf
      <3>2. PICK k \in Nat : Carries(store, m, Held(tab), k)
        <4>1. wire[c] \in Seq(Message)
          BY <2>1
        <4> QED
          BY <2>3, <3>1, <4>1, ChainTail
      <3> QED
        BY <2>3, <3>2 DEF Carries
    <2> HIDE DEF m
    <2> DEFINE e == Emptied(tab, c)
    <2>5. TabOrder(store, e) /\ Shown(e) = Held(tab) /\ e \in TabType
      BY <1>1, <2>1, <2>2, WrittenOrder
    <2>6. tab'.screen = e.screen
      <3>1. Written(tab, c) \in TabType
        BY <2>1, WrittenTyped
      <3>2. tab' = [Written(tab, c) EXCEPT !.raf = NoConn, !.st = "over", !.conn = NoConn]
        BY <2>3 DEF Over
      <3> QED
        BY <3>1, <3>2 DEF Emptied, TabType
    <2> HIDE DEF e
    <2>7. e.screen \in Seq(Nat) /\ (e.screen # <<>> => Consecutive(e.screen)
                                                      /\ Last(e.screen) = Held(tab))
      BY <2>5 DEF TabOrder, Shown, TabType
    <2>8. Due(e.screen, m.seq) \subseteq ToSet(e.screen)
      BY <2>1, <2>4, <2>7, DueShown
    <2> QED
      BY <2>6, <2>8 DEF m
  <1>2. Ordered /\ [Next]_vars
           => [\A c \in Conns :
                 /\ tab.conn = c /\ tab.st = "live" /\ tab'.st = "over"
                 => Due(tab'.screen, wire[c][1].seq) \subseteq ToSet(tab'.screen)]_vars
    BY <1>1
  <1> QED
    BY <1>2, OrderInvariant, PTL DEF Spec, SafeSpec, ExitLast
=============================================================================
