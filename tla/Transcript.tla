------------------------------ MODULE Transcript ------------------------------
(***************************************************************************)
(* The TranscriptStore's state of one stream as a value: the frames held   *)
(* in memory, the file, and the frames queued for it.                      *)
(*                                                                         *)
(* The number seq of a frame is its position, because append hands out     *)
(* nextSeq and nothing else does.  A frame of kind "out" carries in n what *)
(* identifies the output (the rseq the sandbox gave it); the other kinds   *)
(* have n = 0.  An output without rseq, malformed lines, the trimming of   *)
(* MAX_FRAMES and the session_streams row are left out.                    *)
(***************************************************************************)
EXTENDS Naturals, FiniteSets, Sequences, SequencesExt, FiniteSetsExt

Kinds == {"out", "in", "exit"}
Frames(N) == [kind : Kinds, n : 0..N]
OutFrame(n) == [kind |-> "out", n |-> n]
InFrame     == [kind |-> "in", n |-> 0]
ExitFrame   == [kind |-> "exit", n |-> 0]

EmptyStore == [frames |-> <<>>, disk |-> <<>>, queue |-> <<>>]

HeadSeq(st) == Len(st.frames)

\* append: the frame is in memory at once and reaches the file with a flush.
AppendFrame(st, f) ==
    [st EXCEPT !.frames = Append(@, f), !.queue = Append(@, f)]

\* _flushWrites: one appendFileSync of the whole queue.  When it throws, the
\* frames go back into the queue and the next flush writes them.  A flush when
\* there were k frames, after which more were queued:
FlushedTo(st, k) == [st EXCEPT !.disk = SubSeq(st.frames, 1, k),
                               !.queue = SubSeq(st.frames, k + 1, Len(st.frames))]

\* _state, for the first reader after the process has started: nextSeq is one
\* more than the last number in the file.
Reloaded(st) == [frames |-> st.disk, disk |-> st.disk, queue |-> <<>>]

\* readFrom: the numbers of the frames after a cursor.
ReadFrom(st, after) == after + 1 .. HeadSeq(st)

\* The elements of s at the positions I, in the order of s: what a loop over s
\* that skips some frames leaves.  (SelectSeq, by the rank of a position: the
\* provers cannot unfold SelectSeq's recursion.)
Nth(I, k)    == CHOOSE i \in I : Cardinality({j \in I : j <= i}) = k
Picked(s, I) == [k \in 1..Cardinality(I) |-> s[Nth(I, k)]]

\* The outputs among the frames numbered ns, in order.
OutsAt(st, ns) == {i \in ns : st.frames[i].kind = "out"}
OutsOf(st, ns) == LET outs == Picked(st.frames, OutsAt(st, ns))
                  IN  [i \in 1..Len(outs) |-> outs[i].n]

HasExit(st) == \E i \in 1..HeadSeq(st) : st.frames[i].kind = "exit"

\* readTail: the newest frames that hold at most k outputs (TAIL_BYTES of them).
\* A stored output may be larger than the limit: at least one is always read.
ReadTail(st, k) ==
    {i \in 1..HeadSeq(st) : Len(OutsOf(st, i..HeadSeq(st))) <= k}

\* reattachCursor: where a re-attached stream continues, when it can.  Any exit
\* frame rules it out, also one of an earlier execution.
CanReattach(st)    == ~HasExit(st)
ReattachCursor(st) == Max({0} \cup {f.n : f \in ToSet(st.frames)})
===============================================================================
