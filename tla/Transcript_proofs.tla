--------------------------- MODULE Transcript_proofs ---------------------------
(***************************************************************************)
(* Facts about the transcript that the proofs about its writers and its    *)
(* readers rest on: what append, a crash and the readers' loops do to the  *)
(* frames.                                                                 *)
(***************************************************************************)
EXTENDS Transcript, SequenceTheorems, FiniteSetTheorems, WellFoundedInduction, TLAPS

\* A non-empty set of numbers that are at most N has a maximum.
LEMMA MaxIs ==
    ASSUME NEW S, S \subseteq Nat, S # {}, NEW N \in Nat, \A x \in S : x <= N
    PROVE  Max(S) \in S /\ \A x \in S : x <= Max(S)
  <1> DEFINE T == {N - x : x \in S}
  <1>1. T \subseteq Nat /\ T # {}
    <2>1. \A x \in S : N - x \in Nat
      OBVIOUS
    <2> QED
      BY <2>1
  <1>2. PICK t \in T : \A y \in T : ~(<<y, t>> \in OpToRel(<, Nat))
    <2> HIDE DEF T
    <2> QED
      BY <1>1, NatLessThanWellFounded, WFMin
  <1>3. PICK m \in S : t = N - m
    BY <1>2
  <1>4. ASSUME NEW x \in S PROVE x <= m
    <2>1. ~(<<N - x, N - m>> \in OpToRel(<, Nat))
      BY <1>2, <1>3
    <2>2. N - x \in Nat /\ N - m \in Nat
      BY <1>1
    <2>3. ~(N - x < N - m)
      BY <2>1, <2>2 DEF OpToRel
    <2> QED
      BY <2>3
  <1>5. m \in S /\ \A x \in S : m >= x
    BY <1>4
  <1>6. Max(S) \in S /\ \A x \in S : Max(S) >= x
    BY <1>5 DEF Max
  <1> QED
    BY <1>6

\* A well-formed transcript of outputs up to N: the file and the queue make up the
\* frames.
WellFormed(st, N) ==
    /\ st \in [frames : Seq(Frames(N)), disk : Seq(Frames(N)), queue : Seq(Frames(N))]
    /\ st.frames = st.disk \o st.queue

\* append adds one frame at the end.
LEMMA Appended ==
    ASSUME NEW N \in Nat, NEW st, WellFormed(st, N), NEW f \in Frames(N), NEW new, new = AppendFrame(st, f)
    PROVE  /\ WellFormed(new, N)
           /\ HeadSeq(st) \in Nat /\ HeadSeq(new) = HeadSeq(st) + 1
           /\ \A i \in 1..HeadSeq(st) : new.frames[i] = st.frames[i]
           /\ new.frames[HeadSeq(new)] = f
  <1>1. new = [frames |-> Append(st.frames, f), disk |-> st.disk,
               queue |-> Append(st.queue, f)]
    BY DEF WellFormed, AppendFrame
  <1>2. /\ st.frames \in Seq(Frames(N))
        /\ st.disk \in Seq(Frames(N))
        /\ st.queue \in Seq(Frames(N))
    BY DEF WellFormed
  <1>3. Append(st.frames, f) = st.disk \o Append(st.queue, f)
    <2>1. st.frames = st.disk \o st.queue
      BY DEF WellFormed
    <2>2. \A s, t \in Seq(Frames(N)) : Append(s \o t, f) = s \o Append(t, f)
      OBVIOUS
    <2> QED
      BY <1>2, <2>1, <2>2
  <1>4. /\ Append(st.frames, f) \in Seq(Frames(N))
        /\ Len(Append(st.frames, f)) = Len(st.frames) + 1
        /\ \A i \in 1..Len(st.frames) : Append(st.frames, f)[i] = st.frames[i]
        /\ Append(st.frames, f)[Len(st.frames) + 1] = f
    BY <1>2, AppendProperties
  <1>5. Append(st.queue, f) \in Seq(Frames(N)) /\ Len(st.frames) \in Nat
    BY <1>2, AppendProperties, LenProperties
  <1>6. WellFormed(new, N)
    <2>1. /\ new.frames = Append(st.frames, f) /\ new.disk = st.disk
          /\ new.queue = Append(st.queue, f)
      BY <1>1
    <2>2. new \in [frames : Seq(Frames(N)), disk : Seq(Frames(N)),
                   queue : Seq(Frames(N))]
      BY <1>1, <1>2, <1>4, <1>5
    <2> QED
      BY <1>3, <2>1, <2>2 DEF WellFormed
  <1> QED
    BY <1>1, <1>4, <1>5, <1>6 DEF HeadSeq

\* A new process sees the prefix that reached the file.
LEMMA Cut ==
    ASSUME NEW N \in Nat, NEW st, WellFormed(st, N), NEW k \in Len(st.disk)..HeadSeq(st),
           NEW new, new = Reloaded(FlushedTo(st, k))
    PROVE  /\ WellFormed(new, N)
           /\ HeadSeq(st) \in Nat /\ HeadSeq(new) = k /\ k \in 0..HeadSeq(st)
           /\ \A i \in 1..k : new.frames[i] = st.frames[i]
  <1>1. /\ st.frames \in Seq(Frames(N))
        /\ st.disk \in Seq(Frames(N))
        /\ st.queue \in Seq(Frames(N))
    BY DEF WellFormed
  <1>2. Len(st.disk) \in Nat /\ Len(st.frames) \in Nat
    BY <1>1, LenProperties
  <1>3. k \in 0..Len(st.frames)
    BY <1>2 DEF HeadSeq
  <1> DEFINE p == SubSeq(st.frames, 1, k)
  <1>4. \A i \in 1..k : st.frames[i] \in Frames(N)
    BY <1>1, <1>3, LenProperties
  <1>5. /\ p \in Seq(Frames(N))
        /\ Len(p) = k
        /\ \A i \in 1..k : p[i] = st.frames[i]
    <2>1. 1 \in Int /\ k \in Int
      BY <1>3
    <2>2. /\ p \in Seq(Frames(N))
          /\ Len(p) = IF 1 <= k THEN k - 1 + 1 ELSE 0
          /\ \A i \in 1..(k - 1 + 1) : p[i] = st.frames[1 + i - 1]
      BY <1>4, <2>1, SubSeqProperties
    <2> HIDE DEF p
    <2>3. k - 1 + 1 = k /\ \A i \in 1..k : 1 + i - 1 = i
      BY <1>3
    <2> QED
      BY <1>3, <2>2, <2>3
  <1>6. new = [frames |-> p, disk |-> p, queue |-> <<>>]
    BY DEF Reloaded, FlushedTo, WellFormed
  <1>7. p \o <<>> = p
    BY <1>5, ConcatEmptySeq
  <1>8. <<>> \in Seq(Frames(N))
    OBVIOUS
  <1> HIDE DEF p
  <1>9. WellFormed(new, N)
    BY <1>5, <1>6, <1>7, <1>8 DEF WellFormed
  <1> QED
    BY <1>2, <1>3, <1>5, <1>6, <1>9 DEF HeadSeq

\* reattachCursor is the greatest output number in the transcript, or 0.
LEMMA CursorIs ==
    ASSUME NEW N \in Nat, NEW st, WellFormed(st, N), NEW c, c = ReattachCursor(st)
    PROVE  /\ c \in 0..N
           /\ c = 0 \/ \E i \in 1..HeadSeq(st) : st.frames[i].n = c
           /\ \A i \in 1..HeadSeq(st) : st.frames[i].n <= c
  <1> DEFINE S == {0} \cup {f.n : f \in ToSet(st.frames)}
  <1>1. /\ st.frames \in Seq(Frames(N)) /\ N \in Nat
        /\ DOMAIN st.frames = 1..HeadSeq(st)
        /\ \A i \in 1..HeadSeq(st) : st.frames[i] \in Frames(N)
    BY LenProperties DEF WellFormed, HeadSeq
  <1>2. \A i \in 1..HeadSeq(st) : st.frames[i].n \in 0..N
    BY <1>1 DEF Frames
  <1>3. S = {0} \cup {st.frames[i].n : i \in 1..HeadSeq(st)}
    BY <1>1 DEF ToSet
  <1>4. 0 \in S /\ \A x \in S : x \in Nat /\ x <= N
    <2>1. \A i \in 1..HeadSeq(st) : st.frames[i].n \in Nat /\ st.frames[i].n <= N
      BY <1>2
    <2>2. 0 \in Nat /\ 0 <= N
      OBVIOUS
    <2> HIDE DEF S
    <2> QED
      BY <1>3, <2>1, <2>2
  <1>5. c = Max(S)
    BY DEF ReattachCursor
  <1> HIDE DEF S
  <1>6. c \in S /\ \A x \in S : x <= c
    <2>1. S \subseteq Nat /\ S # {}
      BY <1>4
    <2> QED
      BY <1>1, <1>4, <1>5, <2>1, MaxIs
  <1>7. \A i \in 1..HeadSeq(st) : st.frames[i].n \in S
    BY <1>3
  <1> QED
    BY <1>1, <1>2, <1>3, <1>4, <1>6, <1>7

(***************************************************************************)
(* The elements at some positions, in order.                               *)
(***************************************************************************)
Rank(I, i) == Cardinality({j \in I : j <= i})

LEMMA RankIs ==
    ASSUME NEW I, I \subseteq Nat, IsFiniteSet(I), NEW i \in I
    PROVE  /\ Rank(I, i) \in 1..Cardinality(I)
           /\ \A j \in I : i < j => Rank(I, i) < Rank(I, j)
  <1> DEFINE Below(j) == {m \in I : m <= j}
  <1>1. ASSUME NEW j PROVE /\ IsFiniteSet(Below(j)) /\ Cardinality(Below(j)) \in Nat
                           /\ Cardinality(Below(j)) <= Cardinality(I)
    BY FS_Subset, FS_CardinalityType
  <1>2. Cardinality(I) \in Nat
    BY FS_CardinalityType
  <1>3. Cardinality(Below(i)) # 0
    <2>1. i \in Below(i)
      OBVIOUS
    <2> QED
      BY <1>1, <2>1, FS_EmptySet
  <1>4. ASSUME NEW j \in I, i < j PROVE Cardinality(Below(i)) < Cardinality(Below(j))
    <2>0. i \in Nat /\ j \in Nat /\ \A m \in I : m \in Nat
      BY <1>4
    <2>1. j \in Below(j) /\ j \notin Below(i) /\ Below(i) \in SUBSET Below(j)
      <3>1. \A m \in I : m <= i => m <= j
        BY <1>4, <2>0
      <3>2. j <= j /\ ~(j <= i)
        BY <1>4, <2>0
      <3> QED
        BY <1>4, <3>1, <3>2
    <2>2. /\ Cardinality(Below(i)) <= Cardinality(Below(j))
          /\ Cardinality(Below(j)) = Cardinality(Below(i)) => Below(j) = Below(i)
      BY <1>1, <2>1, FS_Subset
    <2> QED
      BY <1>1, <2>1, <2>2
  <1> QED
    BY <1>1, <1>2, <1>3, <1>4 DEF Rank

LEMMA RanksDiffer ==
    ASSUME NEW I, I \subseteq Nat, IsFiniteSet(I), NEW i \in I, NEW j \in I,
           Rank(I, i) = Rank(I, j)
    PROVE  i = j
  <1>1. Rank(I, i) \in Nat /\ Rank(I, j) \in Nat
    <2>1. Cardinality(I) \in Nat
      BY FS_CardinalityType
    <2>2. Rank(I, i) \in 1..Cardinality(I) /\ Rank(I, j) \in 1..Cardinality(I)
      BY RankIs
    <2> QED
      BY <2>1, <2>2
  <1>2. /\ i < j => Rank(I, i) < Rank(I, j)
        /\ j < i => Rank(I, j) < Rank(I, i)
    BY RankIs
  <1>3. i \in Nat /\ j \in Nat
    OBVIOUS
  <1> QED
    BY <1>1, <1>2, <1>3

\* Every number up to the size of the set is the rank of one element.
LEMMA NthIs ==
    ASSUME NEW I, I \subseteq Nat, IsFiniteSet(I), NEW k \in 1..Cardinality(I)
    PROVE  Nth(I, k) \in I /\ Rank(I, Nth(I, k)) = k
  <1> DEFINE N == Cardinality(I)
             r == [i \in I |-> Rank(I, i)]
  <1>1. N \in Nat /\ IsFiniteSet(1..N) /\ Cardinality(1..N) = N
    <2>1. N \in Nat
      BY FS_CardinalityType
    <2>2. 1 \in Int /\ N \in Int
      BY <2>1
    <2>3. IsFiniteSet(1..N) /\ Cardinality(1..N) = IF 1 > N THEN 0 ELSE N - 1 + 1
      BY <2>2, FS_Interval
    <2> HIDE DEF N
    <2> QED
      BY <2>1, <2>3
  <1>2. r \in Injection(I, 1..N)
    <2>1. r \in [I -> 1..N]
      BY RankIs
    <2>2. \A i, j \in I : r[i] = r[j] => i = j
      BY RanksDiffer
    <2> QED
      BY <2>1, <2>2 DEF Injection, IsInjective
  <1>3. r \in Surjection(I, 1..N)
    <2>1. Cardinality(I) = Cardinality(1..N)
      BY <1>1
    <2> HIDE DEF r
    <2> QED
      BY <1>1, <1>2, <2>1, FS_Injection
  <1>4. PICK i \in I : r[i] = k
    BY <1>3 DEF Surjection
  <1>5. Rank(I, i) = k
    BY <1>4
  <1> QED
    BY <1>5 DEF Nth, Rank

LEMMA RankedIs ==
    ASSUME NEW I, I \subseteq Nat, IsFiniteSet(I), NEW i \in I
    PROVE  Nth(I, Rank(I, i)) = i
  <1>1. Rank(I, i) \in 1..Cardinality(I)
    BY RankIs
  <1>2. Nth(I, Rank(I, i)) \in I /\ Rank(I, Nth(I, Rank(I, i))) = Rank(I, i)
    BY <1>1, NthIs
  <1> QED
    BY <1>2, RanksDiffer

\* The elements come in the order of their positions.
LEMMA NthOrder ==
    ASSUME NEW I, I \subseteq Nat, IsFiniteSet(I),
           NEW k \in 1..Cardinality(I), NEW l \in 1..Cardinality(I)
    PROVE  k < l <=> Nth(I, k) < Nth(I, l)
  <1>1. /\ Nth(I, k) \in I /\ Rank(I, Nth(I, k)) = k
        /\ Nth(I, l) \in I /\ Rank(I, Nth(I, l)) = l
    BY NthIs
  <1>2. /\ Nth(I, k) < Nth(I, l) => k < l
        /\ Nth(I, l) < Nth(I, k) => l < k
    BY <1>1, RankIs
  <1>3. Cardinality(I) \in Nat
    BY FS_CardinalityType
  <1>4. k \in Nat /\ l \in Nat /\ Nth(I, k) \in Nat /\ Nth(I, l) \in Nat
    <2>1. \A m \in I : m \in Nat
      OBVIOUS
    <2>2. k \in Nat /\ l \in Nat
      BY <1>3
    <2> QED
      BY <1>1, <2>1, <2>2
  <1>5. Nth(I, k) = Nth(I, l) => k = l
    BY <1>1
  <1> QED
    BY <1>2, <1>4, <1>5

\* Picking every position changes nothing.
LEMMA PickedAll ==
    ASSUME NEW S, NEW s \in Seq(S), NEW I, I = 1..Len(s)
    PROVE  Picked(s, I) = s
  <1>1. Len(s) \in Nat /\ DOMAIN s = 1..Len(s)
    BY LenProperties
  <1> DEFINE n == Len(s)
  <1>2. I \subseteq Nat /\ IsFiniteSet(I) /\ Cardinality(I) = n
    <2>1. 1 \in Int /\ n \in Int
      BY <1>1
    <2>2. IsFiniteSet(1..n) /\ Cardinality(1..n) = IF 1 > n THEN 0 ELSE n - 1 + 1
      BY <2>1, FS_Interval
    <2> HIDE DEF n
    <2> QED
      BY <1>1, <2>2 DEF n
  <1>3. ASSUME NEW k \in 1..n PROVE Rank(I, k) = k
    <2>1. {j \in I : j <= k} = 1..k
      BY <1>1, <1>3
    <2>2. 1 \in Int /\ k \in Int
      OBVIOUS
    <2>3. Cardinality(1..k) = IF 1 > k THEN 0 ELSE k - 1 + 1
      BY <2>2, FS_Interval
    <2>4. k \in Nat /\ ~(1 > k) /\ k - 1 + 1 = k
      BY <1>1
    <2> QED
      BY <2>1, <2>3, <2>4 DEF Rank
  <1>4. \A k \in 1..n : Nth(I, k) = k
    <2>1. \A k \in 1..n : Nth(I, Rank(I, k)) = k
      BY <1>2, RankedIs
    <2> QED
      BY <1>3, <2>1
  <1>5. Picked(s, I) = [k \in 1..n |-> s[k]]
    BY <1>2, <1>4 DEF Picked
  <1>6. s = [k \in 1..n |-> s[k]]
    BY <1>1
  <1> QED
    BY <1>5, <1>6

\* What is picked is a sequence of elements of s.
LEMMA PickedIs ==
    ASSUME NEW S, NEW s \in Seq(S), NEW I, I \subseteq 1..Len(s)
    PROVE  /\ I \subseteq Nat /\ IsFiniteSet(I) /\ Cardinality(I) \in Nat
           /\ Picked(s, I) \in Seq(S) /\ Len(Picked(s, I)) = Cardinality(I)
           /\ \A k \in 1..Cardinality(I) : Picked(s, I)[k] = s[Nth(I, k)]
           /\ Cardinality(I) = 0 <=> I = {}
  <1>1. Len(s) \in Nat /\ \A i \in 1..Len(s) : s[i] \in S
    BY LenProperties
  <1>2. I \subseteq Nat /\ IsFiniteSet(I) /\ Cardinality(I) \in Nat
    <2>1. 1 \in Int /\ Len(s) \in Int
      BY <1>1
    <2>2. IsFiniteSet(1..Len(s))
      BY <2>1, FS_Interval
    <2>3. I \subseteq Nat /\ I \in SUBSET (1..Len(s))
      BY <1>1
    <2>4. IsFiniteSet(I)
      BY <2>2, <2>3, FS_Subset
    <2> QED
      BY <2>3, <2>4, FS_CardinalityType
  <1> DEFINE n == Cardinality(I)
             e == [k \in 1..n |-> s[Nth(I, k)]]
  <1>3. \A k \in 1..n : s[Nth(I, k)] \in S
    BY <1>1, <1>2, NthIs
  <1>4. e \in Seq(S) /\ Len(e) = n
    <2>1. e \in [1..n -> S] /\ n \in Nat
      BY <1>2, <1>3
    <2> HIDE DEF e, n
    <2>2. e \in Seq(S)
      BY <2>1, SeqDef
    <2> QED
      BY <2>1, <2>2, LenProperties
  <1>5. Picked(s, I) = e
    BY DEF Picked
  <1>6. Cardinality(I) = 0 <=> I = {}
    BY <1>2, FS_EmptySet
  <1> QED
    BY <1>2, <1>4, <1>5, <1>6

\* The outputs among the frames ns, by their ranks.
LEMMA OutsIs ==
    ASSUME NEW N \in Nat, NEW st, WellFormed(st, N), NEW ns, ns \subseteq 1..HeadSeq(st)
    PROVE  LET I  == OutsAt(st, ns)
               os == OutsOf(st, ns)
           IN  /\ I \subseteq 1..HeadSeq(st) /\ I \subseteq Nat /\ IsFiniteSet(I)
               /\ Cardinality(I) \in Nat
               /\ os \in Seq(0..N) /\ Len(os) = Cardinality(I)
               /\ \A k \in 1..Len(os) : Nth(I, k) \in I /\ os[k] = st.frames[Nth(I, k)].n
               /\ \A i \in I : Rank(I, i) \in 1..Len(os) /\ os[Rank(I, i)] = st.frames[i].n
               /\ os = <<>> <=> I = {}
  <1> DEFINE I  == OutsAt(st, ns)
             os == OutsOf(st, ns)
  <1>1. /\ st.frames \in Seq(Frames(N)) /\ Len(st.frames) = HeadSeq(st)
        /\ I \subseteq 1..Len(st.frames)
    BY DEF WellFormed, HeadSeq, OutsAt
  <1> DEFINE p == Picked(st.frames, I)
             n == Cardinality(I)
  <1>2. /\ I \subseteq Nat /\ IsFiniteSet(I) /\ n \in Nat
        /\ p \in Seq(Frames(N)) /\ Len(p) = n
        /\ \A k \in 1..n : p[k] = st.frames[Nth(I, k)]
        /\ n = 0 <=> I = {}
    BY <1>1, PickedIs
  <1>3. os = [i \in 1..Len(p) |-> p[i].n]
    BY DEF OutsOf
  <1>n. ASSUME NEW k \in 1..n PROVE Nth(I, k) \in I
    BY <1>2, NthIs
  <1> HIDE DEF p, n, I, os
  <1>4. ASSUME NEW k \in 1..n PROVE p[k].n \in 0..N
    <2>1. p[k] \in Frames(N)
      BY <1>2, LenProperties
    <2> QED
      BY <2>1 DEF Frames
  <1>5. os \in Seq(0..N) /\ Len(os) = n
    <2>1. os \in [1..n -> 0..N]
      BY <1>2, <1>3, <1>4
    <2>2. os \in Seq(0..N)
      BY <1>2, <2>1, SeqDef
    <2> QED
      BY <1>2, <2>1, <2>2, LenProperties
  <1>6. \A k \in 1..n : Nth(I, k) \in I /\ os[k] = st.frames[Nth(I, k)].n
    BY <1>2, <1>3, <1>n
  <1>7. ASSUME NEW i \in I PROVE Rank(I, i) \in 1..n /\ os[Rank(I, i)] = st.frames[i].n
    <2>1. Rank(I, i) \in 1..n
      BY <1>2, RankIs DEF n
    <2>2. Nth(I, Rank(I, i)) = i
      BY <1>2, RankedIs
    <2> QED
      BY <1>6, <2>1, <2>2
  <1>8. os = <<>> <=> I = {}
    <2>1. os = <<>> <=> Len(os) = 0
      BY <1>5, EmptySeq
    <2> QED
      BY <1>2, <1>5, <2>1
  <1> QED
    BY <1>1, <1>2, <1>5, <1>6, <1>7, <1>8 DEF n, I, os
=============================================================================
