---------------------------- MODULE Semaphore_proofs ----------------------------
(***************************************************************************)
(* What Acquire and Release of the image services' semaphore do to the set *)
(* of those who have a slot.  The lemmas are about any semaphore, any set  *)
(* of holders and any set of possible waiters.                             *)
(***************************************************************************)
EXTENDS Semaphore, FiniteSets, FiniteSetTheorems, TLAPS

NobodyTwice(s) ==
    \A i, j \in 1..Len(s.queue) : s.queue[i] = s.queue[j] => i = j

\* The holders are counted, they do not wait, and one waits for a full one only.
Accounts(s, max, W, H) ==
    /\ max \in Nat \ {0}
    /\ s \in SemType(max, W)
    /\ NobodyTwice(s)
    /\ IsFiniteSet(H)
    /\ s.count = Cardinality(H)
    /\ s.queue # <<>> => s.count = max
    /\ \A w \in W : Waits(s, w) => w \notin H

\* A free semaphore counts nobody.
LEMMA FreeAccounts ==
    ASSUME NEW max \in Nat \ {0}, NEW W
    PROVE  Accounts(FreeSemaphore, max, W, {}) /\ \A w : ~Waits(FreeSemaphore, w)
  <1>1. IsFiniteSet({}) /\ Cardinality({}) = 0
    BY FS_EmptySet
  <1>2. FreeSemaphore.count = 0 /\ FreeSemaphore.queue = <<>> /\ Len(<<>>) = 0
    BY DEF FreeSemaphore
  <1>3. FreeSemaphore \in SemType(max, W)
    BY DEF FreeSemaphore, SemType
  <1>4. \A w : ~Waits(FreeSemaphore, w)
    BY <1>2 DEF Waits
  <1>5. NobodyTwice(FreeSemaphore)
    BY <1>2 DEF NobodyTwice
  <1> QED
    BY <1>1, <1>2, <1>3, <1>4, <1>5 DEF Accounts

\* Who asks for a slot either has one afterwards or waits.
LEMMA AcquireAccounts ==
    ASSUME NEW max, NEW W, NEW H, NEW s, NEW w \in W,
           Accounts(s, max, W, H), w \notin H, ~Waits(s, w)
    PROVE  LET t == Acquire(s, max, w) IN
           /\ \A x : Waits(t, x) <=> Waits(s, x) \/ (x = w /\ s.count = max)
           /\ Accounts(t, max, W, IF s.count = max THEN H ELSE H \cup {w})
  <1> DEFINE t == Acquire(s, max, w)
  <1>1. /\ s \in SemType(max, W) /\ s.count \in 0..max /\ s.queue \in Seq(W)
        /\ max \in Nat \ {0} /\ NobodyTwice(s) /\ IsFiniteSet(H)
        /\ s.count = Cardinality(H) /\ (s.queue # <<>> => s.count = max)
        /\ \A x \in W : Waits(s, x) => x \notin H
    BY DEF Accounts, SemType
  <1>2. CASE s.count < max
    <2>1. t = [s EXCEPT !.count = @ + 1]
      BY <1>2 DEF Acquire
    <2>2. t \in SemType(max, W) /\ t.count = s.count + 1 /\ t.queue = s.queue
      BY <1>1, <1>2, <2>1 DEF SemType
    <2>3. NobodyTwice(t) /\ \A x : Waits(t, x) <=> Waits(s, x)
      BY <1>1, <2>2 DEF NobodyTwice, Waits
    <2>4. IsFiniteSet(H \cup {w}) /\ Cardinality(H \cup {w}) = Cardinality(H) + 1
      BY <1>1, FS_AddElement
    <2>5. \A x \in W : Waits(t, x) => x \notin H \cup {w}
      BY <1>1, <2>3
    <2>6. Accounts(t, max, W, H \cup {w})
      BY <1>1, <1>2, <2>2, <2>3, <2>4, <2>5 DEF Accounts
    <2> QED
      BY <1>1, <1>2, <2>3, <2>6
  <1>3. CASE s.count = max
    <2>1. t = [s EXCEPT !.queue = Append(@, w)]
      BY <1>1, <1>3 DEF Acquire
    <2>2. t \in SemType(max, W) /\ t.count = max /\ t.queue = Append(s.queue, w)
      BY <1>1, <1>3, <2>1 DEF SemType
    <2>3. /\ Len(t.queue) = Len(s.queue) + 1 /\ t.queue[Len(t.queue)] = w
          /\ Len(s.queue) \in Nat
          /\ \A i \in 1..Len(s.queue) : t.queue[i] = s.queue[i]
      BY <1>1, <2>2
    <2>4. \A x : Waits(t, x) <=> Waits(s, x) \/ x = w
      BY <2>3 DEF Waits
    <2>5. NobodyTwice(t)
      <3> HIDE DEF t
      <3>1. \A i \in 1..Len(s.queue) : s.queue[i] # w
        BY DEF Waits
      <3> SUFFICES ASSUME NEW i \in 1..Len(t.queue), NEW j \in 1..Len(t.queue),
                          t.queue[i] = t.queue[j]
                   PROVE  i = j
        BY DEF NobodyTwice
      <3>2. CASE i \in 1..Len(s.queue) /\ j \in 1..Len(s.queue)
        BY <1>1, <2>3, <3>2 DEF NobodyTwice
      <3>3. CASE i \notin 1..Len(s.queue) \/ j \notin 1..Len(s.queue)
        BY <2>3, <3>1, <3>3
      <3> QED
        BY <3>2, <3>3
    <2>6. Accounts(t, max, W, H)
      BY <1>1, <1>3, <2>2, <2>4, <2>5 DEF Accounts
    <2> QED
      BY <1>3, <2>4, <2>6
  <1> QED
    BY <1>1, <1>2, <1>3

\* Who gives a slot back leaves it to the first that waits.
LEMMA ReleaseAccounts ==
    ASSUME NEW max, NEW W, NEW H, NEW s, NEW x \in H,
           Accounts(s, max, W, H)
    PROVE  LET t == Release(s) IN
           /\ \A w : Waits(t, w) => Waits(s, w)
           /\ Accounts(t, max, W,
                       (H \ {x}) \cup {w \in W : Waits(s, w) /\ ~Waits(t, w)})
  <1> DEFINE t == Release(s)
             woken == {w \in W : Waits(s, w) /\ ~Waits(t, w)}
             rest == H \ {x}
  <1>1. /\ s \in SemType(max, W) /\ s.count \in 0..max /\ s.queue \in Seq(W)
        /\ max \in Nat \ {0} /\ NobodyTwice(s) /\ IsFiniteSet(H)
        /\ s.count = Cardinality(H) /\ (s.queue # <<>> => s.count = max)
        /\ \A w \in W : Waits(s, w) => w \notin H
    BY DEF Accounts, SemType
  <1>2. IsFiniteSet(rest) /\ Cardinality(rest) = Cardinality(H) - 1
    BY <1>1, FS_RemoveElement
  <1>3. CASE s.queue = <<>>
    <2>1. Cardinality(rest) \in Nat
      BY <1>2, FS_CardinalityType
    <2>2. s.count > 0 /\ t = [s EXCEPT !.count = @ - 1]
      BY <1>1, <1>2, <1>3, <2>1 DEF Release
    <2>3. t \in SemType(max, W) /\ t.count = s.count - 1 /\ t.queue = s.queue
      BY <1>1, <2>2 DEF SemType
    <2>4. \A w : ~Waits(t, w) /\ ~Waits(s, w)
      BY <1>3, <2>3 DEF Waits
    <2>5. woken = {}
      BY <2>4
    <2>6. NobodyTwice(t)
      BY <1>1, <2>3 DEF NobodyTwice
    <2>7. Accounts(t, max, W, rest)
      BY <1>1, <1>2, <1>3, <2>3, <2>4, <2>6 DEF Accounts
    <2> HIDE DEF t, rest, woken
    <2>8. rest \cup woken = rest
      BY <2>5
    <2> QED
      BY <2>4, <2>7, <2>8 DEF t, rest, woken
  <1>4. CASE s.queue # <<>>
    <2> DEFINE h == Head(s.queue)
    <2>1. t = [s EXCEPT !.queue = Tail(@)]
      BY <1>4 DEF Release
    <2>2. t \in SemType(max, W) /\ t.count = s.count /\ t.queue = Tail(s.queue)
      BY <1>1, <1>4, <2>1 DEF SemType
    <2>3. /\ Len(s.queue) \in Nat \ {0} /\ Len(t.queue) = Len(s.queue) - 1
          /\ h = s.queue[1] /\ h \in W
          /\ \A i \in 1..Len(t.queue) : t.queue[i] = s.queue[i + 1]
      BY <1>1, <1>4, <2>2
    <2>4. ~Waits(t, h) /\ Waits(s, h)
      BY <1>1, <2>3 DEF Waits, NobodyTwice
    <2>5. \A w : Waits(t, w) <=> Waits(s, w) /\ w # h
      <3>1. \A w : Waits(t, w) => Waits(s, w)
        BY <2>3 DEF Waits
      <3>2. ASSUME NEW w, Waits(s, w), w # h PROVE Waits(t, w)
        <4>1. PICK i \in 1..Len(s.queue) : s.queue[i] = w
          BY <3>2 DEF Waits
        <4>2. i # 1 /\ i - 1 \in 1..Len(t.queue) /\ t.queue[i - 1] = s.queue[(i - 1) + 1]
          BY <2>3, <3>2, <4>1
        <4> QED
          BY <4>1, <4>2 DEF Waits
      <3> QED
        BY <2>4, <3>1, <3>2
    <2>6. NobodyTwice(t)
      BY <1>1, <2>3 DEF NobodyTwice
    <2>7. woken = {h}
      BY <2>3, <2>4, <2>5
    <2>8. h \notin H
      BY <1>1, <2>3, <2>4
    <2> HIDE DEF t, rest, woken
    <2>9. IsFiniteSet(rest \cup {h}) /\ Cardinality(rest \cup {h}) = Cardinality(H)
      <3>1. h \notin rest
        BY <2>8 DEF rest
      <3>2. Cardinality(rest \cup {h}) = Cardinality(rest) + 1
        BY <1>2, <3>1, FS_AddElement
      <3>3. Cardinality(rest) \in Nat /\ Cardinality(H) \in Nat
        BY <1>1, <1>2, FS_CardinalityType
      <3> QED
        BY <1>2, <3>1, <3>2, <3>3, FS_AddElement
    <2>10. \A w \in W : Waits(t, w) => w \notin rest \cup {h}
      BY <1>1, <2>5 DEF rest
    <2>11. Accounts(t, max, W, rest \cup {h})
      BY <1>1, <1>4, <2>2, <2>6, <2>9, <2>10 DEF Accounts
    <2> QED
      BY <2>5, <2>7, <2>11 DEF t, rest, woken
  <1> QED
    BY <1>3, <1>4

\* A slot may change hands, to one that neither has one nor waits.
LEMMA SwapAccounts ==
    ASSUME NEW max, NEW W, NEW H, NEW s, NEW x \in H, NEW y,
           Accounts(s, max, W, H), y \notin H, y \notin W
    PROVE  Accounts(s, max, W, (H \ {x}) \cup {y})
  <1>1. IsFiniteSet(H) /\ s.count = Cardinality(H)
    BY DEF Accounts
  <1>2. IsFiniteSet(H \ {x}) /\ Cardinality(H \ {x}) = Cardinality(H) - 1
    BY <1>1, FS_RemoveElement
  <1>3. /\ IsFiniteSet((H \ {x}) \cup {y})
        /\ Cardinality((H \ {x}) \cup {y}) = Cardinality(H \ {x}) + 1
    BY <1>2, FS_AddElement
  <1>4. Cardinality(H) \in Nat
    BY <1>1, FS_CardinalityType
  <1>5. s.count = Cardinality((H \ {x}) \cup {y})
    BY <1>1, <1>2, <1>3, <1>4
  <1>6. \A w \in W : Waits(s, w) => w \notin (H \ {x}) \cup {y}
    BY DEF Accounts
  <1> QED
    BY <1>3, <1>5, <1>6 DEF Accounts
=============================================================================
