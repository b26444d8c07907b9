----------------------------- MODULE QueueFacts -----------------------------
(***************************************************************************)
(* What the operations on message queues and lists do to the messages in   *)
(* them, and induction over the numbers, for the proofs.  Induction is     *)
(* stated with sets and functions, not with operators.                     *)
(***************************************************************************)
EXTENDS Integers, Sequences, SequenceTheorems, WellFoundedInduction, TLAPS

Elements(q) == {q[i] : i \in DOMAIN q}

\* Sending keeps the first message and adds one.
LEMMA AppendFacts ==
    ASSUME NEW S, NEW q \in Seq(S), NEW m \in S
    PROVE  /\ Append(q, m) \in Seq(S)
           /\ Append(q, m) # <<>>
           /\ q # <<>> => Head(Append(q, m)) = Head(q)
           /\ Elements(Append(q, m)) = Elements(q) \cup {m}
<1>1. /\ Append(q, m) \in Seq(S)
      /\ Append(q, m) # <<>>
      /\ Len(Append(q, m)) = Len(q) + 1
      /\ \A i \in 1..Len(q) : Append(q, m)[i] = q[i]
      /\ Append(q, m)[Len(q) + 1] = m
  BY AppendProperties
<1>2. q # <<>> => Head(Append(q, m)) = Head(q)
  BY HeadTailAppend
<1>3. DOMAIN q = 1..Len(q) /\ DOMAIN Append(q, m) = (1..Len(q)) \cup {Len(q) + 1}
  BY <1>1
<1>4. Elements(Append(q, m)) = Elements(q) \cup {m}
  BY <1>1, <1>3 DEF Elements
<1>5. QED
  BY <1>1, <1>2, <1>4

\* The first message and the rest of a queue that is not empty.
LEMMA HeadTailFacts ==
    ASSUME NEW S, NEW q \in Seq(S), q # <<>>
    PROVE  /\ Head(q) \in S
           /\ Head(q) \in Elements(q)
           /\ Tail(q) \in Seq(S)
           /\ Elements(Tail(q)) \subseteq Elements(q)
<1>1. Len(q) \in Nat \ {0} /\ Head(q) = q[1]
  BY EmptySeq
<1>2. DOMAIN q = 1..Len(q) /\ 1 \in DOMAIN q
  BY <1>1, LenProperties
<1>3. /\ Head(q) \in S
      /\ Tail(q) \in Seq(S)
      /\ Len(Tail(q)) = Len(q) - 1
      /\ \A i \in 1..(Len(q) - 1) : Tail(q)[i] = q[i + 1]
  BY HeadTailProperties
<1>4. \A i \in DOMAIN Tail(q) : i + 1 \in DOMAIN q /\ Tail(q)[i] = q[i + 1]
  BY <1>1, <1>2, <1>3
<1>5. Elements(Tail(q)) \subseteq Elements(q)
  BY <1>4 DEF Elements
<1>6. QED
  BY <1>1, <1>2, <1>3, <1>5 DEF Elements

\* Taking one entry out of a list.
LEMMA RemoveFacts ==
    ASSUME NEW S, NEW q \in Seq(S), NEW i \in DOMAIN q
    PROVE  LET r == SubSeq(q, 1, i - 1) \o SubSeq(q, i + 1, Len(q))
           IN  r \in Seq(S) /\ Elements(r) \subseteq Elements(q)
<1>. DEFINE a == SubSeq(q, 1, i - 1)
            b == SubSeq(q, i + 1, Len(q))
<1>1. /\ Len(q) \in Nat
      /\ i \in 1..Len(q)
      /\ DOMAIN q = 1..Len(q)
  OBVIOUS
<1>2. /\ a \in Seq(S)
      /\ Len(a) = i - 1
      /\ \A j \in 1..(i - 1) : a[j] = q[j]
  BY <1>1, SubSeqProperties
<1>3. /\ b \in Seq(S)
      /\ Len(b) = Len(q) - i
      /\ \A j \in 1..(Len(q) - i) : b[j] = q[i + j]
  BY <1>1, SubSeqProperties
<1>. HIDE DEF a, b
<1>4. /\ a \o b \in Seq(S)
      /\ Len(a \o b) = Len(a) + Len(b)
      /\ \A j \in 1..(Len(a) + Len(b)) :
            (a \o b)[j] = IF j <= Len(a) THEN a[j] ELSE b[j - Len(a)]
  BY <1>2, <1>3, ConcatProperties
<1>5. \A j \in DOMAIN (a \o b) : \E k \in DOMAIN q : (a \o b)[j] = q[k]
  <2>. SUFFICES ASSUME NEW j \in DOMAIN (a \o b)
                PROVE  \E k \in DOMAIN q : (a \o b)[j] = q[k]
    OBVIOUS
  <2>1. j \in 1..(Len(a) + Len(b))
    BY <1>4
  <2>2. CASE j <= Len(a)
    BY <2>1, <2>2, <1>1, <1>2, <1>4
  <2>3. CASE ~(j <= Len(a))
    <3>1. j - Len(a) \in 1..(Len(q) - i)
      BY <2>1, <2>3, <1>1, <1>2, <1>3
    <3>2. (a \o b)[j] = q[i + (j - Len(a))]
      BY <2>1, <2>3, <3>1, <1>3, <1>4
    <3>3. i + (j - Len(a)) \in DOMAIN q
      BY <3>1, <1>1, <1>2
    <3>4. QED
      BY <3>2, <3>3
  <2>4. QED
    BY <2>2, <2>3
<1>6. Elements(a \o b) \subseteq Elements(q)
  BY <1>5 DEF Elements
<1>7. QED
  BY <1>4, <1>6 DEF a, b
-----------------------------------------------------------------------------
\* The positions of the messages in T.
Where(q, T) == {i \in DOMAIN q : q[i] \in T}

\* A message that is in T when it is sent is found behind all others.
LEMMA WhereAppend ==
    ASSUME NEW S, NEW q \in Seq(S), NEW m \in S, NEW T
    PROVE  /\ m \in T => Where(Append(q, m), T) = Where(q, T) \cup {Len(q) + 1}
           /\ m \notin T => Where(Append(q, m), T) = Where(q, T)
           /\ Len(q) + 1 \notin Where(q, T)
<1>1. /\ Len(Append(q, m)) = Len(q) + 1
      /\ \A i \in 1..Len(q) : Append(q, m)[i] = q[i]
      /\ Append(q, m)[Len(q) + 1] = m
      /\ Append(q, m) \in Seq(S)
  BY AppendProperties
<1>2. DOMAIN q = 1..Len(q) /\ DOMAIN Append(q, m) = (1..Len(q)) \cup {Len(q) + 1} /\ Len(q) \in Nat
  BY <1>1
<1>3. QED
  BY <1>1, <1>2 DEF Where

\* The first message is at position 1, and the others move up when it is taken.
LEMMA WhereTail ==
    ASSUME NEW S, NEW q \in Seq(S), q # <<>>, NEW T
    PROVE  /\ 1 \in Where(q, T) <=> Head(q) \in T
           /\ \A i \in Where(Tail(q), T) : i \in Nat \ {0} /\ i + 1 \in Where(q, T)
<1>1. /\ Len(q) \in Nat \ {0} /\ Head(q) = q[1]
      /\ DOMAIN q = 1..Len(q) /\ 1 \in DOMAIN q
  BY EmptySeq
<1>2. DOMAIN Tail(q) = 1..(Len(q) - 1) /\ \A i \in 1..(Len(q) - 1) : Tail(q)[i] = q[i + 1]
  BY <1>1
<1>3. QED
  BY <1>1, <1>2 DEF Where

\* Those behind a message that is taken out move up.
LEMMA WhereRemove ==
    ASSUME NEW S, NEW q \in Seq(S), NEW i \in DOMAIN q, NEW T
    PROVE  LET r == SubSeq(q, 1, i - 1) \o SubSeq(q, i + 1, Len(q))
           IN  \A j \in Where(r, T) : /\ j \in Nat
                                      /\ j < i => j \in Where(q, T)
                                      /\ j >= i => j + 1 \in Where(q, T)
<1>. DEFINE a == SubSeq(q, 1, i - 1)
            b == SubSeq(q, i + 1, Len(q))
<1>1. /\ Len(q) \in Nat
      /\ i \in 1..Len(q)
      /\ DOMAIN q = 1..Len(q)
  OBVIOUS
<1>2. /\ a \in Seq(S)
      /\ Len(a) = i - 1
      /\ \A j \in 1..(i - 1) : a[j] = q[j]
  BY <1>1, SubSeqProperties
<1>3. /\ b \in Seq(S)
      /\ Len(b) = Len(q) - i
      /\ \A j \in 1..(Len(q) - i) : b[j] = q[i + j]
  BY <1>1, SubSeqProperties
<1>. HIDE DEF a, b
<1>. DEFINE r == a \o b
<1>4. /\ r \in Seq(S)
      /\ Len(r) = Len(a) + Len(b)
      /\ \A j \in 1..(Len(a) + Len(b)) :
            r[j] = IF j <= Len(a) THEN a[j] ELSE b[j - Len(a)]
  BY <1>2, <1>3, ConcatProperties
<1>. HIDE DEF r
<1>5. DOMAIN r = 1..(Len(q) - 1) /\ Len(a) + Len(b) = Len(q) - 1
  BY <1>1, <1>2, <1>3, <1>4
<1>6. ASSUME NEW j \in 1..(Len(q) - 1)
      PROVE  r[j] = IF j < i THEN q[j] ELSE q[j + 1]
  <2>1. CASE j < i
    BY <2>1, <1>1, <1>2, <1>4, <1>5
  <2>2. CASE ~ (j < i)
    <3>1. j - (i - 1) \in 1..(Len(q) - i) /\ i + (j - (i - 1)) = j + 1
      BY <2>2, <1>1
    <3>2. b[j - (i - 1)] = q[j + 1]
      BY <3>1, <1>3
    <3>3. QED
      BY <2>2, <3>2, <1>1, <1>2, <1>4, <1>5
  <2>3. QED
    BY <2>1, <2>2
<1>7. ASSUME NEW j \in Where(r, T)
      PROVE  /\ j \in Nat
             /\ j < i => j \in Where(q, T)
             /\ j >= i => j + 1 \in Where(q, T)
  <2>1. j \in 1..(Len(q) - 1) /\ r[j] \in T
    BY <1>5 DEF Where
  <2>2. QED
    BY <2>1, <1>1, <1>6 DEF Where
<1>8. QED
  BY <1>7 DEF r, a, b
-----------------------------------------------------------------------------
\* Nothing but the first message is lost when it is taken off.
LEMMA HeadAndTail ==
    ASSUME NEW S, NEW q \in Seq(S), q # <<>>
    PROVE  Elements(q) = {Head(q)} \cup Elements(Tail(q))
<1>1. /\ Len(q) \in Nat \ {0} /\ Head(q) = q[1]
      /\ DOMAIN q = 1..Len(q) /\ 1 \in DOMAIN q
  BY EmptySeq
<1>2. DOMAIN Tail(q) = 1..(Len(q) - 1) /\ \A i \in 1..(Len(q) - 1) : Tail(q)[i] = q[i + 1]
  BY <1>1
<1>3. ASSUME NEW i \in DOMAIN q, i # 1 PROVE q[i] \in Elements(Tail(q))
  <2>1. i - 1 \in DOMAIN Tail(q) /\ Tail(q)[i - 1] = q[i]
    BY <1>1, <1>2, <1>3
  <2>2. QED
    BY <2>1 DEF Elements
<1>4. Elements(q) \subseteq {Head(q)} \cup Elements(Tail(q))
  BY <1>1, <1>3 DEF Elements
<1>5. QED
  BY <1>4, HeadTailFacts

\* A queue, without its first message when that one does not count.
Remaining(q, hidden) == Elements(IF hidden THEN Tail(q) ELSE q)

\* What remains of a queue after a message is sent or taken off.
LEMMA RemainingFacts ==
    ASSUME NEW S, NEW q \in Seq(S), NEW hidden \in BOOLEAN, hidden => q # <<>>
    PROVE  /\ \A m \in S : Remaining(Append(q, m), hidden) = Remaining(q, hidden) \cup {m}
           /\ Remaining(q, hidden) \subseteq Elements(q)
           /\ q # <<>> => Elements(q) \subseteq {Head(q)} \cup Remaining(q, hidden)
           /\ \A m \in Elements(q) : m \in S
<1>1. ASSUME NEW m \in S PROVE Remaining(Append(q, m), hidden) = Remaining(q, hidden) \cup {m}
  <2>1. CASE hidden
    <3>1. Tail(Append(q, m)) = Append(Tail(q), m) /\ Tail(q) \in Seq(S)
      BY <2>1, HeadTailAppend, HeadTailFacts
    <3>2. \A p \in Seq(S) : Elements(Append(p, m)) = Elements(p) \cup {m}
      BY AppendFacts
    <3>3. QED
      BY <2>1, <3>1, <3>2 DEF Remaining
  <2>2. CASE ~ hidden
    BY <2>2, AppendFacts DEF Remaining
  <2>3. QED
    BY <2>1, <2>2
<1>2. Remaining(q, hidden) \subseteq Elements(q)
  BY HeadTailFacts DEF Remaining
<1>3. q # <<>> => Elements(q) \subseteq {Head(q)} \cup Remaining(q, hidden)
  BY HeadAndTail DEF Remaining
<1>4. \A m \in Elements(q) : m \in S
  BY DEF Elements
<1>5. QED
  BY <1>1, <1>2, <1>3, <1>4

\* Taking one entry out of a list leaves the others in it.
LEMMA RemoveKeeps ==
    ASSUME NEW S, NEW q \in Seq(S), NEW i \in DOMAIN q, NEW j \in DOMAIN q, j # i
    PROVE  LET r == SubSeq(q, 1, i - 1) \o SubSeq(q, i + 1, Len(q))
           IN  \E k \in DOMAIN r : r[k] = q[j]
<1>. DEFINE a == SubSeq(q, 1, i - 1)
            b == SubSeq(q, i + 1, Len(q))
<1>1. /\ Len(q) \in Nat
      /\ i \in 1..Len(q) /\ j \in 1..Len(q)
  OBVIOUS
<1>2. /\ a \in Seq(S)
      /\ Len(a) = i - 1
      /\ \A k \in 1..(i - 1) : a[k] = q[k]
  BY <1>1, SubSeqProperties
<1>3. /\ b \in Seq(S)
      /\ Len(b) = Len(q) - i
      /\ \A k \in 1..(Len(q) - i) : b[k] = q[i + k]
  BY <1>1, SubSeqProperties
<1>. HIDE DEF a, b
<1>. DEFINE r == a \o b
<1>4. /\ r \in Seq(S)
      /\ Len(r) = Len(a) + Len(b)
      /\ \A k \in 1..(Len(a) + Len(b)) :
            r[k] = IF k <= Len(a) THEN a[k] ELSE b[k - Len(a)]
  BY <1>2, <1>3, ConcatProperties
<1>. HIDE DEF r
<1>5. DOMAIN r = 1..(Len(q) - 1) /\ Len(a) + Len(b) = Len(q) - 1
  BY <1>1, <1>2, <1>3, <1>4
<1>6. ASSUME j < i PROVE \E k \in DOMAIN r : r[k] = q[j]
  <2>1. j \in 1..(Len(q) - 1) /\ r[j] = q[j]
    BY <1>1, <1>2, <1>4, <1>5, <1>6
  <2>2. QED
    BY <1>5, <2>1
<1>7. ASSUME j > i PROVE \E k \in DOMAIN r : r[k] = q[j]
  <2>1. /\ j - 1 \in 1..(Len(q) - 1) /\ ~ (j - 1 <= i - 1)
        /\ (j - 1) - (i - 1) \in 1..(Len(q) - i) /\ i + ((j - 1) - (i - 1)) = j
    BY <1>1, <1>7
  <2>2. r[j - 1] = b[(j - 1) - (i - 1)]
    BY <1>1, <1>2, <1>4, <1>5, <2>1
  <2>3. r[j - 1] = q[j]
    BY <1>3, <2>1, <2>2
  <2>4. QED
    BY <1>5, <2>1, <2>3
<1>8. \E k \in DOMAIN r : r[k] = q[j]
  BY <1>1, <1>6, <1>7
<1>9. QED
  BY <1>8 DEF r, a, b

-----------------------------------------------------------------------------
(* Numbers                                                                 *)

\* A set of numbers that is not empty has a least one.
LEMMA LeastExists ==
    ASSUME NEW S, S \subseteq Nat, S # {}
    PROVE  \E x \in S : \A y \in S : x <= y
<1>. DEFINE Less == {p \in Nat \X Nat : p[1] < p[2]}
<1>1. Less = OpToRel(<, Nat)
  BY Zenon DEF OpToRel
<1>2. IsWellFoundedOn(Less, Nat)
  BY <1>1, NatLessThanWellFounded, Zenon
<1>3. PICK x \in S : \A y \in S : ~ (<<y, x>> \in Less)
  BY <1>2, WFMin
<1>4. ASSUME NEW y \in S PROVE x <= y
  <2>1. ~ (<<y, x>> \in Less) /\ x \in Nat /\ y \in Nat
    BY <1>3
  <2>2. ~ (y < x)
    BY <2>1
  <2>3. QED
    BY <2>1, <2>2
<1>5. QED
  BY <1>4

\* A set that contains 0 and with each number the next one contains all.
LEMMA AllNaturals ==
    ASSUME NEW P \in SUBSET Nat, 0 \in P, \A n \in P : n + 1 \in P
    PROVE  P = Nat
<1>. SUFFICES ASSUME Nat \ P # {} PROVE FALSE
  OBVIOUS
<1>1. PICK n \in Nat \ P : \A m \in Nat \ P : n <= m
  BY LeastExists
<1>2. n # 0 /\ n - 1 \in Nat
  OBVIOUS
<1>3. n - 1 \notin P
  <2>1. n - 1 \in P => n - 1 + 1 \in P
    OBVIOUS
  <2>2. n - 1 + 1 = n
    OBVIOUS
  <2>3. QED
    BY <2>1, <2>2
<1>4. QED
  BY <1>1, <1>2, <1>3

\* f starts with first and takes a step from each value to the next.
BySteps(f, n, S, first, step) ==
    f \in [0..n -> S] /\ f[0] = first /\ \A i \in 1..n : f[i] = step[<<i, f[i - 1]>>]

\* A function over 0..n can be defined by its first value and its step.
LEMMA DefinedByStep ==
    ASSUME NEW n \in Nat, NEW S, NEW first \in S, NEW step \in [(1..n) \X S -> S]
    PROVE  \E f : BySteps(f, n, S, first, step)
<1>. DEFINE Upto(m) == \E f \in [0..m -> S] :
                           f[0] = first /\ \A i \in 1..m : f[i] = step[<<i, f[i - 1]>>]
            P == {m \in Nat : m <= n => Upto(m)}
<1>1. 0 \in P
  <2>1. [i \in 0..0 |-> first] \in [0..0 -> S] /\ [i \in 0..0 |-> first][0] = first
    OBVIOUS
  <2>2. \A i \in 1..0 : FALSE
    OBVIOUS
  <2>3. Upto(0)
    <3>. DEFINE f == [i \in 0..0 |-> first]
    <3>1. f \in [0..0 -> S] /\ f[0] = first /\ \A i \in 1..0 : f[i] = step[<<i, f[i - 1]>>]
      BY <2>1, <2>2
    <3>2. QED
      BY <3>1
  <2>4. QED
    BY <2>3
<1>2. ASSUME NEW m \in P PROVE m + 1 \in P
  <2>. SUFFICES ASSUME m + 1 <= n PROVE Upto(m + 1)
    OBVIOUS
  <2>1. Upto(m)
    OBVIOUS
  <2>2. PICK f \in [0..m -> S] : f[0] = first /\ \A i \in 1..m : f[i] = step[<<i, f[i - 1]>>]
    BY <2>1
  <2>3. f[m] \in S /\ <<m + 1, f[m]>> \in (1..n) \X S
    OBVIOUS
  <2>. DEFINE g == [i \in 0..m + 1 |-> IF i = m + 1 THEN step[<<m + 1, f[m]>>] ELSE f[i]]
  <2>4. g \in [0..m + 1 -> S]
    BY <2>3
  <2>5. g[0] = first
    BY <2>2
  <2>6. ASSUME NEW i \in 1..m + 1 PROVE g[i] = step[<<i, g[i - 1]>>]
    <3>1. CASE i = m + 1
      <4>1. i - 1 = m /\ m \in 0..m + 1 /\ m # m + 1
        BY <3>1
      <4>2. g[i - 1] = f[m]
        BY <4>1
      <4>3. QED
        BY <3>1, <4>1, <4>2
    <3>2. CASE i # m + 1
      <4>1. i \in 1..m /\ i - 1 \in 0..m /\ i - 1 # m + 1
        BY <3>2
      <4>2. g[i] = f[i] /\ g[i - 1] = f[i - 1]
        BY <3>2, <4>1
      <4>3. QED
        BY <2>2, <4>1, <4>2
    <3>3. QED
      BY <3>1, <3>2
  <2>7. QED
    BY <2>4, <2>5, <2>6
<1>. HIDE DEF P
<1>3. P = Nat
  <2>1. P \in SUBSET Nat
    BY DEF P
  <2>2. QED
    BY <1>1, <1>2, <2>1, AllNaturals
<1>4. Upto(n)
  BY <1>3 DEF P
<1>5. QED
  BY <1>4 DEF BySteps
=============================================================================
