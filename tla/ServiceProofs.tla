--------------------------- MODULE ServiceProofs ----------------------------
(***************************************************************************)
(* Proofs about the services for all regions, documents, transcripts,      *)
(* batch sizes, thresholds and jobs.  First the loops that select          *)
(* positions and cut them into batches, then a section for each service,   *)
(* which leads to its invariant: SttInv for the batches and the buffer of  *)
(* a job, DiarizationInv for the passes over the segments, EmotionInv for  *)
(* the results of batches that may fail.  TypeOK comes last.               *)
(***************************************************************************)
EXTENDS AudioServices, FiniteSetTheorems, QueueFacts

-----------------------------------------------------------------------------
(* Selecting                                                               *)

\* A list of numbers in order.
IsAscending(s) == \A k, l \in DOMAIN s : k < l => s[k] < s[l]

\* The list has the numbers of T up to m in their order.
Lists(s, m, T) ==
    /\ s \in Seq(T) /\ IsAscending(s)
    /\ \A k \in DOMAIN s : s[k] <= m
    /\ \A i \in T : i <= m => \E k \in DOMAIN s : s[k] = i

\* Nothing is in a list up to 0.
LEMMA ListsNothing == ASSUME NEW T, T \subseteq Nat \ {0} PROVE Lists(<<>>, 0, T)
  BY DEF Lists, IsAscending

\* The next number goes to the end of the list, if it belongs to it.
LEMMA ListsNext ==
    ASSUME NEW T, T \subseteq Nat, NEW m \in Nat, NEW s, Lists(s, m, T)
    PROVE  Lists(IF m + 1 \in T THEN Append(s, m + 1) ELSE s, m + 1, T)
<1>0. s \in Seq(T) /\ (\A k \in DOMAIN s : s[k] \in T /\ s[k] \in Nat /\ s[k] <= m)
  <2>1. s \in Seq(T) /\ \A k \in DOMAIN s : s[k] <= m
    BY DEF Lists
  <2>2. \A k \in DOMAIN s : s[k] \in T
    BY <2>1
  <2>3. QED
    BY <2>1, <2>2
<1>1. CASE m + 1 \notin T
  <2>1. \A i \in T : i <= m + 1 => i <= m
    BY <1>1
  <2>2. \A k \in DOMAIN s : s[k] <= m + 1
    BY <1>0
  <2>3. \A i \in T : i <= m + 1 => \E k \in DOMAIN s : s[k] = i
    BY <2>1 DEF Lists
  <2>4. Lists(s, m + 1, T)
    BY <2>2, <2>3 DEF Lists
  <2>5. QED
    BY <1>1, <2>4
<1>2. CASE m + 1 \in T
  <2>. DEFINE t == Append(s, m + 1)
  <2>1. t \in Seq(T) /\ DOMAIN t = 1..Len(s) + 1 /\ DOMAIN s = 1..Len(s) /\ Len(s) \in Nat
    BY <1>0, <1>2
  <2>2. t[Len(s) + 1] = m + 1 /\ \A k \in DOMAIN s : t[k] = s[k]
    BY <1>0
  <2>. HIDE DEF t
  <2>3. IsAscending(t)
    <3>. SUFFICES ASSUME NEW k \in DOMAIN t, NEW l \in DOMAIN t, k < l PROVE t[k] < t[l]
      BY DEF IsAscending
    <3>1. k \in DOMAIN s /\ t[k] = s[k] /\ s[k] \in Nat /\ s[k] <= m
      BY <1>0, <2>1, <2>2
    <3>2. CASE l = Len(s) + 1
      BY <2>2, <3>1, <3>2
    <3>3. CASE l # Len(s) + 1
      <4>1. l \in DOMAIN s /\ t[l] = s[l]
        BY <2>1, <2>2, <3>3
      <4>2. QED
        BY <3>1, <4>1 DEF Lists, IsAscending
    <3>4. QED
      BY <3>2, <3>3
  <2>4. \A k \in DOMAIN t : t[k] <= m + 1
    BY <1>0, <2>1, <2>2
  <2>5. ASSUME NEW i \in T, i <= m + 1 PROVE \E k \in DOMAIN t : t[k] = i
    <3>1. CASE i = m + 1
      BY <2>1, <2>2, <3>1
    <3>2. CASE i <= m
      BY <2>1, <2>2, <3>2 DEF Lists
    <3>3. QED
      BY <2>5, <3>1, <3>2
  <2>6. Lists(t, m + 1, T)
    BY <2>1, <2>3, <2>4, <2>5 DEF Lists
  <2>7. QED
    BY <1>2, <2>6 DEF t
<1>3. QED
  BY <1>1, <1>2

\* Ascending enumerates its set.
LEMMA AscendingLists ==
    ASSUME NEW n \in Nat, NEW T, T \subseteq 1..n
    PROVE  Lists(Ascending(n, T), n, T)
<1>. DEFINE Loop(f) == [i \in 0..n |-> IF i = 0 THEN <<>> ELSE IF i \in T THEN Append(f[i - 1], i) ELSE f[i - 1]]
            step == [x \in (1..n) \X Seq(Nat) |-> IF x[1] \in T THEN Append(x[2], x[1]) ELSE x[2]]
<1>0. T \subseteq Nat /\ T \subseteq Nat \ {0}
  OBVIOUS
<1>1. \E f : f = Loop(f)
  <2>1. step \in [(1..n) \X Seq(Nat) -> Seq(Nat)] /\ <<>> \in Seq(Nat)
    OBVIOUS
  <2>2. \E f : BySteps(f, n, Seq(Nat), <<>>, step)
    <3>. HIDE DEF step
    <3>1. QED
      BY <2>1, DefinedByStep
  <2>. PICK f : BySteps(f, n, Seq(Nat), <<>>, step)
    BY <2>2
  <2>3. ASSUME NEW i \in 0..n PROVE f[i] = Loop(f)[i]
    <3>1. CASE i = 0
      BY <3>1 DEF BySteps
    <3>2. CASE i # 0
      <4>1. i \in 1..n /\ i - 1 \in 0..n
        BY <3>2
      <4>2. <<i, f[i - 1]>> \in (1..n) \X Seq(Nat)
        BY <4>1 DEF BySteps
      <4>3. QED
        BY <3>2, <4>1, <4>2 DEF BySteps
    <3>3. QED
      BY <3>1, <3>2
  <2>4. f = Loop(f)
    BY <2>3 DEF BySteps
  <2>5. QED
    BY <2>4
<1>. DEFINE upto == CHOOSE f : f = Loop(f)
<1>2. upto = Loop(upto)
  BY <1>1
<1>3. Ascending(n, T) = upto[n]
  BY DEF Ascending
<1>4. upto[0] = <<>> /\ \A m \in Nat : m + 1 <= n => upto[m + 1] = IF m + 1 \in T THEN Append(upto[m], m + 1) ELSE upto[m]
  <2>. HIDE DEF upto
  <2>1. upto[0] = <<>>
    BY <1>2
  <2>2. ASSUME NEW m \in Nat, m + 1 <= n
        PROVE  upto[m + 1] = IF m + 1 \in T THEN Append(upto[m], m + 1) ELSE upto[m]
    <3>1. m + 1 \in 0..n /\ m + 1 # 0 /\ m + 1 - 1 = m
      BY <2>2
    <3>2. upto[m + 1] = Loop(upto)[m + 1]
      BY <1>2
    <3>3. Loop(upto)[m + 1] = IF m + 1 \in T THEN Append(upto[m + 1 - 1], m + 1) ELSE upto[m + 1 - 1]
      BY <3>1
    <3>4. QED
      BY <3>1, <3>2, <3>3
  <2>3. QED
    BY <2>1, <2>2
<1>. HIDE DEF upto
<1>. DEFINE P == {m \in Nat : m <= n => Lists(upto[m], m, T)}
<1>5. 0 \in P
  <2>1. Lists(upto[0], 0, T)
    BY <1>0, <1>4, ListsNothing
  <2>2. QED
    BY <2>1
<1>6. ASSUME NEW m \in P PROVE m + 1 \in P
  <2>1. ASSUME m + 1 <= n PROVE Lists(upto[m + 1], m + 1, T)
    <3>1. Lists(upto[m], m, T) /\ m \in Nat
      BY <2>1
    <3>2. Lists(IF m + 1 \in T THEN Append(upto[m], m + 1) ELSE upto[m], m + 1, T)
      BY <1>0, <3>1, ListsNext
    <3>3. QED
      BY <1>4, <2>1, <3>1, <3>2
  <2>2. QED
    BY <2>1
<1>7. P \in SUBSET Nat
  OBVIOUS
<1>. HIDE DEF P
<1>8. n \in P
  BY <1>5, <1>6, <1>7, AllNaturals
<1>9. QED
  BY <1>3, <1>8 DEF P

-----------------------------------------------------------------------------
(* Batches                                                                 *)

\* What \div and % are.
LEMMA Division ==
    ASSUME NEW a \in Nat, NEW d \in Nat \ {0}
    PROVE  a \div d \in Nat /\ a % d \in 0..d - 1 /\ a = (a \div d) * d + (a % d)
  OBVIOUS

\* Multiples are in the order of their factors.
LEMMA Multiples ==
    ASSUME NEW a \in Nat, NEW b \in Nat, NEW d \in Nat \ {0}
    PROVE  /\ a * d \in Nat /\ (a + 1) * d = a * d + d
           /\ a <= b => a * d <= b * d
           /\ a < b => a * d + d <= b * d
<1>1. a * d \in Nat /\ b * d \in Nat /\ (a + 1) * d = a * d + d
  OBVIOUS
<1>2. ASSUME a <= b PROVE a * d <= b * d
  <2>1. b - a \in Nat /\ b = a + (b - a)
    BY <1>2
  <2>2. (b - a) * d \in Nat /\ (a + (b - a)) * d = a * d + (b - a) * d
    BY <2>1
  <2>3. QED
    BY <1>1, <2>1, <2>2
<1>3. ASSUME a < b PROVE a * d + d <= b * d
  <2>1. b - a - 1 \in Nat /\ b = a + 1 + (b - a - 1)
    BY <1>3
  <2>2. (b - a - 1) * d \in Nat /\ (a + 1 + (b - a - 1)) * d = a * d + d + (b - a - 1) * d
    BY <2>1
  <2>3. QED
    BY <1>1, <2>1, <2>2
<1>4. QED
  BY <1>1, <1>2, <1>3

\* Where the batches of size d of n things begin and end.
LEMMA BatchBounds ==
    ASSUME NEW n \in Nat, NEW d \in Nat \ {0}, NEW b \in 1..(n \div d) + 1
    PROVE  (b - 1) * d \in 0..n /\ b * d = (b - 1) * d + d
<1>1. n \div d \in Nat /\ n % d \in Nat /\ n = (n \div d) * d + (n % d)
  BY Division
<1>2. b - 1 \in Nat /\ b - 1 <= n \div d /\ b - 1 + 1 = b
  BY <1>1
<1>3. PICK q \in Nat : q = n \div d
  BY <1>1
<1>4. PICK a \in Nat : a = b - 1
  BY <1>2
<1>5. a * d \in Nat /\ q * d \in Nat /\ (a + 1) * d = a * d + d /\ a * d <= q * d
  BY <1>2, <1>3, <1>4, Multiples
<1>6. PICK x \in Nat, y \in Nat : x = a * d /\ y = q * d
  BY <1>5
<1>7. x <= n
  <2>1. n = y + (n % d)
    BY <1>1, <1>3, <1>6
  <2>2. x <= y
    BY <1>5, <1>6
  <2>3. QED
    BY <1>1, <2>1, <2>2
<1>8. QED
  BY <1>2, <1>4, <1>5, <1>6, <1>7

\* Everything is in a batch.
LEMMA BatchOf ==
    ASSUME NEW n \in Nat, NEW d \in Nat \ {0}, NEW k \in 1..n
    PROVE  \E b \in 1..(n \div d) + 1 : \E j \in 1..d : k = (b - 1) * d + j
<1>1. k - 1 \in Nat
  OBVIOUS
<1>2. PICK a \in Nat, i \in 0..d - 1 : k - 1 = a * d + i
  BY <1>1, Division
<1>3. PICK q \in Nat, m \in 0..d - 1 : q = n \div d /\ n = q * d + m
  BY Division
<1>4. PICK x \in Nat, y \in Nat : x = a * d /\ y = q * d
  BY Multiples
<1>5. a <= q
  <2>1. ASSUME q < a PROVE y + d <= x
    BY <1>4, <2>1, Multiples
  <2>2. k - 1 = x + i /\ n = y + m
    BY <1>2, <1>3, <1>4
  <2>3. QED
    BY <2>1, <2>2
<1>6. a + 1 \in 1..(n \div d) + 1 /\ i + 1 \in 1..d /\ a + 1 - 1 = a
  BY <1>3, <1>5
<1>7. k = (a + 1 - 1) * d + (i + 1)
  <2>1. k = x + (i + 1)
    BY <1>2, <1>4
  <2>2. QED
    BY <1>4, <1>6, <2>1
<1>8. QED
  BY <1>6, <1>7

\* The batches before the last are full.
LEMMA FullBatches ==
    ASSUME NEW n \in Nat, NEW d \in Nat \ {0}, NEW b \in 1..(n \div d) + 1, (b - 1) * d = n
    PROVE  n % d = 0
<1>1. PICK q \in Nat, m \in 0..d - 1 : q = n \div d /\ m = n % d /\ n = q * d + m
  BY Division
<1>2. PICK a \in Nat : a = b - 1 /\ a <= q
  BY <1>1
<1>3. PICK y \in Nat : y = q * d /\ n <= y
  <2>1. a * d <= q * d /\ q * d \in Nat
    BY <1>2, Multiples
  <2>2. QED
    BY <1>2, <2>1
<1>4. n = y + m
  BY <1>1, <1>3
<1>5. QED
  BY <1>1, <1>3, <1>4

\* The speech segments of a document.
Spoken(segments) == {i \in DOMAIN segments : segments[i].type = Speech}

\* A position is in one of the batches.
InBatch(bs, p) == \E b \in DOMAIN bs : \E k \in DOMAIN bs[b] : bs[b][k] = p

\* What is true of the batches of a document, and stays true of those that are left.
RightBatches(bs, segments) ==
    /\ bs \in Seq(Seq(Nat))
    /\ \A b \in DOMAIN bs : \A k \in DOMAIN bs[b] : bs[b][k] \in Spoken(segments)
    /\ \A b \in DOMAIN bs : Len(bs[b]) <= SttBatchSize
    /\ \A b \in DOMAIN bs : bs[b] = <<>> => Len(SpeechPositions(segments)) % SttBatchSize = 0

\* Batches puts every speech segment in a batch, and a batch is empty only when
\* the others are full.
LEMMA BatchesRight ==
    ASSUME NEW segments \in Seq(Segments)
    PROVE  /\ RightBatches(Batches(segments), segments)
           /\ Batches(segments) # <<>>
           /\ \A p \in Spoken(segments) : InBatch(Batches(segments), p)
<1>. DEFINE ids == SpeechPositions(segments)
            n == Len(ids)
            d == SttBatchSize
            q == n \div d
            upper(b) == IF b * d < n THEN b * d ELSE n
            B == Batches(segments)
<1>1. Lists(ids, Len(segments), Spoken(segments))
  BY AscendingLists DEF SpeechPositions, Spoken
<1>2. ids \in Seq(Spoken(segments)) /\ n \in Nat /\ Spoken(segments) \subseteq Nat
  BY <1>1 DEF Lists, Spoken
<1>3. d \in Nat \ {0} /\ q \in Nat
  BY <1>2, SttAssumption, Division
<1>4. B = [b \in 1..q + 1 |-> SubSeq(ids, (b - 1) * d + 1, upper(b))]
  BY DEF Batches
<1>. HIDE DEF ids, n, d, B
<1>5. ASSUME NEW b \in 1..q + 1
      PROVE  /\ (b - 1) * d \in 0..n /\ upper(b) \in 0..n
             /\ upper(b) = (b - 1) * d + d \/ upper(b) = n
             /\ upper(b) <= (b - 1) * d + d
  <2>1. PICK x \in 0..n : x = (b - 1) * d /\ b * d = x + d
    BY <1>2, <1>3, BatchBounds
  <2>2. upper(b) = IF x + d < n THEN x + d ELSE n
    BY <2>1
  <2>3. QED
    BY <1>2, <1>3, <2>1, <2>2
<1>. HIDE DEF q, upper
<1>6. ASSUME NEW b \in 1..q + 1, NEW x \in Nat, x = (b - 1) * d
      PROVE  /\ B[b] \in Seq(Spoken(segments))
             /\ DOMAIN B[b] = 1..upper(b) - x
             /\ \A k \in DOMAIN B[b] : B[b][k] = ids[x + k]
  <2>. PICK y \in 0..n : y = upper(b)
    BY <1>5
  <2>1. B[b] = SubSeq(ids, x + 1, y)
    BY <1>4, <1>6
  <2>2. \A i \in x + 1..y : i \in 1..Len(ids)
    BY <1>2 DEF n
  <2>3. /\ SubSeq(ids, x + 1, y) \in Seq(Spoken(segments))
        /\ DOMAIN SubSeq(ids, x + 1, y) = 1..y - x
        /\ \A k \in 1..y - x : SubSeq(ids, x + 1, y)[k] = ids[x + k]
    BY <1>2, <2>2
  <2>4. QED
    BY <2>1, <2>3
<1>7. ASSUME NEW k \in 1..n PROVE \E b \in 1..q + 1 : \E r \in DOMAIN B[b] : B[b][r] = ids[k]
  <2>1. PICK b \in 1..q + 1, j \in 1..d : k = (b - 1) * d + j
    BY <1>2, <1>3, BatchOf DEF q
  <2>2. PICK x \in 0..n : x = (b - 1) * d
    BY <1>5
  <2>3. k = x + j
    BY <2>1, <2>2
  <2>4. upper(b) \in 0..n /\ (upper(b) = x + d \/ upper(b) = n)
    BY <1>5, <2>2
  <2>5. j \in 1..upper(b) - x
    BY <1>2, <1>3, <2>3, <2>4
  <2>6. DOMAIN B[b] = 1..upper(b) - x /\ \A r \in DOMAIN B[b] : B[b][r] = ids[x + r]
    BY <1>2, <1>6, <2>2
  <2>7. QED
    BY <2>3, <2>5, <2>6
<1>8. ASSUME NEW b \in 1..q + 1, B[b] = <<>> PROVE n % d = 0
  <2>1. PICK x \in 0..n : x = (b - 1) * d
    BY <1>5
  <2>2. PICK u \in 0..n : u = upper(b) /\ (u = x + d \/ u = n)
    BY <1>5, <2>1
  <2>3. DOMAIN B[b] = 1..u - x
    BY <1>2, <1>6, <2>1, <2>2
  <2>4. 1 \notin 1..u - x
    BY <1>8, <2>3
  <2>5. x = n
    BY <1>2, <1>3, <2>2, <2>4
  <2>6. QED
    BY <1>2, <1>3, <2>1, <2>5, FullBatches DEF q
<1>9. DOMAIN B = 1..q + 1 /\ (\A b \in 1..q + 1 : B[b] \in Seq(Spoken(segments))) /\ B \in Seq(Seq(Nat)) /\ B # <<>>
  <2>1. ASSUME NEW b \in 1..q + 1 PROVE B[b] \in Seq(Spoken(segments)) /\ B[b] \in Seq(Nat)
    <3>1. PICK x \in 0..n : x = (b - 1) * d
      BY <1>5
    <3>2. QED
      BY <1>2, <1>6, <3>1
  <2>2. DOMAIN B = 1..q + 1 /\ q + 1 \in Nat
    BY <1>3, <1>4
  <2>3. B \in [1..q + 1 -> Seq(Nat)]
    BY <1>4, <2>1, <2>2
  <2>4. QED
    BY <1>3, <2>1, <2>2, <2>3
<1>10. RightBatches(B, segments)
  <2>1. ASSUME NEW b \in 1..q + 1 PROVE Len(B[b]) <= d
    <3>1. PICK x \in 0..n : x = (b - 1) * d
      BY <1>5
    <3>2. PICK u \in 0..n : u = upper(b) /\ u <= x + d
      BY <1>5, <3>1
    <3>3. DOMAIN B[b] = 1..u - x
      BY <1>2, <1>6, <3>1, <3>2
    <3>4. PICK l \in Nat : l = Len(B[b]) /\ DOMAIN B[b] = 1..l
      <4>1. B[b] \in Seq(Spoken(segments))
        BY <1>2, <1>6, <3>1
      <4>2. QED
        BY <4>1
    <3>5. l # 0 => l \in 1..u - x
      BY <3>3, <3>4
    <3>6. QED
      BY <1>2, <1>3, <3>2, <3>4, <3>5
  <2>2. QED
    BY <1>8, <1>9, <2>1 DEF RightBatches, n, d, ids
<1>11. ASSUME NEW p \in Spoken(segments) PROVE InBatch(B, p)
  <2>1. PICK k \in 1..n : ids[k] = p
    BY <1>1, <1>2, <1>11 DEF Lists, Spoken, n
  <2>2. QED
    BY <1>7, <1>9, <2>1 DEF InBatch
<1>12. QED
  BY <1>9, <1>10, <1>11 DEF B

-----------------------------------------------------------------------------
(* Speech to text                                                          *)

Texts == {NoText} \cup (Nat \X Nat)

SttAnswers == [status : {"success", "failed"}, raised : BOOLEAN, texts : Seq(Texts), spoken : Nat]

SttTyping ==
    /\ job \in Nat /\ position \in Nat
    /\ transcribing \in {"idle", "append"}
    /\ document \in Seq(Segments)
    /\ texts \in Seq(Texts) /\ DOMAIN texts = DOMAIN document
    /\ streams \in Seq(Nat \X Nat)
    /\ answers \in Seq(SttAnswers)
    /\ Len(answers) = IF transcribing = "idle" THEN job ELSE job - 1

\* Every speech segment has its text or is still in a batch, nothing else has one.
Transcribed ==
    transcribing = "append" =>
        /\ RightBatches(batches, document)
        /\ \A p \in Spoken(document) : texts[p] # NoText \/ InBatch(batches, p)
        /\ \A p \in DOMAIN texts : texts[p] # NoText => p \in Spoken(document)

\* The buffer has at least what was appended for the batch, and between the last
\* batch and the answer nothing.
Buffered ==
    transcribing = "append" =>
        IF batches = <<>> THEN streams = <<>>
        ELSE position <= Len(Head(batches)) /\ position <= Len(streams)

\* After a job whose model did not raise the buffer is empty, and in the next job
\* it has the streams of the batch and nothing else.
CleanBuffer ==
    /\ transcribing = "idle" /\ ~ Raised(job) => streams = <<>>
    /\ transcribing = "append" /\ ~ Raised(job - 1) =>
          /\ batches # <<>> =>
                /\ Len(streams) = position
                /\ \A r \in DOMAIN streams : streams[r] = <<job, Head(batches)[r]>>
          /\ \A p \in DOMAIN texts : texts[p] \in {NoText, <<job, p>>}

SttInv ==
    /\ SttTyping /\ Transcribed /\ Buffered /\ CleanBuffer
    /\ TextsAreOwn /\ EverySpeechTranscribed /\ FailsOnlyOnFullBatches

\* Where i is in s, 0 if it is not.
Place(s, i) ==
    LET I == {k \in 1..Len(s) : s[k] = i}
    IN  IF I # {} THEN Min(I) ELSE 0

\* A place is the place of the element.
LEMMA PlaceRight ==
    ASSUME NEW s \in Seq(Nat), NEW i
    PROVE  /\ Place(s, i) # 0 => Place(s, i) \in DOMAIN s /\ s[Place(s, i)] = i
           /\ (\E k \in DOMAIN s : s[k] = i) => Place(s, i) # 0
<1>. DEFINE I == {k \in 1..Len(s) : s[k] = i}
<1>1. CASE I = {}
  BY <1>1 DEF Place
<1>2. CASE I # {}
  <2>1. I \subseteq Nat
    OBVIOUS
  <2>2. \E x \in I : \A y \in I : x <= y
    BY <1>2, <2>1, LeastExists
  <2>3. Min(I) \in I
    BY <2>2 DEF Min
  <2>4. Place(s, i) = Min(I)
    BY <1>2 DEF Place
  <2>5. QED
    BY <2>3, <2>4
<1>3. QED
  BY <1>1, <1>2

\* An ascending list of a set is as long as the set is large.
LEMMA AscendingCount ==
    ASSUME NEW S, S \subseteq Nat, NEW s \in Seq(S), IsAscending(s), \A p \in S : \E k \in DOMAIN s : s[k] = p
    PROVE  Len(s) \in Nat /\ Cardinality(S) = Len(s)
<1>1. PICK n \in Nat : n = Len(s)
  OBVIOUS
<1>2. s \in [1..n -> S] /\ DOMAIN s = 1..n
  BY <1>1
<1>3. ASSUME NEW k \in 1..n, NEW l \in 1..n, k < l PROVE s[k] # s[l]
  <2>1. s[k] < s[l] /\ s[k] \in Nat /\ s[l] \in Nat
    BY <1>2, <1>3 DEF IsAscending
  <2>2. QED
    BY <2>1
<1>4. \A k, l \in 1..n : s[k] = s[l] => k = l
  BY <1>3
<1>5. s \in Bijection(1..n, S)
  BY <1>2, <1>4 DEF Bijection, Injection, Surjection, IsInjective
<1>6. IsFiniteSet(1..n) /\ Cardinality(1..n) = n
  <2>1. 0 \in Int /\ 1 \in Int /\ n \in Int
    OBVIOUS
  <2>2. IsFiniteSet(1..n) /\ Cardinality(1..n) = IF 1 > n THEN 0 ELSE n - 1 + 1
    BY <2>1, FS_Interval
  <2>3. QED
    BY <2>2
<1>7. Cardinality(S) = Cardinality(1..n)
  BY <1>5, <1>6, FS_Bijection DEF ExistsBijection
<1>8. QED
  BY <1>1, <1>6, <1>7

\* An answer says as many speech segments as the document has.
LEMMA SpokenCounted ==
    ASSUME NEW segments \in Seq(Segments)
    PROVE  /\ Len(SpeechPositions(segments)) \in Nat
           /\ Cardinality(Spoken(segments)) = Len(SpeechPositions(segments))
<1>. DEFINE ids == SpeechPositions(segments)
<1>1. Lists(ids, Len(segments), Spoken(segments))
  BY AscendingLists DEF SpeechPositions, Spoken
<1>2. Spoken(segments) \subseteq Nat /\ \A p \in Spoken(segments) : p <= Len(segments)
  BY DEF Spoken
<1>. HIDE DEF ids
<1>3. QED
  BY <1>1, <1>2, AscendingCount DEF Lists, ids

\* What an appended list has at each place.
LEMMA AppendedAt ==
    ASSUME NEW S, NEW q \in Seq(S), NEW m \in S
    PROVE  /\ Append(q, m) \in Seq(S) /\ Len(q) \in Nat /\ Len(Append(q, m)) = Len(q) + 1
           /\ DOMAIN Append(q, m) = DOMAIN q \cup {Len(q) + 1}
           /\ Append(q, m)[Len(q) + 1] = m /\ Len(q) + 1 \notin DOMAIN q
           /\ \A r \in DOMAIN q : Append(q, m)[r] = q[r] /\ r \in 1..Len(q) /\ q[r] \in S
  OBVIOUS

\* A stream is not the absence of a text.
LEMMA StreamsAreTexts == ASSUME NEW x \in Nat \X Nat PROVE x \in Texts /\ x # NoText
<1>1. PICK a \in Nat, b \in Nat : x = <<a, b>>
  OBVIOUS
<1>2. Len(<<a, b>>) = 2 /\ Len(<<>>) = 0
  OBVIOUS
<1>3. QED
  BY <1>1, <1>2 DEF Texts, NoText

\* What is left of the batches is as right as they were.
LEMMA BatchesLeft ==
    ASSUME NEW bs, NEW segments, RightBatches(bs, segments), bs # <<>>
    PROVE  /\ Head(bs) \in Seq(Nat) /\ Head(bs) \in Seq(Spoken(segments))
           /\ Head(bs) = <<>> => Len(SpeechPositions(segments)) % SttBatchSize = 0
           /\ RightBatches(Tail(bs), segments)
           /\ \A p : InBatch(bs, p) => InBatch(Tail(bs), p) \/ \E k \in DOMAIN Head(bs) : Head(bs)[k] = p
<1>1. bs \in Seq(Seq(Nat)) /\ 1 \in DOMAIN bs /\ Head(bs) = bs[1] /\ Head(bs) \in Seq(Nat)
  BY DEF RightBatches
<1>2. /\ Tail(bs) \in Seq(Seq(Nat))
      /\ \A b \in DOMAIN Tail(bs) : b + 1 \in DOMAIN bs /\ Tail(bs)[b] = bs[b + 1]
      /\ \A b \in DOMAIN bs : b # 1 => b - 1 \in DOMAIN Tail(bs) /\ bs[b] = Tail(bs)[b - 1]
  BY <1>1
<1>3. Head(bs) \in Seq(Spoken(segments))
  BY <1>1 DEF RightBatches
<1>4. RightBatches(Tail(bs), segments)
  BY <1>2 DEF RightBatches
<1>5. ASSUME NEW p, InBatch(bs, p) PROVE InBatch(Tail(bs), p) \/ \E k \in DOMAIN Head(bs) : Head(bs)[k] = p
  <2>1. PICK b \in DOMAIN bs : \E k \in DOMAIN bs[b] : bs[b][k] = p
    BY <1>5 DEF InBatch
  <2>2. CASE b = 1
    BY <1>1, <2>1, <2>2
  <2>3. CASE b # 1
    <3>1. b - 1 \in DOMAIN Tail(bs) /\ bs[b] = Tail(bs)[b - 1]
      BY <1>2, <2>3
    <3>2. InBatch(Tail(bs), p)
      BY <2>1, <3>1 DEF InBatch
    <3>3. QED
      BY <3>2
  <2>4. QED
    BY <2>2, <2>3
<1>6. QED
  BY <1>1, <1>3, <1>4, <1>5 DEF RightBatches

\* A job begins with all batches, no text, and the buffer it finds.
LEMMA TakeDocumentStep == ASSUME SttInv, TakeDocument PROVE SttInv'
<1>. USE DEF TakeDocument
<1>1. PICK segments \in Documents : /\ document' = segments /\ batches' = Batches(segments)
                                    /\ texts' = [i \in DOMAIN segments |-> NoText]
  OBVIOUS
<1>2. segments \in Seq(Segments)
  BY SttAssumption
<1>3. SttTyping'
  <2>1. texts' \in Seq(Texts) /\ DOMAIN texts' = DOMAIN document'
    BY <1>1, <1>2 DEF Texts
  <2>2. QED
    BY <1>1, <1>2, <2>1 DEF SttInv, SttTyping
<1>4. RightBatches(Batches(segments), segments) /\ Batches(segments) # <<>> /\ \A p \in Spoken(segments) : InBatch(Batches(segments), p)
  BY <1>2, BatchesRight
<1>5. Transcribed'
  BY <1>1, <1>2, <1>4 DEF Transcribed, Spoken, RightBatches, InBatch
<1>6. Head(batches') \in Seq(Nat) /\ batches' # <<>>
  BY <1>1, <1>4, BatchesLeft
<1>7. Buffered'
  BY <1>6 DEF Buffered, SttInv, SttTyping
<1>8. CleanBuffer'
  <2>1. Raised(job - 1)' <=> Raised(job)
    <3>1. job' - 1 = job
      BY DEF SttInv, SttTyping
    <3>2. QED
      BY <3>1 DEF Raised
  <2>2. ~ Raised(job) => streams' = <<>>
    BY DEF SttInv, CleanBuffer
  <2>3. \A p \in DOMAIN texts' : texts'[p] = NoText
    BY <1>1
  <2>4. QED
    BY <1>6, <2>1, <2>2, <2>3 DEF CleanBuffer
<1>9. TextsAreOwn' /\ EverySpeechTranscribed' /\ FailsOnlyOnFullBatches'
  BY DEF SttInv, TextsAreOwn, EverySpeechTranscribed, FailsOnlyOnFullBatches, Successes, Raised
<1>10. QED
  BY <1>3, <1>5, <1>7, <1>8, <1>9 DEF SttInv

\* A stream of the batch goes to the end of the buffer.
LEMMA AppendAudioStep == ASSUME SttInv, AppendAudio PROVE SttInv'
<1>. USE DEF AppendAudio
<1>1. SttTyping /\ RightBatches(batches, document)
  BY DEF SttInv, Transcribed
<1>2. Head(batches) \in Seq(Nat) /\ position \in Nat /\ Head(batches)[position + 1] \in Nat
  <2>1. Head(batches) \in Seq(Nat) /\ position \in Nat
    BY <1>1, BatchesLeft DEF SttTyping
  <2>2. position + 1 \in DOMAIN Head(batches)
    BY <2>1
  <2>3. QED
    BY <2>1, <2>2
<1>3. PICK x \in Nat \X Nat : x = <<job, Head(batches)[position + 1]>>
  BY <1>1, <1>2 DEF SttTyping
<1>4. /\ streams' = Append(streams, x) /\ streams' \in Seq(Nat \X Nat) /\ Len(streams') = Len(streams) + 1
      /\ Len(streams) \in Nat
      /\ \A r \in DOMAIN streams' : streams'[r] = IF r = Len(streams) + 1 THEN x ELSE streams[r]
      /\ \A r \in DOMAIN streams' : r = Len(streams) + 1 \/ r \in DOMAIN streams
  <2>1. streams' = Append(streams, x) /\ streams \in Seq(Nat \X Nat)
    BY <1>1, <1>3 DEF SttTyping
  <2>2. /\ Append(streams, x) \in Seq(Nat \X Nat) /\ Len(streams) \in Nat /\ Len(Append(streams, x)) = Len(streams) + 1
        /\ DOMAIN Append(streams, x) = DOMAIN streams \cup {Len(streams) + 1}
        /\ Append(streams, x)[Len(streams) + 1] = x /\ Len(streams) + 1 \notin DOMAIN streams
        /\ \A r \in DOMAIN streams : Append(streams, x)[r] = streams[r]
    BY <2>1, AppendedAt
  <2>. HIDE DEF AppendAudio
  <2>3. QED
    BY <2>1, <2>2
<1>5. SttTyping'
  BY <1>1, <1>4 DEF SttTyping
<1>6. Transcribed'
  BY DEF SttInv, Transcribed, Spoken, InBatch, RightBatches
<1>7. Buffered'
  BY <1>1, <1>2, <1>4 DEF SttInv, Buffered
<1>8. CleanBuffer'
  <2>1. Raised(job - 1)' <=> Raised(job - 1)
    BY DEF Raised
  <2>2. ASSUME ~ Raised(job - 1)
        PROVE  /\ Len(streams') = position'
               /\ \A r \in DOMAIN streams' : streams'[r] = <<job, Head(batches)[r]>>
               /\ \A p \in DOMAIN texts : texts[p] \in {NoText, <<job, p>>}
    <3>1. /\ Len(streams) = position
          /\ \A r \in DOMAIN streams : streams[r] = <<job, Head(batches)[r]>>
          /\ \A p \in DOMAIN texts : texts[p] \in {NoText, <<job, p>>}
      BY <2>2 DEF SttInv, CleanBuffer
    <3>2. QED
      BY <1>3, <1>4, <3>1
  <2>3. transcribing' = "append" /\ batches' = batches /\ texts' = texts /\ job' = job
    OBVIOUS
  <2>4. QED
    BY <2>1, <2>2, <2>3 DEF CleanBuffer
<1>9. TextsAreOwn' /\ EverySpeechTranscribed' /\ FailsOnlyOnFullBatches'
  BY DEF SttInv, TextsAreOwn, EverySpeechTranscribed, FailsOnlyOnFullBatches, Successes, Raised
<1>10. QED
  BY <1>5, <1>6, <1>7, <1>8, <1>9 DEF SttInv

\* The streams of a batch become the texts of its segments.
LEMMA StreamStep == ASSUME SttInv, Stream PROVE SttInv'
<1>. USE DEF Stream
<1>1. SttTyping /\ RightBatches(batches, document)
  BY DEF SttInv, Transcribed
<1>. DEFINE batch == Head(batches)
<1>2. /\ batch \in Seq(Nat) /\ batch \in Seq(Spoken(document))
      /\ RightBatches(Tail(batches), document)
      /\ \A p : InBatch(batches, p) => InBatch(Tail(batches), p) \/ \E k \in DOMAIN batch : batch[k] = p
  BY <1>1, BatchesLeft
<1>3. texts' = [p \in DOMAIN texts |-> IF Place(batch, p) = 0 THEN texts[p] ELSE streams[Place(batch, p)]]
  BY DEF SelectInSeq, Place
<1>4. Len(batch) \in Nat /\ Len(streams) \in Nat /\ Len(batch) <= Len(streams) /\ position = Len(batch)
  BY <1>1, <1>2 DEF SttInv, Buffered, SttTyping
<1>0. /\ transcribing = "append" /\ batches # <<>>
      /\ streams' = <<>> /\ batches' = Tail(batches) /\ position' = 0
      /\ UNCHANGED <<job, transcribing, document, answers>>
  OBVIOUS
<1>. HIDE DEF batch, Stream
<1>5. ASSUME NEW p, Place(batch, p) # 0
      PROVE  /\ Place(batch, p) \in DOMAIN batch /\ batch[Place(batch, p)] = p
             /\ Place(batch, p) \in DOMAIN streams /\ streams[Place(batch, p)] \in Nat \X Nat
             /\ p \in Spoken(document)
  <2>1. Place(batch, p) \in DOMAIN batch /\ batch[Place(batch, p)] = p
    BY <1>2, <1>5, PlaceRight
  <2>2. DOMAIN batch \subseteq DOMAIN streams /\ streams \in Seq(Nat \X Nat)
    BY <1>1, <1>2, <1>4 DEF SttTyping
  <2>3. QED
    BY <1>2, <2>1, <2>2
<1>6. \A p \in DOMAIN texts : texts'[p] \in Texts /\ (texts'[p] = NoText => Place(batch, p) = 0 /\ texts[p] = NoText)
  <2>. SUFFICES ASSUME NEW p \in DOMAIN texts
                PROVE  texts'[p] \in Texts /\ (texts'[p] = NoText => Place(batch, p) = 0 /\ texts[p] = NoText)
    OBVIOUS
  <2>1. CASE Place(batch, p) = 0
    <3>1. texts[p] \in Texts
      BY <1>1 DEF SttTyping
    <3>2. texts'[p] = texts[p]
      BY <1>3, <2>1
    <3>3. QED
      BY <2>1, <3>1, <3>2
  <2>2. CASE Place(batch, p) # 0
    BY <1>3, <1>5, <2>2, StreamsAreTexts
  <2>3. QED
    BY <2>1, <2>2
<1>7. SttTyping'
  <2>1. texts' \in Seq(Texts) /\ DOMAIN texts' = DOMAIN texts
    <3>1. DOMAIN texts' = DOMAIN texts /\ DOMAIN texts = 1..Len(texts) /\ Len(texts) \in Nat
      BY <1>1, <1>3 DEF SttTyping
    <3>2. texts' \in [1..Len(texts) -> Texts]
      BY <1>3, <1>6, <3>1
    <3>3. QED
      BY <3>1, <3>2
  <2>2. QED
    BY <1>0, <1>1, <2>1 DEF SttTyping
<1>8. Transcribed'
  <2>1. ASSUME NEW p \in Spoken(document) PROVE texts'[p] # NoText \/ InBatch(Tail(batches), p)
    <3>1. p \in DOMAIN texts
      BY <1>1 DEF Spoken, SttTyping
    <3>2. CASE texts[p] # NoText
      BY <1>6, <3>1, <3>2
    <3>3. CASE InBatch(batches, p)
      BY <1>2, <1>6, <3>1, <3>3, PlaceRight
    <3>4. QED
      BY <1>0, <3>2, <3>3 DEF SttInv, Transcribed
  <2>2. ASSUME NEW p \in DOMAIN texts, texts'[p] # NoText PROVE p \in Spoken(document)
    <3>1. CASE Place(batch, p) = 0
      BY <1>0, <1>3, <2>2, <3>1 DEF SttInv, Transcribed
    <3>2. QED
      BY <1>5, <3>1
  <2>3. DOMAIN texts' = DOMAIN texts /\ Spoken(document)' = Spoken(document) /\ batches' = Tail(batches)
    BY <1>0, <1>3 DEF Spoken
  <2>4. RightBatches(batches, document)' /\ \A p : InBatch(batches, p)' <=> InBatch(Tail(batches), p)
    BY <1>0, <1>2 DEF RightBatches, InBatch, Spoken
  <2>5. QED
    BY <2>1, <2>2, <2>3, <2>4 DEF Transcribed
<1>9. Buffered'
  <2>1. streams' = <<>> /\ position' = 0 /\ Len(<<>>) = 0
    BY <1>0
  <2>2. batches' # <<>> => Head(batches') \in Seq(Nat)
    BY <1>0, <1>2, BatchesLeft
  <2>3. QED
    BY <2>1, <2>2 DEF Buffered
<1>10. CleanBuffer'
  <2>1. Raised(job - 1)' <=> Raised(job - 1)
    BY <1>0 DEF Raised
  <2>2. ASSUME ~ Raised(job - 1), NEW p \in DOMAIN texts PROVE texts'[p] \in {NoText, <<job, p>>}
    <3>1. (\A r \in DOMAIN streams : streams[r] = <<job, batch[r]>>) /\ texts[p] \in {NoText, <<job, p>>}
      BY <1>0, <2>2 DEF SttInv, CleanBuffer, batch
    <3>2. QED
      BY <1>3, <1>5, <3>1
  <2>3. transcribing' = "append" /\ streams' = <<>> /\ position' = 0 /\ job' = job /\ DOMAIN texts' = DOMAIN texts
    BY <1>0, <1>3
  <2>4. QED
    <3>1. Len(streams') = position' /\ DOMAIN streams' = {}
      BY <2>3
    <3>2. QED
      BY <2>1, <2>2, <2>3, <3>1 DEF CleanBuffer
<1>11. TextsAreOwn' /\ EverySpeechTranscribed' /\ FailsOnlyOnFullBatches'
  BY <1>0 DEF SttInv, TextsAreOwn, EverySpeechTranscribed, FailsOnlyOnFullBatches, Successes, Raised
<1>12. QED
  BY <1>7, <1>8, <1>9, <1>10, <1>11 DEF SttInv

\* An answer is right when a success has all texts, and a failure that the model
\* did not cause comes from an empty batch.  It leaves an empty buffer, unless the
\* model raised.
LEMMA AnsweredStep ==
    ASSUME SttInv, transcribing = "append", UNCHANGED streams,
           NEW status \in {"success", "failed"}, NEW raised \in BOOLEAN, Answered(status, raised),
           status = "success" => batches = <<>>,
           status = "failed" /\ ~ raised => Len(SpeechPositions(document)) % SttBatchSize = 0,
           ~ raised => streams = <<>>
    PROVE  SttInv'
<1>. DEFINE spoken == Len(SpeechPositions(document))
            answer == [status |-> status, raised |-> raised, texts |-> texts, spoken |-> spoken]
<1>1. SttTyping /\ document \in Seq(Segments)
  BY DEF SttInv, SttTyping
<1>2. spoken \in Nat /\ Cardinality(Spoken(document)) = spoken
  BY <1>1, SpokenCounted
<1>. HIDE DEF spoken
<1>3. answer \in SttAnswers
  BY <1>1, <1>2 DEF SttTyping, SttAnswers
<1>4. /\ answer.status = status /\ answer.raised = raised /\ answer.texts = texts /\ answer.spoken = spoken
      /\ answers' = Append(answers, answer) /\ transcribing' = "idle"
      /\ UNCHANGED <<job, document, batches, position, texts>>
  BY DEF Answered, spoken
<1>. HIDE DEF answer
<1>5. answers \in Seq(SttAnswers) /\ job \in Nat /\ Len(answers) = job - 1
  BY <1>1 DEF SttTyping
<1>6. /\ Append(answers, answer) \in Seq(SttAnswers) /\ Len(Append(answers, answer)) = job
      /\ DOMAIN Append(answers, answer) = DOMAIN answers \cup {job}
      /\ Append(answers, answer)[job] = answer /\ job \notin DOMAIN answers
      /\ \A j \in DOMAIN answers : Append(answers, answer)[j] = answers[j] /\ j \in 1..job - 1
  <2>1. Len(answers) + 1 = job
    BY <1>5
  <2>2. QED
    BY <1>3, <1>5, <2>1, AppendedAt
<1>7. /\ answers' \in Seq(SttAnswers) /\ Len(answers') = job
      /\ DOMAIN answers' = DOMAIN answers \cup {job}
      /\ answers'[job] = answer /\ job \notin DOMAIN answers
      /\ \A j \in DOMAIN answers : answers'[j] = answers[j] /\ j \in 1..job - 1
  BY <1>4, <1>6
<1>8. SttTyping'
  BY <1>1, <1>4, <1>7 DEF SttTyping
<1>9. Transcribed' /\ Buffered'
  BY <1>4 DEF Transcribed, Buffered
<1>10. CleanBuffer'
  <2>1. Raised(job)' <=> raised
    BY <1>4, <1>7 DEF Raised
  <2>2. QED
    BY <1>4, <2>1 DEF CleanBuffer
<1>11. \A j \in 1..job : Raised(j - 1)' <=> Raised(j - 1)
  BY <1>5, <1>7 DEF Raised
<1>12. \A j \in Successes' : j \in Successes \/ (j = job /\ status = "success")
  BY <1>4, <1>7 DEF Successes
<1>13. TextsAreOwn'
  <2>. SUFFICES ASSUME NEW j \in Successes', ~ Raised(j - 1)', NEW i \in DOMAIN answers'[j].texts
                PROVE  answers'[j].texts[i] \in {NoText, <<j, i>>}
    BY DEF TextsAreOwn
  <2>1. CASE j \in Successes
    <3>1. j \in DOMAIN answers /\ answers'[j] = answers[j] /\ j \in 1..job
      BY <1>5, <1>7, <2>1 DEF Successes
    <3>2. ~ Raised(j - 1)
      BY <1>11, <3>1
    <3>3. QED
      BY <2>1, <3>1, <3>2 DEF SttInv, TextsAreOwn
  <2>2. CASE j = job /\ status = "success"
    <3>1. job \in 1..job
      BY <1>1, <1>5 DEF SttTyping
    <3>2. ~ Raised(job - 1)
      BY <1>11, <2>2, <3>1
    <3>3. i \in DOMAIN texts /\ answers'[j].texts = texts
      BY <1>4, <1>7, <2>2
    <3>4. QED
      BY <2>2, <3>2, <3>3 DEF SttInv, CleanBuffer
  <2>3. QED
    BY <1>12, <2>1, <2>2
<1>14. EverySpeechTranscribed'
  <2>. SUFFICES ASSUME NEW j \in Successes'
                PROVE  Cardinality({i \in DOMAIN answers'[j].texts : answers'[j].texts[i] # NoText}) = answers'[j].spoken
    BY DEF EverySpeechTranscribed
  <2>1. CASE j \in Successes
    <3>1. answers'[j] = answers[j]
      BY <1>7, <2>1 DEF Successes
    <3>2. QED
      BY <2>1, <3>1 DEF SttInv, EverySpeechTranscribed
  <2>2. CASE j = job /\ status = "success"
    <3>1. \A p \in Spoken(document) : texts[p] # NoText
      BY <2>2 DEF SttInv, Transcribed, InBatch
    <3>2. {i \in DOMAIN texts : texts[i] # NoText} = Spoken(document)
      BY <1>1, <3>1 DEF SttInv, Transcribed, SttTyping, Spoken
    <3>3. answers'[j].texts = texts /\ answers'[j].spoken = spoken
      BY <1>4, <1>7, <2>2
    <3>4. QED
      BY <1>2, <3>2, <3>3
  <2>3. QED
    BY <1>12, <2>1, <2>2
<1>15. FailsOnlyOnFullBatches'
  <2>. SUFFICES ASSUME NEW j \in DOMAIN answers'
                PROVE  answers'[j].raised \/ j \in Successes' \/ answers'[j].spoken % SttBatchSize = 0
    BY DEF FailsOnlyOnFullBatches
  <2>1. CASE j \in DOMAIN answers
    BY <1>7, <2>1 DEF SttInv, FailsOnlyOnFullBatches, Successes
  <2>2. CASE j = job
    BY <1>4, <1>7, <2>2 DEF Successes, spoken
  <2>3. QED
    BY <1>7, <2>1, <2>2
<1>16. QED
  BY <1>8, <1>9, <1>10, <1>13, <1>14, <1>15 DEF SttInv

\* The induction step of one job after the other.
LEMMA SttStep == SttInv /\ (SttNext \/ UNCHANGED sttVars) => SttInv'
<1>. SUFFICES ASSUME SttInv, SttNext \/ UNCHANGED sttVars PROVE SttInv'
  OBVIOUS
<1>1. CASE StreamNothing
  <2>1. RightBatches(batches, document)
    BY <1>1 DEF SttInv, Transcribed, StreamNothing
  <2>2. Len(SpeechPositions(document)) % SttBatchSize = 0
    BY <1>1, <2>1, BatchesLeft DEF StreamNothing
  <2>3. QED
    BY <1>1, <2>2, AnsweredStep DEF StreamNothing
<1>2. CASE SttRaises
  BY <1>2, AnsweredStep DEF SttRaises
<1>3. CASE SttEnds
  <2>1. streams = <<>>
    BY <1>3 DEF SttEnds, SttInv, Buffered
  <2>2. QED
    BY <1>3, <2>1, AnsweredStep DEF SttEnds
<1>4. CASE UNCHANGED sttVars
  BY <1>4 DEF sttVars, SttInv, SttTyping, Transcribed, Buffered, CleanBuffer, TextsAreOwn, EverySpeechTranscribed,
              FailsOnlyOnFullBatches, Successes, Raised, RightBatches, InBatch, Spoken
<1>5. QED
  BY <1>1, <1>2, <1>3, <1>4, TakeDocumentStep, AppendAudioStep, StreamStep DEF SttNext

\* No job has begun.
LEMMA SttBegins == SttInit => SttInv
<1>. SUFFICES ASSUME SttInit PROVE SttInv
  OBVIOUS
<1>. USE DEF SttInit
<1>1. SttTyping
  BY DEF SttTyping
<1>2. Transcribed /\ Buffered /\ CleanBuffer
  BY DEF Transcribed, Buffered, CleanBuffer
<1>3. DOMAIN answers = {}
  OBVIOUS
<1>4. TextsAreOwn /\ EverySpeechTranscribed /\ FailsOnlyOnFullBatches
  BY <1>3 DEF TextsAreOwn, EverySpeechTranscribed, FailsOnlyOnFullBatches, Successes
<1>5. QED
  BY <1>1, <1>2, <1>4 DEF SttInv

\* The inductive invariant of the speech to text service, whatever the other
\* services do.
THEOREM SttCorrect == Spec => []SttInv
<1>1. Init => SttInv
  BY SttBegins DEF Init
<1>2. SttInv /\ [Next]_vars => SttInv'
  BY SttStep DEF Next, Diarization, Stt, Emotion, vars
<1>3. QED
  BY <1>1, <1>2, PTL DEF Spec

\* _perform_streaming and _run_inference: a transcript that is answered belongs to
\* its own segment (TextsAreOwn), for any documents, batch size and number of jobs,
\* unless the model raised in the job just before.
THEOREM TranscriptsAreOwn == Spec => []TextsAreOwn
<1>1. SttInv => TextsAreOwn
  BY DEF SttInv
<1>2. QED
  BY <1>1, SttCorrect, PTL

\* A job of SttService._run_inference that succeeds has transcribed each of its
\* speech segments, and nothing else (EverySpeechTranscribed).
THEOREM AllSpeechTranscribed == Spec => []EverySpeechTranscribed
<1>1. SttInv => EverySpeechTranscribed
  BY DEF SttInv
<1>2. QED
  BY <1>1, SttCorrect, PTL

\* Only a job whose speech segments fill their batches exactly fails without the
\* model (FailsOnlyOnFullBatches).
THEOREM OnlyFullBatchesFail == Spec => []FailsOnlyOnFullBatches
<1>1. SttInv => FailsOnlyOnFullBatches
  BY DEF SttInv
<1>2. QED
  BY <1>1, SttCorrect, PTL

-----------------------------------------------------------------------------
(* Sorting and selecting regions                                           *)

StartsInOrder(s) == \A i, j \in DOMAIN s : i < j => s[i].start <= s[j].start
EndsInOrder(s)   == \A i, j \in DOMAIN s : i < j => s[i].end <= s[j].end

\* i goes before j in the sorted list.
Ahead(s, i, j) ==
    \/ s[i].start < s[j].start
    \/ s[i].start = s[j].start /\ i < j

AllAhead(s, j) == {i \in DOMAIN s : Ahead(s, i, j)}

\* A region is a region.
LEMMA RegionFields ==
    ASSUME NEW r \in Regions
    PROVE  r.start \in Nat /\ r.end \in Nat /\ r.start < r.end /\ r.speaker \in Speakers
  BY DEF Regions

\* Of two positions one goes before the other, and has fewer before it.
LEMMA AheadCounts ==
    ASSUME NEW s \in Seq(Regions), NEW i \in DOMAIN s, NEW j \in DOMAIN s, Ahead(s, i, j)
    PROVE  Cardinality(AllAhead(s, i)) < Cardinality(AllAhead(s, j))
<1>1. IsFiniteSet(1..Len(s)) /\ DOMAIN s = 1..Len(s)
  <2>1. Len(s) \in Nat
    OBVIOUS
  <2>2. QED
    BY <2>1, FS_Interval
<1>2. AllAhead(s, i) \subseteq DOMAIN s /\ AllAhead(s, j) \subseteq DOMAIN s
  BY DEF AllAhead
<1>3. IsFiniteSet(AllAhead(s, i)) /\ IsFiniteSet(AllAhead(s, j))
  BY <1>1, <1>2, FS_Subset
<1>4. AllAhead(s, i) \subseteq AllAhead(s, j)
  <2>1. \A k \in DOMAIN s : s[k].start \in Nat /\ k \in Nat
    BY RegionFields
  <2>2. QED
    BY <2>1 DEF AllAhead, Ahead
<1>5. i \in AllAhead(s, j) /\ i \notin AllAhead(s, i)
  <2>1. s[i].start \in Nat /\ i \in Nat
    BY RegionFields
  <2>2. QED
    BY <2>1 DEF AllAhead, Ahead
<1>6. Cardinality(AllAhead(s, i)) # Cardinality(AllAhead(s, j))
  BY <1>3, <1>4, <1>5, FS_Subset
<1>7. /\ Cardinality(AllAhead(s, i)) <= Cardinality(AllAhead(s, j))
      /\ Cardinality(AllAhead(s, i)) \in Nat /\ Cardinality(AllAhead(s, j)) \in Nat
  BY <1>3, <1>4, FS_Subset, FS_CardinalityType
<1>8. QED
  BY <1>6, <1>7

\* Each number of predecessors belongs to one position.
LEMMA RankOf ==
    ASSUME NEW s \in Seq(Regions), NEW k \in DOMAIN s
    PROVE  \E i \in DOMAIN s : Cardinality(AllAhead(s, i)) = k - 1
<1>. DEFINE n == Len(s)
            rank == [i \in 1..n |-> Cardinality(AllAhead(s, i))]
<1>0. n \in Nat /\ DOMAIN s = 1..n
  OBVIOUS
<1>1. IsFiniteSet(1..n) /\ Cardinality(1..n) = n /\ IsFiniteSet(0..n - 1) /\ Cardinality(0..n - 1) = n
  <2>. HIDE DEF n
  <2>1. n \in Nat /\ n >= 1 /\ n \in Int /\ 0 \in Int /\ 1 \in Int /\ n - 1 \in Int
    BY <1>0
  <2>2. IsFiniteSet(1..n) /\ Cardinality(1..n) = n
    BY <2>1, FS_Interval
  <2>3. IsFiniteSet(0..n - 1) /\ Cardinality(0..n - 1) = n
    <3>1. IsFiniteSet(0..n - 1) /\ Cardinality(0..n - 1) = IF 0 > n - 1 THEN 0 ELSE (n - 1) - 0 + 1
      BY <2>1, FS_Interval
    <3>2. QED
      BY <2>1, <3>1
  <2>4. QED
    BY <2>2, <2>3
<1>2. ASSUME NEW i \in 1..n PROVE rank[i] \in 0..n - 1
  <2>1. AllAhead(s, i) \subseteq (1..n) \ {i}
    <3>1. s[i].start \in Nat
      BY RegionFields
    <3>2. QED
      BY <1>0, <3>1 DEF AllAhead, Ahead
  <2>2. IsFiniteSet((1..n) \ {i}) /\ Cardinality((1..n) \ {i}) = n - 1
    BY <1>1, FS_RemoveElement
  <2>3. IsFiniteSet(AllAhead(s, i)) /\ Cardinality(AllAhead(s, i)) <= n - 1
    BY <2>1, <2>2, FS_Subset
  <2>4. Cardinality(AllAhead(s, i)) \in Nat
    BY <2>3, FS_CardinalityType
  <2>5. QED
    BY <1>0, <2>3, <2>4
<1>3. rank \in [1..n -> 0..n - 1]
  BY <1>2
<1>4. ASSUME NEW i \in 1..n, NEW j \in 1..n, rank[i] = rank[j] PROVE i = j
  <2>1. s[i].start \in Nat /\ s[j].start \in Nat
    BY RegionFields
  <2>2. i # j => Ahead(s, i, j) \/ Ahead(s, j, i)
    BY <2>1 DEF Ahead
  <2>3. ~ Ahead(s, i, j) /\ ~ Ahead(s, j, i)
    <3>1. rank[i] \in Nat /\ rank[j] \in Nat
      BY <1>2
    <3>2. QED
      BY <1>0, <1>4, <3>1, AheadCounts
  <2>4. QED
    BY <2>2, <2>3
<1>. HIDE DEF rank
<1>5. rank \in Injection(1..n, 0..n - 1)
  BY <1>3, <1>4 DEF Injection, IsInjective
<1>6. rank \in Surjection(1..n, 0..n - 1)
  BY <1>1, <1>5, FS_Injection
<1>7. \E i \in 1..n : rank[i] = k - 1
  <2>1. k - 1 \in 0..n - 1
    BY <1>0
  <2>2. QED
    BY <1>6, <2>1 DEF Surjection
<1>8. QED
  BY <1>0, <1>7 DEF rank

\* sorted() gives a list of regions in the order of their starts.
LEMMA Sorted ==
    ASSUME NEW s \in Seq(Regions)
    PROVE  ByStart(s) \in Seq(Regions) /\ StartsInOrder(ByStart(s))
<1>. DEFINE at == [k \in DOMAIN s |-> CHOOSE i \in DOMAIN s : Cardinality(AllAhead(s, i)) = k - 1]
            t  == [k \in DOMAIN s |-> s[at[k]]]
<1>1. ByStart(s) = t
  BY DEF ByStart, AllAhead, Ahead
<1>2. \A k \in DOMAIN s : at[k] \in DOMAIN s /\ Cardinality(AllAhead(s, at[k])) = k - 1
  BY RankOf
<1>. HIDE DEF at
<1>3. \A k \in DOMAIN s : s[at[k]] \in Regions /\ s[at[k]].start \in Nat
  <2>1. \A i \in DOMAIN s : s[i] \in Regions /\ s[i].start \in Nat
    BY RegionFields
  <2>2. QED
    BY <1>2, <2>1
<1>a. t \in Seq(Regions) /\ DOMAIN t = DOMAIN s
  <2>1. Len(s) \in Nat /\ DOMAIN s = 1..Len(s)
    OBVIOUS
  <2>2. QED
    BY <1>3, <2>1
<1>4. ASSUME NEW k \in DOMAIN s, NEW l \in DOMAIN s, k < l PROVE s[at[k]].start <= s[at[l]].start
  <2>1. at[k] \in DOMAIN s /\ at[l] \in DOMAIN s /\ s[at[k]].start \in Nat /\ s[at[l]].start \in Nat
    BY <1>2, <1>3
  <2>2. ~ Ahead(s, at[l], at[k])
    BY <1>2, <1>4, <2>1, AheadCounts
  <2>3. QED
    BY <2>1, <2>2 DEF Ahead
<1>5. StartsInOrder(t)
  BY <1>4, <1>a DEF StartsInOrder
<1>6. QED
  BY <1>1, <1>a, <1>5

\* Selecting from a list keeps the order.
LEMMA Selected ==
    ASSUME NEW S, NEW s \in Seq(S), NEW T, T \subseteq DOMAIN s
    PROVE  LET kept == Ascending(Len(s), T)
           IN  /\ kept \in Seq(T) /\ DOMAIN kept \subseteq Nat
               /\ \A k \in DOMAIN kept : kept[k] \in T
               /\ \A k, l \in DOMAIN kept : k < l => kept[k] < kept[l]
               /\ \A i \in T : \E k \in DOMAIN kept : kept[k] = i
<1>1. Len(s) \in Nat /\ DOMAIN s = 1..Len(s)
  OBVIOUS
<1>2. Lists(Ascending(Len(s), T), Len(s), T)
  BY <1>1, AscendingLists
<1>3. QED
  BY <1>1, <1>2 DEF Lists, IsAscending

LongOrClose(s) ==
    {i \in DOMAIN s : \/ s[i].end - s[i].start >= ShortRegion
                      \/ i > 1 /\ s[i].start - s[i - 1].end < NeighbourGap
                      \/ i < Len(s) /\ s[i + 1].start - s[i].end < NeighbourGap}

\* Removing short isolated regions selects from the list.
LEMMA KeptRegions ==
    ASSUME NEW s \in Seq(Regions)
    PROVE  LET kept == Ascending(Len(s), LongOrClose(s))
           IN  KeepLongOrClose(s) = [k \in DOMAIN kept |-> s[kept[k]]]
<1>. DEFINE near(i) == \/ i > 1 /\ s[i].start - s[i - 1].end < NeighbourGap
                       \/ i < Len(s) /\ s[i + 1].start - s[i].end < NeighbourGap
            K == {i \in DOMAIN s : s[i].end - s[i].start >= ShortRegion \/ near(i)}
<1>1. K = LongOrClose(s)
  BY DEF LongOrClose
<1>2. KeepLongOrClose(s) = LET kept == Ascending(Len(s), K) IN [k \in DOMAIN kept |-> s[kept[k]]]
  BY DEF KeepLongOrClose
<1>. HIDE DEF K
<1>3. QED
  BY <1>1, <1>2

\* What is left is in order, and is there with its ends in order if the list has them so.
LEMMA KeptInOrder ==
    ASSUME NEW s \in Seq(Regions), StartsInOrder(s)
    PROVE  /\ KeepLongOrClose(s) \in Seq(Regions)
           /\ StartsInOrder(KeepLongOrClose(s))
           /\ EndsInOrder(s) => EndsInOrder(KeepLongOrClose(s))
           /\ \A i \in LongOrClose(s) : \E k \in DOMAIN KeepLongOrClose(s) : KeepLongOrClose(s)[k] = s[i]
<1>. DEFINE kept == Ascending(Len(s), LongOrClose(s))
            t == [k \in DOMAIN kept |-> s[kept[k]]]
<1>1. LongOrClose(s) \subseteq DOMAIN s
  BY DEF LongOrClose
<1>2. /\ kept \in Seq(LongOrClose(s))
      /\ \A k \in DOMAIN kept : kept[k] \in LongOrClose(s)
      /\ \A k, l \in DOMAIN kept : k < l => kept[k] < kept[l]
      /\ \A i \in LongOrClose(s) : \E k \in DOMAIN kept : kept[k] = i
  BY <1>1, Selected
<1>3. KeepLongOrClose(s) = t
  BY KeptRegions
<1>. HIDE DEF kept
<1>4. t \in Seq(Regions) /\ DOMAIN t = DOMAIN kept
  <2>1. \A k \in DOMAIN kept : s[kept[k]] \in Regions
    BY <1>1, <1>2
  <2>2. Len(kept) \in Nat /\ DOMAIN kept = 1..Len(kept)
    BY <1>2
  <2>3. QED
    BY <2>1, <2>2
<1>5. \A k \in DOMAIN kept : kept[k] \in DOMAIN s
  BY <1>1, <1>2
<1>6. StartsInOrder(t)
  BY <1>2, <1>5 DEF StartsInOrder
<1>7. EndsInOrder(s) => EndsInOrder(t)
  BY <1>2, <1>5 DEF EndsInOrder
<1>8. \A i \in LongOrClose(s) : \E k \in DOMAIN t : t[k] = s[i]
  BY <1>2
<1>9. QED
  BY <1>3, <1>4, <1>6, <1>7, <1>8

-----------------------------------------------------------------------------
(* Speech segments                                                         *)

Turns == {x \in Segments : x.type = Speech /\ x.start_time < x.end_time}

TurnsInOrder(s) == \A i, j \in DOMAIN s : i < j => s[i].start_time <= s[j].start_time
TurnsEndInOrder(s) == \A i, j \in DOMAIN s : i < j => s[i].end_time <= s[j].end_time

\* A user id is a number.
LEMMA UserIdType == ASSUME NEW s \in Seq(Regions), NEW u PROVE UserId(s, u) \in Int
<1>. DEFINE first(v) == SelectInSeq(s, LAMBDA r : r.speaker = v)
            all == {s[i].speaker : i \in DOMAIN s}
            U == {v \in all : first(v) <= first(u)}
<1>1. IsFiniteSet(DOMAIN s)
  <2>1. Len(s) \in Nat /\ DOMAIN s = 1..Len(s)
    OBVIOUS
  <2>2. QED
    BY <2>1, FS_Interval
<1>2. IsFiniteSet(all)
  <2>. DEFINE f == [i \in DOMAIN s |-> s[i].speaker]
  <2>1. f \in Surjection(DOMAIN s, all)
    BY DEF Surjection
  <2>2. QED
    BY <1>1, <2>1, FS_Surjection
<1>3. U \subseteq all
  OBVIOUS
<1>4. IsFiniteSet(U)
  BY <1>2, <1>3, FS_Subset
<1>5. Cardinality(U) \in Nat
  BY <1>4, FS_CardinalityType
<1>6. UserId(s, u) = - Cardinality(U)
  BY DEF UserId
<1>7. QED
  BY <1>5, <1>6

Spoke(s) == {i \in DOMAIN s : s[i].end - s[i].start > MinSpeech}
TurnOf(s, r) == ResultsSegment(Speech, UserId(s, r.speaker), r.start, r.end)

\* A turn has the times of its region, and the fields of a segment.
LEMMA TurnFields ==
    ASSUME NEW s \in Seq(Regions), NEW r \in Regions
    PROVE  /\ TurnOf(s, r) \in Turns
           /\ TurnOf(s, r).start_time = r.start /\ TurnOf(s, r).end_time = r.end
           /\ TurnOf(s, r).type = Speech /\ TurnOf(s, r).user_id = UserId(s, r.speaker)
<1>1. UserId(s, r.speaker) \in Int
  BY UserIdType
<1>2. QED
  BY <1>1, RegionFields DEF TurnOf, ResultsSegment, Turns, Segments, Speech

\* The speech segments are in the order of the regions they are made of.
LEMMA SpeechInOrder ==
    ASSUME NEW s \in Seq(Regions), StartsInOrder(s)
    PROVE  /\ SpeechOf(s) \in Seq(Turns)
           /\ TurnsInOrder(SpeechOf(s))
           /\ EndsInOrder(s) => TurnsEndInOrder(SpeechOf(s))
           /\ \A i \in Spoke(s) : \E k \in DOMAIN SpeechOf(s) : SpeechOf(s)[k] = TurnOf(s, s[i])
<1>. DEFINE kept == Ascending(Len(s), Spoke(s))
            t == [k \in DOMAIN kept |-> TurnOf(s, s[kept[k]])]
<1>1. Spoke(s) \subseteq DOMAIN s
  BY DEF Spoke
<1>2. /\ kept \in Seq(Spoke(s))
      /\ \A k \in DOMAIN kept : kept[k] \in Spoke(s)
      /\ \A k, l \in DOMAIN kept : k < l => kept[k] < kept[l]
      /\ \A i \in Spoke(s) : \E k \in DOMAIN kept : kept[k] = i
  BY <1>1, Selected
<1>3. SpeechOf(s) = t
  BY DEF SpeechOf, Spoke, TurnOf
<1>. HIDE DEF kept
<1>4. \A k \in DOMAIN kept : kept[k] \in DOMAIN s /\ s[kept[k]] \in Regions
  BY <1>1, <1>2
<1>5. /\ \A k \in DOMAIN kept : TurnOf(s, s[kept[k]]) \in Turns
      /\ \A k \in DOMAIN t : t[k].start_time = s[kept[k]].start /\ t[k].end_time = s[kept[k]].end
  BY <1>4, TurnFields
<1>6. t \in Seq(Turns) /\ DOMAIN t = DOMAIN kept
  <2>1. Len(kept) \in Nat /\ DOMAIN kept = 1..Len(kept)
    BY <1>2
  <2>2. QED
    BY <1>5, <2>1
<1>7. \A i \in Spoke(s) : \E k \in DOMAIN t : t[k] = TurnOf(s, s[i])
  BY <1>2
<1>. HIDE DEF t
<1>8. TurnsInOrder(t)
  BY <1>2, <1>4, <1>5, <1>6 DEF StartsInOrder, TurnsInOrder
<1>9. EndsInOrder(s) => TurnsEndInOrder(t)
  BY <1>2, <1>4, <1>5, <1>6 DEF EndsInOrder, TurnsEndInOrder
<1>10. QED
  BY <1>3, <1>6, <1>7, <1>8, <1>9

-----------------------------------------------------------------------------
(* Groups of segments                                                      *)

From(e, k) == IF k = 1 THEN 1 ELSE e[k - 1] + 1

\* m has the first p segments of s in groups, each as one segment; e are the
\* positions where the groups end.  Within a group only micro pauses are.
Grouped(s, m, p, e) ==
    /\ e \in Seq(Nat) /\ Len(e) = Len(m) /\ IsAscending(e)
    /\ \A k \in DOMAIN e : e[k] \in 1..p
    /\ p # 0 => Len(e) # 0 /\ e[Len(e)] = p
    /\ \A k \in DOMAIN e : m[k] = [s[From(e, k)] EXCEPT !.end_time = s[e[k]].end_time]
    /\ \A k \in DOMAIN e : m[k].user_id = s[e[k]].user_id
    /\ \A i \in 1..p - 1 : (\A k \in DOMAIN e : e[k] # i) => Mergeable(s[i], s[i + 1])

\* Nothing is grouped yet.
LEMMA GroupedNothing == ASSUME NEW s PROVE Grouped(s, <<>>, 0, <<>>)
  BY DEF Grouped, IsAscending

\* The fields of a turn with another end.
LEMMA TurnUntil ==
    ASSUME NEW x \in Turns, NEW t \in Nat
    PROVE  LET y == [x EXCEPT !.end_time = t]
           IN  /\ y \in Segments /\ y.type = x.type /\ y.user_id = x.user_id
               /\ y.start_time = x.start_time /\ y.end_time = t
  BY DEF Turns, Segments

\* A group of one segment, or of two with a micro pause between them, comes next.
LEMMA GroupedNext ==
    ASSUME NEW s \in Seq(Turns), NEW m \in Seq(Turns), NEW p \in Nat, NEW e, Grouped(s, m, p, e),
           NEW q \in {p + 1, p + 2}, q <= Len(s),
           q = p + 2 => Mergeable(s[p + 1], s[p + 2])
    PROVE  LET x == [s[p + 1] EXCEPT !.end_time = s[q].end_time]
           IN  x \in Turns /\ Grouped(s, Append(m, x), q, Append(e, q))
<1>. DEFINE x == [s[p + 1] EXCEPT !.end_time = s[q].end_time]
            n == Append(m, x)
            d == Append(e, q)
<1>1. /\ p + 1 \in DOMAIN s /\ q \in DOMAIN s /\ q \in Nat
      /\ s[p + 1] \in Turns /\ s[q] \in Turns /\ s[q].end_time \in Nat
      /\ s[p + 1].start_time \in Nat /\ s[p + 1].end_time \in Nat
      /\ s[q].start_time \in Nat
  <2>1. p + 1 \in DOMAIN s /\ q \in DOMAIN s /\ q \in Nat
    OBVIOUS
  <2>2. s[p + 1] \in Turns /\ s[q] \in Turns
    BY <2>1
  <2>3. QED
    BY <2>1, <2>2 DEF Turns, Segments
<1>2. /\ x \in Segments /\ x.type = s[p + 1].type /\ x.user_id = s[p + 1].user_id
      /\ x.start_time = s[p + 1].start_time /\ x.end_time = s[q].end_time
  BY <1>1, TurnUntil
<1>. HIDE DEF x
<1>3. x \in Turns /\ x.user_id = s[q].user_id
  <2>1. CASE q = p + 1
    BY <1>1, <1>2, <2>1 DEF Turns
  <2>2. CASE q = p + 2
    <3>1. /\ s[q].start_time >= s[p + 1].end_time /\ s[p + 1].user_id = s[q].user_id
      BY <2>2 DEF Mergeable
    <3>2. s[p + 1].start_time < s[p + 1].end_time /\ s[q].start_time < s[q].end_time /\ s[p + 1].type = Speech
      BY <1>1 DEF Turns
    <3>3. s[p + 1].start_time < s[q].end_time
      BY <1>1, <3>1, <3>2
    <3>4. QED
      BY <1>2, <3>1, <3>2, <3>3 DEF Turns
  <2>3. QED
    BY <2>1, <2>2
<1>4. /\ e \in Seq(Nat) /\ Len(e) = Len(m) /\ IsAscending(e) /\ \A k \in DOMAIN e : e[k] \in 1..p
      /\ p # 0 => Len(e) # 0 /\ e[Len(e)] = p
      /\ \A k \in DOMAIN e : m[k] = [s[From(e, k)] EXCEPT !.end_time = s[e[k]].end_time]
      /\ \A k \in DOMAIN e : m[k].user_id = s[e[k]].user_id
      /\ \A i \in 1..p - 1 : (\A k \in DOMAIN e : e[k] # i) => Mergeable(s[i], s[i + 1])
  BY DEF Grouped
<1>5. /\ d \in Seq(Nat) /\ n \in Seq(Turns) /\ Len(e) \in Nat
      /\ DOMAIN e = 1..Len(e) /\ DOMAIN d = 1..Len(e) + 1 /\ Len(d) = Len(e) + 1 /\ Len(n) = Len(d)
      /\ d[Len(e) + 1] = q /\ \A k \in DOMAIN e : d[k] = e[k]
      /\ n[Len(e) + 1] = x /\ \A k \in DOMAIN e : n[k] = m[k]
  BY <1>1, <1>3, <1>4
<1>. HIDE DEF n, d
<1>6. IsAscending(d)
  <2>. SUFFICES ASSUME NEW k \in DOMAIN d, NEW l \in DOMAIN d, k < l PROVE d[k] < d[l]
    BY DEF IsAscending
  <2>1. k \in DOMAIN e /\ d[k] \in 1..p
    <3>1. k \in DOMAIN e
      BY <1>5
    <3>2. QED
      BY <1>4, <1>5, <3>1
  <2>2. CASE l = Len(e) + 1
    BY <1>1, <1>5, <2>1, <2>2
  <2>3. CASE l # Len(e) + 1
    <3>1. l \in DOMAIN e
      BY <1>5, <2>3
    <3>2. QED
      BY <1>4, <1>5, <2>1, <3>1 DEF IsAscending
  <2>4. QED
    BY <2>2, <2>3
<1>7. \A k \in DOMAIN d : d[k] \in 1..q
  <2>. SUFFICES ASSUME NEW k \in DOMAIN d PROVE d[k] \in 1..q
    OBVIOUS
  <2>1. CASE k = Len(e) + 1
    BY <1>1, <1>5, <2>1
  <2>2. CASE k \in DOMAIN e
    BY <1>1, <1>4, <1>5, <2>2
  <2>3. QED
    BY <1>5, <2>1, <2>2
<1>8. From(d, Len(e) + 1) = p + 1
  <2>1. CASE Len(e) = 0
    <3>1. p = 0
      BY <1>4, <2>1
    <3>2. QED
      BY <2>1, <3>1 DEF From
  <2>2. CASE Len(e) # 0
    <3>1. Len(e) \in DOMAIN e
      BY <1>5, <2>2
    <3>2. e[Len(e)] = p
      <4>1. e[Len(e)] \in 1..p
        BY <1>4, <3>1
      <4>2. p # 0
        BY <4>1
      <4>3. QED
        BY <1>4, <4>2
    <3>3. QED
      <4>1. Len(e) + 1 # 1 /\ Len(e) + 1 - 1 = Len(e) /\ d[Len(e)] = p
        BY <1>5, <2>2, <3>1, <3>2
      <4>2. QED
        BY <4>1 DEF From
  <2>3. QED
    BY <2>1, <2>2
<1>9. \A k \in DOMAIN e : From(d, k) = From(e, k)
  BY <1>5 DEF From
<1>10. ASSUME NEW k \in DOMAIN d
       PROVE  /\ n[k] = [s[From(d, k)] EXCEPT !.end_time = s[d[k]].end_time]
              /\ n[k].user_id = s[d[k]].user_id
  <2>1. CASE k = Len(e) + 1
    BY <1>3, <1>5, <1>8, <2>1 DEF x
  <2>2. CASE k \in DOMAIN e
    BY <1>4, <1>5, <1>9, <2>2
  <2>3. QED
    BY <1>5, <2>1, <2>2
<1>11. ASSUME NEW i \in 1..q - 1, \A k \in DOMAIN d : d[k] # i PROVE Mergeable(s[i], s[i + 1])
  <2>1. \A k \in DOMAIN e : e[k] # i
    BY <1>5, <1>11
  <2>2. CASE i = p
    <3>1. p # 0 /\ Len(e) \in DOMAIN e /\ e[Len(e)] = p
      BY <1>4, <1>5, <2>2
    <3>2. QED
      BY <2>1, <2>2, <3>1
  <2>3. CASE i = p + 1
    BY <2>3
  <2>4. CASE i < p
    BY <1>4, <2>1, <2>4
  <2>5. QED
    BY <2>2, <2>3, <2>4
<1>12. Grouped(s, n, q, d)
  BY <1>5, <1>6, <1>7, <1>10, <1>11, <1>1 DEF Grouped
<1>13. QED
  BY <1>3, <1>12 DEF x, n, d

\* Every segment can be a group of its own.
LEMMA GroupedAlone ==
    ASSUME NEW s \in Seq(Turns)
    PROVE  \E e : Grouped(s, s, Len(s), e)
<1>. DEFINE e == [i \in 1..Len(s) |-> i]
<1>1. /\ Len(s) \in Nat /\ DOMAIN s = 1..Len(s) /\ e \in Seq(Nat) /\ Len(e) = Len(s)
      /\ DOMAIN e = 1..Len(s) /\ \A i \in 1..Len(s) : e[i] = i
  OBVIOUS
<1>. HIDE DEF e
<1>2. IsAscending(e)
  BY <1>1 DEF IsAscending
<1>3. \A k \in DOMAIN e : From(e, k) = k
  <2>. SUFFICES ASSUME NEW k \in DOMAIN e, k # 1 PROVE e[k - 1] + 1 = k
    BY DEF From
  <2>1. k - 1 \in 1..Len(s)
    BY <1>1
  <2>2. QED
    BY <1>1, <2>1
<1>4. \A k \in DOMAIN e : s[k] = [s[k] EXCEPT !.end_time = s[k].end_time]
  <2>1. \A x \in Turns : x = [x EXCEPT !.end_time = x.end_time]
    BY DEF Turns, Segments
  <2>2. \A k \in DOMAIN e : s[k] \in Turns
    BY <1>1
  <2>3. QED
    BY <2>1, <2>2
<1>5. \A k \in DOMAIN e : s[k] = [s[From(e, k)] EXCEPT !.end_time = s[e[k]].end_time]
  BY <1>1, <1>3, <1>4
<1>6. \A k \in DOMAIN e : s[k].user_id = s[e[k]].user_id /\ e[k] \in 1..Len(s)
  BY <1>1
<1>7. Len(s) # 0 => Len(e) # 0 /\ e[Len(e)] = Len(s)
  BY <1>1
<1>8. \A i \in 1..Len(s) - 1 : \E k \in DOMAIN e : e[k] = i
  BY <1>1
<1>9. Grouped(s, s, Len(s), e)
  BY <1>1, <1>2, <1>5, <1>6, <1>7, <1>8 DEF Grouped
<1>10. QED
  BY <1>9

\* Where a group begins and what it keeps of its first and its last segment.
LEMMA GroupEdges ==
    ASSUME NEW s \in Seq(Turns), NEW m \in Seq(Turns), NEW e, Grouped(s, m, Len(s), e), NEW k \in DOMAIN m
    PROVE  /\ k \in DOMAIN e /\ e[k] \in DOMAIN s /\ From(e, k) \in DOMAIN s /\ From(e, k) <= e[k]
           /\ m[k].start_time = s[From(e, k)].start_time /\ m[k].user_id = s[From(e, k)].user_id
           /\ m[k].end_time = s[e[k]].end_time /\ m[k].user_id = s[e[k]].user_id
           /\ m[k] \in Turns
<1>1. k \in DOMAIN e /\ e[k] \in DOMAIN s /\ e[k] \in Nat /\ k \in Nat /\ DOMAIN e = 1..Len(e) /\ DOMAIN s = 1..Len(s)
  <2>1. /\ e \in Seq(Nat) /\ Len(e) = Len(m) /\ \A l \in DOMAIN e : e[l] \in 1..Len(s)
    BY DEF Grouped
  <2>2. DOMAIN e = 1..Len(e) /\ DOMAIN m = 1..Len(m)
    BY <2>1
  <2>3. QED
    BY <2>1, <2>2
<1>2. From(e, k) \in DOMAIN s /\ From(e, k) <= e[k]
  <2>1. CASE k = 1
    BY <1>1, <2>1 DEF From
  <2>2. CASE k # 1
    <3>1. k - 1 \in DOMAIN e /\ k - 1 < k
      BY <1>1, <2>2
    <3>2. e[k - 1] < e[k] /\ e[k - 1] \in 1..Len(s)
      BY <1>1, <3>1 DEF Grouped, IsAscending
    <3>3. QED
      BY <1>1, <2>2, <3>2 DEF From
  <2>3. QED
    BY <2>1, <2>2
<1>3. m[k] = [s[From(e, k)] EXCEPT !.end_time = s[e[k]].end_time] /\ m[k].user_id = s[e[k]].user_id
  BY <1>1 DEF Grouped
<1>4. s[From(e, k)] \in Turns /\ s[e[k]] \in Turns /\ s[e[k]].end_time \in Nat /\ m[k] \in Turns
  <2>1. s[From(e, k)] \in Turns /\ s[e[k]] \in Turns /\ m[k] \in Turns
    BY <1>1, <1>2
  <2>2. QED
    BY <2>1 DEF Turns, Segments
<1>. DEFINE x == s[From(e, k)]
            t == s[e[k]].end_time
<1>5. m[k] = [x EXCEPT !.end_time = t] /\ x \in Turns /\ t \in Nat
  BY <1>3, <1>4
<1>. HIDE DEF x, t
<1>6. m[k].start_time = x.start_time /\ m[k].user_id = x.user_id /\ m[k].end_time = t
  BY <1>5, TurnUntil
<1>7. QED
  BY <1>1, <1>2, <1>3, <1>4, <1>6 DEF x, t

\* Two groups may be merged just if the segments beside the pause between them may.
LEMMA GroupsMergeable ==
    ASSUME NEW s \in Seq(Turns), NEW m \in Seq(Turns), NEW e, Grouped(s, m, Len(s), e),
           NEW k \in 1..Len(m) - 1
    PROVE  Mergeable(m[k], m[k + 1]) <=> Mergeable(s[e[k]], s[e[k] + 1])
<1>1. k \in DOMAIN m /\ k + 1 \in DOMAIN m /\ k + 1 # 1 /\ k + 1 - 1 = k
  OBVIOUS
<1>2. m[k].end_time = s[e[k]].end_time /\ m[k].user_id = s[e[k]].user_id
  BY <1>1, GroupEdges
<1>3. From(e, k + 1) = e[k] + 1
  BY <1>1 DEF From
<1>4. m[k + 1].start_time = s[e[k] + 1].start_time /\ m[k + 1].user_id = s[e[k] + 1].user_id
  BY <1>1, <1>3, GroupEdges
<1>5. QED
  BY <1>2, <1>4 DEF Mergeable

\* Where the group after another begins.
LEMMA FromNext == ASSUME NEW e, NEW k \in Nat, k # 0 PROVE From(e, k + 1) = e[k] + 1
<1>1. k + 1 # 1 /\ k + 1 - 1 = k
  OBVIOUS
<1>2. QED
  BY <1>1 DEF From

\* Groups of groups are groups.
LEMMA GroupedTwice ==
    ASSUME NEW s \in Seq(Turns), NEW m \in Seq(Turns), NEW n \in Seq(Turns),
           NEW e, Grouped(s, m, Len(s), e), NEW f, Grouped(m, n, Len(m), f)
    PROVE  \E d : Grouped(s, n, Len(s), d)
<1>. DEFINE d == [k \in 1..Len(n) |-> e[f[k]]]
<1>0. /\ DOMAIN n = 1..Len(n) /\ DOMAIN m = 1..Len(m) /\ DOMAIN s = 1..Len(s)
      /\ Len(n) \in Nat /\ Len(m) \in Nat /\ Len(s) \in Nat
  OBVIOUS
<1>1. /\ e \in Seq(Nat) /\ Len(e) = Len(m) /\ IsAscending(e) /\ DOMAIN e = 1..Len(m)
      /\ \A k \in DOMAIN e : e[k] \in 1..Len(s)
      /\ f \in Seq(Nat) /\ Len(f) = Len(n) /\ IsAscending(f) /\ DOMAIN f = 1..Len(n)
      /\ \A k \in DOMAIN f : f[k] \in 1..Len(m)
  <2>1. e \in Seq(Nat) /\ Len(e) = Len(m) /\ IsAscending(e) /\ \A k \in DOMAIN e : e[k] \in 1..Len(s)
    BY DEF Grouped
  <2>2. f \in Seq(Nat) /\ Len(f) = Len(n) /\ IsAscending(f) /\ \A k \in DOMAIN f : f[k] \in 1..Len(m)
    BY DEF Grouped
  <2>3. DOMAIN e = 1..Len(e) /\ DOMAIN f = 1..Len(f)
    BY <2>1, <2>2
  <2>4. QED
    BY <2>1, <2>2, <2>3
<1>2. /\ d \in Seq(Nat) /\ Len(d) = Len(n) /\ DOMAIN d = 1..Len(n)
      /\ \A k \in 1..Len(n) : d[k] = e[f[k]] /\ d[k] \in 1..Len(s)
  <2>1. \A k \in 1..Len(n) : e[f[k]] \in 1..Len(s)
    BY <1>1
  <2>2. \A k \in 1..Len(n) : e[f[k]] \in Nat
    BY <2>1
  <2>3. QED
    BY <1>0, <2>1, <2>2
<1>. HIDE DEF d
<1>3. IsAscending(d)
  BY <1>1, <1>2 DEF IsAscending
<1>4. Len(s) # 0 => Len(d) # 0 /\ d[Len(d)] = Len(s)
  <2>. SUFFICES ASSUME Len(s) # 0 PROVE Len(d) # 0 /\ d[Len(d)] = Len(s)
    OBVIOUS
  <2>1. Len(m) # 0 /\ e[Len(m)] = Len(s)
    BY <1>1 DEF Grouped
  <2>2. Len(n) # 0 /\ f[Len(n)] = Len(m)
    BY <1>1, <2>1 DEF Grouped
  <2>3. Len(n) \in 1..Len(n)
    BY <1>0, <2>2
  <2>4. QED
    BY <1>2, <2>1, <2>2, <2>3
<1>5. ASSUME NEW k \in DOMAIN d
      PROVE  From(d, k) = From(e, From(f, k))
  <2>1. CASE k = 1
    BY <2>1 DEF From
  <2>2. CASE k # 1
    <3>1. k - 1 \in 1..Len(n)
      BY <1>0, <1>2, <2>2
    <3>2. f[k - 1] \in Nat /\ f[k - 1] # 0
      BY <1>1, <3>1
    <3>4. From(d, k) = e[f[k - 1]] + 1
      BY <1>2, <2>2, <3>1 DEF From
    <3>5. From(f, k) = f[k - 1] + 1
      BY <2>2 DEF From
    <3>6. From(e, f[k - 1] + 1) = e[f[k - 1]] + 1
      BY <3>2, FromNext
    <3>7. QED
      BY <3>4, <3>5, <3>6
  <2>3. QED
    BY <2>1, <2>2
<1>6. ASSUME NEW k \in DOMAIN d
      PROVE  /\ n[k] = [s[From(d, k)] EXCEPT !.end_time = s[d[k]].end_time]
             /\ n[k].user_id = s[d[k]].user_id
  <2>1. k \in DOMAIN n /\ k \in DOMAIN f
    BY <1>0, <1>1, <1>2
  <2>2. /\ f[k] \in DOMAIN m /\ From(f, k) \in DOMAIN m
        /\ n[k].user_id = m[f[k]].user_id
    BY <2>1, GroupEdges
  <2>3. n[k] = [m[From(f, k)] EXCEPT !.end_time = m[f[k]].end_time]
    BY <2>1 DEF Grouped
  <2>4. /\ m[f[k]].end_time = s[e[f[k]]].end_time /\ m[f[k]].user_id = s[e[f[k]]].user_id
        /\ From(e, From(f, k)) \in DOMAIN s /\ From(f, k) \in DOMAIN e
    BY <2>2, GroupEdges
  <2>5. m[From(f, k)] = [s[From(e, From(f, k))] EXCEPT !.end_time = s[e[From(f, k)]].end_time]
    BY <2>4 DEF Grouped
  <2>6. n[k] = [s[From(e, From(f, k))] EXCEPT !.end_time = s[e[f[k]]].end_time]
    <3>. DEFINE x == s[From(e, From(f, k))]
                t == s[e[From(f, k)]].end_time
                u == s[e[f[k]]].end_time
    <3>1. n[k] = [[x EXCEPT !.end_time = t] EXCEPT !.end_time = u] /\ x \in Turns
      BY <2>3, <2>4, <2>5
    <3>. HIDE DEF x, t, u
    <3>2. n[k] = [x EXCEPT !.end_time = u]
      BY <3>1 DEF Turns, Segments
    <3>3. QED
      BY <3>2 DEF x, u
  <2>7. QED
    BY <1>2, <1>5, <2>2, <2>4, <2>6
<1>7. ASSUME NEW i \in 1..Len(s) - 1, \A k \in DOMAIN d : d[k] # i PROVE Mergeable(s[i], s[i + 1])
  <2>a. \A l \in Nat : \A j \in 1..l - 1 : l # 0 /\ j # l
    OBVIOUS
  <2>0. Len(s) # 0 /\ i # Len(s)
    BY <1>0, <2>a
  <2>1. CASE \A j \in DOMAIN e : e[j] # i
    BY <2>1 DEF Grouped
  <2>2. CASE \E j \in DOMAIN e : e[j] = i
    <3>. PICK j \in DOMAIN e : e[j] = i
      BY <2>2
    <3>1. \A k \in DOMAIN f : f[k] # j
      BY <1>1, <1>2, <1>7
    <3>2. j # Len(m)
      <4>1. e[Len(m)] = Len(s)
        BY <1>1, <2>0 DEF Grouped
      <4>2. QED
        BY <2>0, <4>1
    <3>3. j \in 1..Len(m) - 1
      BY <1>0, <1>1, <3>2
    <3>4. Mergeable(m[j], m[j + 1])
      BY <3>1, <3>3 DEF Grouped
    <3>5. QED
      BY <3>3, <3>4, GroupsMergeable
  <2>3. QED
    BY <2>1, <2>2
<1>8. Grouped(s, n, Len(s), d)
  BY <1>2, <1>3, <1>4, <1>6, <1>7 DEF Grouped
<1>9. QED
  BY <1>8

\* A set has one list in order.
LEMMA ListedOnce ==
    ASSUME NEW n \in Nat, NEW T, T \subseteq 1..n, NEW s, Lists(s, n, T), NEW t, Lists(t, n, T)
    PROVE  s = t
<1>. DEFINE Differs == {k \in Nat \ {0} : k \in (DOMAIN s) \cup (DOMAIN t) /\ ~ (k \in DOMAIN s /\ k \in DOMAIN t /\ s[k] = t[k])}
<1>1. ASSUME NEW u, Lists(u, n, T)
      PROVE  /\ u \in Seq(T) /\ DOMAIN u = 1..Len(u) /\ Len(u) \in Nat
             /\ \A k \in DOMAIN u : u[k] \in T /\ u[k] \in Nat
             /\ \A i \in T : \E k \in DOMAIN u : u[k] = i
             /\ \A k, l \in DOMAIN u : k < l => u[k] < u[l]
  <2>1. u \in Seq(T)
    BY <1>1 DEF Lists
  <2>2. DOMAIN u = 1..Len(u) /\ Len(u) \in Nat /\ \A k \in DOMAIN u : u[k] \in T
    BY <2>1
  <2>3. \A i \in T : i \in Nat /\ i <= n
    OBVIOUS
  <2>4. QED
    BY <1>1, <2>1, <2>2, <2>3 DEF Lists, IsAscending
<1>2. ASSUME NEW u, Lists(u, n, T), NEW v, Lists(v, n, T), NEW k \in DOMAIN u,
             \A l \in 1..k - 1 : l \in DOMAIN u /\ l \in DOMAIN v /\ u[l] = v[l]
      PROVE  k \in DOMAIN v /\ v[k] <= u[k]
  <2>1. PICK j \in DOMAIN v : v[j] = u[k]
    BY <1>1, <1>2
  <2>a. k \in Nat /\ j \in Nat /\ j # 0
    <3>1. DOMAIN u = 1..Len(u) /\ DOMAIN v = 1..Len(v)
      BY <1>1, <1>2
    <3>2. QED
      BY <3>1
  <2>2. ~ j < k
    <3>. SUFFICES ASSUME j < k PROVE FALSE
      OBVIOUS
    <3>1. j \in 1..k - 1
      BY <2>a
    <3>a. j \in DOMAIN u /\ u[j] = v[j]
      BY <1>2, <3>1
    <3>2. u[j] < u[k] /\ u[k] \in Nat
      BY <1>1, <1>2, <3>a
    <3>3. QED
      BY <2>1, <3>a, <3>2
  <2>3. k \in Nat /\ k # 0 /\ j \in 1..Len(v) /\ DOMAIN v = 1..Len(v) /\ Len(v) \in Nat
    BY <1>1, <1>2
  <2>4. k \in DOMAIN v
    BY <2>2, <2>3
  <2>5. CASE j = k
    BY <1>1, <1>2, <2>1, <2>5
  <2>6. CASE k < j
    <3>1. v[k] < v[j] /\ v[k] \in Nat /\ v[j] \in Nat
      BY <1>1, <1>2, <2>4, <2>6
    <3>2. QED
      BY <2>1, <2>4, <3>1
  <2>7. QED
    BY <2>2, <2>3, <2>5, <2>6
<1>3. Differs = {}
  <2>. SUFFICES ASSUME Differs # {} PROVE FALSE
    OBVIOUS
  <2>1. Differs \subseteq Nat
    OBVIOUS
  <2>2. PICK k \in Differs : \A l \in Differs : k <= l
    <3>. HIDE DEF Differs
    <3>1. QED
      BY <2>1, LeastExists
  <2>3. k \in Nat /\ k # 0 /\ k \in (DOMAIN s) \cup (DOMAIN t)
    OBVIOUS
  <2>4. DOMAIN s = 1..Len(s) /\ DOMAIN t = 1..Len(t) /\ Len(s) \in Nat /\ Len(t) \in Nat
    BY <1>1
  <2>5. \A l \in 1..k - 1 : l \in DOMAIN s /\ l \in DOMAIN t /\ s[l] = t[l]
    <3>. SUFFICES ASSUME NEW l \in 1..k - 1 PROVE l \in DOMAIN s /\ l \in DOMAIN t /\ s[l] = t[l]
      OBVIOUS
    <3>1. l \notin Differs
      <4>1. ~ k <= l
        BY <2>3
      <4>2. QED
        BY <2>2, <4>1
    <3>2. l \in (DOMAIN s) \cup (DOMAIN t) /\ l \in Nat \ {0}
      BY <2>3, <2>4
    <3>3. QED
      BY <3>1, <3>2
  <2>6. k \in DOMAIN s /\ k \in DOMAIN t
    <3>1. k \in DOMAIN s => k \in DOMAIN t
      BY <1>2, <2>5
    <3>2. k \in DOMAIN t => k \in DOMAIN s
      <4>1. \A l \in 1..k - 1 : l \in DOMAIN t /\ l \in DOMAIN s /\ t[l] = s[l]
        BY <2>5
      <4>2. QED
        BY <1>2, <4>1
    <3>3. QED
      BY <2>3, <3>1, <3>2
  <2>7. t[k] <= s[k] /\ s[k] <= t[k]
    <3>1. \A l \in 1..k - 1 : l \in DOMAIN t /\ l \in DOMAIN s /\ t[l] = s[l]
      BY <2>5
    <3>2. QED
      BY <1>2, <2>5, <2>6, <3>1
  <2>8. s[k] \in Nat /\ t[k] \in Nat
    BY <1>1, <2>6
  <2>9. s[k] = t[k]
    BY <2>7, <2>8
  <2>10. QED
    BY <2>2, <2>6, <2>9
<1>4. /\ s \in Seq(T) /\ t \in Seq(T) /\ DOMAIN s = 1..Len(s) /\ DOMAIN t = 1..Len(t)
      /\ Len(s) \in Nat /\ Len(t) \in Nat
  BY <1>1
<1>5. \A k \in Nat \ {0} : k \in (DOMAIN s) \cup (DOMAIN t) => k \in DOMAIN s /\ k \in DOMAIN t /\ s[k] = t[k]
  BY <1>3
<1>6. DOMAIN s = DOMAIN t /\ \A k \in DOMAIN s : s[k] = t[k]
  <2>1. DOMAIN s \subseteq Nat \ {0} /\ DOMAIN t \subseteq Nat \ {0}
    BY <1>4
  <2>2. DOMAIN s \subseteq DOMAIN t /\ DOMAIN t \subseteq DOMAIN s
    BY <1>5, <2>1
  <2>3. QED
    BY <1>5, <2>1, <2>2
<1>7. s = [k \in DOMAIN s |-> s[k]] /\ t = [k \in DOMAIN t |-> t[k]]
  BY <1>4
<1>8. QED
  BY <1>6, <1>7

\* Groups between which nothing can be merged any more are the runs.
LEMMA GroupedRuns ==
    ASSUME NEW s \in Seq(Turns), NEW m \in Seq(Turns), NEW e, Grouped(s, m, Len(s), e),
           \A k \in 1..Len(m) - 1 : ~ Mergeable(m[k], m[k + 1])
    PROVE  m = Runs(s)
<1>. DEFINE T == {i \in DOMAIN s : i = Len(s) \/ ~ Mergeable(s[i], s[i + 1])}
            ends == Ascending(Len(s), T)
<1>0. Len(s) \in Nat /\ DOMAIN s = 1..Len(s) /\ Len(m) \in Nat /\ DOMAIN m = 1..Len(m)
  OBVIOUS
<1>1. T \subseteq 1..Len(s)
  BY <1>0
<1>2. Lists(ends, Len(s), T)
  <2>. HIDE DEF T
  <2>1. QED
    BY <1>0, <1>1, AscendingLists
<1>3. /\ e \in Seq(Nat) /\ Len(e) = Len(m) /\ IsAscending(e) /\ DOMAIN e = 1..Len(m)
      /\ \A k \in DOMAIN e : e[k] \in 1..Len(s)
  <2>1. e \in Seq(Nat) /\ Len(e) = Len(m) /\ IsAscending(e) /\ \A k \in DOMAIN e : e[k] \in 1..Len(s)
    BY DEF Grouped
  <2>2. DOMAIN e = 1..Len(e)
    BY <2>1
  <2>3. QED
    BY <2>1, <2>2
<1>4. \A k \in DOMAIN e : e[k] \in T
  <2>. SUFFICES ASSUME NEW k \in DOMAIN e PROVE e[k] \in T
    OBVIOUS
  <2>1. CASE k = Len(m)
    <3>1. Len(s) # 0
      BY <1>0, <1>3
    <3>2. e[k] = Len(s)
      BY <1>3, <2>1, <3>1 DEF Grouped
    <3>3. QED
      BY <1>0, <1>3, <3>2
  <2>2. CASE k # Len(m)
    <3>1. k \in 1..Len(m) - 1
      BY <1>0, <1>3, <2>2
    <3>2. ~ Mergeable(s[e[k]], s[e[k] + 1])
      BY <3>1, GroupsMergeable
    <3>3. QED
      BY <1>0, <1>3, <3>2
  <2>3. QED
    BY <2>1, <2>2
<1>5. \A i \in T : \E k \in DOMAIN e : e[k] = i
  <2>. SUFFICES ASSUME NEW i \in T, \A k \in DOMAIN e : e[k] # i PROVE FALSE
    OBVIOUS
  <2>1. i # Len(s)
    <3>1. Len(s) # 0
      BY <1>0
    <3>2. Len(e) \in DOMAIN e /\ e[Len(e)] = Len(s)
      BY <1>0, <1>3, <3>1 DEF Grouped
    <3>3. QED
      BY <3>2
  <2>2. i \in 1..Len(s) - 1
    BY <1>0, <2>1
  <2>3. Mergeable(s[i], s[i + 1])
    BY <2>2 DEF Grouped
  <2>4. QED
    BY <2>1, <2>3
<1>6. Lists(e, Len(s), T)
  <2>. HIDE DEF T
  <2>1. e \in Seq(T) /\ \A k \in DOMAIN e : e[k] <= Len(s)
    <3>1. DOMAIN e = 1..Len(e) /\ Len(e) \in Nat
      BY <1>0, <1>3
    <3>2. e \in [1..Len(e) -> T]
      BY <1>3, <1>4, <3>1
    <3>3. e \in Seq(T)
      BY <3>1, <3>2
    <3>4. \A k \in DOMAIN e : e[k] <= Len(s)
      BY <1>0, <1>3
    <3>5. QED
      BY <3>3, <3>4
  <2>2. QED
    BY <1>3, <1>5, <2>1 DEF Lists
<1>7. ends = e
  <2>. HIDE DEF T, ends
  <2>1. QED
    BY <1>0, <1>1, <1>2, <1>6, ListedOnce
<1>8. Runs(s) = [k \in DOMAIN ends |-> [s[From(ends, k)] EXCEPT !.end_time = s[ends[k]].end_time]]
  BY DEF Runs, From
<1>. HIDE DEF ends
<1>9. \A k \in DOMAIN e : m[k] = [s[From(e, k)] EXCEPT !.end_time = s[e[k]].end_time]
  BY DEF Grouped
<1>10. m = [k \in DOMAIN e |-> m[k]]
  BY <1>0, <1>3
<1>11. QED
  BY <1>7, <1>8, <1>9, <1>10

-----------------------------------------------------------------------------
(* The passes of the diarization                                           *)

AllSpeech == SpeechOf(Kept)

Coarse(s, m) == \E e : Grouped(s, m, Len(s), e)

\* Adjacent segments before position n are of different speakers or apart.
Apart(s, n) == \A i \in 1..n - 1 : ~ Mergeable(s[i], s[i + 1])

\* How much of speech is in merged already.
Consumed == IF idx = Len(speech) THEN Len(speech) ELSE IF skip THEN idx ELSE idx - 1

DiarizationTyping ==
    /\ diarizing \in {"predict", "segment", "pass", "merge", "noise", "done", "error"}
    /\ regions \in Seq(Regions) /\ StartsInOrder(regions)
    /\ speech \in Seq(Turns) /\ merged \in Seq(Turns)
    /\ idx \in Nat /\ skip \in BOOLEAN /\ again \in BOOLEAN

\* Within a pass merged has the groups made so far; as long as there is none of
\* two segments, it has the list itself, and nothing in it could be merged.
PassInv ==
    diarizing = "merge" =>
        /\ idx \in 1..Len(speech)
        /\ \E e : Grouped(speech, merged, Consumed, e)
        /\ again => Len(merged) < Consumed
        /\ ~ again => /\ ~ skip
                      /\ Len(merged) = Consumed /\ \A k \in 1..Consumed : merged[k] = speech[k]
                      /\ Apart(speech, idx)

\* The passes only make the list coarser, and end when nothing is left to merge.
MergingInv ==
    /\ diarizing \in {"pass", "merge"} => Coarse(AllSpeech, speech)
    /\ diarizing \in {"noise", "done"} => Coarse(AllSpeech, merged) /\ Apart(merged, Len(merged))

NoiseInv == diarizing = "done" => diarized = WithNoise(merged)

DiarizationInv == DiarizationTyping /\ PassInv /\ MergingInv /\ NoiseInv

\* The segments stay the same while the regions do.
LEMMA AllSpeechKept == ASSUME UNCHANGED regions PROVE AllSpeech' = AllSpeech
  BY DEF AllSpeech, Kept

\* The segments are turns in order.
LEMMA AllSpeechTurns ==
    ASSUME DiarizationTyping
    PROVE  /\ AllSpeech \in Seq(Turns) /\ TurnsInOrder(AllSpeech)
           /\ EndsInOrder(regions) => TurnsEndInOrder(AllSpeech)
  BY KeptInOrder, SpeechInOrder DEF DiarizationTyping, AllSpeech, Kept

\* The model's answer is sorted.
LEMMA PredictStep == ASSUME DiarizationInv, Predict PROVE DiarizationInv'
<1>1. PICK predicted \in Predictions : regions' = ByStart(predicted)
  BY DEF Predict
<1>2. predicted \in Seq(Regions)
  BY DiarizationAssumption
<1>3. regions' \in Seq(Regions) /\ StartsInOrder(regions')
  BY <1>1, <1>2, Sorted
<1>4. QED
  BY <1>3 DEF DiarizationInv, DiarizationTyping, PassInv, MergingInv, NoiseInv, Predict

\* The first list of speech segments is its own grouping.
LEMMA SegmentStep == ASSUME DiarizationInv, Segment PROVE DiarizationInv'
<1>1. DiarizationTyping
  BY DEF DiarizationInv
<1>2. AllSpeech \in Seq(Turns) /\ speech' = AllSpeech /\ AllSpeech' = AllSpeech
  BY <1>1, AllSpeechTurns, AllSpeechKept DEF Segment, AllSpeech, Kept
<1>3. Coarse(AllSpeech, AllSpeech)
  BY <1>2, GroupedAlone DEF Coarse
<1>4. DiarizationTyping'
  BY <1>1, <1>2 DEF DiarizationTyping, Segment
<1>5. MergingInv'
  BY <1>2, <1>3 DEF MergingInv, Segment
<1>6. QED
  BY <1>4, <1>5 DEF DiarizationInv, PassInv, NoiseInv, Segment

\* A pass begins with nothing consumed.
LEMMA BeginPassStep == ASSUME DiarizationInv, BeginPass PROVE DiarizationInv'
<1>0. DiarizationTyping /\ Coarse(AllSpeech, speech) /\ AllSpeech' = AllSpeech /\ Len(speech) \in Nat
  <2>1. DiarizationTyping /\ Coarse(AllSpeech, speech) /\ AllSpeech' = AllSpeech
    BY AllSpeechKept DEF DiarizationInv, MergingInv, BeginPass
  <2>2. speech \in Seq(Turns)
    BY <2>1 DEF DiarizationTyping
  <2>3. QED
    BY <2>1, <2>2
<1>1. CASE Len(speech) <= 1
  <2>1. merged' = speech /\ speech' = speech /\ diarizing' = "noise"
    BY <1>1 DEF BeginPass
  <2>2. Apart(merged', Len(merged'))
    BY <1>0, <1>1, <2>1 DEF Apart
  <2>3. MergingInv'
    BY <1>0, <2>1, <2>2 DEF MergingInv
  <2>4. DiarizationTyping'
    BY <1>0, <1>1 DEF DiarizationTyping, BeginPass
  <2>5. QED
    BY <2>1, <2>3, <2>4 DEF DiarizationInv, PassInv, NoiseInv
<1>2. CASE ~ Len(speech) <= 1
  <2>1. /\ merged' = <<>> /\ speech' = speech /\ diarizing' = "merge" /\ idx' = 1
        /\ skip' = FALSE /\ again' = FALSE
    BY <1>2 DEF BeginPass
  <2>2. Consumed' = 0
    <3>1. idx' # Len(speech') /\ ~ skip' /\ idx' - 1 = 0
      BY <1>0, <1>2, <2>1
    <3>2. QED
      BY <3>1 DEF Consumed
  <2>3. Grouped(speech', merged', Consumed', <<>>)
    BY <2>1, <2>2, GroupedNothing
  <2>4. Apart(speech', idx') /\ idx' \in 1..Len(speech') /\ Len(merged') = 0
    BY <1>0, <1>2, <2>1 DEF Apart
  <2>5. PassInv'
    BY <2>1, <2>2, <2>3, <2>4 DEF PassInv
  <2>6. MergingInv'
    BY <1>0, <2>1 DEF MergingInv
  <2>7. DiarizationTyping'
    <3>1. skip' \in BOOLEAN /\ again' \in BOOLEAN /\ idx' \in Nat /\ merged' \in Seq(Turns)
      <4>1. skip' \in BOOLEAN /\ again' \in BOOLEAN
        BY <2>1
      <4>2. idx' \in Nat /\ merged' \in Seq(Turns)
        BY <2>1
      <4>3. QED
        BY <4>1, <4>2
    <3>2. regions' = regions
      BY DEF BeginPass
    <3>3. QED
      BY <1>0, <2>1, <3>1, <3>2 DEF DiarizationTyping
  <2>8. QED
    BY <2>1, <2>5, <2>6, <2>7 DEF DiarizationInv, NoiseInv
<1>3. QED
  BY <1>1, <1>2

\* What a step within a pass starts from.
LEMMA WithinPass ==
    ASSUME DiarizationInv, InPass, UNCHANGED <<diarizing, regions, speech, diarized>>
    PROVE  /\ DiarizationTyping /\ speech \in Seq(Turns) /\ merged \in Seq(Turns)
           /\ idx \in Nat /\ idx >= 1 /\ idx + 1 <= Len(speech) /\ Len(speech) \in Nat
           /\ Consumed = (IF skip THEN idx ELSE idx - 1)
           /\ \E e : Grouped(speech, merged, Consumed, e)
           /\ PassInv /\ diarizing = "merge" /\ diarizing' = "merge"
           /\ MergingInv' /\ NoiseInv'
<1>1. DiarizationTyping /\ PassInv /\ diarizing = "merge" /\ diarizing' = "merge" /\ speech' = speech
  BY DEF DiarizationInv, InPass
<1>2. speech \in Seq(Turns) /\ merged \in Seq(Turns) /\ idx \in 1..Len(speech) /\ idx < Len(speech)
  BY <1>1 DEF DiarizationTyping, PassInv, InPass
<1>3. Len(speech) \in Nat /\ idx \in Nat /\ idx >= 1 /\ idx + 1 <= Len(speech) /\ idx # Len(speech)
  BY <1>2
<1>4. MergingInv' /\ NoiseInv'
  BY <1>1, AllSpeechKept DEF DiarizationInv, MergingInv, NoiseInv
<1>5. QED
  BY <1>1, <1>2, <1>3, <1>4 DEF Consumed, PassInv

\* The second segment of a group is passed over; the last segment comes with it.
LEMMA SkipMergedStep == ASSUME DiarizationInv, SkipMerged PROVE DiarizationInv'
<1>1. InPass /\ skip /\ UNCHANGED <<diarizing, regions, speech, diarized, again>> /\ idx' = idx + 1 /\ skip' = FALSE
  BY DEF SkipMerged
<1>2. /\ DiarizationTyping /\ speech \in Seq(Turns) /\ merged \in Seq(Turns)
      /\ idx \in Nat /\ idx >= 1 /\ idx + 1 <= Len(speech) /\ Len(speech) \in Nat
      /\ Consumed = idx /\ PassInv /\ diarizing = "merge" /\ diarizing' = "merge"
      /\ MergingInv' /\ NoiseInv'
  BY <1>1, WithinPass
<1>3. PICK e : Grouped(speech, merged, idx, e)
  BY <1>1, <1>2, WithinPass
<1>4. again /\ Len(merged) < idx
  BY <1>1, <1>2 DEF PassInv
<1>5. CASE idx = Len(speech) - 1
  <2>1. merged' = Append(merged, speech[idx + 1]) /\ Consumed' = idx + 1
    BY <1>1, <1>2, <1>5 DEF SkipMerged, Consumed
  <2>. DEFINE x == [speech[idx + 1] EXCEPT !.end_time = speech[idx + 1].end_time]
  <2>2. x \in Turns /\ Grouped(speech, Append(merged, x), idx + 1, Append(e, idx + 1))
    <3>1. idx + 1 \in {idx + 1, idx + 2} /\ idx + 1 # idx + 2
      BY <1>2
    <3>2. QED
      BY <1>2, <1>3, <3>1, GroupedNext
  <2>3. x = speech[idx + 1]
    <3>1. speech[idx + 1] \in Turns
      BY <1>2
    <3>2. QED
      BY <3>1 DEF Turns, Segments
  <2>. HIDE DEF x
  <2>4. merged' \in Seq(Turns) /\ Len(merged') < idx + 1
    BY <1>2, <1>4, <2>1, <2>2, <2>3
  <2>5. PassInv'
    BY <1>1, <1>2, <1>4, <2>1, <2>2, <2>3, <2>4 DEF PassInv
  <2>6. DiarizationTyping'
    <3>1. skip' \in BOOLEAN /\ again' \in BOOLEAN /\ idx' \in Nat
      <4>1. skip' \in BOOLEAN
        BY <1>1
      <4>2. again' \in BOOLEAN /\ idx' \in Nat
        BY <1>1, <1>2 DEF DiarizationTyping
      <4>3. QED
        BY <4>1, <4>2
    <3>2. merged' \in Seq(Turns)
      BY <2>4
    <3>3. QED
      BY <1>1, <1>2, <3>1, <3>2 DEF DiarizationTyping
  <2>7. QED
    BY <1>2, <2>5, <2>6 DEF DiarizationInv
<1>6. CASE idx # Len(speech) - 1
  <2>1. merged' = merged /\ Consumed' = idx
    BY <1>1, <1>2, <1>6 DEF SkipMerged, Consumed
  <2>2. PassInv'
    BY <1>1, <1>2, <1>3, <1>4, <2>1 DEF PassInv
  <2>3. DiarizationTyping'
    <3>1. skip' \in BOOLEAN /\ again' \in BOOLEAN /\ idx' \in Nat
      <4>1. skip' \in BOOLEAN
        BY <1>1
      <4>2. again' \in BOOLEAN /\ idx' \in Nat
        BY <1>1, <1>2 DEF DiarizationTyping
      <4>3. QED
        BY <4>1, <4>2
    <3>2. merged' \in Seq(Turns)
      BY <1>2, <2>1
    <3>3. QED
      BY <1>1, <1>2, <3>1, <3>2 DEF DiarizationTyping
  <2>4. QED
    BY <1>2, <2>2, <2>3 DEF DiarizationInv
<1>7. QED
  BY <1>5, <1>6

\* Two segments become a group.
LEMMA MergeWithNextStep == ASSUME DiarizationInv, MergeWithNext PROVE DiarizationInv'
<1>1. /\ InPass /\ ~ skip /\ UNCHANGED <<diarizing, regions, speech, diarized>> /\ idx' = idx + 1
      /\ skip' = TRUE /\ again' = TRUE /\ Mergeable(speech[idx], speech[idx + 1])
  BY DEF MergeWithNext
<1>2. /\ DiarizationTyping /\ speech \in Seq(Turns) /\ merged \in Seq(Turns)
      /\ idx \in Nat /\ idx >= 1 /\ idx + 1 <= Len(speech) /\ Len(speech) \in Nat
      /\ Consumed = idx - 1 /\ PassInv /\ diarizing = "merge" /\ diarizing' = "merge"
      /\ MergingInv' /\ NoiseInv'
  BY <1>1, WithinPass
<1>3. PICK e : Grouped(speech, merged, idx - 1, e)
  BY <1>1, <1>2, WithinPass
<1>4. Len(merged) <= idx - 1
  <2>1. Len(merged) \in Nat
    BY <1>2
  <2>2. QED
    BY <1>2, <2>1 DEF PassInv, DiarizationTyping
<1>. DEFINE p == idx - 1
            x == [speech[p + 1] EXCEPT !.end_time = speech[p + 2].end_time]
<1>5. p \in Nat /\ p + 1 = idx /\ p + 2 = idx + 1 /\ p + 2 <= Len(speech) /\ p + 2 \in {p + 1, p + 2}
  BY <1>2
<1>6. x \in Turns /\ Grouped(speech, Append(merged, x), p + 2, Append(e, p + 2))
  <2>. HIDE DEF p
  <2>1. Mergeable(speech[p + 1], speech[p + 2]) /\ Grouped(speech, merged, p, e)
    BY <1>1, <1>3, <1>5 DEF p
  <2>2. QED
    BY <1>2, <1>5, <2>1, GroupedNext
<1>7. merged' = Append(merged, x)
  BY <1>5 DEF MergeWithNext
<1>. HIDE DEF p, x
<1>8. Consumed' = p + 2
  BY <1>1, <1>2, <1>5 DEF Consumed
<1>9. merged' \in Seq(Turns) /\ Len(merged') < p + 2
  BY <1>2, <1>4, <1>5, <1>6, <1>7
<1>10. PassInv'
  BY <1>1, <1>2, <1>5, <1>6, <1>7, <1>8, <1>9 DEF PassInv
<1>11. DiarizationTyping'
  BY <1>1, <1>2, <1>9 DEF DiarizationTyping
<1>12. QED
  BY <1>2, <1>10, <1>11 DEF DiarizationInv

\* A segment stays by itself, at the end with the one behind it.
LEMMA KeepSegmentStep == ASSUME DiarizationInv, KeepSegment PROVE DiarizationInv'
<1>1. /\ InPass /\ ~ skip /\ UNCHANGED <<diarizing, regions, speech, diarized, skip, again>> /\ idx' = idx + 1
      /\ ~ Mergeable(speech[idx], speech[idx + 1])
  BY DEF KeepSegment
<1>2. /\ DiarizationTyping /\ speech \in Seq(Turns) /\ merged \in Seq(Turns)
      /\ idx \in Nat /\ idx >= 1 /\ idx + 1 <= Len(speech) /\ Len(speech) \in Nat
      /\ Consumed = idx - 1 /\ PassInv /\ diarizing = "merge" /\ diarizing' = "merge"
      /\ MergingInv' /\ NoiseInv'
  BY <1>1, WithinPass
<1>3. PICK e : Grouped(speech, merged, idx - 1, e)
  BY <1>1, <1>2, WithinPass
<1>. DEFINE one == Append(merged, speech[idx])
            two == Append(one, speech[idx + 1])
<1>4. speech[idx] \in Turns /\ speech[idx + 1] \in Turns
  BY <1>2
<1>5. \A y \in Turns : y = [y EXCEPT !.end_time = y.end_time]
  BY DEF Turns, Segments
<1>6. one \in Seq(Turns) /\ Grouped(speech, one, idx, Append(e, idx))
  <2>. DEFINE p == idx - 1
  <2>1. p \in Nat /\ p + 1 = idx /\ p + 1 <= Len(speech) /\ p + 1 \in {p + 1, p + 2} /\ p + 1 # p + 2
    BY <1>2
  <2>. HIDE DEF p
  <2>2. Grouped(speech, merged, p, e)
    BY <1>3 DEF p
  <2>3. Grouped(speech, Append(merged, [speech[p + 1] EXCEPT !.end_time = speech[p + 1].end_time]), p + 1,
                Append(e, p + 1))
    BY <1>2, <2>1, <2>2, GroupedNext
  <2>4. one \in Seq(Turns)
    BY <1>2, <1>4
  <2>5. QED
    BY <1>4, <1>5, <2>1, <2>3, <2>4
<1>7. two \in Seq(Turns) /\ Grouped(speech, two, idx + 1, Append(Append(e, idx), idx + 1))
  <2>. HIDE DEF one
  <2>1. idx + 1 \in {idx + 1, idx + 2} /\ idx + 1 # idx + 2
    BY <1>2
  <2>2. Grouped(speech, Append(one, [speech[idx + 1] EXCEPT !.end_time = speech[idx + 1].end_time]), idx + 1,
                Append(Append(e, idx), idx + 1))
    BY <1>2, <1>6, <2>1, GroupedNext
  <2>3. two \in Seq(Turns)
    BY <1>4, <1>6
  <2>4. QED
    BY <1>4, <1>5, <2>2, <2>3
<1>8. /\ Len(merged) \in Nat /\ Len(one) = Len(merged) + 1 /\ Len(two) = Len(merged) + 2
      /\ one[Len(merged) + 1] = speech[idx] /\ two[Len(merged) + 1] = speech[idx]
      /\ two[Len(merged) + 2] = speech[idx + 1]
      /\ \A k \in 1..Len(merged) : one[k] = merged[k] /\ two[k] = merged[k]
  BY <1>2, <1>4
<1>9. merged \o <<speech[idx], speech[idx + 1]>> = two
  BY <1>2, <1>4
<1>10. merged' = IF idx = Len(speech) - 1 THEN two ELSE one
  BY <1>9 DEF KeepSegment
<1>. HIDE DEF one, two
<1>11. Consumed' = IF idx = Len(speech) - 1 THEN idx + 1 ELSE idx
  BY <1>1, <1>2 DEF Consumed
<1>12. merged' \in Seq(Turns) /\ \E d : Grouped(speech', merged', Consumed', d)
  BY <1>1, <1>2, <1>6, <1>7, <1>10, <1>11
<1>13. again => Len(merged') < Consumed'
  <2>. SUFFICES ASSUME again PROVE Len(merged') < Consumed'
    OBVIOUS
  <2>1. Len(merged) < idx - 1
    BY <1>2 DEF PassInv
  <2>2. QED
    BY <1>2, <1>8, <1>10, <1>11, <2>1
<1>14. ASSUME ~ again
       PROVE  /\ Len(merged') = Consumed' /\ \A k \in 1..Consumed' : merged'[k] = speech[k]
              /\ Apart(speech, idx + 1)
  <2>1. Len(merged) = idx - 1 /\ (\A k \in 1..idx - 1 : merged[k] = speech[k]) /\ Apart(speech, idx)
    BY <1>2, <1>14 DEF PassInv
  <2>2. Apart(speech, idx + 1)
    <3>. SUFFICES ASSUME NEW i \in 1..idx PROVE ~ Mergeable(speech[i], speech[i + 1])
      BY <1>2 DEF Apart
    <3>1. i = idx \/ i \in 1..idx - 1
      BY <1>2
    <3>2. QED
      BY <1>1, <2>1, <3>1 DEF Apart
  <2>3. Len(merged') = Consumed'
    BY <1>2, <1>8, <1>10, <1>11, <2>1
  <2>4. \A k \in 1..idx : one[k] = speech[k] /\ two[k] = speech[k]
    <3>. SUFFICES ASSUME NEW k \in 1..idx PROVE one[k] = speech[k] /\ two[k] = speech[k]
      OBVIOUS
    <3>1. k = idx \/ k \in 1..idx - 1
      BY <1>2
    <3>2. Len(merged) + 1 = idx
      BY <1>2, <2>1
    <3>3. QED
      BY <1>8, <2>1, <3>1, <3>2
  <2>5. two[idx + 1] = speech[idx + 1]
    <3>1. Len(merged) + 2 = idx + 1
      BY <1>2, <2>1
    <3>2. QED
      BY <1>8, <3>1
  <2>6. \A k \in 1..Consumed' : merged'[k] = speech[k]
    <3>. SUFFICES ASSUME NEW k \in 1..Consumed' PROVE merged'[k] = speech[k]
      OBVIOUS
    <3>1. CASE idx = Len(speech) - 1
      <4>1. k \in 1..idx + 1
        BY <1>11, <3>1
      <4>2. k = idx + 1 \/ k \in 1..idx
        BY <1>2, <4>1
      <4>3. QED
        BY <1>10, <2>4, <2>5, <3>1, <4>2
    <3>2. CASE idx # Len(speech) - 1
      BY <1>10, <1>11, <2>4, <3>2
    <3>3. QED
      BY <3>1, <3>2
  <2>7. QED
    BY <2>2, <2>3, <2>6
<1>15. PassInv'
  <2>1. idx' \in 1..Len(speech')
    BY <1>1, <1>2
  <2>2. QED
    BY <1>1, <1>12, <1>13, <1>14, <2>1 DEF PassInv
<1>16. DiarizationTyping'
  BY <1>1, <1>2, <1>12 DEF DiarizationTyping
<1>17. QED
  BY <1>2, <1>15, <1>16 DEF DiarizationInv

\* A pass that merged nothing has copied the list, in which nothing can be merged;
\* otherwise its groups are the next list.
LEMMA EndPassStep == ASSUME DiarizationInv, EndPass PROVE DiarizationInv' /\ (again => Len(speech') < Len(speech))
<1>1. /\ DiarizationTyping /\ PassInv /\ diarizing = "merge" /\ idx = Len(speech) /\ Coarse(AllSpeech, speech)
      /\ AllSpeech' = AllSpeech /\ merged' = merged
  BY AllSpeechKept DEF DiarizationInv, MergingInv, EndPass
<1>2. speech \in Seq(Turns) /\ merged \in Seq(Turns) /\ Consumed = Len(speech) /\ AllSpeech \in Seq(Turns)
  BY <1>1, AllSpeechTurns DEF DiarizationTyping, Consumed
<1>3. \E e : Grouped(speech, merged, Len(speech), e)
  BY <1>1, <1>2 DEF PassInv
<1>4. Coarse(AllSpeech, merged)
  BY <1>1, <1>2, <1>3, GroupedTwice DEF Coarse
<1>5. DiarizationTyping'
  BY <1>1, <1>2 DEF DiarizationTyping, EndPass
<1>6. CASE again
  <2>1. speech' = merged /\ diarizing' = "pass" /\ Len(merged) < Len(speech)
    BY <1>1, <1>2, <1>6 DEF EndPass, PassInv
  <2>2. MergingInv'
    BY <1>1, <1>4, <2>1 DEF MergingInv
  <2>3. QED
    BY <1>5, <2>1, <2>2 DEF DiarizationInv, PassInv, NoiseInv
<1>7. CASE ~ again
  <2>1. speech' = speech /\ diarizing' = "noise"
    BY <1>7 DEF EndPass
  <2>2. /\ Len(merged) = Len(speech) /\ \A k \in 1..Len(speech) : merged[k] = speech[k]
        /\ Apart(speech, Len(speech))
    BY <1>1, <1>2, <1>7 DEF PassInv
  <2>3. Apart(merged, Len(merged))
    <3>. SUFFICES ASSUME NEW i \in 1..Len(speech) - 1 PROVE ~ Mergeable(merged[i], merged[i + 1])
      BY <2>2 DEF Apart
    <3>1. i \in 1..Len(speech) /\ i + 1 \in 1..Len(speech)
      BY <1>2
    <3>2. QED
      BY <2>2, <3>1 DEF Apart
  <2>4. MergingInv'
    BY <1>1, <1>4, <2>1, <2>3 DEF MergingInv
  <2>5. QED
    BY <1>5, <1>7, <2>1, <2>4 DEF DiarizationInv, PassInv, NoiseInv
<1>8. QED
  BY <1>6, <1>7

\* The induction step of the diarization.
LEMMA DiarizationStep == DiarizationInv /\ (DiarizationNext \/ UNCHANGED diarizationVars) => DiarizationInv'
<1>. SUFFICES ASSUME DiarizationInv, DiarizationNext \/ UNCHANGED diarizationVars PROVE DiarizationInv'
  OBVIOUS
<1>1. CASE InferenceRaises
  BY <1>1 DEF InferenceRaises, DiarizationInv, DiarizationTyping, PassInv, MergingInv, NoiseInv
<1>2. CASE FillNoise
  <2>1. MergingInv'
    BY <1>2, AllSpeechKept DEF FillNoise, DiarizationInv, MergingInv
  <2>2. QED
    BY <1>2, <2>1 DEF FillNoise, DiarizationInv, DiarizationTyping, PassInv, NoiseInv
<1>3. CASE UNCHANGED diarizationVars
  <2>1. MergingInv' /\ Consumed' = Consumed
    BY <1>3, AllSpeechKept DEF diarizationVars, DiarizationInv, MergingInv, Consumed
  <2>2. PassInv'
    BY <1>3, <2>1 DEF diarizationVars, DiarizationInv, PassInv
  <2>3. QED
    BY <1>3, <2>1, <2>2 DEF diarizationVars, DiarizationInv, DiarizationTyping, NoiseInv
<1>4. QED
  BY <1>1, <1>2, <1>3, PredictStep, SegmentStep, BeginPassStep, SkipMergedStep, MergeWithNextStep, KeepSegmentStep,
     EndPassStep DEF DiarizationNext

\* Nothing is predicted yet.
LEMMA DiarizationBegins == DiarizationInit => DiarizationInv
<1>. SUFFICES ASSUME DiarizationInit PROVE DiarizationInv
  OBVIOUS
<1>. USE DEF DiarizationInit
<1>1. regions \in Seq(Regions) /\ StartsInOrder(regions)
  BY DEF StartsInOrder
<1>2. speech \in Seq(Turns) /\ merged \in Seq(Turns)
  OBVIOUS
<1>3. DiarizationTyping
  BY <1>1, <1>2 DEF DiarizationTyping
<1>4. PassInv /\ MergingInv /\ NoiseInv
  BY DEF PassInv, MergingInv, NoiseInv
<1>5. QED
  BY <1>3, <1>4 DEF DiarizationInv

\* The inductive invariant of the diarization.
THEOREM DiarizationCorrect == Spec => []DiarizationInv
<1>1. Init => DiarizationInv
  BY DiarizationBegins DEF Init
<1>2. DiarizationInv /\ [Next]_vars => DiarizationInv'
  BY DiarizationStep DEF Next, Diarization, Stt, Emotion, vars
<1>3. QED
  BY <1>1, <1>2, PTL DEF Spec

\* The while loop of DiarizationService._run_inference, with its skipped indexes and
\* the last segment added by hand, merges every run of segments that only micro
\* pauses separate, and nothing else (RunsMerged), for any regions and thresholds.
THEOREM MicroPausesMerged == Spec => []RunsMerged
<1>1. DiarizationInv => RunsMerged
  <2>. SUFFICES ASSUME DiarizationInv, diarizing = "done" PROVE merged = Runs(AllSpeech)
    BY DEF RunsMerged, Diarized, AllSpeech
  <2>1. DiarizationTyping /\ Coarse(AllSpeech, merged) /\ Apart(merged, Len(merged))
    BY DEF DiarizationInv, MergingInv
  <2>2. AllSpeech \in Seq(Turns) /\ merged \in Seq(Turns)
    BY <2>1, AllSpeechTurns DEF DiarizationTyping
  <2>3. QED
    BY <2>1, <2>2, GroupedRuns DEF Coarse, Apart
<1>2. QED
  BY <1>1, DiarizationCorrect, PTL

\* The while loop ends: a pass over the segments is repeated only after it made
\* the list shorter (PassesShrink).
THEOREM PassesEnd == Spec => PassesShrink
<1>1. DiarizationInv /\ [Next]_vars => [diarizing = "merge" /\ diarizing' = "pass" => Len(speech') < Len(speech)]_diarizationVars
  <2>. SUFFICES ASSUME DiarizationInv, [Next]_vars, diarizing = "merge", diarizing' = "pass"
                PROVE  Len(speech') < Len(speech)
    OBVIOUS
  <2>1. DiarizationNext
    BY DEF Next, Diarization, Stt, Emotion, vars, diarizationVars
  <2>2. EndPass /\ again
    BY <2>1 DEF DiarizationNext, Predict, InferenceRaises, Segment, BeginPass, SkipMerged, MergeWithNext, KeepSegment,
                EndPass, FillNoise
  <2>3. QED
    BY <2>2, EndPassStep
<1>2. QED
  BY <1>1, DiarizationCorrect, PTL DEF Spec, PassesShrink

-----------------------------------------------------------------------------
(* Lists put together from lists                                           *)

\* The elements of two lists, one behind the other.
LEMMA JoinedElements ==
    ASSUME NEW S, NEW s \in Seq(S), NEW t \in Seq(S)
    PROVE  s \o t \in Seq(S) /\ Elements(s \o t) = Elements(s) \cup Elements(t)
<1>1. /\ s \o t \in Seq(S) /\ Len(s) \in Nat /\ Len(t) \in Nat /\ DOMAIN s = 1..Len(s) /\ DOMAIN t = 1..Len(t)
      /\ DOMAIN (s \o t) = 1..Len(s) + Len(t)
      /\ \A i \in 1..Len(s) : (s \o t)[i] = s[i]
      /\ \A i \in 1..Len(t) : (s \o t)[Len(s) + i] = t[i]
  BY ConcatProperties
<1>. DEFINE r == s \o t
<1>. HIDE DEF r
<1>2. /\ DOMAIN r = 1..Len(s) + Len(t)
      /\ \A i \in 1..Len(s) : r[i] = s[i]
      /\ \A i \in 1..Len(t) : r[Len(s) + i] = t[i]
  BY <1>1 DEF r
<1>3. Elements(r) \subseteq Elements(s) \cup Elements(t)
  <2>. SUFFICES ASSUME NEW i \in DOMAIN r PROVE r[i] \in Elements(s) \cup Elements(t)
    BY DEF Elements
  <2>1. i \in 1..Len(s) \/ \E j \in 1..Len(t) : i = Len(s) + j
    <3>1. i \in Nat /\ i >= 1 /\ i <= Len(s) + Len(t)
      BY <1>1, <1>2
    <3>2. i > Len(s) => i - Len(s) \in 1..Len(t) /\ i = Len(s) + (i - Len(s))
      BY <1>1, <3>1
    <3>3. QED
      BY <1>1, <3>1, <3>2
  <2>2. QED
    BY <1>1, <1>2, <2>1 DEF Elements
<1>4. Elements(s) \subseteq Elements(r)
  <2>1. \A i \in DOMAIN s : i \in DOMAIN r /\ r[i] = s[i]
    BY <1>1, <1>2
  <2>2. QED
    BY <2>1 DEF Elements
<1>5. Elements(t) \subseteq Elements(r)
  <2>1. \A i \in DOMAIN t : Len(s) + i \in DOMAIN r /\ r[Len(s) + i] = t[i]
    BY <1>1, <1>2
  <2>2. QED
    BY <2>1 DEF Elements
<1>6. QED
  BY <1>1, <1>3, <1>4, <1>5 DEF r

\* FlattenSeq has the elements of all its lists.
LEMMA Flattened ==
    ASSUME NEW S, NEW lists \in Seq(Seq(S))
    PROVE  /\ FlattenSeq(lists) \in Seq(S)
           /\ Elements(FlattenSeq(lists)) = UNION {Elements(lists[i]) : i \in DOMAIN lists}
<1>. DEFINE n == Len(lists)
            All(m) == UNION {Elements(lists[i]) : i \in 1..m}
<1>0. n \in Nat /\ DOMAIN lists = 1..n /\ \A i \in 1..n : lists[i] \in Seq(S)
  OBVIOUS
<1>1. CASE n = 0
  <2>1. FlattenSeq(lists) = lists
    BY <1>1 DEF FlattenSeq
  <2>2. lists = <<>> /\ DOMAIN lists = {}
    BY <1>0, <1>1
  <2>3. <<>> \in Seq(S) /\ Elements(<<>>) = {}
    BY DEF Elements
  <2>4. QED
    BY <2>1, <2>2, <2>3
<1>2. CASE n # 0
  <2>. DEFINE Loop(f) == [i \in 1..n |-> IF i = 1 THEN lists[i] ELSE f[i - 1] \o lists[i]]
              step == [x \in (1..n) \X Seq(S) |-> x[2] \o lists[x[1]]]
  <2>1. \E g : BySteps(g, n, Seq(S), <<>>, step)
    <3>1. step \in [(1..n) \X Seq(S) -> Seq(S)] /\ <<>> \in Seq(S)
      BY <1>0
    <3>. HIDE DEF step
    <3>2. QED
      BY <1>0, <3>1, DefinedByStep
  <2>. PICK g : BySteps(g, n, Seq(S), <<>>, step)
    BY <2>1
  <2>2. /\ g \in [0..n -> Seq(S)] /\ g[0] = <<>>
        /\ \A i \in 1..n : g[i - 1] \in Seq(S) /\ g[i] = g[i - 1] \o lists[i]
    <3>1. g \in [0..n -> Seq(S)] /\ g[0] = <<>> /\ \A i \in 1..n : g[i] = step[<<i, g[i - 1]>>]
      BY DEF BySteps
    <3>2. ASSUME NEW i \in 1..n PROVE g[i - 1] \in Seq(S) /\ g[i] = g[i - 1] \o lists[i]
      <4>1. i - 1 \in 0..n
        BY <1>0
      <4>2. g[i - 1] \in Seq(S) /\ <<i, g[i - 1]>> \in (1..n) \X Seq(S)
        BY <3>1, <4>1
      <4>3. QED
        BY <3>1, <4>2
    <3>3. QED
      BY <3>1, <3>2
  <2>. HIDE DEF step
  <2>3. \E f : f = Loop(f)
    <3>. DEFINE f == [i \in 1..n |-> g[i]]
    <3>1. ASSUME NEW i \in 1..n PROVE f[i] = Loop(f)[i]
      <4>1. CASE i = 1
        <5>1. 1 \in 1..n /\ 1 - 1 = 0
          BY <1>0, <1>2
        <5>2. g[1] = <<>> \o lists[1]
          BY <2>2, <5>1
        <5>3. <<>> \o lists[1] = lists[1]
          BY <1>0, <5>1
        <5>4. QED
          BY <4>1, <5>2, <5>3
      <4>2. CASE i # 1
        <5>1. i - 1 \in 1..n
          BY <1>0, <4>2
        <5>2. QED
          BY <2>2, <4>2, <5>1
      <4>3. QED
        BY <4>1, <4>2
    <3>2. f = Loop(f)
      BY <3>1
    <3>3. QED
      BY <3>2
  <2>. DEFINE flatten == CHOOSE f : f = Loop(f)
  <2>4. flatten = Loop(flatten)
    BY <2>3
  <2>5. FlattenSeq(lists) = flatten[n]
    BY <1>2 DEF FlattenSeq
  <2>6. /\ flatten[1] = lists[1]
        /\ \A m \in Nat \ {0} : m + 1 <= n => flatten[m + 1] = flatten[m] \o lists[m + 1]
    <3>. HIDE DEF flatten
    <3>1. 1 \in 1..n
      BY <1>0, <1>2
    <3>a. \A i \in 1..n : flatten[i] = IF i = 1 THEN lists[i] ELSE flatten[i - 1] \o lists[i]
      BY <2>4, Zenon
    <3>2. flatten[1] = lists[1]
      BY <3>a, <3>1
    <3>3. ASSUME NEW m \in Nat \ {0}, m + 1 <= n PROVE flatten[m + 1] = flatten[m] \o lists[m + 1]
      <4>1. m + 1 \in 1..n /\ m + 1 # 1 /\ m + 1 - 1 = m
        BY <1>0, <3>3
      <4>. DEFINE k == m + 1
      <4>2. k \in 1..n /\ k # 1 /\ k - 1 = m
        BY <4>1
      <4>. HIDE DEF k, n
      <4>3. flatten[k] = flatten[k - 1] \o lists[k]
        BY <3>a, <4>2, Zenon
      <4>4. QED
        BY <4>2, <4>3 DEF k
    <3>4. QED
      BY <3>2, <3>3
  <2>. HIDE DEF flatten
  <2>. DEFINE P == {m \in Nat : m + 1 <= n => flatten[m + 1] \in Seq(S) /\ Elements(flatten[m + 1]) = All(m + 1)}
  <2>7. 0 \in P
    <3>1. 1 \in 1..n /\ lists[1] \in Seq(S) /\ 1..1 = {1}
      BY <1>0, <1>2
    <3>2. All(1) = Elements(lists[1])
      BY <3>1
    <3>3. QED
      BY <2>6, <3>1, <3>2
  <2>8. ASSUME NEW m \in P PROVE m + 1 \in P
    <3>. SUFFICES ASSUME m + 1 + 1 <= n
                  PROVE  flatten[m + 1 + 1] \in Seq(S) /\ Elements(flatten[m + 1 + 1]) = All(m + 1 + 1)
      OBVIOUS
    <3>1. m \in Nat /\ m + 1 \in Nat \ {0} /\ m + 1 <= n /\ m + 1 + 1 \in 1..n
      BY <1>0
    <3>2. flatten[m + 1] \in Seq(S) /\ Elements(flatten[m + 1]) = All(m + 1)
      BY <3>1
    <3>3. flatten[m + 1 + 1] = flatten[m + 1] \o lists[m + 1 + 1]
      BY <2>6, <3>1
    <3>4. lists[m + 1 + 1] \in Seq(S)
      BY <1>0, <3>1
    <3>5. /\ flatten[m + 1 + 1] \in Seq(S)
          /\ Elements(flatten[m + 1 + 1]) = Elements(flatten[m + 1]) \cup Elements(lists[m + 1 + 1])
      BY <3>2, <3>3, <3>4, JoinedElements
    <3>6. 1..m + 1 + 1 = (1..m + 1) \cup {m + 1 + 1}
      BY <3>1
    <3>7. All(m + 1 + 1) = All(m + 1) \cup Elements(lists[m + 1 + 1])
      BY <3>6
    <3>8. QED
      BY <3>2, <3>5, <3>7
  <2>9. n - 1 \in P
    <3>1. P \in SUBSET Nat
      OBVIOUS
    <3>. HIDE DEF P
    <3>2. P = Nat
      BY <2>7, <2>8, <3>1, AllNaturals
    <3>3. QED
      BY <1>0, <1>2, <3>2
  <2>10. n - 1 + 1 = n /\ n <= n
    BY <1>0
  <2>11. flatten[n] \in Seq(S) /\ Elements(flatten[n]) = All(n)
    BY <2>9, <2>10
  <2>12. QED
    BY <1>0, <2>5, <2>11
<1>3. QED
  BY <1>1, <1>2

-----------------------------------------------------------------------------
(* Noise                                                                   *)

LastSec(s, i) == IF i = 1 THEN 0 ELSE s[i - 1].end_time

\* The noise before the i-th segment, if there is any.
NoiseBefore(s, i) ==
    IF s[i].start_time > LastSec(s, i)
    THEN <<ResultsSegment(Noise, 0, LastSec(s, i), s[i].start_time)>> ELSE <<>>

\* The fields of a noise segment.
LEMMA NoiseFields ==
    ASSUME NEW from \in Nat, NEW to \in Nat
    PROVE  LET x == ResultsSegment(Noise, 0, from, to)
           IN  x \in Segments /\ x.type = Noise /\ x.start_time = from /\ x.end_time = to
  BY DEF ResultsSegment, Segments

\* The times of a turn.
LEMMA TurnTimes ==
    ASSUME NEW s \in Seq(Turns), NEW i \in DOMAIN s
    PROVE  /\ s[i] \in Segments /\ s[i].start_time \in Nat /\ s[i].end_time \in Nat
           /\ s[i].start_time < s[i].end_time /\ s[i].type = Speech
           /\ LastSec(s, i) \in Nat
           /\ i # 1 => i - 1 \in DOMAIN s /\ LastSec(s, i) = s[i - 1].end_time
<1>1. ASSUME NEW j \in DOMAIN s
      PROVE  /\ s[j] \in Segments /\ s[j].start_time \in Nat /\ s[j].end_time \in Nat
             /\ s[j].start_time < s[j].end_time /\ s[j].type = Speech
  <2>1. s[j] \in Turns
    OBVIOUS
  <2>2. QED
    BY <2>1 DEF Turns, Segments
<1>2. i # 1 => i - 1 \in DOMAIN s
  OBVIOUS
<1>3. QED
  BY <1>1, <1>2 DEF LastSec

\* What FlattenSeq puts together: the segments, and the noise before each.
LEMMA WithNoiseElements ==
    ASSUME NEW s \in Seq(Turns), s # <<>>
    PROVE  /\ WithNoise(s) \in Seq(Segments)
           /\ Elements(WithNoise(s)) = UNION {Elements(NoiseBefore(s, i)) \cup {s[i]} : i \in DOMAIN s}
<1>. DEFINE lists == [i \in DOMAIN s |-> Append(NoiseBefore(s, i), s[i])]
<1>1. WithNoise(s) = FlattenSeq(lists)
  BY DEF WithNoise, NoiseBefore, LastSec
<1>2. ASSUME NEW i \in DOMAIN s
      PROVE  /\ Append(NoiseBefore(s, i), s[i]) \in Seq(Segments)
             /\ Elements(Append(NoiseBefore(s, i), s[i])) = Elements(NoiseBefore(s, i)) \cup {s[i]}
  <2>1. s[i] \in Segments /\ s[i].start_time \in Nat /\ LastSec(s, i) \in Nat
    BY TurnTimes
  <2>2. NoiseBefore(s, i) \in Seq(Segments)
    <3>1. ResultsSegment(Noise, 0, LastSec(s, i), s[i].start_time) \in Segments
      BY <2>1, NoiseFields
    <3>2. QED
      BY <3>1 DEF NoiseBefore
  <2>3. QED
    BY <2>1, <2>2, AppendFacts
<1>3. lists \in Seq(Seq(Segments)) /\ DOMAIN lists = DOMAIN s /\ \A i \in DOMAIN s : lists[i] = Append(NoiseBefore(s, i), s[i])
  <2>1. Len(s) \in Nat /\ DOMAIN s = 1..Len(s)
    OBVIOUS
  <2>2. QED
    BY <1>2, <2>1
<1>. HIDE DEF lists
<1>4. FlattenSeq(lists) \in Seq(Segments) /\ Elements(FlattenSeq(lists)) = UNION {Elements(lists[i]) : i \in DOMAIN lists}
  BY <1>3, Flattened
<1>5. \A i \in DOMAIN s : Elements(lists[i]) = Elements(NoiseBefore(s, i)) \cup {s[i]}
  BY <1>2, <1>3
<1>6. QED
  BY <1>1, <1>3, <1>4, <1>5

\* A segment of the result is one of the speech segments or noise up to one of them.
LEMMA WhatIsThere ==
    ASSUME NEW s \in Seq(Turns), s # <<>>
    PROVE  /\ WithNoise(s) \in Seq(Segments)
           /\ \A k \in DOMAIN WithNoise(s) : \E i \in DOMAIN s :
                 \/ WithNoise(s)[k] = s[i]
                 \/ /\ s[i].start_time > LastSec(s, i)
                    /\ WithNoise(s)[k] = ResultsSegment(Noise, 0, LastSec(s, i), s[i].start_time)
           /\ \A i \in DOMAIN s :
                 /\ \E k \in DOMAIN WithNoise(s) : WithNoise(s)[k] = s[i]
                 /\ s[i].start_time > LastSec(s, i) =>
                       \E k \in DOMAIN WithNoise(s) :
                          WithNoise(s)[k] = ResultsSegment(Noise, 0, LastSec(s, i), s[i].start_time)
<1>. DEFINE d == WithNoise(s)
            x(i) == ResultsSegment(Noise, 0, LastSec(s, i), s[i].start_time)
<1>1. d \in Seq(Segments) /\ Elements(d) = UNION {Elements(NoiseBefore(s, i)) \cup {s[i]} : i \in DOMAIN s}
  BY WithNoiseElements
<1>2. \A i \in DOMAIN s : Elements(NoiseBefore(s, i)) = IF s[i].start_time > LastSec(s, i) THEN {x(i)} ELSE {}
  <2>. SUFFICES ASSUME NEW i \in DOMAIN s
                PROVE  Elements(NoiseBefore(s, i)) = IF s[i].start_time > LastSec(s, i) THEN {x(i)} ELSE {}
    OBVIOUS
  <2>. HIDE DEF x
  <2>1. \A y : Elements(<<y>>) = {y} /\ Elements(<<>>) = {}
    BY DEF Elements
  <2>2. NoiseBefore(s, i) = IF s[i].start_time > LastSec(s, i) THEN <<x(i)>> ELSE <<>>
    BY DEF NoiseBefore, x
  <2>3. QED
    BY <2>1, <2>2
<1>. HIDE DEF d, x
<1>3. \A k \in DOMAIN d : \E i \in DOMAIN s : d[k] = s[i] \/ (s[i].start_time > LastSec(s, i) /\ d[k] = x(i))
  <2>. SUFFICES ASSUME NEW k \in DOMAIN d
                PROVE  \E i \in DOMAIN s : d[k] = s[i] \/ (s[i].start_time > LastSec(s, i) /\ d[k] = x(i))
    OBVIOUS
  <2>1. d[k] \in Elements(d)
    BY DEF Elements
  <2>2. PICK i \in DOMAIN s : d[k] \in Elements(NoiseBefore(s, i)) \cup {s[i]}
    BY <1>1, <2>1
  <2>3. QED
    BY <1>2, <2>2
<1>4. ASSUME NEW i \in DOMAIN s
      PROVE  /\ \E k \in DOMAIN d : d[k] = s[i]
             /\ s[i].start_time > LastSec(s, i) => \E k \in DOMAIN d : d[k] = x(i)
  <2>1. Elements(NoiseBefore(s, i)) \cup {s[i]} \subseteq Elements(d)
    BY <1>1
  <2>2. \A y \in Elements(d) : \E k \in DOMAIN d : d[k] = y
    BY DEF Elements
  <2>3. QED
    BY <1>2, <2>1, <2>2
<1>5. QED
  BY <1>1, <1>3, <1>4 DEF d, x

\* Every tick before the end of some speech segment is in one, or in the noise
\* before one.
LEMMA SilenceCovered ==
    ASSUME NEW s \in Seq(Turns), NEW x \in Nat, NEW j \in DOMAIN s, x < s[j].end_time,
           \A k \in DOMAIN s : ~ Within(x, s[k])
    PROVE  \E i \in DOMAIN s : LastSec(s, i) <= x /\ x < s[i].start_time
<1>. DEFINE Later == {k \in DOMAIN s : x < s[k].end_time}
<1>1. Later \subseteq Nat /\ Later # {}
  OBVIOUS
<1>2. PICK i \in Later : \A k \in Later : i <= k
  <2>. HIDE DEF Later
  <2>1. QED
    BY <1>1, LeastExists
<1>3. i \in DOMAIN s /\ x < s[i].end_time
  OBVIOUS
<1>4. s[i].start_time \in Nat /\ x < s[i].start_time
  <2>1. s[i].start_time \in Nat /\ ~ Within(x, s[i])
    BY <1>3, TurnTimes
  <2>2. QED
    BY <1>3, <2>1 DEF Within
<1>5. LastSec(s, i) <= x
  <2>1. CASE i = 1
    BY <2>1 DEF LastSec
  <2>2. CASE i # 1
    <3>1. i - 1 \in DOMAIN s /\ LastSec(s, i) = s[i - 1].end_time
      BY <1>3, <2>2, TurnTimes
    <3>2. s[i - 1].end_time \in Nat
      BY <3>1, TurnTimes
    <3>3. i - 1 \notin Later
      <4>1. i \in Nat
        BY <1>1
      <4>2. ~ i <= i - 1
        BY <4>1
      <4>3. QED
        BY <1>2, <4>2
    <3>4. QED
      BY <3>1, <3>2, <3>3
  <2>3. QED
    BY <2>1, <2>2
<1>6. QED
  BY <1>3, <1>4, <1>5

\* What the finished diarization is.
LEMMA WhenDiarized ==
    ASSUME DiarizationInv, Diarized
    PROVE  /\ DiarizationTyping /\ merged \in Seq(Turns) /\ diarized = WithNoise(merged)
           /\ AllSpeech \in Seq(Turns) /\ \E e : Grouped(AllSpeech, merged, Len(AllSpeech), e)
<1>1. DiarizationTyping /\ Coarse(AllSpeech, merged) /\ diarized = WithNoise(merged)
  BY DEF DiarizationInv, MergingInv, NoiseInv, Diarized
<1>2. QED
  BY <1>1, AllSpeechTurns DEF DiarizationTyping, Coarse

\* "Add noise segments between speech segments" in DiarizationService._run_inference:
\* up to the end of the last speech every tick in which nobody speaks is in a noise
\* segment (SilenceIsNoise), for any regions and thresholds.
THEOREM SilenceBecomesNoise == Spec => []SilenceIsNoise
<1>1. DiarizationInv => SilenceIsNoise
  <2>. SUFFICES ASSUME DiarizationInv, Diarized, NEW x \in 0..FileLength - 1, Silent(x),
                       merged = <<>> \/ \E k \in DOMAIN merged : x < merged[k].end_time
                PROVE  NoisyAt(x)
    BY DEF SilenceIsNoise
  <2>1. merged \in Seq(Turns) /\ diarized = WithNoise(merged) /\ FileLength \in Nat /\ x \in Nat /\ x < FileLength
    BY WhenDiarized, DiarizationAssumption
  <2>2. CASE merged = <<>>
    <3>1. diarized = <<ResultsSegment(Noise, 0, 0, FileLength)>>
      BY <2>1, <2>2 DEF WithNoise
    <3>2. 1 \in DOMAIN diarized /\ diarized[1] = ResultsSegment(Noise, 0, 0, FileLength)
      BY <3>1
    <3>3. diarized[1].type = Noise /\ Within(x, diarized[1])
      BY <2>1, <3>2, NoiseFields DEF Within
    <3>4. QED
      BY <3>2, <3>3 DEF NoisyAt
  <2>3. CASE merged # <<>>
    <3>1. PICK j \in DOMAIN merged : x < merged[j].end_time
      BY <2>3
    <3>2. PICK i \in DOMAIN merged : LastSec(merged, i) <= x /\ x < merged[i].start_time
      BY <2>1, <3>1, SilenceCovered DEF Silent
    <3>3. LastSec(merged, i) \in Nat /\ merged[i].start_time \in Nat
      BY <2>1, TurnTimes
    <3>4. PICK k \in DOMAIN diarized : diarized[k] = ResultsSegment(Noise, 0, LastSec(merged, i), merged[i].start_time)
      <4>1. merged[i].start_time > LastSec(merged, i)
        BY <2>1, <3>2, <3>3
      <4>2. QED
        BY <2>1, <2>3, <4>1, WhatIsThere
    <3>5. diarized[k].type = Noise /\ Within(x, diarized[k])
      BY <3>2, <3>3, <3>4, NoiseFields DEF Within
    <3>6. QED
      BY <3>5 DEF NoisyAt
  <2>4. QED
    BY <2>2, <2>3
<1>2. QED
  BY <1>1, DiarizationCorrect, PTL

\* Groups are in the order of their segments.
LEMMA GroupsInOrder ==
    ASSUME NEW s \in Seq(Turns), NEW m \in Seq(Turns), NEW e, Grouped(s, m, Len(s), e)
    PROVE  /\ TurnsInOrder(s) => TurnsInOrder(m)
           /\ TurnsEndInOrder(s) => TurnsEndInOrder(m)
<1>1. ASSUME NEW k \in DOMAIN m, NEW l \in DOMAIN m, k < l
      PROVE  /\ From(e, k) \in DOMAIN s /\ From(e, l) \in DOMAIN s /\ From(e, k) < From(e, l)
             /\ e[k] \in DOMAIN s /\ e[l] \in DOMAIN s /\ e[k] < e[l]
             /\ m[k].start_time = s[From(e, k)].start_time /\ m[l].start_time = s[From(e, l)].start_time
             /\ m[k].end_time = s[e[k]].end_time /\ m[l].end_time = s[e[l]].end_time
  <2>1. /\ k \in DOMAIN e /\ l \in DOMAIN e /\ From(e, k) \in DOMAIN s /\ From(e, l) \in DOMAIN s
        /\ e[k] \in DOMAIN s /\ e[l] \in DOMAIN s /\ From(e, k) <= e[k]
        /\ m[k].start_time = s[From(e, k)].start_time /\ m[l].start_time = s[From(e, l)].start_time
        /\ m[k].end_time = s[e[k]].end_time /\ m[l].end_time = s[e[l]].end_time
    BY GroupEdges
  <2>2. IsAscending(e) /\ DOMAIN e = 1..Len(e) /\ Len(e) \in Nat
    BY DEF Grouped
  <2>3. e[k] < e[l]
    BY <1>1, <2>1, <2>2 DEF IsAscending
  <2>4. k \in Nat /\ l \in Nat /\ l - 1 \in DOMAIN e /\ (l - 1 = k \/ k < l - 1) /\ l # 1
    BY <1>1, <2>1, <2>2
  <2>5. From(e, l) = e[l - 1] + 1
    BY <2>4 DEF From
  <2>6. e[l - 1] \in Nat /\ e[k] \in Nat /\ From(e, k) \in Nat
    <3>1. \A i \in DOMAIN e : e[i] \in 1..Len(s)
      BY DEF Grouped
    <3>2. DOMAIN s = 1..Len(s)
      OBVIOUS
    <3>3. QED
      BY <2>1, <2>4, <3>1, <3>2
  <2>7. e[k] <= e[l - 1]
    <3>1. k < l - 1 => e[k] < e[l - 1]
      BY <2>1, <2>2, <2>4 DEF IsAscending
    <3>2. QED
      BY <2>4, <2>6, <3>1
  <2>8. From(e, k) < From(e, l)
    BY <2>1, <2>5, <2>6, <2>7
  <2>9. QED
    BY <2>1, <2>3, <2>8
<1>2. QED
  BY <1>1 DEF TurnsInOrder, TurnsEndInOrder

\* Without nested regions the ends are in order, too.
LEMMA NotNested ==
    ASSUME DiarizationInv, Diarized, ~ Nested
    PROVE  EndsInOrder(regions) /\ TurnsInOrder(merged) /\ TurnsEndInOrder(merged)
<1>1. /\ DiarizationTyping /\ merged \in Seq(Turns) /\ AllSpeech \in Seq(Turns)
      /\ \E e : Grouped(AllSpeech, merged, Len(AllSpeech), e)
  BY WhenDiarized
<1>2. EndsInOrder(regions)
  <2>1. \A i \in DOMAIN regions : regions[i] \in Regions
    BY <1>1 DEF DiarizationTyping
  <2>2. \A i \in DOMAIN regions : regions[i].end \in Nat
    BY <2>1, RegionFields
  <2>3. QED
    BY <2>2 DEF EndsInOrder, Nested
<1>3. TurnsInOrder(AllSpeech) /\ TurnsEndInOrder(AllSpeech)
  BY <1>1, <1>2, AllSpeechTurns
<1>4. QED
  BY <1>1, <1>2, <1>3, GroupsInOrder

\* The gaps of DiarizationService._run_inference are computed from the segment
\* before: noise covers speech only when one speaker talks within the turn of
\* another (NoiseOnlyOverNestedSpeech), for any regions and thresholds.
THEOREM NoiseWhereSilent == Spec => []NoiseOnlyOverNestedSpeech
<1>1. DiarizationInv => NoiseOnlyOverNestedSpeech
  <2>. SUFFICES ASSUME DiarizationInv, Diarized, ~ Nested, NEW x \in 0..FileLength - 1, NoisyAt(x),
                       NEW j \in DOMAIN merged, Within(x, merged[j])
                PROVE  FALSE
    BY DEF NoiseOnlyOverNestedSpeech, NoiseIsSilent, Silent
  <2>1. merged \in Seq(Turns) /\ diarized = WithNoise(merged) /\ x \in Nat
    BY WhenDiarized, DiarizationAssumption
  <2>2. TurnsInOrder(merged) /\ TurnsEndInOrder(merged)
    BY NotNested
  <2>3. PICK k \in DOMAIN diarized : diarized[k].type = Noise /\ Within(x, diarized[k])
    BY DEF NoisyAt
  <2>4. PICK i \in DOMAIN merged : \/ diarized[k] = merged[i]
                                   \/ diarized[k] = ResultsSegment(Noise, 0, LastSec(merged, i), merged[i].start_time)
    <3>1. merged # <<>>
      OBVIOUS
    <3>2. QED
      BY <2>1, <3>1, WhatIsThere
  <2>5. LastSec(merged, i) \in Nat /\ merged[i].start_time \in Nat /\ merged[i].type = Speech
        /\ merged[j].start_time \in Nat /\ merged[j].end_time \in Nat
    BY <2>1, TurnTimes
  <2>6. diarized[k] = ResultsSegment(Noise, 0, LastSec(merged, i), merged[i].start_time)
    BY <2>3, <2>4, <2>5 DEF Speech, Noise
  <2>7. LastSec(merged, i) <= x /\ x < merged[i].start_time
    BY <2>3, <2>5, <2>6, NoiseFields DEF Within
  <2>8. merged[j].start_time <= x /\ x < merged[j].end_time
    BY DEF Within
  <2>9. i \in Nat /\ j \in Nat /\ i # 0 /\ j # 0
    BY <2>1
  <2>10. j < i
    <3>1. ~ i < j
      BY <2>2, <2>5, <2>7, <2>8, <2>1 DEF TurnsInOrder
    <3>2. i # j
      BY <2>5, <2>7, <2>8, <2>1
    <3>3. QED
      BY <2>9, <3>1, <3>2
  <2>11. i - 1 \in DOMAIN merged /\ LastSec(merged, i) = merged[i - 1].end_time /\ (j = i - 1 \/ j < i - 1)
    <3>1. i # 1
      BY <2>9, <2>10
    <3>2. i - 1 \in DOMAIN merged /\ LastSec(merged, i) = merged[i - 1].end_time
      BY <2>1, <3>1, TurnTimes
    <3>3. QED
      BY <2>9, <2>10, <3>2
  <2>12. merged[j].end_time <= LastSec(merged, i)
    BY <2>2, <2>5, <2>11 DEF TurnsEndInOrder
  <2>13. QED
    BY <2>1, <2>5, <2>7, <2>8, <2>12
<1>2. QED
  BY <1>1, DiarizationCorrect, PTL

-----------------------------------------------------------------------------
(* Voices                                                                  *)

\* Every segment is in a group of its user.
LEMMA GroupOf ==
    ASSUME NEW s \in Seq(Turns), NEW m \in Seq(Turns), NEW e, Grouped(s, m, Len(s), e), NEW i \in DOMAIN s
    PROVE  \E k \in DOMAIN m : From(e, k) <= i /\ i <= e[k] /\ m[k].user_id = s[i].user_id
<1>. DEFINE Home(j) == \E k \in DOMAIN m : From(e, k) <= j /\ j <= e[k] /\ m[k].user_id = s[j].user_id
            P == {j \in Nat : j + 1 <= Len(s) => Home(j + 1)}
<1>0. Len(s) \in Nat /\ Len(s) # 0 /\ DOMAIN s = 1..Len(s) /\ i - 1 \in Nat /\ i - 1 + 1 = i /\ i <= Len(s)
  OBVIOUS
<1>1. /\ e \in Seq(Nat) /\ DOMAIN e = 1..Len(e) /\ DOMAIN m = DOMAIN e /\ IsAscending(e) /\ Len(e) \in Nat
      /\ Len(e) # 0 /\ e[Len(e)] = Len(s)
      /\ \A k \in DOMAIN e : e[k] \in 1..Len(s)
  <2>1. /\ e \in Seq(Nat) /\ Len(e) = Len(m) /\ IsAscending(e) /\ Len(e) # 0 /\ e[Len(e)] = Len(s)
        /\ \A k \in DOMAIN e : e[k] \in 1..Len(s)
    BY <1>0 DEF Grouped
  <2>2. DOMAIN e = 1..Len(e) /\ DOMAIN m = 1..Len(m) /\ Len(e) \in Nat
    BY <2>1
  <2>3. QED
    BY <2>1, <2>2
<1>2. Home(1)
  <2>1. 1 \in DOMAIN m /\ From(e, 1) = 1 /\ 1 <= e[1]
    <3>1. 1 \in DOMAIN e
      BY <1>1
    <3>2. QED
      BY <1>0, <1>1, <3>1 DEF From
  <2>2. m[1].user_id = s[1].user_id
    BY <2>1, GroupEdges
  <2>3. QED
    BY <2>1, <2>2
<1>3. ASSUME NEW j \in 1..Len(s), j + 1 <= Len(s), Home(j) PROVE Home(j + 1)
  <2>1. PICK k \in DOMAIN m : From(e, k) <= j /\ j <= e[k] /\ m[k].user_id = s[j].user_id
    BY <1>3
  <2>2. j \in Nat /\ j # 0 /\ k \in Nat /\ k # 0 /\ e[k] \in Nat /\ From(e, k) \in Nat
    <3>1. From(e, k) \in DOMAIN s
      BY GroupEdges
    <3>2. QED
      BY <1>0, <1>1, <3>1
  <2>3. CASE e[k] = j
    <3>1. k # Len(e)
      <4>1. j # Len(s)
        <5>1. \A a, b \in Nat : a + 1 <= b => a # b
          OBVIOUS
        <5>2. QED
          BY <1>0, <1>3, <2>2, <5>1
      <4>2. QED
        BY <1>1, <2>3, <4>1
    <3>2. k + 1 \in DOMAIN m
      BY <1>1, <2>2, <3>1
    <3>3. From(e, k + 1) = j + 1
      BY <2>2, <2>3, FromNext
    <3>4. From(e, k + 1) <= e[k + 1] /\ m[k + 1].user_id = s[From(e, k + 1)].user_id
      BY <3>2, GroupEdges
    <3>5. From(e, k + 1) <= j + 1
      BY <2>2, <3>3
    <3>6. QED
      BY <3>2, <3>3, <3>4, <3>5
  <2>4. CASE e[k] # j
    <3>1. j < e[k] /\ j + 1 <= e[k] /\ From(e, k) <= j + 1
      BY <2>1, <2>2, <2>4
    <3>2. ASSUME NEW l \in DOMAIN e PROVE e[l] # j
      <4>1. l \in Nat /\ l # 0 /\ e[l] \in Nat
        BY <1>0, <1>1
      <4>2. CASE l = k
        BY <2>4, <4>2
      <4>3. CASE k < l
        <5>1. e[k] < e[l]
          BY <1>1, <4>3 DEF IsAscending
        <5>2. QED
          BY <2>2, <3>1, <4>1, <5>1
      <4>4. CASE l < k
        <5>1. k - 1 \in DOMAIN e /\ k # 1 /\ (l = k - 1 \/ l < k - 1)
          BY <1>1, <2>2, <4>1, <4>4
        <5>2. From(e, k) = e[k - 1] + 1 /\ e[k - 1] \in Nat
          BY <1>0, <1>1, <5>1 DEF From
        <5>3. e[l] <= e[k - 1]
          BY <1>1, <4>1, <5>1, <5>2 DEF IsAscending
        <5>4. QED
          BY <2>1, <2>2, <4>1, <5>2, <5>3
      <4>5. QED
        BY <2>2, <4>1, <4>2, <4>3, <4>4
    <3>3. j \in 1..Len(s) - 1
      BY <1>0, <1>3, <2>2
    <3>4. Mergeable(s[j], s[j + 1])
      BY <3>2, <3>3 DEF Grouped
    <3>5. m[k].user_id = s[j + 1].user_id
      BY <2>1, <3>4 DEF Mergeable
    <3>6. QED
      BY <3>1, <3>5
  <2>5. QED
    BY <2>3, <2>4
<1>. HIDE DEF Home
<1>4. 0 \in P
  BY <1>2
<1>5. ASSUME NEW j \in P PROVE j + 1 \in P
  <2>. SUFFICES ASSUME j + 1 + 1 <= Len(s) PROVE Home(j + 1 + 1)
    OBVIOUS
  <2>1. j \in Nat /\ j + 1 <= Len(s) /\ j + 1 \in 1..Len(s)
    BY <1>0
  <2>2. QED
    BY <1>3, <2>1
<1>6. P \in SUBSET Nat
  OBVIOUS
<1>. HIDE DEF P
<1>7. i - 1 \in P
  BY <1>0, <1>4, <1>5, <1>6, AllNaturals
<1>8. Home(i)
  BY <1>0, <1>7 DEF P
<1>9. QED
  BY <1>8 DEF Home

\* A region that is long, or near another, is long or near one beside it.
LEMMA NearOneBeside ==
    ASSUME NEW s \in Seq(Regions), StartsInOrder(s), EndsInOrder(s), NEW i \in DOMAIN s, NEW j \in DOMAIN s, i # j,
           s[j].start - s[i].end < NeighbourGap, s[i].start - s[j].end < NeighbourGap
    PROVE  i \in LongOrClose(s)
<1>0. DOMAIN s = 1..Len(s) /\ Len(s) \in Nat /\ i \in Nat /\ j \in Nat /\ i # 0 /\ j # 0 /\ NeighbourGap \in Nat
  BY DiarizationAssumption
<1>a. \A k \in DOMAIN s : s[k].start \in Nat /\ s[k].end \in Nat
  <2>1. \A k \in DOMAIN s : s[k] \in Regions
    OBVIOUS
  <2>2. QED
    BY <2>1, RegionFields
<1>1. CASE i < j
  <2>1. i + 1 \in DOMAIN s /\ i < Len(s) /\ (i + 1 = j \/ i + 1 < j)
    BY <1>0, <1>1
  <2>2. s[i + 1].start <= s[j].start
    BY <1>a, <2>1 DEF StartsInOrder
  <2>3. s[i + 1].start - s[i].end < NeighbourGap
    BY <1>0, <1>a, <2>1, <2>2
  <2>4. QED
    BY <2>1, <2>3 DEF LongOrClose
<1>2. CASE j < i
  <2>1. i - 1 \in DOMAIN s /\ i > 1 /\ (j = i - 1 \/ j < i - 1)
    BY <1>0, <1>2
  <2>2. s[j].end <= s[i - 1].end
    BY <1>a, <2>1 DEF EndsInOrder
  <2>3. s[i].start - s[i - 1].end < NeighbourGap
    BY <1>0, <1>a, <2>1, <2>2
  <2>4. QED
    BY <2>1, <2>3 DEF LongOrClose
<1>3. QED
  BY <1>0, <1>1, <1>2

\* A kept region that is long enough is within a segment of its speaker.
LEMMA RegionHeard ==
    ASSUME DiarizationInv, Diarized, ~ Nested, NEW i \in LongOrClose(regions),
           regions[i].end - regions[i].start > MinSpeech
    PROVE  \E k \in DOMAIN merged : /\ merged[k].user_id = UserId(Kept, regions[i].speaker)
                                    /\ merged[k].start_time <= regions[i].start
                                    /\ regions[i].end <= merged[k].end_time
<1>1. /\ DiarizationTyping /\ merged \in Seq(Turns) /\ AllSpeech \in Seq(Turns)
      /\ regions \in Seq(Regions) /\ StartsInOrder(regions)
  BY WhenDiarized DEF DiarizationTyping
<1>2. PICK e : Grouped(AllSpeech, merged, Len(AllSpeech), e)
  BY WhenDiarized
<1>3. EndsInOrder(regions) /\ TurnsInOrder(AllSpeech) /\ TurnsEndInOrder(AllSpeech)
  BY <1>1, NotNested, AllSpeechTurns
<1>4. Kept \in Seq(Regions) /\ StartsInOrder(Kept) /\ \E k \in DOMAIN Kept : Kept[k] = regions[i]
  BY <1>1, KeptInOrder DEF Kept
<1>5. PICK k \in DOMAIN Kept : Kept[k] = regions[i]
  BY <1>4
<1>6. k \in Spoke(Kept)
  BY <1>5 DEF Spoke
<1>7. PICK j \in DOMAIN AllSpeech : AllSpeech[j] = TurnOf(Kept, Kept[k])
  BY <1>4, <1>6, SpeechInOrder DEF AllSpeech
<1>8. /\ AllSpeech[j].start_time = regions[i].start /\ AllSpeech[j].end_time = regions[i].end
      /\ AllSpeech[j].user_id = UserId(Kept, regions[i].speaker)
  <2>1. Kept[k] \in Regions
    BY <1>4
  <2>2. QED
    BY <1>4, <1>5, <1>7, <2>1, TurnFields
<1>9. PICK g \in DOMAIN merged : From(e, g) <= j /\ j <= e[g] /\ merged[g].user_id = AllSpeech[j].user_id
  BY <1>1, <1>2, GroupOf
<1>10. /\ From(e, g) \in DOMAIN AllSpeech /\ e[g] \in DOMAIN AllSpeech
       /\ merged[g].start_time = AllSpeech[From(e, g)].start_time /\ merged[g].end_time = AllSpeech[e[g]].end_time
  BY <1>1, <1>2, GroupEdges
<1>11. From(e, g) \in Nat /\ e[g] \in Nat /\ j \in Nat
  BY <1>1, <1>10
<1>12. \A l \in DOMAIN AllSpeech : AllSpeech[l].start_time \in Nat /\ AllSpeech[l].end_time \in Nat
  BY <1>1, TurnTimes
<1>13. merged[g].start_time <= AllSpeech[j].start_time
  <2>1. From(e, g) = j \/ From(e, g) < j
    BY <1>9, <1>11
  <2>2. QED
    BY <1>3, <1>10, <1>12, <2>1 DEF TurnsInOrder
<1>14. AllSpeech[j].end_time <= merged[g].end_time
  <2>1. e[g] = j \/ j < e[g]
    BY <1>9, <1>11
  <2>2. QED
    BY <1>3, <1>10, <1>12, <2>1 DEF TurnsEndInOrder
<1>15. QED
  BY <1>8, <1>9, <1>13, <1>14

\* What process_remove_short_segments, the filter on MinSpeech and the merging leave
\* out is no voice: a region long enough to hold a word, and long or near another, is
\* in a speech segment of its speaker (NoVoiceLost), for any regions that are not
\* nested, and any thresholds.
THEOREM VoicesKept == Spec => []NoVoiceLost
<1>1. DiarizationInv => NoVoiceLost
  <2>. DEFINE near(r, o) == o.start - r.end < NeighbourGap /\ r.start - o.end < NeighbourGap
  <2>1. SUFFICES ASSUME DiarizationInv, Diarized, ~ Nested, NEW i \in DOMAIN regions,
                        regions[i].end - regions[i].start > MinSpeech,
                        \/ regions[i].end - regions[i].start >= ShortRegion
                        \/ \E j \in DOMAIN regions \ {i} : near(regions[i], regions[j])
                 PROVE  \E k \in DOMAIN diarized :
                           /\ diarized[k].type = Speech
                           /\ diarized[k].user_id = UserId(Kept, regions[i].speaker)
                           /\ diarized[k].start_time <= regions[i].start /\ regions[i].end <= diarized[k].end_time
    BY DEF NoVoiceLost
  <2>2. /\ merged \in Seq(Turns) /\ diarized = WithNoise(merged)
        /\ regions \in Seq(Regions) /\ StartsInOrder(regions) /\ EndsInOrder(regions)
    BY <2>1, WhenDiarized, NotNested DEF DiarizationTyping
  <2>3. i \in LongOrClose(regions)
    <3>1. CASE regions[i].end - regions[i].start >= ShortRegion
      BY <3>1 DEF LongOrClose
    <3>2. CASE \E j \in DOMAIN regions \ {i} : near(regions[i], regions[j])
      BY <2>2, <3>2, NearOneBeside
    <3>3. QED
      BY <2>1, <3>1, <3>2
  <2>4. PICK g \in DOMAIN merged : /\ merged[g].user_id = UserId(Kept, regions[i].speaker)
                                   /\ merged[g].start_time <= regions[i].start
                                   /\ regions[i].end <= merged[g].end_time
    BY <2>1, <2>3, RegionHeard
  <2>5. merged # <<>> /\ merged[g].type = Speech
    BY <2>2, TurnTimes
  <2>6. \E k \in DOMAIN diarized : diarized[k] = merged[g]
    BY <2>2, <2>5, WhatIsThere
  <2>7. QED
    BY <2>4, <2>5, <2>6
<1>2. QED
  BY <1>1, DiarizationCorrect, PTL

-----------------------------------------------------------------------------
(* Chunks                                                                  *)

\* The parts of length d that a is cut into.
LEMMA Parts ==
    ASSUME NEW a \in Nat, NEW d \in Nat \ {0}
    PROVE  LET n == (a + d - 1) \div d
           IN  /\ n \in Nat /\ n * d \in Nat /\ a <= n * d
               /\ a # 0 => n # 0
               /\ \A k \in 1..n : (k - 1) * d \in Nat /\ (k - 1) * d < a /\ k * d = (k - 1) * d + d
<1>1. a + d - 1 \in Nat
  OBVIOUS
<1>2. PICK n \in Nat : n = (a + d - 1) \div d
  BY <1>1, Division
<1>3. PICK r \in 0..d - 1 : a + d - 1 = n * d + r
  BY <1>1, <1>2, Division
<1>4. PICK y \in Nat : y = n * d
  BY Multiples
<1>5. a <= y /\ y <= a + d - 1
  BY <1>3, <1>4
<1>6. a # 0 => n # 0
  <2>1. n = 0 => y = 0
    BY <1>4
  <2>2. QED
    BY <1>5, <2>1
<1>7. ASSUME NEW k \in 1..n PROVE (k - 1) * d \in Nat /\ (k - 1) * d < a /\ k * d = (k - 1) * d + d
  <2>1. PICK b \in Nat : b = k - 1 /\ b + 1 = k /\ b < n
    <3>1. k - 1 \in Nat /\ k - 1 + 1 = k /\ k - 1 < n
      OBVIOUS
    <3>2. QED
      BY <3>1
  <2>2. PICK x \in Nat : x = b * d
    BY Multiples
  <2>3. (b + 1) * d = b * d + d /\ b * d + d <= n * d
    BY <2>1, Multiples
  <2>4. x + d <= y
    BY <1>4, <2>2, <2>3
  <2>5. x < a
    BY <1>5, <2>4
  <2>6. QED
    BY <2>1, <2>2, <2>3, <2>5
<1>8. QED
  BY <1>2, <1>4, <1>5, <1>6, <1>7

Windows == [start : Nat, end : Int]

\* A padded window around a part of a segment.
LEMMA WindowFacts ==
    ASSUME NEW from \in Nat, NEW to \in Nat
    PROVE  LET w == Window(from, to)
           IN  /\ w \in Windows /\ w.start <= from /\ w.end = to + Padding
               /\ w.start >= from - Padding
               /\ w.end - w.start <= to - from + 2 * Padding
<1>1. Padding \in Nat
  BY EmotionAssumption
<1>2. QED
  BY <1>1 DEF Window, Windows, Greater

\* The chunks of a segment cover it and are padded parts of it.
ChunksOf(segment, w) ==
    /\ w \in Seq(Windows) /\ w # <<>>
    /\ \A x \in segment.start_time..segment.end_time - 1 : \E k \in DOMAIN w : w[k].start <= x /\ x < w[k].end
    /\ \A k \in DOMAIN w :
          /\ w[k].start >= segment.start_time - Padding
          /\ w[k].end <= segment.end_time + Padding
          /\ w[k].end - w[k].start <= LongSegment + 2 * Padding

\* split_segment does that for short segments and for long ones.
LEMMA SplitCovers ==
    ASSUME NEW segment \in Segments
    PROVE  ChunksOf(segment, SplitSegment(segment))
<1>. DEFINE s == segment.start_time
            t == segment.end_time
            w == SplitSegment(segment)
<1>1. s \in Nat /\ t \in Nat /\ Padding \in Nat /\ LongSegment \in Nat \ {0}
  BY EmotionAssumption DEF Segments
<1>2. CASE t - s <= LongSegment
  <2>1. w = <<Window(s, t)>>
    BY <1>2 DEF SplitSegment
  <2>2. Window(s, t) \in Windows
    BY <1>1, WindowFacts
  <2>3. /\ w \in Seq(Windows) /\ w # <<>> /\ 1 \in DOMAIN w /\ DOMAIN w = {1} /\ w[1] = Window(s, t)
    BY <2>1, <2>2
  <2>. HIDE DEF w
  <2>4. w[1].start <= s /\ w[1].end = t + Padding /\ w[1].start >= s - Padding /\ w[1].start \in Nat
        /\ w[1].end - w[1].start <= t - s + 2 * Padding
    BY <1>1, <2>3, WindowFacts DEF Windows
  <2>5. \A x \in s..t - 1 : w[1].start <= x /\ x < w[1].end
    BY <1>1, <2>4
  <2>6. w[1].end - w[1].start <= LongSegment + 2 * Padding
    BY <1>1, <1>2, <2>4
  <2>7. ChunksOf(segment, w)
    BY <1>1, <2>3, <2>4, <2>5, <2>6 DEF ChunksOf
  <2>8. QED
    BY <2>7 DEF w
<1>3. CASE ~ t - s <= LongSegment
  <2>. DEFINE n == (t - s + LongSegment - 1) \div LongSegment
              from(k) == s + (k - 1) * LongSegment
              to(k) == Lesser(from(k) + LongSegment, t)
  <2>1. w = [k \in 1..n |-> Window(from(k), to(k))]
    BY <1>3 DEF SplitSegment
  <2>2. t - s \in Nat /\ t - s # 0
    BY <1>1, <1>3
  <2>3. /\ n \in Nat /\ n # 0 /\ n * LongSegment \in Nat /\ t - s <= n * LongSegment
        /\ \A k \in 1..n : /\ (k - 1) * LongSegment \in Nat /\ (k - 1) * LongSegment < t - s
                           /\ k * LongSegment = (k - 1) * LongSegment + LongSegment
    BY <1>1, <2>2, Parts
  <2>. HIDE DEF n, w
  <2>4. ASSUME NEW k \in 1..n
        PROVE  /\ from(k) \in Nat /\ to(k) \in Nat /\ s <= from(k) /\ from(k) < t /\ to(k) <= t
               /\ to(k) = (IF from(k) + LongSegment < t THEN from(k) + LongSegment ELSE t)
               /\ to(k) - from(k) <= LongSegment
    <3>1. PICK y \in Nat : y = (k - 1) * LongSegment /\ y < t - s
      BY <2>3
    <3>2. from(k) = s + y
      BY <3>1
    <3>. HIDE DEF from
    <3>3. QED
      BY <1>1, <3>1, <3>2 DEF Lesser
  <2>. HIDE DEF from, to
  <2>5. ASSUME NEW k \in 1..n
        PROVE  /\ w[k] = Window(from(k), to(k)) /\ w[k] \in Windows
               /\ w[k].start <= from(k) /\ w[k].end = to(k) + Padding
               /\ w[k].start >= from(k) - Padding /\ w[k].end - w[k].start <= to(k) - from(k) + 2 * Padding
    <3>1. w[k] = Window(from(k), to(k))
      BY <2>1
    <3>2. QED
      BY <2>4, <3>1, WindowFacts
  <2>6. w \in Seq(Windows) /\ DOMAIN w = 1..n /\ w # <<>>
    <3>1. w \in [1..n -> Windows]
      BY <2>1, <2>5
    <3>2. w \in Seq(Windows) /\ Len(w) = n
      BY <2>3, <3>1
    <3>3. QED
      BY <2>3, <3>2
  <2>7. ASSUME NEW x \in s..t - 1 PROVE \E k \in DOMAIN w : w[k].start <= x /\ x < w[k].end
    <3>1. x - s \in Nat /\ x - s < t - s /\ x \in Nat /\ x < t
      BY <1>1
    <3>2. PICK q \in Nat : q = (x - s) \div LongSegment
      BY <1>1, <3>1, Division
    <3>3. PICK r \in 0..LongSegment - 1 : x - s = q * LongSegment + r
      BY <1>1, <3>1, <3>2, Division
    <3>4. PICK y \in Nat : y = q * LongSegment
      BY <1>1, Multiples
    <3>5. q < n
      <4>. SUFFICES ASSUME n <= q PROVE FALSE
        BY <2>3
      <4>1. n * LongSegment <= q * LongSegment
        BY <1>1, <2>3, Multiples
      <4>2. PICK z \in Nat : z = n * LongSegment
        BY <2>3
      <4>3. t - s <= z /\ z <= y
        BY <2>3, <3>4, <4>1, <4>2
      <4>4. QED
        BY <1>1, <3>1, <3>3, <3>4, <4>3
    <3>6. q + 1 \in 1..n /\ q + 1 - 1 = q
      BY <2>3, <3>5
    <3>7. from(q + 1) = s + y
      <4>1. \A j \in Nat : q + 1 - 1 = j => from(q + 1) = s + j * LongSegment
        BY DEF from
      <4>2. QED
        BY <3>4, <3>6, <4>1
    <3>8. from(q + 1) <= x /\ x < from(q + 1) + LongSegment
      BY <1>1, <3>1, <3>3, <3>4, <3>7
    <3>9. x < to(q + 1)
      BY <1>1, <2>4, <3>1, <3>6, <3>8
    <3>10. w[q + 1].start <= x /\ x < w[q + 1].end
      <4>1. /\ w[q + 1].start <= from(q + 1) /\ w[q + 1].end = to(q + 1) + Padding /\ w[q + 1].start \in Nat
            /\ from(q + 1) \in Nat /\ to(q + 1) \in Nat
        BY <2>4, <2>5, <3>6 DEF Windows
      <4>2. QED
        BY <1>1, <3>1, <3>8, <3>9, <4>1
    <3>11. QED
      BY <2>6, <3>6, <3>10
  <2>8. ASSUME NEW k \in DOMAIN w
        PROVE  /\ w[k].start >= s - Padding /\ w[k].end <= t + Padding
               /\ w[k].end - w[k].start <= LongSegment + 2 * Padding
    <3>1. /\ from(k) \in Nat /\ to(k) \in Nat /\ s <= from(k) /\ to(k) <= t /\ to(k) - from(k) <= LongSegment
          /\ w[k].start \in Nat /\ w[k].end \in Int /\ w[k].end = to(k) + Padding
          /\ w[k].start >= from(k) - Padding /\ w[k].end - w[k].start <= to(k) - from(k) + 2 * Padding
      BY <2>4, <2>5, <2>6 DEF Windows
    <3>2. QED
      BY <1>1, <3>1
  <2>9. ChunksOf(segment, w)
    BY <2>6, <2>7, <2>8 DEF ChunksOf
  <2>10. QED
    BY <2>9 DEF w
<1>4. QED
  BY <1>2, <1>3

ChunkOf(i, w) == [segment |-> i, window |-> w]
Chunks == [segment : Nat, window : Windows]

\* The flat list has the chunks of the speech segments, each with the position of
\* its segment.
LEMMA FlatChunksElements ==
    ASSUME NEW segments \in Seq(Segments)
    PROVE  /\ FlatChunks(segments) \in Seq(Chunks)
           /\ \A c \in DOMAIN FlatChunks(segments) :
                 /\ FlatChunks(segments)[c].segment \in Spoken(segments)
                 /\ \E j \in DOMAIN SplitSegment(segments[FlatChunks(segments)[c].segment]) :
                       FlatChunks(segments)[c].window = SplitSegment(segments[FlatChunks(segments)[c].segment])[j]
           /\ \A i \in Spoken(segments) : \A j \in DOMAIN SplitSegment(segments[i]) :
                 \E c \in DOMAIN FlatChunks(segments) :
                    FlatChunks(segments)[c] = ChunkOf(i, SplitSegment(segments[i])[j])
<1>. DEFINE of(i) == [k \in DOMAIN SplitSegment(segments[i]) |-> ChunkOf(i, SplitSegment(segments[i])[k])]
            ids == SpeechPositions(segments)
            lists == [k \in DOMAIN ids |-> of(ids[k])]
            F == FlatChunks(segments)
<1>1. F = FlattenSeq(lists)
  BY DEF FlatChunks, ChunkOf
<1>2. /\ ids \in Seq(Spoken(segments)) /\ \A k \in DOMAIN ids : ids[k] \in Spoken(segments)
      /\ \A i \in Spoken(segments) : \E k \in DOMAIN ids : ids[k] = i
  <2>1. Spoken(segments) \subseteq DOMAIN segments
    BY DEF Spoken
  <2>2. ids = Ascending(Len(segments), Spoken(segments))
    BY DEF SpeechPositions, Spoken
  <2>. HIDE DEF ids
  <2>3. QED
    BY <2>1, <2>2, Selected
<1>3. \A i \in Spoken(segments) : i \in DOMAIN segments /\ i \in Nat /\ segments[i] \in Segments
  BY DEF Spoken
<1>4. ASSUME NEW i \in Spoken(segments)
      PROVE  /\ of(i) \in Seq(Chunks)
             /\ DOMAIN of(i) = DOMAIN SplitSegment(segments[i])
             /\ \A j \in DOMAIN SplitSegment(segments[i]) : of(i)[j] = ChunkOf(i, SplitSegment(segments[i])[j])
  <2>. DEFINE w == SplitSegment(segments[i])
  <2>1. w \in Seq(Windows)
    BY <1>3, SplitCovers DEF ChunksOf
  <2>. HIDE DEF w
  <2>2. \A j \in DOMAIN w : ChunkOf(i, w[j]) \in Chunks
    BY <1>3, <2>1 DEF ChunkOf, Chunks
  <2>3. Len(w) \in Nat /\ DOMAIN w = 1..Len(w)
    BY <2>1
  <2>4. [k \in DOMAIN w |-> ChunkOf(i, w[k])] \in Seq(Chunks)
    BY <2>2, <2>3
  <2>5. QED
    BY <2>4 DEF w
<1>. HIDE DEF ids, of, F
<1>5. lists \in Seq(Seq(Chunks)) /\ DOMAIN lists = DOMAIN ids /\ \A k \in DOMAIN ids : lists[k] = of(ids[k])
  <2>1. Len(ids) \in Nat /\ DOMAIN ids = 1..Len(ids)
    BY <1>2
  <2>2. \A k \in DOMAIN ids : of(ids[k]) \in Seq(Chunks)
    BY <1>2, <1>4
  <2>3. QED
    BY <2>1, <2>2
<1>. HIDE DEF lists
<1>6. F \in Seq(Chunks) /\ Elements(F) = UNION {Elements(lists[k]) : k \in DOMAIN lists}
  BY <1>1, <1>5, Flattened
<1>7. ASSUME NEW c \in DOMAIN F
      PROVE  /\ F[c].segment \in Spoken(segments)
             /\ \E j \in DOMAIN SplitSegment(segments[F[c].segment]) :
                   F[c].window = SplitSegment(segments[F[c].segment])[j]
  <2>1. F[c] \in Elements(F)
    BY DEF Elements
  <2>2. PICK k \in DOMAIN ids : F[c] \in Elements(of(ids[k]))
    BY <1>5, <1>6, <2>1
  <2>3. PICK i \in Spoken(segments) : i = ids[k]
    BY <1>2
  <2>4. PICK j \in DOMAIN SplitSegment(segments[i]) : F[c] = ChunkOf(i, SplitSegment(segments[i])[j])
    BY <1>4, <2>2, <2>3 DEF Elements
  <2>5. F[c].segment = i /\ F[c].window = SplitSegment(segments[i])[j]
    BY <2>4 DEF ChunkOf
  <2>6. QED
    BY <2>5
<1>8. ASSUME NEW i \in Spoken(segments), NEW j \in DOMAIN SplitSegment(segments[i])
      PROVE  \E c \in DOMAIN F : F[c] = ChunkOf(i, SplitSegment(segments[i])[j])
  <2>1. PICK k \in DOMAIN ids : ids[k] = i
    BY <1>2
  <2>2. of(i)[j] \in Elements(of(i)) /\ of(i)[j] = ChunkOf(i, SplitSegment(segments[i])[j])
    BY <1>4 DEF Elements
  <2>3. of(i)[j] \in Elements(F)
    BY <1>5, <1>6, <2>1, <2>2
  <2>4. QED
    BY <2>2, <2>3 DEF Elements
<1>9. QED
  BY <1>6, <1>7, <1>8 DEF F

-----------------------------------------------------------------------------
(* Batches of chunks                                                       *)

\* The batches have the numbers from done + 1 to total, each once and in order, and
\* at least one each: batch b ends with number e[b].
CutAt(bs, done, total, e) ==
    /\ bs \in Seq(Seq(Nat)) /\ e \in [0..Len(bs) -> Nat]
    /\ e[0] = done /\ e[Len(bs)] = total
    /\ \A b \in 1..Len(bs) : /\ e[b - 1] < e[b] /\ e[b] <= e[b - 1] + EmotionBatchSize
                             /\ bs[b] = [k \in 1..e[b] - e[b - 1] |-> e[b - 1] + k]

Cut(bs, done, total) == \E e : CutAt(bs, done, total, e)

\* itertools.batched cuts the numbers of the chunks into batches.
LEMMA BatchedCuts == ASSUME NEW n \in Nat PROVE Cut(Batched(n), 0, n)
<1>. DEFINE B == EmotionBatchSize
            m == (n + B - 1) \div B
            e == [b \in 0..m |-> Lesser(b * B, n)]
            bs == Batched(n)
            batch(b) == [k \in 1..Lesser(B, n - (b - 1) * B) |-> (b - 1) * B + k]
<1>0. B \in Nat /\ B # 0
  BY EmotionAssumption
<1>1. bs = [b \in 1..m |-> batch(b)]
  BY DEF Batched
<1>2. /\ m \in Nat /\ m * B \in Nat /\ n <= m * B /\ (n # 0 => m # 0)
      /\ \A b \in 1..m : (b - 1) * B \in Nat /\ (b - 1) * B < n /\ b * B = (b - 1) * B + B
  BY <1>0, Parts
<1>. HIDE DEF m, B, bs
<1>3. \A b \in 0..m : e[b] = Lesser(b * B, n)
  OBVIOUS
<1>. HIDE DEF e
<1>4. e[0] = 0
  <2>1. 0 * B = 0 /\ 0 \in 0..m
    BY <1>0, <1>2
  <2>2. QED
    BY <1>3, <2>1 DEF Lesser
<1>5. e[m] = n
  <2>1. PICK y \in Nat : y = m * B /\ n <= y
    BY <1>2
  <2>2. m \in 0..m
    BY <1>2
  <2>3. QED
    BY <1>3, <2>1, <2>2 DEF Lesser
<1>6. ASSUME NEW b \in 1..m
      PROVE  /\ e[b - 1] \in Nat /\ e[b] \in Nat /\ e[b - 1] < e[b] /\ e[b] <= e[b - 1] + B
             /\ batch(b) = [k \in 1..e[b] - e[b - 1] |-> e[b - 1] + k]
  <2>1. PICK y \in Nat : y = (b - 1) * B /\ y < n /\ b * B = y + B
    BY <1>2
  <2>2. b \in 0..m /\ b - 1 \in 0..m
    BY <1>2
  <2>3. e[b - 1] = y /\ e[b] = IF y + B < n THEN y + B ELSE n
    BY <1>3, <2>1, <2>2 DEF Lesser
  <2>4. Lesser(B, n - y) = e[b] - e[b - 1]
    BY <1>0, <2>1, <2>3 DEF Lesser
  <2>5. batch(b) = [k \in 1..Lesser(B, n - y) |-> y + k]
    BY <2>1
  <2>6. QED
    BY <1>0, <2>1, <2>3, <2>4, <2>5
<1>. HIDE DEF batch
<1>7. bs \in Seq(Seq(Nat)) /\ Len(bs) = m
  <2>1. ASSUME NEW b \in 1..m PROVE batch(b) \in Seq(Nat)
    <3>1. PICK x \in Nat, l \in Nat : batch(b) = [k \in 1..l |-> x + k]
      <4>1. e[b] - e[b - 1] \in Nat
        BY <1>6
      <4>2. QED
        BY <1>6, <4>1
    <3>2. QED
      BY <3>1
  <2>2. bs \in [1..m -> Seq(Nat)]
    BY <1>1, <2>1
  <2>3. QED
    BY <1>2, <2>2
<1>8. e \in [0..m -> Nat]
  <2>1. \A b \in 0..m : e[b] \in Nat
    <3>. SUFFICES ASSUME NEW b \in 0..m PROVE e[b] \in Nat
      OBVIOUS
    <3>1. CASE b = 0
      BY <1>4, <3>1
    <3>2. CASE b # 0
      <4>1. b \in 1..m
        BY <1>2, <3>2
      <4>2. QED
        BY <1>6, <4>1
    <3>3. QED
      BY <3>1, <3>2
  <2>2. QED
    BY <2>1 DEF e
<1>9. \A b \in 1..m : bs[b] = batch(b)
  BY <1>1
<1>10. CutAt(bs, 0, n, e)
  BY <1>4, <1>5, <1>6, <1>7, <1>8, <1>9 DEF CutAt, B
<1>11. QED
  BY <1>10 DEF Cut, bs

\* The first batch has the numbers from done + 1 on; the others go on behind it.
LEMMA FirstCut ==
    ASSUME NEW bs, NEW done, NEW total, Cut(bs, done, total), bs # <<>>
    PROVE  /\ Tail(bs) \in Seq(Seq(Nat)) /\ Head(bs) \in Seq(Nat) /\ done \in Nat
           /\ Len(Head(bs)) \in Nat \ {0} /\ Len(Head(bs)) <= EmotionBatchSize
           /\ \A k \in DOMAIN Head(bs) : Head(bs)[k] = done + k
           /\ done + Len(Head(bs)) \in Nat /\ Cut(Tail(bs), done + Len(Head(bs)), total)
<1>1. PICK e : CutAt(bs, done, total, e)
  BY DEF Cut
<1>. DEFINE rest == [b \in 0..Len(bs) - 1 |-> e[b + 1]]
<1>0. EmotionBatchSize \in Nat
  BY EmotionAssumption
<1>2. /\ bs \in Seq(Seq(Nat)) /\ e \in [0..Len(bs) -> Nat] /\ Len(bs) \in Nat /\ Len(bs) # 0
      /\ e[0] = done /\ e[Len(bs)] = total
      /\ \A b \in 1..Len(bs) : /\ e[b - 1] < e[b] /\ e[b] <= e[b - 1] + EmotionBatchSize
                               /\ bs[b] = [k \in 1..e[b] - e[b - 1] |-> e[b - 1] + k]
  BY <1>1 DEF CutAt
<1>3. 1 \in 1..Len(bs) /\ 1 - 1 = 0 /\ 0 \in 0..Len(bs) /\ 1 \in 0..Len(bs)
  BY <1>2
<1>4. Head(bs) = bs[1] /\ e[0] \in Nat /\ e[1] \in Nat
  BY <1>2, <1>3
<1>5. PICK l \in Nat \ {0} : l = e[1] - done /\ e[1] = done + l /\ l <= EmotionBatchSize /\ done \in Nat
  <2>1. e[1 - 1] < e[1] /\ e[1] <= e[1 - 1] + EmotionBatchSize
    BY <1>2, <1>3
  <2>2. done \in Nat /\ done < e[1] /\ e[1] <= done + EmotionBatchSize
    BY <1>2, <1>4, <2>1
  <2>3. e[1] - done \in Nat \ {0} /\ e[1] = done + (e[1] - done) /\ e[1] - done <= EmotionBatchSize
    BY <1>0, <1>4, <2>2
  <2>4. QED
    BY <2>2, <2>3
<1>6. Head(bs) = [k \in 1..l |-> done + k]
  <2>1. bs[1] = [k \in 1..e[1] - e[1 - 1] |-> e[1 - 1] + k]
    BY <1>2, <1>3
  <2>2. e[1 - 1] = done
    BY <1>2
  <2>3. QED
    BY <1>4, <1>5, <2>1, <2>2
<1>7. Head(bs) \in Seq(Nat) /\ Len(Head(bs)) = l /\ DOMAIN Head(bs) = 1..l /\ \A k \in 1..l : Head(bs)[k] = done + k
  <2>1. \A k \in 1..l : done + k \in Nat
    BY <1>5
  <2>2. Head(bs) \in [1..l -> Nat] /\ \A k \in 1..l : Head(bs)[k] = done + k
    BY <1>6, <2>1
  <2>3. l \in Nat
    BY <1>5
  <2>4. QED
    BY <2>2, <2>3
<1>8. /\ Tail(bs) \in Seq(Seq(Nat)) /\ Len(Tail(bs)) = Len(bs) - 1
      /\ \A b \in 1..Len(bs) - 1 : Tail(bs)[b] = bs[b + 1]
  BY <1>2
<1>9. \A b \in 0..Len(bs) - 1 : rest[b] = e[b + 1] /\ b + 1 \in 0..Len(bs) /\ e[b + 1] \in Nat
  <2>1. \A b \in 0..Len(bs) - 1 : b + 1 \in 0..Len(bs)
    BY <1>2
  <2>2. \A b \in 0..Len(bs) : e[b] \in Nat
    BY <1>2
  <2>3. QED
    BY <2>1, <2>2
<1>10. rest \in [0..Len(bs) - 1 -> Nat]
  BY <1>9
<1>. HIDE DEF rest
<1>11. rest[0] = done + l /\ rest[Len(bs) - 1] = total
  <2>1. 0 \in 0..Len(bs) - 1 /\ Len(bs) - 1 \in 0..Len(bs) - 1 /\ Len(bs) - 1 + 1 = Len(bs) /\ 0 + 1 = 1
    BY <1>2
  <2>2. rest[0] = e[0 + 1] /\ rest[Len(bs) - 1] = e[Len(bs) - 1 + 1]
    BY <1>9, <2>1
  <2>3. QED
    BY <1>2, <1>5, <2>1, <2>2
<1>12. ASSUME NEW b \in 1..Len(bs) - 1
       PROVE  /\ rest[b - 1] < rest[b] /\ rest[b] <= rest[b - 1] + EmotionBatchSize
              /\ Tail(bs)[b] = [k \in 1..rest[b] - rest[b - 1] |-> rest[b - 1] + k]
  <2>1. b + 1 \in 1..Len(bs) /\ b - 1 \in 0..Len(bs) - 1 /\ b \in 0..Len(bs) - 1 /\ b + 1 - 1 = b /\ b - 1 + 1 = b
    BY <1>2
  <2>2. rest[b - 1] = e[b] /\ rest[b] = e[b + 1]
    BY <1>9, <2>1
  <2>3. /\ e[b + 1 - 1] < e[b + 1] /\ e[b + 1] <= e[b + 1 - 1] + EmotionBatchSize
        /\ bs[b + 1] = [k \in 1..e[b + 1] - e[b + 1 - 1] |-> e[b + 1 - 1] + k]
    <3>1. PICK c \in 1..Len(bs) : c = b + 1
      BY <2>1
    <3>2. /\ e[c - 1] < e[c] /\ e[c] <= e[c - 1] + EmotionBatchSize
          /\ bs[c] = [k \in 1..e[c] - e[c - 1] |-> e[c - 1] + k]
      BY <1>2
    <3>3. QED
      BY <3>1, <3>2
  <2>4. Tail(bs)[b] = bs[b + 1] /\ e[b + 1 - 1] = e[b]
    BY <1>8, <2>1
  <2>5. QED
    BY <2>2, <2>3, <2>4
<1>13. CutAt(Tail(bs), done + l, total, rest)
  BY <1>8, <1>10, <1>11, <1>12 DEF CutAt
<1>14. Cut(Tail(bs), done + l, total)
  BY <1>13 DEF Cut
<1>15. Len(Head(bs)) \in Nat \ {0} /\ Len(Head(bs)) <= EmotionBatchSize /\ done + Len(Head(bs)) = done + l /\ done + l \in Nat
  BY <1>5, <1>7
<1>16. QED
  BY <1>5, <1>7, <1>8, <1>14, <1>15

-----------------------------------------------------------------------------
(* The invariant of the emotion service                                    *)

Total == Len(FlatChunks(transcript))

\* The result of a chunk is in its place, or nothing is.
InPlace(c) == flat[c] \in {c, Unknown}

EmotionTyping ==
    /\ detecting \in {"idle", "batch", "done"}
    /\ transcript \in Seq(Segments) /\ flat \in Seq(Nat)
    /\ DOMAIN emotions = DOMAIN transcript
    /\ detecting = "idle" => flat = <<>>
    /\ detecting # "batch" => pending = <<>>

\* There is a result for each chunk of a batch that was processed, and it is in its
\* place unless there are more.
Processed ==
    detecting = "batch" =>
        /\ \A i \in DOMAIN emotions : emotions[i] = <<>>
        /\ \E done \in Nat :
              /\ Cut(pending, done, Total) /\ done <= Len(flat)
              /\ Len(flat) = done => \A c \in 1..done : InPlace(c)

EmotionInv == EmotionTyping /\ Processed /\ OneEmotionEach /\ EmotionsOwnUnlessShifted

\* The speech segments and only they have chunks, of their own audio.
LEMMA ChunksRight ==
    ASSUME NEW segments \in Seq(Segments), NEW i \in DOMAIN segments
    PROVE  LET chunks == FlatChunks(segments)
               own == {c \in DOMAIN chunks : chunks[c].segment = i}
               list == Ascending(Len(chunks), own)
           IN  /\ list \in Seq(own) /\ (list # <<>> <=> segments[i].type = Speech)
               /\ \A k \in DOMAIN list : list[k] \in own /\ list[k] \in 1..Len(chunks)
<1>. DEFINE chunks == FlatChunks(segments)
            own == {c \in DOMAIN chunks : chunks[c].segment = i}
            list == Ascending(Len(chunks), own)
<1>1. chunks \in Seq(Chunks)
  BY FlatChunksElements
<1>2. list \in Seq(own) /\ (\A k \in DOMAIN list : list[k] \in own) /\ \A c \in own : \E k \in DOMAIN list : list[k] = c
  <2>1. own \subseteq DOMAIN chunks
    OBVIOUS
  <2>. HIDE DEF chunks, own
  <2>2. QED
    BY <1>1, <2>1, Selected
<1>3. own \subseteq 1..Len(chunks)
  <2>. HIDE DEF chunks
  <2>1. DOMAIN chunks = 1..Len(chunks)
    BY <1>1
  <2>2. QED
    BY <2>1
<1>4. segments[i].type = Speech => \E c : c \in own
  <2>. SUFFICES ASSUME segments[i].type = Speech PROVE \E c : c \in own
    OBVIOUS
  <2>1. i \in Spoken(segments) /\ segments[i] \in Segments
    BY DEF Spoken
  <2>2. PICK j \in DOMAIN SplitSegment(segments[i]) : TRUE
    <3>1. SplitSegment(segments[i]) \in Seq(Windows) /\ SplitSegment(segments[i]) # <<>>
      BY <2>1, SplitCovers DEF ChunksOf
    <3>2. 1 \in DOMAIN SplitSegment(segments[i])
      BY <3>1
    <3>3. QED
      BY <3>2
  <2>3. PICK c \in DOMAIN chunks : chunks[c] = ChunkOf(i, SplitSegment(segments[i])[j])
    BY <2>1, FlatChunksElements
  <2>4. chunks[c].segment = i
    BY <2>3 DEF ChunkOf
  <2>5. QED
    BY <2>4
<1>5. (\E c : c \in own) => segments[i].type = Speech
  <2>1. \A c \in DOMAIN chunks : chunks[c].segment \in Spoken(segments)
    BY FlatChunksElements
  <2>2. QED
    BY <2>1 DEF Spoken
<1>. HIDE DEF own, chunks
<1>6. list # <<>> <=> \E c : c \in own
  <2>. HIDE DEF list
  <2>1. list # <<>> => 1 \in DOMAIN list
    BY <1>2
  <2>2. (\E k : k \in DOMAIN list) => list # <<>>
    OBVIOUS
  <2>3. QED
    BY <1>2, <2>1, <2>2
<1>7. QED
  BY <1>2, <1>3, <1>4, <1>5, <1>6 DEF own, chunks

\* A transcript is taken and its chunks cut into batches.
LEMMA TakeTranscriptStep == ASSUME EmotionInv, TakeTranscript PROVE EmotionInv'
<1>. USE DEF TakeTranscript
<1>1. PICK segments \in Transcripts : /\ transcript' = segments /\ pending' = Batched(Len(FlatChunks(segments)))
                                      /\ emotions' = [i \in DOMAIN segments |-> <<>>]
  OBVIOUS
<1>2. segments \in Seq(Segments) /\ flat = <<>>
  BY EmotionAssumption DEF EmotionInv, EmotionTyping
<1>3. EmotionTyping'
  BY <1>1, <1>2 DEF EmotionInv, EmotionTyping
<1>4. Total' \in Nat /\ Total' = Len(FlatChunks(segments))
  BY <1>1, <1>2, FlatChunksElements DEF Total
<1>5. Cut(pending', 0, Total')
  BY <1>1, <1>4, BatchedCuts
<1>6. Cut(pending, 0, Total)' /\ Len(flat') = 0
  BY <1>2, <1>5 DEF Cut, CutAt
<1>7. \A i \in DOMAIN emotions' : emotions'[i] = <<>>
  BY <1>1
<1>8. Processed'
  BY <1>6, <1>7 DEF Processed
<1>9. OneEmotionEach' /\ EmotionsOwnUnlessShifted'
  BY DEF OneEmotionEach, EmotionsOwnUnlessShifted, EmotionsAreOwn, Detected
<1>10. QED
  BY <1>3, <1>8, <1>9 DEF EmotionInv

\* Results of a batch go to the end of those there are: they are in their places
\* when they are the chunks' own and nothing is out of place before them.
LEMMA BatchStep ==
    ASSUME EmotionInv, detecting = "batch", pending # <<>>, UNCHANGED <<detecting, transcript, emotions>>,
           pending' = Tail(pending),
           NEW results \in Seq(Nat), flat' = flat \o results,
           Len(results) >= Len(Head(pending)),
           Len(results) = Len(Head(pending)) => \A k \in DOMAIN results : results[k] \in {Head(pending)[k], Unknown}
    PROVE  EmotionInv'
<1>1. EmotionTyping /\ Processed
  BY DEF EmotionInv
<1>2. PICK done \in Nat : /\ Cut(pending, done, Total) /\ done <= Len(flat)
                          /\ Len(flat) = done => \A c \in 1..done : InPlace(c)
  BY <1>1 DEF Processed
<1>3. PICK l \in Nat \ {0} : l = Len(Head(pending))
  BY <1>2, FirstCut
<1>4. /\ DOMAIN Head(pending) = 1..l /\ (\A k \in 1..l : Head(pending)[k] = done + k)
      /\ Cut(Tail(pending), done + l, Total)
  <2>1. /\ Head(pending) \in Seq(Nat) /\ (\A k \in DOMAIN Head(pending) : Head(pending)[k] = done + k)
        /\ Cut(Tail(pending), done + Len(Head(pending)), Total)
    BY <1>2, FirstCut
  <2>2. DOMAIN Head(pending) = 1..l
    BY <1>3, <2>1
  <2>3. QED
    BY <1>3, <2>1, <2>2
<1>5. flat \in Seq(Nat) /\ Len(flat) \in Nat /\ Len(results) \in Nat /\ l <= Len(results)
  BY <1>1, <1>3 DEF EmotionTyping
<1>6. /\ flat' \in Seq(Nat) /\ Len(flat') = Len(flat) + Len(results)
      /\ \A c \in 1..Len(flat) : flat'[c] = flat[c]
      /\ \A k \in 1..Len(results) : flat'[Len(flat) + k] = results[k]
  BY <1>5
<1>7. EmotionTyping'
  BY <1>1, <1>6 DEF EmotionTyping
<1>8. Total' = Total
  BY DEF Total
<1>9. ASSUME Len(flat') = done + l, NEW c \in 1..done + l PROVE flat'[c] \in {c, Unknown}
  <2>1. Len(flat) = done /\ Len(results) = l
    BY <1>2, <1>5, <1>6, <1>9
  <2>2. CASE c <= done
    BY <1>2, <1>6, <2>1, <2>2 DEF InPlace
  <2>3. CASE c > done
    <3>1. PICK k \in 1..l : k = c - done /\ c = done + k
      <4>1. c - done \in 1..l /\ c = done + (c - done)
        BY <2>3
      <4>2. QED
        BY <4>1
    <3>2. results[k] \in {done + k, Unknown}
      BY <1>3, <1>4, <1>5, <2>1
    <3>3. flat'[done + k] = results[k]
      BY <1>6, <2>1
    <3>4. QED
      BY <3>1, <3>2, <3>3
  <2>4. c <= done \/ c > done
    BY <1>3
  <2>5. QED
    BY <2>2, <2>3, <2>4
<1>10. Processed'
  <2>2. done + l \in Nat /\ done + l <= Len(flat')
    BY <1>2, <1>5, <1>6
  <2>3. PICK d \in Nat : d = done + l
    BY <2>2
  <2>1. Cut(pending', d, Total')
    BY <1>4, <1>8, <2>3
  <2>4. Cut(pending, d, Total)'
    BY <2>1 DEF Cut, CutAt
  <2>6. d <= Len(flat') /\ (Len(flat') = d => \A c \in 1..d : InPlace(c)')
    BY <1>9, <2>2, <2>3 DEF InPlace
  <2>5. \A i \in DOMAIN emotions' : emotions'[i] = <<>>
    BY <1>1 DEF Processed
  <2>7. QED
    BY <2>4, <2>5, <2>6 DEF Processed
<1>11. OneEmotionEach' /\ EmotionsOwnUnlessShifted'
  BY DEF OneEmotionEach, EmotionsOwnUnlessShifted, EmotionsAreOwn, Detected
<1>12. QED
  BY <1>7, <1>10, <1>11 DEF EmotionInv

\* All results of a batch are parsed.
LEMMA DetectBatchStep == ASSUME EmotionInv, DetectBatch PROVE EmotionInv'
<1>1. Head(pending) \in Seq(Nat)
  BY FirstCut DEF EmotionInv, Processed, DetectBatch
<1>2. Len(Head(pending)) >= Len(Head(pending))
  BY <1>1
<1>3. QED
  BY <1>1, <1>2, BatchStep DEF DetectBatch

\* The fallback follows the results that were parsed.
LEMMA FailBatchStep == ASSUME EmotionInv, FailBatch PROVE EmotionInv'
<1>. DEFINE batch == Head(pending)
            fallback == [k \in DOMAIN batch |-> Unknown]
<1>1. batch \in Seq(Nat)
  BY FirstCut DEF EmotionInv, Processed, FailBatch
<1>2. flat \in Seq(Nat) /\ detecting = "batch" /\ pending # <<>> /\ pending' = Tail(pending)
      /\ UNCHANGED <<detecting, transcript, emotions>>
  BY DEF EmotionInv, EmotionTyping, FailBatch
<1>3. PICK parsed \in 0..Len(batch) - 1 : flat' = flat \o SubSeq(batch, 1, parsed) \o fallback
  BY DEF FailBatch
<1>4. SubSeq(batch, 1, parsed) \in Seq(Nat) /\ Len(SubSeq(batch, 1, parsed)) = parsed
  <2>. HIDE DEF batch
  <2>1. QED
    BY <1>1
<1>5. fallback \in Seq(Nat) /\ Len(fallback) = Len(batch) /\ \A k \in 1..Len(batch) : fallback[k] = Unknown
  <2>. HIDE DEF batch
  <2>1. Len(batch) \in Nat /\ DOMAIN batch = 1..Len(batch)
    BY <1>1
  <2>2. QED
    BY <2>1 DEF Unknown
<1>. DEFINE results == SubSeq(batch, 1, parsed) \o fallback
<1>. HIDE DEF batch, fallback
<1>6. flat' = flat \o results /\ results \in Seq(Nat) /\ Len(results) = parsed + Len(batch)
  <2>1. \A s, t, u \in Seq(Nat) : s \o t \o u = s \o (t \o u) /\ t \o u \in Seq(Nat) /\ Len(t \o u) = Len(t) + Len(u)
    OBVIOUS
  <2>2. PICK s \in Seq(Nat) : s = SubSeq(batch, 1, parsed) /\ Len(s) = parsed
    BY <1>4
  <2>3. PICK t \in Seq(Nat) : t = fallback /\ Len(t) = Len(batch)
    BY <1>5
  <2>4. flat' = flat \o s \o t /\ results = s \o t
    BY <1>3, <2>2, <2>3
  <2>. HIDE DEF results
  <2>5. flat \in Seq(Nat)
    BY <1>2
  <2>6. flat \o s \o t = flat \o (s \o t) /\ s \o t \in Seq(Nat) /\ Len(s \o t) = Len(s) + Len(t)
    BY <2>1, <2>5
  <2>7. QED
    BY <2>2, <2>3, <2>4, <2>6
<1>7. Len(results) >= Len(batch) /\ (Len(results) = Len(batch) => \A k \in DOMAIN results : results[k] = Unknown)
  <2>1. parsed \in Nat /\ Len(batch) \in Nat
    BY <1>1
  <2>2. ASSUME parsed = 0, NEW k \in DOMAIN results PROVE results[k] = Unknown
    <3>1. k \in 1..Len(batch)
      BY <1>6, <2>1, <2>2
    <3>2. results[k] = fallback[k]
      BY <1>4, <1>5, <2>2, <3>1
    <3>3. QED
      BY <1>5, <3>1, <3>2
  <2>. HIDE DEF results
  <2>3. Len(results) >= Len(batch) /\ (Len(results) = Len(batch) => parsed = 0)
    BY <1>6, <2>1
  <2>4. QED
    BY <2>2, <2>3
<1>. HIDE DEF results
<1>8. Len(results) = Len(batch) => \A k \in DOMAIN results : results[k] \in {batch[k], Unknown}
  BY <1>7
<1>9. QED
  BY <1>2, <1>6, <1>7, <1>8, BatchStep DEF batch

\* There are enough results for all chunks: each speech segment gets those at the
\* places of its own.
LEMMA AggregateStep == ASSUME EmotionInv, Aggregate PROVE EmotionInv'
<1>. DEFINE chunks == FlatChunks(transcript)
            has(i) == {c \in DOMAIN chunks : chunks[c].segment = i}
            own(i) == Ascending(Len(chunks), has(i))
            results(i) == [k \in DOMAIN own(i) |-> flat[own(i)[k]]]
<1>1. EmotionTyping /\ Processed /\ detecting = "batch" /\ pending = <<>>
  BY DEF EmotionInv, Aggregate
<1>2. Total <= Len(flat) /\ (Len(flat) <= Total => \A c \in 1..Total : InPlace(c))
  <2>1. PICK done \in Nat : /\ Cut(pending, done, Total) /\ done <= Len(flat)
                            /\ Len(flat) = done => \A c \in 1..done : InPlace(c)
    BY <1>1 DEF Processed
  <2>2. done = Total
    <3>1. PICK e : e[0] = done /\ e[Len(pending)] = Total
      BY <2>1 DEF Cut, CutAt
    <3>2. Len(pending) = 0
      BY <1>1
    <3>3. QED
      BY <3>1, <3>2
  <2>3. Len(flat) \in Nat
    BY <1>1 DEF EmotionTyping
  <2>4. QED
    BY <2>1, <2>2, <2>3
<1>3. detecting' = "done" /\ UNCHANGED <<transcript, pending, flat>>
      /\ emotions' = [i \in DOMAIN emotions |-> IF own(i) # <<>> THEN Append(emotions[i], results(i)) ELSE emotions[i]]
  <2>1. Len(flat) >= Len(chunks)
    <3>1. Total \in Nat /\ Len(flat) \in Nat
      BY <1>1, FlatChunksElements DEF EmotionTyping, Total
    <3>2. QED
      BY <1>2, <3>1 DEF Total
  <2>2. QED
    BY <2>1 DEF Aggregate
<1>4. ASSUME NEW i \in DOMAIN transcript
      PROVE  /\ own(i) \in Seq(has(i)) /\ (own(i) # <<>> <=> transcript[i].type = Speech)
             /\ \A k \in DOMAIN own(i) : own(i)[k] \in has(i) /\ own(i)[k] \in 1..Total
  BY <1>1, ChunksRight DEF EmotionTyping, Total
<1>. HIDE DEF own, has
<1>5. ASSUME NEW i \in DOMAIN transcript
      PROVE  emotions'[i] = IF transcript[i].type = Speech THEN <<results(i)>> ELSE <<>>
  <2>1. i \in DOMAIN emotions /\ emotions[i] = <<>>
    BY <1>1 DEF EmotionTyping, Processed
  <2>2. emotions'[i] = IF own(i) # <<>> THEN Append(emotions[i], results(i)) ELSE emotions[i]
    BY <1>3, <2>1
  <2>3. Append(<<>>, results(i)) = <<results(i)>>
    OBVIOUS
  <2>4. QED
    BY <1>4, <2>1, <2>2, <2>3
<1>6. EmotionTyping'
  BY <1>1, <1>3 DEF EmotionTyping
<1>7. Processed'
  BY <1>3 DEF Processed
<1>8. OneEmotionEach'
  <2>1. ASSUME NEW i \in DOMAIN transcript
        PROVE  Len(emotions'[i]) = IF transcript[i].type = Speech THEN 1 ELSE 0
    <3>. HIDE DEF results
    <3>1. CASE transcript[i].type = Speech
      <4>1. emotions'[i] = <<results(i)>>
        BY <1>5, <3>1
      <4>2. QED
        BY <3>1, <4>1
    <3>2. CASE transcript[i].type # Speech
      <4>1. emotions'[i] = <<>>
        BY <1>5, <3>2
      <4>2. QED
        BY <3>2, <4>1
    <3>3. QED
      BY <3>1, <3>2
  <2>2. QED
    BY <1>3, <2>1 DEF OneEmotionEach
<1>9. EmotionsOwnUnlessShifted'
  <2>. SUFFICES ASSUME Len(flat) <= Total, NEW i \in DOMAIN transcript, NEW k \in DOMAIN emotions'[i],
                       NEW x \in Range(emotions'[i][k])
                PROVE  x \in has(i) \cup {Unknown}
    BY <1>3 DEF EmotionsOwnUnlessShifted, EmotionsAreOwn, OwnChunks, Total, has
  <2>1. emotions'[i][k] = results(i)
    <3>. HIDE DEF results
    <3>1. CASE transcript[i].type = Speech
      <4>1. emotions'[i] = <<results(i)>>
        BY <1>5, <3>1
      <4>2. k = 1
        BY <4>1
      <4>3. QED
        BY <4>1, <4>2
    <3>2. CASE transcript[i].type # Speech
      <4>1. emotions'[i] = <<>>
        BY <1>5, <3>2
      <4>2. QED
        BY <4>1
    <3>3. QED
      BY <3>1, <3>2
  <2>2. PICK l \in DOMAIN own(i) : x = flat[own(i)[l]]
    BY <2>1 DEF Range
  <2>3. own(i)[l] \in has(i) /\ own(i)[l] \in 1..Total
    BY <1>4
  <2>4. x \in {own(i)[l], Unknown}
    BY <1>2, <2>2, <2>3 DEF InPlace
  <2>5. QED
    BY <2>3, <2>4
<1>10. QED
  BY <1>6, <1>7, <1>8, <1>9 DEF EmotionInv

\* The induction step of the inference.
LEMMA EmotionStep == EmotionInv /\ (EmotionNext \/ UNCHANGED emotionVars) => EmotionInv'
<1>. SUFFICES ASSUME EmotionInv, EmotionNext \/ UNCHANGED emotionVars PROVE EmotionInv'
  OBVIOUS
<1>1. CASE UNCHANGED emotionVars
  <2>. USE <1>1 DEF emotionVars, EmotionInv
  <2>1. EmotionTyping'
    BY DEF EmotionTyping
  <2>2. Processed'
    <3>. SUFFICES ASSUME detecting = "batch"
                  PROVE  /\ \A i \in DOMAIN emotions' : emotions'[i] = <<>>
                         /\ \E done \in Nat :
                               /\ Cut(pending, done, Total)' /\ done <= Len(flat')
                               /\ Len(flat') = done => \A c \in 1..done : InPlace(c)'
      BY DEF Processed
    <3>1. PICK done \in Nat : /\ Cut(pending, done, Total) /\ done <= Len(flat)
                              /\ Len(flat) = done => \A c \in 1..done : InPlace(c)
      BY DEF Processed
    <3>2. Cut(pending, done, Total)'
      BY <3>1 DEF Cut, CutAt, Total
    <3>3. QED
      BY <3>1, <3>2 DEF InPlace, Processed
  <2>3. OneEmotionEach'
    BY DEF OneEmotionEach, Detected
  <2>4. EmotionsOwnUnlessShifted'
    BY DEF EmotionsOwnUnlessShifted, EmotionsAreOwn, Detected, OwnChunks
  <2>5. QED
    BY <2>1, <2>2, <2>3, <2>4
<1>2. QED
  BY <1>1, TakeTranscriptStep, DetectBatchStep, FailBatchStep, AggregateStep DEF EmotionNext

\* No transcript has been taken.
LEMMA EmotionBegins == EmotionInit => EmotionInv
  BY DEF EmotionInit, EmotionInv, EmotionTyping, Processed, OneEmotionEach, EmotionsOwnUnlessShifted, EmotionsAreOwn,
         Detected

\* The inductive invariant of the emotion service, whatever the other services do.
\* There is always a result for each chunk, so the aggregation never runs out of them.
THEOREM EmotionCorrect == Spec => []EmotionInv
<1>1. Init => EmotionInv
  BY EmotionBegins DEF Init
<1>2. EmotionInv /\ [Next]_vars => EmotionInv'
  BY EmotionStep DEF Next, Diarization, Stt, Emotion, vars
<1>3. QED
  BY <1>1, <1>2, PTL DEF Spec

\* AudioEmotionService._run_inference gives each speech segment one emotion and noise
\* none, whatever batches fail (OneEmotionEach), for all transcripts and batch sizes.
THEOREM OneEmotion == Spec => []OneEmotionEach
<1>1. EmotionInv => OneEmotionEach
  BY DEF EmotionInv
<1>2. QED
  BY <1>1, EmotionCorrect, PTL

\* Its emotions are those of the segment's own chunks, as long as there are not more
\* results than chunks (EmotionsOwnUnlessShifted).
THEOREM EmotionsOwn == Spec => []EmotionsOwnUnlessShifted
<1>1. EmotionInv => EmotionsOwnUnlessShifted
  BY DEF EmotionInv
<1>2. QED
  BY <1>1, EmotionCorrect, PTL

\* split_segment cuts every speech segment into padded chunks that cover it and reach
\* no further than the padding (ChunksCoverSegment), for all thresholds and paddings.
THEOREM ChunksCover == Spec => []ChunksCoverSegment
<1>1. EmotionInv => ChunksCoverSegment
  <2>. SUFFICES ASSUME transcript \in Seq(Segments), NEW i \in DOMAIN transcript
                PROVE  LET s == transcript[i]
                           own == {c \in Range(FlatChunks(transcript)) : c.segment = i}
                       IN  IF s.type = Noise THEN own = {}
                           ELSE /\ \A x \in s.start_time..s.end_time - 1 :
                                      \E c \in own : c.window.start <= x /\ x < c.window.end
                                /\ \A c \in own :
                                      /\ c.window.start >= s.start_time - Padding
                                      /\ c.window.end <= s.end_time + Padding
                                      /\ c.window.end - c.window.start <= LongSegment + 2 * Padding
    BY DEF EmotionInv, EmotionTyping, ChunksCoverSegment
  <2>. DEFINE F == FlatChunks(transcript)
              s == transcript[i]
              own == {c \in Range(F) : c.segment = i}
              w == SplitSegment(s)
  <2>1. s \in Segments /\ (s.type = Noise <=> s.type # Speech)
    <3>1. transcript[i] \in Segments
      OBVIOUS
    <3>2. transcript[i].type \in {Speech, Noise}
      BY <3>1 DEF Segments
    <3>3. QED
      BY <3>1, <3>2 DEF Speech, Noise
  <2>2. ChunksOf(s, w)
    BY <2>1, SplitCovers
  <2>3. ASSUME NEW c \in own PROVE s.type = Speech /\ \E j \in DOMAIN w : c.window = w[j]
    <3>1. PICK k \in DOMAIN F : c = F[k]
      BY DEF Range
    <3>2. F[k].segment = i
      BY <3>1
    <3>3. i \in Spoken(transcript) /\ \E j \in DOMAIN SplitSegment(transcript[i]) : F[k].window = SplitSegment(transcript[i])[j]
      BY <3>2, FlatChunksElements
    <3>4. QED
      BY <3>1, <3>3 DEF Spoken
  <2>4. ASSUME s.type = Speech, NEW j \in DOMAIN w PROVE \E c \in own : c.window = w[j]
    <3>1. i \in Spoken(transcript)
      BY <2>4 DEF Spoken
    <3>2. PICK k \in DOMAIN F : F[k] = ChunkOf(i, w[j])
      BY <3>1, FlatChunksElements
    <3>3. F[k].segment = i /\ F[k].window = w[j]
      BY <3>2 DEF ChunkOf
    <3>4. F[k] \in own
      BY <3>3 DEF Range
    <3>5. QED
      BY <3>3, <3>4
  <2>. HIDE DEF own, w, s, F
  <2>5. CASE s.type = Noise
    <3>1. own = {}
      BY <2>1, <2>3, <2>5
    <3>2. QED
      BY <2>5, <3>1 DEF own, s, F
  <2>6. CASE s.type = Speech
    <3>1. \A x \in s.start_time..s.end_time - 1 : \E c \in own : c.window.start <= x /\ x < c.window.end
      BY <2>2, <2>4, <2>6 DEF ChunksOf
    <3>2. \A c \in own : /\ c.window.start >= s.start_time - Padding
                         /\ c.window.end <= s.end_time + Padding
                         /\ c.window.end - c.window.start <= LongSegment + 2 * Padding
      BY <2>2, <2>3 DEF ChunksOf
    <3>3. QED
      BY <2>1, <2>6, <3>1, <3>2 DEF own, s, F
  <2>7. QED
    BY <2>1, <2>5, <2>6
<1>2. QED
  BY <1>1, EmotionCorrect, PTL

-----------------------------------------------------------------------------
(* Types                                                                   *)

\* The bounds of the speech to text service.
SttBounds ==
    /\ job <= MaxJobs /\ position <= SttBatchSize
    /\ RightBatches(batches, document)
    /\ \A r \in DOMAIN streams : streams[r][1] \in 1..job

TypeInv ==
    /\ service \in Services
    /\ SttBounds
    /\ diarizing # "done" => diarized = <<>>

\* The bounds hold from job to job.
LEMMA SttBoundsStep == SttInv /\ SttBounds /\ (SttNext \/ UNCHANGED sttVars) => SttBounds'
<1>. SUFFICES ASSUME SttInv, SttBounds, SttNext \/ UNCHANGED sttVars PROVE SttBounds'
  OBVIOUS
<1>1. SttTyping
  BY DEF SttInv
<1>2. ASSUME UNCHANGED <<job, document, batches, position, streams>> PROVE SttBounds'
  BY <1>2 DEF SttBounds, RightBatches, Spoken
<1>3. CASE TakeDocument
  <2>1. PICK segments \in Seq(Segments) : document' = segments /\ batches' = Batches(segments)
    BY <1>3, SttAssumption DEF TakeDocument
  <2>2. RightBatches(batches', document')
    BY <2>1, BatchesRight
  <2>3. job \in Nat /\ MaxJobs \in Nat /\ job' = job + 1 /\ job < MaxJobs /\ position' = 0 /\ streams' = streams
    BY <1>1, <1>3, SttAssumption DEF SttTyping, TakeDocument
  <2>4. job' <= MaxJobs /\ position' <= SttBatchSize
    BY <2>3, SttAssumption
  <2>5. \A r \in DOMAIN streams' : streams'[r][1] \in 1..job'
    BY <2>3 DEF SttBounds
  <2>6. QED
    BY <2>2, <2>4, <2>5 DEF SttBounds, RightBatches, Spoken
<1>4. CASE AppendAudio
  <2>1. /\ batches # <<>> /\ position < Len(Head(batches)) /\ position' = position + 1
        /\ UNCHANGED <<job, document, batches>> /\ transcribing = "append"
    BY <1>4 DEF AppendAudio
  <2>2. Head(batches) \in Seq(Nat) /\ Len(Head(batches)) <= SttBatchSize
    <3>1. batches \in Seq(Seq(Nat)) /\ \A b \in DOMAIN batches : Len(batches[b]) <= SttBatchSize
      BY DEF SttBounds, RightBatches
    <3>2. 1 \in DOMAIN batches /\ Head(batches) = batches[1]
      BY <2>1, <3>1
    <3>3. QED
      BY <3>1, <3>2
  <2>3. position' <= SttBatchSize
    <3>1. position \in Nat /\ SttBatchSize \in Nat /\ Len(Head(batches)) \in Nat
      BY <1>1, <2>2, SttAssumption DEF SttTyping
    <3>2. QED
      BY <2>1, <2>2, <3>1
  <2>4. job \in 1..job
    BY <1>1, <2>1 DEF SttTyping
  <2>5. \A r \in DOMAIN streams' : streams'[r][1] \in 1..job
    <3>1. PICK p : p = Head(batches)[position + 1]
      OBVIOUS
    <3>2. p \in Nat
      BY <1>1, <2>1, <2>2, <3>1 DEF SttTyping
    <3>3. <<job, p>> \in Nat \X Nat /\ <<job, p>>[1] = job
      BY <1>1, <3>2 DEF SttTyping
    <3>4. streams \in Seq(Nat \X Nat) /\ streams' = Append(streams, <<job, p>>)
      BY <1>1, <1>4, <3>1 DEF SttTyping, AppendAudio
    <3>5. /\ DOMAIN Append(streams, <<job, p>>) = DOMAIN streams \cup {Len(streams) + 1}
          /\ Append(streams, <<job, p>>)[Len(streams) + 1] = <<job, p>>
          /\ \A r \in DOMAIN streams : Append(streams, <<job, p>>)[r] = streams[r]
      BY <3>3, <3>4, AppendedAt
    <3>6. QED
      BY <2>4, <3>3, <3>4, <3>5 DEF SttBounds
  <2>6. QED
    BY <2>1, <2>3, <2>5 DEF SttBounds, RightBatches, Spoken
<1>5. CASE Stream
  <2>1. /\ batches # <<>> /\ batches' = Tail(batches) /\ streams' = <<>> /\ position' = 0
        /\ UNCHANGED <<job, document>>
    BY <1>5 DEF Stream
  <2>2. RightBatches(batches', document')
    BY <2>1, BatchesLeft DEF SttBounds
  <2>3. 0 <= SttBatchSize /\ DOMAIN streams' = {}
    BY <2>1, SttAssumption
  <2>4. QED
    BY <2>1, <2>2, <2>3 DEF SttBounds, RightBatches, Spoken
<1>6. QED
  BY <1>2, <1>3, <1>4, <1>5 DEF SttNext, sttVars, StreamNothing, SttRaises, SttEnds, Answered

\* The result is there only at the end.
LEMMA DiarizedStep ==
    ASSUME diarizing # "done" => diarized = <<>>, DiarizationNext \/ UNCHANGED diarizationVars
    PROVE  diarizing' # "done" => diarized' = <<>>
  BY DEF DiarizationNext, diarizationVars, Predict, InferenceRaises, Segment, BeginPass, SkipMerged, MergeWithNext,
         KeepSegment, EndPass, FillNoise

\* Every segment of the result has a length.
LEMMA DiarizedTimes ==
    ASSUME DiarizationInv, diarizing # "done" => diarized = <<>>, NEW i \in DOMAIN diarized
    PROVE  diarized[i].start_time \in Nat /\ diarized[i].end_time \in Nat /\ diarized[i].start_time < diarized[i].end_time
<1>1. diarizing = "done" /\ diarized = WithNoise(merged) /\ merged \in Seq(Turns)
  <2>1. diarized # <<>>
    OBVIOUS
  <2>2. QED
    BY <2>1 DEF DiarizationInv, DiarizationTyping, NoiseInv
<1>2. CASE merged = <<>>
  <2>1. FileLength \in Nat /\ 0 < FileLength
    BY DiarizationAssumption
  <2>2. diarized = <<ResultsSegment(Noise, 0, 0, FileLength)>>
    BY <1>1, <1>2 DEF WithNoise
  <2>3. i = 1 /\ diarized[1] = ResultsSegment(Noise, 0, 0, FileLength)
    BY <2>2
  <2>4. QED
    BY <2>1, <2>3, NoiseFields
<1>3. CASE merged # <<>>
  <2>1. PICK j \in DOMAIN merged :
            \/ diarized[i] = merged[j]
            \/ /\ merged[j].start_time > LastSec(merged, j)
               /\ diarized[i] = ResultsSegment(Noise, 0, LastSec(merged, j), merged[j].start_time)
    BY <1>1, <1>3, WhatIsThere
  <2>2. /\ merged[j].start_time \in Nat /\ merged[j].end_time \in Nat /\ merged[j].start_time < merged[j].end_time
        /\ LastSec(merged, j) \in Nat
    BY <1>1, TurnTimes
  <2>3. QED
    BY <2>1, <2>2, NoiseFields
<1>4. QED
  BY <1>2, <1>3

\* The types of the diarization.
LEMMA DiarizationTypes ==
    ASSUME DiarizationInv, diarizing # "done" => diarized = <<>>
    PROVE  DiarizationTypeOK
<1>1. DiarizationTyping
  BY DEF DiarizationInv
<1>2. ASSUME NEW s \in {speech, merged}, NEW i \in DOMAIN s
      PROVE  s[i].start_time \in Nat /\ s[i].end_time \in Nat /\ s[i].start_time < s[i].end_time
  <2>1. s \in Seq(Turns)
    BY <1>1 DEF DiarizationTyping
  <2>2. QED
    BY <2>1, TurnTimes
<1>3. \A i \in DOMAIN regions : regions[i].start < regions[i].end
  <2>1. \A i \in DOMAIN regions : regions[i] \in Regions
    BY <1>1 DEF DiarizationTyping
  <2>2. QED
    BY <2>1 DEF Regions
<1>4. QED
  BY <1>1, <1>2, <1>3, DiarizedTimes DEF DiarizationTypeOK, DiarizationTyping

\* The types of the speech to text service.
LEMMA SttTypes == ASSUME SttInv, SttBounds PROVE SttTypeOK
<1>1. SttTyping /\ MaxJobs \in Nat /\ SttBatchSize \in Nat
  BY SttAssumption DEF SttInv
<1>2. job \in 0..MaxJobs /\ position \in 0..SttBatchSize
  BY <1>1 DEF SttTyping, SttBounds
<1>3. Len(answers) \in {job - 1, job} \cap Nat
  BY <1>1 DEF SttTyping
<1>4. \A b \in DOMAIN batches : \A k \in DOMAIN batches[b] :
          batches[b][k] \in DOMAIN document /\ document[batches[b][k]].type = Speech
  BY DEF SttBounds, RightBatches, Spoken
<1>5. QED
  BY <1>1, <1>2, <1>3, <1>4 DEF SttTypeOK, SttTyping, SttBounds

\* The types of the emotion service.
LEMMA EmotionTypes == ASSUME EmotionInv PROVE EmotionTypeOK
<1>1. EmotionTyping
  BY DEF EmotionInv
<1>2. ASSUME NEW b \in DOMAIN pending PROVE pending[b] # <<>> /\ Len(pending[b]) <= EmotionBatchSize
  <2>1. detecting = "batch"
    BY <1>1 DEF EmotionTyping
  <2>2. PICK done, e : CutAt(pending, done, Total, e)
    BY <2>1 DEF EmotionInv, Processed, Cut
  <2>3. /\ b \in 1..Len(pending) /\ e[b - 1] < e[b] /\ e[b] <= e[b - 1] + EmotionBatchSize
        /\ pending[b] = [k \in 1..e[b] - e[b - 1] |-> e[b - 1] + k]
        /\ e[b - 1] \in Nat /\ e[b] \in Nat
    <3>1. b \in 1..Len(pending) /\ Len(pending) \in Nat /\ e \in [0..Len(pending) -> Nat]
      BY <2>2 DEF CutAt
    <3>2. b \in 0..Len(pending) /\ b - 1 \in 0..Len(pending)
      BY <3>1
    <3>3. QED
      BY <2>2, <3>1, <3>2 DEF CutAt
  <2>4. PICK x \in Nat, l \in Nat \ {0} : l <= EmotionBatchSize /\ pending[b] = [k \in 1..l |-> x + k]
    <3>1. /\ e[b] - e[b - 1] \in Nat \ {0} /\ e[b] - e[b - 1] <= EmotionBatchSize
      BY <2>3, EmotionAssumption
    <3>2. QED
      BY <2>3, <3>1
  <2>5. Len(pending[b]) = l
    <3>1. \A k \in 1..l : x + k \in Nat
      OBVIOUS
    <3>2. [k \in 1..l |-> x + k] \in [1..l -> Nat]
      BY <3>1
    <3>3. QED
      BY <2>4, <3>2
  <2>6. QED
    BY <2>4, <2>5
<1>3. QED
  BY <1>1, <1>2 DEF EmotionTypeOK, EmotionTyping

\* The values of all variables of a worker process with its service (TypeOK), for
\* any files, documents, jobs and thresholds.
THEOREM ServicesTypeCorrect == Spec => []TypeOK
<1>1. Init => TypeInv
  <2>. SUFFICES ASSUME Init PROVE TypeInv
    OBVIOUS
  <2>. USE DEF Init, SttInit, DiarizationInit
  <2>1. RightBatches(batches, document)
    BY DEF RightBatches
  <2>2. job <= MaxJobs /\ position <= SttBatchSize /\ DOMAIN streams = {}
    BY SttAssumption
  <2>3. QED
    BY <2>1, <2>2 DEF TypeInv, SttBounds
<1>2. TypeInv /\ SttInv /\ [Next]_vars => TypeInv'
  <2>. SUFFICES ASSUME TypeInv, SttInv, [Next]_vars PROVE TypeInv'
    OBVIOUS
  <2>1. SttNext \/ UNCHANGED sttVars
    BY DEF Next, Diarization, Stt, Emotion, vars
  <2>2. DiarizationNext \/ UNCHANGED diarizationVars
    BY DEF Next, Diarization, Stt, Emotion, vars
  <2>3. service' = service
    BY DEF Next, Diarization, Stt, Emotion, vars
  <2>4. SttBounds'
    BY <2>1, SttBoundsStep DEF TypeInv
  <2>5. QED
    BY <2>2, <2>3, <2>4, DiarizedStep DEF TypeInv
<1>3. TypeInv /\ DiarizationInv /\ SttInv /\ EmotionInv => TypeOK
  BY DiarizationTypes, SttTypes, EmotionTypes DEF TypeInv, TypeOK
<1>4. QED
  BY <1>1, <1>2, <1>3, DiarizationCorrect, SttCorrect, EmotionCorrect, PTL DEF Spec
=============================================================================
