--------------------------- MODULE EmotionService ---------------------------
(***************************************************************************)
(* AudioEmotionService._run_inference (src/services/                       *)
(* audio_emotion_service.py): every speech segment is cut into padded      *)
(* chunks, the chunks of all segments are processed in batches, and the    *)
(* results are put together again by position.  An emotion is the list of  *)
(* what it was computed from: chunk numbers, and Unknown for a chunk that  *)
(* has no result.                                                          *)
(***************************************************************************)
EXTENDS ResultsDocument, FiniteSets

CONSTANTS
    Transcripts,        \* lists of segments the service may be given
    LongSegment,        \* long_segment_threshold, 5.0 s
    Padding,            \* segment_padding, 1.0 s
    EmotionBatchSize    \* batch_size

ASSUME EmotionAssumption ==
    /\ {LongSegment, EmotionBatchSize} \subseteq Nat \ {0}
    /\ Padding \in Nat
    /\ \A segments \in Transcripts : segments \in Seq(Segments)

VARIABLES
    detecting,          \* where the inference is
    transcript,         \* existing_results.segments
    pending,            \* batches of flat_chunks not yet processed, by number
    flat,               \* flat_emotions
    emotions            \* segments[i].emotions

emotionVars == <<detecting, transcript, pending, flat, emotions>>

Unknown == 0

EmotionInit ==
    /\ detecting = "idle"
    /\ transcript = <<>>
    /\ pending = <<>>
    /\ flat = <<>>
    /\ emotions = <<>>

-----------------------------------------------------------------------------
(* Operators                                                               *)

Lesser(a, b)  == IF a < b THEN a ELSE b
Greater(a, b) == IF a > b THEN a ELSE b

Window(from, to) == [start |-> Greater(0, from - Padding), end |-> to + Padding]

\* Mutant: the rest that does not fill a chunk is dropped.
SplitFullChunks(segment) ==
    LET n == (segment.end_time - segment.start_time) \div LongSegment
        from(k) == segment.start_time + (k - 1) * LongSegment
    IN  [k \in 1..n |-> Window(from(k), from(k) + LongSegment)]

\* split_segment: in the k-th turn of its loop the cursor is at from(k).
SplitSegment(segment) ==
    LET duration == segment.end_time - segment.start_time
        n == (duration + LongSegment - 1) \div LongSegment
        from(k) == segment.start_time + (k - 1) * LongSegment
    IN  IF duration <= LongSegment
           THEN <<Window(segment.start_time, segment.end_time)>>
           ELSE [k \in 1..n |-> Window(from(k), Lesser(from(k) + LongSegment, segment.end_time))]

\* Mutant: noise is not left out.
FlatChunksOfAll(segments) ==
    LET of(i) == LET windows == SplitSegment(segments[i])
                 IN  [k \in DOMAIN windows |-> [segment |-> i, window |-> windows[k]]]
    IN  FlattenSeq([i \in DOMAIN segments |-> of(i)])

\* flat_chunks and seg_chunk_map in one: the chunks of all speech segments, each
\* with the position of its segment.
FlatChunks(segments) ==
    LET of(i) == LET windows == SplitSegment(segments[i])
                 IN  [k \in DOMAIN windows |-> [segment |-> i, window |-> windows[k]]]
        ids == SpeechPositions(segments)
    IN  FlattenSeq([k \in DOMAIN ids |-> of(ids[k])])

\* Mutant: an empty batch follows full ones.
BatchedWithRest(n) ==
    [b \in 1..(n \div EmotionBatchSize + 1) |->
        LET first == (b - 1) * EmotionBatchSize
        IN  [k \in 1..Lesser(EmotionBatchSize, n - first) |-> first + k]]

\* itertools.batched over the numbers 1..n.
Batched(n) ==
    [b \in 1..((n + EmotionBatchSize - 1) \div EmotionBatchSize) |->
        LET first == (b - 1) * EmotionBatchSize
        IN  [k \in 1..Lesser(EmotionBatchSize, n - first) |-> first + k]]

-----------------------------------------------------------------------------
(* Actions                                                                 *)

TakeTranscript ==
    /\ detecting = "idle"
    /\ \E segments \in Transcripts :
          /\ transcript' = segments
          /\ pending' = Batched(Len(FlatChunks(segments)))
          /\ emotions' = [i \in DOMAIN segments |-> <<>>]
    /\ detecting' = "batch"
    /\ UNCHANGED flat

\* generate returned a result for each chunk of the batch, and all were parsed.
DetectBatch ==
    /\ detecting = "batch"
    /\ pending # <<>>
    /\ flat' = flat \o Head(pending)
    /\ pending' = Tail(pending)
    /\ UNCHANGED <<detecting, transcript, emotions>>

\* Mutant: the fallback stands for one chunk, not for the batch.
FailBatchOnce ==
    /\ detecting = "batch"
    /\ pending # <<>>
    /\ \E parsed \in 0..Len(Head(pending)) - 1 :
          flat' = flat \o SubSeq(Head(pending), 1, parsed) \o <<Unknown>>
    /\ pending' = Tail(pending)
    /\ UNCHANGED <<detecting, transcript, emotions>>

\* generate raised, or parse_emotion_result did after parsed results: unknown for
\* every chunk of the batch, behind the results it already gave.
FailBatch ==
    /\ detecting = "batch"
    /\ pending # <<>>
    /\ \E parsed \in 0..Len(Head(pending)) - 1 :
          flat' = flat \o SubSeq(Head(pending), 1, parsed)
                       \o [k \in DOMAIN Head(pending) |-> Unknown]
    /\ pending' = Tail(pending)
    /\ UNCHANGED <<detecting, transcript, emotions>>

\* Mutant: one result per segment, as if none were split.
AggregateUnsplit ==
    /\ detecting = "batch"
    /\ pending = <<>>
    /\ LET ids == SpeechPositions(transcript)
       IN  emotions' = [i \in DOMAIN emotions |->
                           LET k == SelectInSeq(ids, LAMBDA p : p = i)
                           IN  IF k = 0 THEN emotions[i] ELSE Append(emotions[i], <<flat[k]>>)]
    /\ detecting' = "done"
    /\ UNCHANGED <<transcript, pending, flat>>

\* Back to segments by position; aggregate_chunk_emotions makes one emotion of
\* what a segment got.  With fewer results than chunks: IndexError.
Aggregate ==
    /\ detecting = "batch"
    /\ pending = <<>>
    /\ LET chunks == FlatChunks(transcript)
           enough == Len(flat) >= Len(chunks)
           own(i) == Ascending(Len(chunks), {c \in DOMAIN chunks : chunks[c].segment = i})
           results(i) == [k \in DOMAIN own(i) |-> flat[own(i)[k]]]
       IN  /\ detecting' = IF enough THEN "done" ELSE "error"
           /\ emotions' = [i \in DOMAIN emotions |->
                              IF enough /\ own(i) # <<>> THEN Append(emotions[i], results(i))
                              ELSE emotions[i]]
    /\ UNCHANGED <<transcript, pending, flat>>

EmotionNext == TakeTranscript \/ DetectBatch \/ FailBatch \/ Aggregate

-----------------------------------------------------------------------------
(* Properties                                                              *)

EmotionTypeOK ==
    /\ detecting \in {"idle", "batch", "done", "error"}
    /\ \A b \in DOMAIN pending : pending[b] # <<>> /\ Len(pending[b]) <= EmotionBatchSize
    /\ flat \in Seq(Nat)
    /\ DOMAIN emotions = DOMAIN transcript

Detected == detecting \in {"done", "error"}

\* split_segment: "Split long segment into chunks of at self.long_segment_threshold
\* seconds, and each padded".  Every tick of a speech segment is in a chunk of it,
\* no chunk reaches further than the padding, and none is longer than the
\* threshold and two paddings.
ChunksCoverSegment ==
    detecting # "idle" =>
        \A i \in DOMAIN transcript :
            LET s == transcript[i]
                own == {c \in Range(FlatChunks(transcript)) : c.segment = i}
            IN  IF s.type = Noise THEN own = {}
                ELSE /\ \A x \in s.start_time..s.end_time - 1 :
                           \E c \in own : c.window.start <= x /\ x < c.window.end
                     /\ \A c \in own :
                           /\ c.window.start >= s.start_time - Padding
                           /\ c.window.end <= s.end_time + Padding
                           /\ c.window.end - c.window.start <= LongSegment + 2 * Padding

\* "Aggregate chunks back to segments": every speech segment gets one emotion, and
\* noise none, whatever batches fail.
OneEmotionEach ==
    Detected => \A i \in DOMAIN transcript :
        Len(emotions[i]) = IF transcript[i].type = Speech THEN 1 ELSE 0

OwnChunks(i) == {c \in DOMAIN FlatChunks(transcript) : FlatChunks(transcript)[c].segment = i}

EmotionsAreOwn ==
    Detected => \A i \in DOMAIN transcript : \A k \in DOMAIN emotions[i] :
        Range(emotions[i][k]) \subseteq OwnChunks(i) \cup {Unknown}

\* An emotion is computed from its own segment's audio, unless a batch raised after
\* some of its results had been parsed: then flat_emotions has more entries than
\* there are chunks, and everything behind is out of place.
EmotionsOwnUnlessShifted ==
    Len(flat) <= Len(FlatChunks(transcript)) => EmotionsAreOwn
=============================================================================
