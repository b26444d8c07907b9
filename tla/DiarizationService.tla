------------------------- MODULE DiarizationService -------------------------
(***************************************************************************)
(* DiarizationService._run_inference (src/services/                        *)
(* audio_diarization_service.py): from the regions the neural model        *)
(* predicts to the speech and noise segments of the Results document.  The *)
(* model is external: it returns any of Predictions.  The merging of       *)
(* segments over a micro pause is modelled one loop iteration at a time.   *)
(***************************************************************************)
EXTENDS ResultsDocument, FiniteSets

CONSTANTS
    Speakers,
    Predictions,        \* lists of regions the model may return
    FileLength,         \* length_sec
    ShortRegion,        \* 1.0 s: a shorter region needs a neighbour
    NeighbourGap,       \* 2.0 s: how close the neighbour must be
    MinSpeech,          \* 0.25 s: no longer segment, no speech
    MicroPause          \* 1.0 s: micro_pause_segment_merge_threshold

\* What the model predicts: who speaks from where to where.
Regions == {r \in [start : Nat, end : Nat, speaker : Speakers] : r.start < r.end}

ASSUME DiarizationAssumption ==
    /\ \A predicted \in Predictions : predicted \in Seq(Regions)
    /\ FileLength \in Nat \ {0}
    /\ {ShortRegion, NeighbourGap, MinSpeech, MicroPause} \subseteq Nat
    /\ MinSpeech < ShortRegion

VARIABLES
    diarizing,          \* where the inference is
    regions,            \* speech_activity_detection_regions, sorted
    speech,             \* segments_speech
    merged,             \* segments_speech_processed
    idx,                \* idx_segment, counted from 1
    skip,               \* skip_next_segment
    again,              \* last_were_processed
    diarized            \* result.segments

diarizationVars == <<diarizing, regions, speech, merged, idx, skip, again, diarized>>

DiarizationInit ==
    /\ diarizing = "predict"
    /\ regions = <<>>
    /\ speech = <<>>
    /\ merged = <<>>
    /\ idx = 1
    /\ skip = FALSE
    /\ again = FALSE
    /\ diarized = <<>>

-----------------------------------------------------------------------------
(* Operators                                                               *)

\* sorted(..., key=start), which is stable.
ByStart(s) ==
    LET ahead(i) == {j \in DOMAIN s : \/ s[j].start < s[i].start
                                      \/ s[j].start = s[i].start /\ j < i}
    IN  [k \in DOMAIN s |-> s[CHOOSE i \in DOMAIN s : Cardinality(ahead(i)) = k - 1]]

\* Mutant: only the region before is looked at.
KeepLongOrCloseToPrevious(s) ==
    LET near(i) == i > 1 /\ s[i].start - s[i - 1].end < NeighbourGap
        kept == Ascending(Len(s), {i \in DOMAIN s : s[i].end - s[i].start >= ShortRegion \/ near(i)})
    IN  [k \in DOMAIN kept |-> s[kept[k]]]

\* process_remove_short_segments.
KeepLongOrClose(s) ==
    LET near(i) == \/ i > 1 /\ s[i].start - s[i - 1].end < NeighbourGap
                   \/ i < Len(s) /\ s[i + 1].start - s[i].end < NeighbourGap
        kept == Ascending(Len(s), {i \in DOMAIN s : s[i].end - s[i].start >= ShortRegion \/ near(i)})
    IN  [k \in DOMAIN kept |-> s[kept[k]]]

\* speaker_id_map: -1, -2, ... in the order in which the speakers first appear.
UserId(s, speaker) ==
    LET first(u) == SelectInSeq(s, LAMBDA r : r.speaker = u)
    IN  - Cardinality({u \in {s[i].speaker : i \in DOMAIN s} : first(u) <= first(speaker)})

\* The regions as speech segments, without those that are too short to hold a
\* word.
SpeechOf(s) ==
    LET kept == Ascending(Len(s), {i \in DOMAIN s : s[i].end - s[i].start > MinSpeech})
    IN  [k \in DOMAIN kept |->
            LET r == s[kept[k]] IN ResultsSegment(Speech, UserId(s, r.speaker), r.start, r.end)]

\* A micro pause separates two segments of one speaker.
Mergeable(a, b) ==
    /\ b.start_time - a.end_time < MicroPause
    /\ a.user_id = b.user_id
    /\ b.start_time >= a.end_time

\* Mutant: the first segment has no noise before it.
WithNoiseBetween(s) ==
    LET before(i) == IF i > 1 /\ s[i].start_time > s[i - 1].end_time
                        THEN <<ResultsSegment(Noise, 0, s[i - 1].end_time, s[i].start_time)>>
                        ELSE <<>>
    IN  IF s = <<>> THEN <<ResultsSegment(Noise, 0, 0, FileLength)>>
        ELSE FlattenSeq([i \in DOMAIN s |-> Append(before(i), s[i])])

\* Mutant: last_sec is never moved on.
WithNoiseFromZero(s) ==
    LET before(i) == IF s[i].start_time > 0
                        THEN <<ResultsSegment(Noise, 0, 0, s[i].start_time)>>
                        ELSE <<>>
    IN  IF s = <<>> THEN <<ResultsSegment(Noise, 0, 0, FileLength)>>
        ELSE FlattenSeq([i \in DOMAIN s |-> Append(before(i), s[i])])

\* The speech segments with the noise before each; one noise segment for the
\* whole file when there is nothing.
WithNoise(s) ==
    LET last_sec(i) == IF i = 1 THEN 0 ELSE s[i - 1].end_time
        before(i) == IF s[i].start_time > last_sec(i)
                        THEN <<ResultsSegment(Noise, 0, last_sec(i), s[i].start_time)>>
                        ELSE <<>>
    IN  IF s = <<>> THEN <<ResultsSegment(Noise, 0, 0, FileLength)>>
        ELSE FlattenSeq([i \in DOMAIN s |-> Append(before(i), s[i])])

-----------------------------------------------------------------------------
(* Actions                                                                 *)

\* The model's regions, sorted.
Predict ==
    /\ diarizing = "predict"
    /\ \E predicted \in Predictions : regions' = ByStart(predicted)
    /\ diarizing' = "segment"
    /\ UNCHANGED <<speech, merged, idx, skip, again, diarized>>

\* The model, or the embedding of a region, raises: an error and no result.
InferenceRaises ==
    /\ diarizing \in {"predict", "segment"}
    /\ diarizing' = "error"
    /\ UNCHANGED <<regions, speech, merged, idx, skip, again, diarized>>

Segment ==
    /\ diarizing = "segment"
    /\ speech' = SpeechOf(KeepLongOrClose(regions))
    /\ diarizing' = "pass"
    /\ UNCHANGED <<regions, merged, idx, skip, again, diarized>>

\* The head of the while loop; a list of at most one segment is taken over.
BeginPass ==
    /\ diarizing = "pass"
    /\ again' = FALSE
    /\ IF Len(speech) <= 1
          THEN /\ merged' = speech
               /\ diarizing' = "noise"
               /\ UNCHANGED <<idx, skip>>
          ELSE /\ merged' = <<>>
               /\ idx' = 1
               /\ skip' = FALSE
               /\ diarizing' = "merge"
    /\ UNCHANGED <<regions, speech, diarized>>

InPass == diarizing = "merge" /\ idx < Len(speech)

\* The segment at idx went into the one before it; the last one is not visited
\* by the loop and is added here.
SkipMerged ==
    /\ InPass
    /\ skip
    /\ skip' = FALSE
    /\ merged' = IF idx = Len(speech) - 1 THEN Append(merged, speech[idx + 1]) ELSE merged
    /\ idx' = idx + 1
    /\ UNCHANGED <<diarizing, regions, speech, again, diarized>>

\* Mutant: skip_next_segment is not set.
MergeAndGoOn ==
    /\ InPass
    /\ ~ skip
    /\ Mergeable(speech[idx], speech[idx + 1])
    /\ merged' = Append(merged, [speech[idx] EXCEPT !.end_time = speech[idx + 1].end_time])
    /\ again' = TRUE
    /\ idx' = idx + 1
    /\ UNCHANGED <<diarizing, regions, speech, skip, diarized>>

MergeWithNext ==
    /\ InPass
    /\ ~ skip
    /\ Mergeable(speech[idx], speech[idx + 1])
    /\ merged' = Append(merged, [speech[idx] EXCEPT !.end_time = speech[idx + 1].end_time])
    /\ skip' = TRUE
    /\ again' = TRUE
    /\ idx' = idx + 1
    /\ UNCHANGED <<diarizing, regions, speech, diarized>>

\* Mutant: the loop ends before the last segment, which nobody adds.
KeepSegmentOnly ==
    /\ InPass
    /\ ~ skip
    /\ ~ Mergeable(speech[idx], speech[idx + 1])
    /\ merged' = Append(merged, speech[idx])
    /\ idx' = idx + 1
    /\ UNCHANGED <<diarizing, regions, speech, skip, again, diarized>>

KeepSegment ==
    /\ InPass
    /\ ~ skip
    /\ ~ Mergeable(speech[idx], speech[idx + 1])
    /\ merged' = IF idx = Len(speech) - 1
                    THEN merged \o <<speech[idx], speech[idx + 1]>>
                    ELSE Append(merged, speech[idx])
    /\ idx' = idx + 1
    /\ UNCHANGED <<diarizing, regions, speech, skip, again, diarized>>

\* After a pass that merged something, another one.
EndPass ==
    /\ diarizing = "merge"
    /\ idx = Len(speech)
    /\ speech' = IF again THEN merged ELSE speech
    /\ diarizing' = IF again THEN "pass" ELSE "noise"
    /\ UNCHANGED <<regions, merged, idx, skip, again, diarized>>

FillNoise ==
    /\ diarizing = "noise"
    /\ diarized' = WithNoise(merged)
    /\ diarizing' = "done"
    /\ UNCHANGED <<regions, speech, merged, idx, skip, again>>

DiarizationNext ==
    \/ Predict \/ InferenceRaises \/ Segment
    \/ BeginPass \/ SkipMerged \/ MergeWithNext \/ KeepSegment \/ EndPass
    \/ FillNoise

-----------------------------------------------------------------------------
(* Properties                                                              *)

DiarizationTypeOK ==
    /\ diarizing \in {"predict", "segment", "pass", "merge", "noise", "done", "error"}
    /\ \A s \in {speech, merged, diarized} : \A i \in DOMAIN s :
          s[i].start_time \in Nat /\ s[i].end_time \in Nat /\ s[i].start_time < s[i].end_time
    /\ \A i \in DOMAIN regions : regions[i].start < regions[i].end
    /\ idx \in Nat /\ skip \in BOOLEAN /\ again \in BOOLEAN

Diarized == diarizing = "done"
Kept     == KeepLongOrClose(regions)

\* One region ends after another that starts no earlier.
Nested == \E i, j \in DOMAIN regions : i < j /\ regions[i].end > regions[j].end

\* The runs of adjacent segments that only micro pauses separate, each as one
\* segment: what the merging is for, whatever the number of its passes.
Runs(s) ==
    LET ends == Ascending(Len(s), {i \in DOMAIN s : i = Len(s) \/ ~ Mergeable(s[i], s[i + 1])})
        from(k) == IF k = 1 THEN 1 ELSE ends[k - 1] + 1
    IN  [k \in DOMAIN ends |-> [s[from(k)] EXCEPT !.end_time = s[ends[k]].end_time]]

\* "remove micro pauses between segments": the passes over the list, with their
\* skipped indexes and the last segment added by hand, merge every run into one
\* segment and neither lose nor repeat another.
RunsMerged == Diarized => merged = Runs(SpeechOf(Kept))

\* Nothing long enough to hold a word is lost: unless one region lies within another
\* (Nested), the time of every region that is not both short and isolated is in a
\* speech segment of its speaker.
NoVoiceLost ==
    Diarized /\ ~ Nested =>
        \A i \in DOMAIN regions :
            LET r == regions[i]
                near(o) == o.start - r.end < NeighbourGap /\ r.start - o.end < NeighbourGap
            IN  /\ r.end - r.start > MinSpeech
                /\ \/ r.end - r.start >= ShortRegion
                   \/ \E j \in DOMAIN regions \ {i} : near(regions[j])
                => \E k \in DOMAIN diarized :
                      /\ diarized[k].type = Speech
                      /\ diarized[k].user_id = UserId(Kept, r.speaker)
                      /\ diarized[k].start_time <= r.start /\ r.end <= diarized[k].end_time

\* "Add noise segments between speech segments": up to the end of the last
\* speech every tick is in a segment, and noise is where nobody speaks.
Silent(x) == \A k \in DOMAIN merged : ~ Within(x, merged[k])

NoisyAt(x) == \E k \in DOMAIN diarized : diarized[k].type = Noise /\ Within(x, diarized[k])

SilenceIsNoise ==
    Diarized => \A x \in 0..FileLength - 1 :
        Silent(x) /\ (merged = <<>> \/ \E k \in DOMAIN merged : x < merged[k].end_time) => NoisyAt(x)

NoiseIsSilent == Diarized => \A x \in 0..FileLength - 1 : NoisyAt(x) => Silent(x)

\* The gaps are computed from the segment before, not from the latest end so
\* far: noise covers speech only when one speaker talks within the turn of
\* another.
NoiseOnlyOverNestedSpeech == Nested \/ NoiseIsSilent

\* The merging ends: a pass is repeated only after it made the list shorter.
PassesShrink ==
    [][diarizing = "merge" /\ diarizing' = "pass" => Len(speech') < Len(speech)]_diarizationVars
=============================================================================
