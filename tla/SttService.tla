----------------------------- MODULE SttService -----------------------------
(***************************************************************************)
(* SttService._run_inference and _perform_streaming (src/services/         *)
(* stt_service_nemo.py) of one worker process over the jobs it takes, one  *)
(* after the other.  The streaming buffer belongs to the process and       *)
(* outlives a job.  The audio of segment i of job j is <<j, i>>, and its   *)
(* transcript carries the same name; the model may raise at any call.      *)
(***************************************************************************)
EXTENDS ResultsDocument, FiniteSets

CONSTANTS
    Documents,          \* lists of segments a job may bring
    MaxJobs,            \* bound: jobs the process takes
    SttBatchSize        \* batch_size

ASSUME SttAssumption ==
    /\ MaxJobs \in Nat /\ SttBatchSize \in Nat \ {0}
    /\ \A segments \in Documents : segments \in Seq(Segments)

VARIABLES
    job,                \* number of jobs taken
    transcribing,       \* where the inference is
    document,           \* existing_results.segments
    batches,            \* segment_batches_idxs, those not yet processed
    position,           \* segments of the first of them in the buffer
    streams,            \* the streaming buffer
    texts,              \* segments[i].text, NoText where there is none
    answers             \* what the inference of each job returned

sttVars == <<job, transcribing, document, batches, position, streams, texts, answers>>

NoText == <<>>

SttInit ==
    /\ job = 0
    /\ transcribing = "idle"
    /\ document = <<>>
    /\ batches = <<>>
    /\ position = 0
    /\ streams = <<>>
    /\ texts = <<>>
    /\ answers = <<>>

\* Mutant: the batch that is left over is forgotten.
FullBatchesOnly(segments) ==
    LET ids == SpeechPositions(segments)
    IN  [b \in 1..(Len(ids) \div SttBatchSize) |->
            SubSeq(ids, (b - 1) * SttBatchSize + 1, b * SttBatchSize)]

\* Mutant: what is left is appended, and then once more nothing.
BatchesAndEmpty(segments) ==
    LET ids == SpeechPositions(segments)
    IN  [b \in 1..(Len(ids) \div SttBatchSize + 2) |->
            SubSeq(ids, (b - 1) * SttBatchSize + 1,
                   IF b * SttBatchSize < Len(ids) THEN b * SttBatchSize ELSE Len(ids))]

\* Full batches of speech segments, then one with what is left, if only
\* nothing: len(cur_batch) <= batch_size always holds.
Batches(segments) ==
    LET ids == SpeechPositions(segments)
    IN  [b \in 1..(Len(ids) \div SttBatchSize + 1) |->
            SubSeq(ids, (b - 1) * SttBatchSize + 1,
                   IF b * SttBatchSize < Len(ids) THEN b * SttBatchSize ELSE Len(ids))]

TakeDocument ==
    /\ transcribing = "idle"
    /\ job < MaxJobs
    /\ job' = job + 1
    /\ \E segments \in Documents :
          /\ document' = segments
          /\ batches' = Batches(segments)
          /\ texts' = [i \in DOMAIN segments |-> NoText]
    /\ position' = 0
    /\ transcribing' = "append"
    /\ UNCHANGED <<streams, answers>>

\* append_audio(stream_id=-1): a stream of its own for every segment.
AppendAudio ==
    /\ transcribing = "append"
    /\ batches # <<>>
    /\ position < Len(Head(batches))
    /\ streams' = Append(streams, <<job, Head(batches)[position + 1]>>)
    /\ position' = position + 1
    /\ UNCHANGED <<job, transcribing, document, batches, texts, answers>>

\* Mutant: the buffer is not reset after a batch.
StreamWithoutReset ==
    /\ transcribing = "append"
    /\ batches # <<>>
    /\ position = Len(Head(batches))
    /\ streams # <<>>
    /\ texts' = [i \in DOMAIN texts |->
                    LET r == SelectInSeq(Head(batches), LAMBDA p : p = i)
                    IN  IF r = 0 THEN texts[i] ELSE streams[r]]
    /\ batches' = Tail(batches)
    /\ position' = 0
    /\ UNCHANGED <<job, transcribing, document, streams, answers>>

\* _perform_streaming over the whole buffer, its reset, and the assignment of
\* the first transcripts to the segments of the batch.
Stream ==
    /\ transcribing = "append"
    /\ batches # <<>>
    /\ position = Len(Head(batches))
    /\ streams # <<>>
    /\ texts' = [i \in DOMAIN texts |->
                    LET r == SelectInSeq(Head(batches), LAMBDA p : p = i)
                    IN  IF r = 0 THEN texts[i] ELSE streams[r]]
    /\ streams' = <<>>
    /\ batches' = Tail(batches)
    /\ position' = 0
    /\ UNCHANGED <<job, transcribing, document, answers>>

\* The answer of a job: its status, whether the model raised, its texts.
Answered(status, raised) ==
    /\ answers' = Append(answers, [status |-> status, raised |-> raised, texts |-> texts,
                                   spoken |-> Len(SpeechPositions(document))])
    /\ transcribing' = "idle"
    /\ UNCHANGED <<job, document, batches, position, texts>>

\* There is no stream to process: len(None), an exception.
StreamNothing ==
    /\ transcribing = "append"
    /\ batches # <<>>
    /\ Head(batches) = <<>>
    /\ streams = <<>>
    /\ Answered("failed", FALSE)
    /\ UNCHANGED streams

\* Mutant: an exception clears the buffer.
SttRaisesAndResets ==
    /\ transcribing = "append"
    /\ batches # <<>>
    /\ Answered("failed", TRUE)
    /\ streams' = <<>>

\* append_audio or the model raises: the buffer stays as it is.
SttRaises ==
    /\ transcribing = "append"
    /\ batches # <<>>
    /\ Answered("failed", TRUE)
    /\ UNCHANGED streams

SttEnds ==
    /\ transcribing = "append"
    /\ batches = <<>>
    /\ Answered("success", FALSE)
    /\ UNCHANGED streams

SttNext == TakeDocument \/ AppendAudio \/ Stream \/ StreamNothing \/ SttRaises \/ SttEnds

-----------------------------------------------------------------------------
(* Properties                                                              *)

SttTypeOK ==
    /\ job \in 0..MaxJobs /\ Len(answers) \in {job - 1, job} \cap Nat
    /\ transcribing \in {"idle", "append"}
    /\ \A b \in DOMAIN batches : \A k \in DOMAIN batches[b] :
          batches[b][k] \in DOMAIN document /\ document[batches[b][k]].type = Speech
    /\ position \in 0..SttBatchSize
    /\ \A r \in DOMAIN streams : streams[r][1] \in 1..job
    /\ DOMAIN texts = DOMAIN document

Successes == {j \in DOMAIN answers : answers[j].status = "success"}
Raised(j) == j \in DOMAIN answers /\ answers[j].raised

\* A transcript that is answered belongs to its own segment, unless the model
\* raised in the job just before: then the streams that job had appended are
\* still in the buffer, and their transcripts go to the segments of this one.
\* One success is enough to clear it.
TextsAreOwn ==
    \A j \in Successes : ~ Raised(j - 1) =>
        \A i \in DOMAIN answers[j].texts : answers[j].texts[i] \in {NoText, <<j, i>>}

\* A job answered with success has a transcript for each of its speech segments.
EverySpeechTranscribed ==
    \A j \in Successes :
        Cardinality({i \in DOMAIN answers[j].texts : answers[j].texts[i] # NoText}) = answers[j].spoken

\* README: "it processes different audio deep learning models on this audio
\* including ... ASR".  A job in which the model does not raise is answered with
\* its transcripts.
FailsOnlyWithTheModel == \A j \in DOMAIN answers : answers[j].raised \/ j \in Successes

\* Without help of the model a job fails only when its speech segments fill
\* their batches exactly: the empty batch at the end has nothing to stream.  (A
\* streaming that yields no step, for want of anything unread in the buffer, raises
\* too; that is the model's doing here, as every raise in _perform_streaming.)
FailsOnlyOnFullBatches ==
    \A j \in DOMAIN answers :
        answers[j].raised \/ j \in Successes \/ answers[j].spoken % SttBatchSize = 0
=============================================================================
