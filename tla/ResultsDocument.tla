-------------------------- MODULE ResultsDocument ---------------------------
(***************************************************************************)
(* The Results document the AI services pass on to each other              *)
(* (src/models/results.py): the segments of an audio file, with times in   *)
(* ticks of the clock the instance chooses.  Texts and emotions are added  *)
(* by later services and kept by them.                                     *)
(***************************************************************************)
EXTENDS Integers, Sequences, SequencesExt

Speech == "speech"
Noise  == "noise"

\* user_id is 0 for noise and negative for the speakers of the file.
ResultsSegment(type, user, from, to) ==
    [type |-> type, user_id |-> user, start_time |-> from, end_time |-> to]

Segments == [type : {Speech, Noise}, user_id : Int, start_time : Nat, end_time : Nat]

\* The numbers of T up to n, in their order: a loop that appends to a list what
\* passes a test.
Ascending(n, T) ==
    LET upto[i \in 0..n] == IF i = 0 THEN <<>>
                            ELSE IF i \in T THEN Append(upto[i - 1], i) ELSE upto[i - 1]
    IN  upto[n]

\* The positions of the speech segments: enumerate(existing_results.segments)
\* with the test on the type.
SpeechPositions(segments) ==
    Ascending(Len(segments), {i \in DOMAIN segments : segments[i].type = Speech})

\* x lies in segment s.  Tick x is the time between x and x + 1.
Within(x, s) == s.start_time <= x /\ x < s.end_time
=============================================================================
