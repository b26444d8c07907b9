-------------------------- MODULE MCAudioServices ---------------------------
(***************************************************************************)
(* An instance of AudioServices for TLC.  For the diarization a tick is a  *)
(* quarter of a second, so the thresholds are as in the code; for the      *)
(* emotions 5 s and the padding of 1 s become 4 ticks and 1.               *)
(***************************************************************************)
EXTENDS AudioServices

\* Starts and lengths that give every kind of gap (overlap, none, a micro pause, a
\* close neighbour, none near) and of length (no word in it, short, long), also
\* regions that contain each other or start together.
Starts  == <<0, 6, 8, 14>>
Lengths == {1, 2, 4, 8}

Region(start, length, speaker) == [start |-> start, end |-> start + length, speaker |-> speaker]

Candidates == {Region(f, l, u) : f \in Range(Starts), l \in Lengths, u \in Speakers}

\* The regions of one speaker are apart.
OneVoice(s) ==
    \A i, j \in DOMAIN s :
        i < j /\ s[i].speaker = s[j].speaker => s[i].end <= s[j].start \/ s[j].end <= s[i].start

InOrder(s) == \A i \in 1..Len(s) - 1 : s[i].start <= s[i + 1].start

\* Up to three regions, pairs also in the wrong order, and four with a start each.
SomeRegions ==
    {s \in {<<>>} \cup UNION {[1..k -> Candidates] : k \in 1..3} :
        OneVoice(s) /\ (Len(s) > 2 => InOrder(s))}
    \cup
    {s \in {[i \in 1..4 |-> Region(Starts[i], l[i], u[i])] :
                l \in [1..4 -> Lengths], u \in [1..4 -> Speakers]} : OneVoice(s)}

\* A document of segments of the given types and lengths, one after the other.
Document(types, lengths) ==
    LET from[i \in 1..Len(types) + 1] == IF i = 1 THEN 0 ELSE from[i - 1] + lengths[i - 1]
    IN  [i \in DOMAIN types |->
            ResultsSegment(types[i], IF types[i] = Speech THEN -1 ELSE 0, from[i], from[i + 1])]

\* Diarization puts at most one noise segment between two speech segments.
Types(n) ==
    {types \in UNION {[1..k -> {Speech, Noise}] : k \in 1..n} :
        \A i \in 1..Len(types) - 1 : Speech \in {types[i], types[i + 1]}}

SomeDocuments == {Document(types, [i \in DOMAIN types |-> 1]) : types \in Types(4)}

SomeTranscripts ==
    UNION {{Document(types, lengths) : lengths \in [DOMAIN types -> {1, 4, 5, 9}]} : types \in Types(3)}
=============================================================================
