--------------------------- MODULE AudioServices ----------------------------
(***************************************************************************)
(* The AI services (src/services): a worker process loads one of them and  *)
(* runs its inference in a thread, one job at a time.  The services share  *)
(* nothing but the document that travels through the broker.               *)
(***************************************************************************)
EXTENDS DiarizationService, SttService, EmotionService

VARIABLE service        \* the service this worker process has loaded

vars == <<service, diarizationVars, sttVars, emotionVars>>

Services == {"diarization", "stt", "emotion"}

Init ==
    /\ service \in Services
    /\ DiarizationInit
    /\ SttInit
    /\ EmotionInit

Diarization == service = "diarization" /\ DiarizationNext /\ UNCHANGED <<service, sttVars, emotionVars>>
Stt         == service = "stt"         /\ SttNext         /\ UNCHANGED <<service, diarizationVars, emotionVars>>
Emotion     == service = "emotion"     /\ EmotionNext     /\ UNCHANGED <<service, diarizationVars, sttVars>>

Next == Diarization \/ Stt \/ Emotion

Spec == Init /\ [][Next]_vars

TypeOK == service \in Services /\ DiarizationTypeOK /\ SttTypeOK /\ EmotionTypeOK
=============================================================================
