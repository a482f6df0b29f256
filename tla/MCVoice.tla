-------------------------------- MODULE MCVoice --------------------------------
(***************************************************************************)
(* The voice components for TLC.  The session sees of the socket only the  *)
(* length of the audio it is handed, so the two are explored side by side: *)
(* one rests in its initial state while the other runs.                    *)
(***************************************************************************)
EXTENDS StreamingTranscript, VoiceInput

CONSTANTS a, b, c, d, e, f, g

\* Words of two ticks that begin at these slots.
Timed(ws, slots) ==
    [n \in DOMAIN ws |->
        [text |-> ws[n], start |-> 2 * slots[n], end |-> 2 * slots[n] + 2]]

\* Words said on end and said with pauses, the longer ones longer than the window; and
\* words that are said again and again.  After a pause longer than the window come other
\* words than before it: of the same ones the session takes some for the overlap.
Recorded == {Timed(<<a, b, c, d, e, f, g>>, <<0, 1, 2, 3, 4, 5, 6>>),
             Timed(<<a, b, c, d, e, f>>, <<0, 1, 3, 4, 5, 6>>),
             Timed(<<a, b, c, d, e>>, <<0, 1, 2, 10, 11>>),
             Timed(<<a, b, c, d>>, <<7, 8, 9, 10>>),
             Timed(<<a, a, a, a, b, a, b, b>>, <<0, 1, 2, 3, 4, 5, 6, 8>>)}

\* A word that is said before and after a pause longer than the window.
SaidAgain == {Timed(<<a, b, c, c, d>>, <<0, 1, 2, 10, 11>>)}

voiceVars == <<transcriptVars, inputVars>>

VoiceInit == TranscriptInit /\ InputInit

VoiceNext ==
    \/ TranscriptNext /\ starts = 0 /\ UNCHANGED inputVars
    \/ InputNext /\ total + buffered = 0 /\ ~closed /\ UNCHANGED transcriptVars

VoiceSpec == VoiceInit /\ [][VoiceNext]_voiceVars /\ InputFairness
=============================================================================
