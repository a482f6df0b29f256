-------------------------- MODULE StreamingTranscript --------------------------
(***************************************************************************)
(* transcriber.StreamingSession: the transcript of a recording while it is *)
(* being made.  Audio is a length in ticks.  What is said is a sequence of *)
(* words, each with its times, chosen at the start.  Whisper is external:  *)
(* it reports every word that lies wholly in the window it is handed,      *)
(* right and with exact times; of a word the window's edge cuts it reports *)
(* nothing, something Garbled, or the word.  A tick is more than the 0.1 s *)
(* by which the timestamp filter errs.                                     *)
(***************************************************************************)
EXTENDS Naturals, SequencesExt

CONSTANTS
    Vocabulary, Garbled,
    Speeches,           \* what may be said
    MaxAudio,           \* bound: length of a recording
    MinChunk,           \* MIN_CHUNK_SECONDS
    FinalizeMin,        \* FINALIZE_MIN_NEW_AUDIO_SECONDS
    MaxWindow,          \* MAX_WINDOW_SECONDS
    ContextWords,       \* WINDOW_CONTEXT_WORDS
    MaxOverlap,         \* 8 in _drop_already_committed
    MaxBacklog          \* bound: audio that arrives while one decode runs

ASSUME TranscriptAssumption ==
    /\ {MinChunk, ContextWords, MaxOverlap} \subseteq Nat \ {0}
    /\ {MaxAudio, FinalizeMin, MaxWindow, MaxBacklog} \subseteq Nat
    /\ MinChunk <= MaxBacklog
    /\ ContextWords <= MaxOverlap

\* dataclass Word, for a word that is said.
Spoken == [text : Vocabulary, start : Nat, end : Nat]

\* One word after the other, none longer than the audio a decode waits for.
OneByOne(s) ==
    /\ \A n \in DOMAIN s : s[n].start < s[n].end /\ s[n].end <= s[n].start + MinChunk
    /\ \A m, n \in DOMAIN s : m < n => s[m].end <= s[n].start

\* The overlap is found by text alone: nothing is said over and over so often that the
\* words of a window match the committed ones in two ways (with 3 words of context, no
\* word five times in a row, no two words for seven words on end).
NoStutter(s) ==
    \A p \in 1 .. MaxOverlap - ContextWords, i \in DOMAIN s :
        i + ContextWords + 2 * p - 1 <= Len(s) =>
            \E k \in i .. i + ContextWords + p - 1 : s[k].text # s[k + p].text

ASSUME SpeechAssumption ==
    /\ Garbled \notin Vocabulary
    /\ \A s \in Speeches : s \in Seq(Spoken) /\ OneByOne(s) /\ NoStutter(s)

VARIABLES
    speech,             \* what is being said
    buffered,           \* audio the socket has received and not yet handed over
    origin, total,      \* the session holds the audio from origin to total
    committed, pending, \* _committed and _pending
    closed,
    capped              \* history: the hard cap has cut the window

audio == <<buffered, origin, total>>
transcriptVars == <<speech, audio, committed, pending, closed, capped>>

TranscriptInit ==
    /\ speech \in Speeches
    /\ buffered = 0 /\ origin = 0 /\ total = 0
    /\ committed = <<>> /\ pending = <<>>
    /\ closed = FALSE /\ capped = FALSE

-----------------------------------------------------------------------------
(* Whisper *)

\* The words that lie wholly between from and to.
Heard(from, to) ==
    LET ns == {n \in DOMAIN speech : from <= speech[n].start /\ speech[n].end <= to}
    IN  IF ns = {} THEN <<>> ELSE SubSeq(speech, Min(ns), Max(ns))

\* What Whisper may make of the word that an edge of the window cuts, if one does.
Readings(edge, from, to) ==
    {<<>>} \cup UNION {
        LET w == speech[n]
        IN  {<<[text |-> t, start |-> Max({from, w.start}), end |-> Min({to, w.end})]>> :
                t \in {w.text, Garbled}} :
        n \in {n \in DOMAIN speech : speech[n].start < edge /\ edge < speech[n].end}}

\* _run_whisper over the window and _shift onto the session's timeline.
Hypotheses(from, to) ==
    {left \o Heard(from, to) \o right :
        left \in Readings(from, from, to), right \in Readings(to, from, to)}

-----------------------------------------------------------------------------
(* The words of a hypothesis *)

\* _normalise and the comparison of two words: words are equal or they are not.
Texts(ws) == [i \in DOMAIN ws |-> ws[i].text]

\* The last n committed words are the first n of a hypothesis.
RepeatsLast(n, h) ==
    SubSeq(Texts(committed), Len(committed) - n + 1, Len(committed)) = SubSeq(Texts(h), 1, n)

\* Mutant of Overlap: the scan for a match stops one word short.
ShortOverlap(h) ==
    Max({0} \cup {n \in 2 .. Min({Len(committed), Len(h), MaxOverlap}) : RepeatsLast(n, h)})
\* How many words at the head of a hypothesis repeat the last committed ones.
Overlap(h) ==
    Max({0} \cup {n \in 1 .. Min({Len(committed), Len(h), MaxOverlap}) : RepeatsLast(n, h)})

\* The longest match is stripped; with none, the words that end before the last
\* committed one are.
DropAlreadyCommitted(h) ==
    IF committed = <<>> \/ Overlap(h) > 0 THEN SubSeq(h, Overlap(h) + 1, Len(h))
    ELSE SelectSeq(h, LAMBDA w : w.end >= Last(committed).end)

\* How many words the last hypothesis and this one have in common at their heads.
Agreed(h) ==
    Max({n \in 0 .. Min({Len(pending), Len(h)}) :
            SubSeq(Texts(pending), 1, n) = SubSeq(Texts(h), 1, n)})

\* Only what the last hypothesis said as well is committed.
CommitAgreedPrefix(h) ==
    /\ committed' = committed \o SubSeq(h, 1, Agreed(h))
    /\ pending' = SubSeq(h, Agreed(h) + 1, Len(h))

\* The onset of the ContextWords-th committed word from the end, if there is one.
ContextOnset ==
    {committed'[Max({1, Len(committed') - ContextWords + 1})].start : i \in DOMAIN committed'}

ForcedCut == IF total' - origin > MaxWindow THEN {total' - MaxWindow} ELSE {}

TrimWindow == origin' = Min({total', Max({origin} \cup ContextOnset \cup ForcedCut)})

-----------------------------------------------------------------------------
(* Receiving, decoding, finalizing *)

\* A frame arrives.
Receive ==
    /\ ~closed
    /\ total + buffered < MaxAudio
    /\ buffered < MaxBacklog
    /\ buffered' = buffered + 1
    /\ UNCHANGED <<speech, origin, total, committed, pending, closed, capped>>

\* drain and add_pcm
AddPcm ==
    /\ total' = total + buffered
    /\ buffered' = 0

DrainAndDecode ==
    /\ ~closed
    /\ buffered >= MinChunk
    /\ AddPcm
    /\ \E h \in Hypotheses(origin, total') : CommitAgreedPrefix(DropAlreadyCommitted(h))
    /\ TrimWindow
    /\ capped' = (capped \/ origin' \in ForcedCut)
    /\ UNCHANGED <<speech, closed>>

\* Too little new audio to pay for a decode promotes the standing partial.
Flush ==
    IF buffered > 0 /\ buffered >= FinalizeMin
    THEN \E h \in Hypotheses(origin, total') : committed' = committed \o DropAlreadyCommitted(h)
    ELSE committed' = committed \o pending

DrainAndFinalize ==
    /\ ~closed
    /\ closed' = TRUE
    /\ AddPcm
    /\ Flush
    /\ pending' = <<>>
    /\ origin' = total'
    /\ UNCHANGED <<speech, capped>>

TranscriptNext == Receive \/ DrainAndDecode \/ DrainAndFinalize

TranscriptSpec == TranscriptInit /\ [][TranscriptNext]_transcriptVars

-----------------------------------------------------------------------------
(* Properties *)

\* The elements of s occur in t in their order.
Embeds(s, t) ==
    \E at \in [DOMAIN s -> DOMAIN t] :
        /\ \A i, j \in DOMAIN s : i < j => at[i] < at[j]
        /\ \A i \in DOMAIN s : t[at[i]] = s[i]

Said == Texts(speech)

\* While the recording runs: what is committed is what was said from its start, no
\* word lost, repeated, garbled or out of order, whatever later windows make of it;
\* and no audio is thrown away before its words are committed.  Once the hard cap has
\* cut the window inside a committed word, a word may be committed twice.
LiveTranscript ==
    ~closed /\ ~capped =>
        /\ IsPrefix(Texts(committed), Said)
        /\ \A n \in DOMAIN Said : n > Len(committed) => origin <= speech[n].start

\* "Everything still in the window becomes committed" (finalize): the final transcript has
\* every word said up to the sliver of audio that finalize does not pay a decode for, in
\* order.
EverythingCommitted ==
    closed => Embeds(Texts(Heard(0, total + 1 - Max({1, FinalizeMin}))), Texts(committed))

\* It has everything; and nothing else, except a guess at the word that the end of the
\* recording cuts, unless the hard cap had to cut.
FinalTranscript ==
    /\ EverythingCommitted
    /\ closed /\ ~capped => \E said \in Prefixes(Said) :
                               Texts(committed) \in {said, Append(said, Garbled)}

\* A recording is transcribed as it was spoken, at every moment of it and at its end.
TranscriptTrue == LiveTranscript /\ FinalTranscript
=============================================================================
