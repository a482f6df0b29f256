------------------------------- MODULE VoiceInput -------------------------------
(***************************************************************************)
(* useVoiceInput as VoiceRecorder drives it: one microphone graph, the     *)
(* browser's recognizer or the voice service behind VoiceSocket, and the   *)
(* fallback from one to the other.  start, stop and the failure handler    *)
(* are coroutines: what they read before an await may have changed after   *)
(* it.  Text is a number of words; for the service, of frames it heard.    *)
(***************************************************************************)
EXTENDS VoiceSocket

CONSTANTS
    Disturbances,       \* what may happen at a bad moment: see below
    MaxStarts           \* bound: recordings

\* While an engine starts the user clicks or leaves, or the connection is lost; a
\* recognizer that was given up delivers late; the browser's cannot be restarted
\* after a silence.
ASSUME InputAssumption ==
    /\ Disturbances \subseteq {"click", "leave", "loss", "late", "restart"}
    /\ MaxStarts \in Nat

VARIABLES
    preferred,          \* "browser" if isBrowserSpeechSupported
    status, active, mounted,
    graph, mics,        \* graphRef is set; microphone graphs that are open
    starting,           \* what start() awaits: "no", "mic", "first", "probe", "second"
    swapping,           \* the failure handler awaits the service
    stopping,           \* stop() awaits the recognizer
    recognizer,         \* recognizerRef: "none", "browser", "server"
    browser,            \* the browser's recognizer: "off", "starting", "running", "ending", "late"
    words,              \* what it has recognised
    base, current,      \* sessionBaseRef, currentTextRef
    shown,              \* what onTranscript was given last
    starts

refs == <<graph, mics, recognizer>>
coroutines == <<starting, swapping, stopping>>
texts == <<words, base, current, shown>>
inputVars == <<socketVars, preferred, status, active, mounted, refs, coroutines, browser, texts, starts>>

InputInit ==
    /\ SocketInit
    /\ preferred \in {"browser", "server"}
    /\ status = "idle" /\ active = FALSE /\ mounted = TRUE
    /\ graph = FALSE /\ mics = 0 /\ recognizer = "none"
    /\ starting = "no" /\ swapping = FALSE /\ stopping = FALSE
    /\ browser = "off"
    /\ words = 0 /\ base = 0 /\ current = 0 /\ shown = 0 /\ starts = 0

Settled == starting = "no" /\ ~swapping

Emit(n) == current' = n /\ shown' = base + n

\* Mutant of Teardown: the graph is forgotten and not closed.
TeardownForgets == recognizer' = "none" /\ graph' = FALSE /\ UNCHANGED mics
Teardown ==
    /\ recognizer' = "none" /\ graph' = FALSE
    /\ mics' = IF graph THEN mics - 1 ELSE mics

\* setError, setStatus("error") and teardown
GiveUp == active' = FALSE /\ status' = "error" /\ Teardown

StartEngine(target) ==
    /\ recognizer' = target
    /\ current' = 0
    /\ IF target = "browser" THEN browser' = "starting" /\ UNCHANGED socketVars
       ELSE browser' = "off" /\ OpenSocket
    /\ UNCHANGED <<words, shown>>

-----------------------------------------------------------------------------
(* start *)

Start ==
    /\ mounted /\ ~active /\ starting = "no" /\ status # "finalizing" /\ starts < MaxStarts
    /\ "late" \in Disturbances \/ (loop \in {"off", "gone"} /\ down = <<>> /\ browser = "off")
    /\ active' = TRUE /\ status' = "requesting-mic" /\ starting' = "mic"
    /\ words' = 0 /\ base' = 0 /\ current' = 0 /\ shown' = 0
    /\ lastTranscript' = 0 /\ starts' = starts + 1
    /\ UNCHANGED <<up, down, server, sock, sent, finalResolve, preferred, mounted, refs, swapping,
                   stopping, browser>>

MicOpened ==
    /\ starting = "mic" /\ starting' = "first"
    /\ graph' = TRUE /\ mics' = mics + 1 /\ status' = "connecting"
    /\ StartEngine(preferred)
    /\ UNCHANGED <<preferred, active, mounted, swapping, stopping, base, starts>>

MicDenied ==
    /\ starting = "mic" /\ starting' = "no"
    /\ active' = FALSE /\ status' = "error"
    /\ UNCHANGED <<socketVars, preferred, mounted, refs, swapping, stopping, browser, texts, starts>>

\* The engine that is awaited, by start() or by the failure handler, is ready.
EngineReady ==
    /\ \/ starting = "first" /\ recognizer = "browser" /\ browser = "starting" /\ browser' = "running"
       \/ /\ starting \in {"first", "second"} \/ swapping
          /\ recognizer = "server" /\ sock \in {"open", "closed"}
          /\ UNCHANGED browser
    /\ status' = "listening"
    /\ IF swapping THEN swapping' = FALSE /\ UNCHANGED starting
       ELSE starting' = "no" /\ UNCHANGED swapping
    /\ UNCHANGED <<socketVars, preferred, active, mounted, refs, stopping, texts, starts>>

\* The first engine does not start: the service is probed, unless the browser's
\* error says that it would not help.
FirstFails ==
    /\ starting = "first"
    /\ \/ recognizer = "browser" /\ browser = "starting" /\ UNCHANGED sock
       \/ recognizer = "server" /\ sock = "opening" /\ sock' = "none"
    /\ browser' = "off"
    /\ \/ /\ starting' = "probe" /\ recognizer' = "none"
          /\ UNCHANGED <<active, status, graph, mics>>
       \/ starting' = "no" /\ recognizer = "browser" /\ GiveUp
    /\ UNCHANGED <<up, down, server, sent, finalResolve, lastTranscript, preferred, mounted,
                   swapping, stopping, texts, starts>>

Probe ==
    /\ starting = "probe"
    /\ \/ /\ starting' = "second" /\ StartEngine("server")
          /\ UNCHANGED <<active, status, graph, mics>>
       \/ starting' = "no" /\ GiveUp /\ UNCHANGED <<socketVars, browser, words, current, shown>>
    /\ UNCHANGED <<preferred, mounted, swapping, stopping, base, starts>>

\* The service does not start for the second attempt or for the failure handler.
ServiceFails ==
    /\ starting = "second" \/ swapping
    /\ sock = "opening" /\ sock' = "none"
    /\ starting' = "no" /\ swapping' = FALSE
    /\ GiveUp
    /\ UNCHANGED <<up, down, server, sent, finalResolve, lastTranscript, preferred, mounted,
                   stopping, browser, texts, starts>>

-----------------------------------------------------------------------------
(* handleEngineFailure *)

\* Mutant of Promote: what the failed engine recognised is dropped.
PromoteNothing == UNCHANGED base
Promote == base' = base + current

\* Only a recoverable failure of the browser's recognizer is handed to the service.
FallBack ==
    /\ active /\ ~swapping /\ graph
    /\ swapping' = TRUE /\ status' = "connecting"
    /\ Promote /\ StartEngine("server")
    /\ UNCHANGED <<active, graph, mics>>

Fail ==
    IF active /\ ~swapping THEN GiveUp ELSE UNCHANGED <<active, status, refs>>

BrowserFails ==
    /\ browser = "running"
    /\ \/ FallBack
       \/ Fail /\ browser' = "off" /\ UNCHANGED <<socketVars, swapping, texts>>
    /\ UNCHANGED <<preferred, mounted, starting, stopping, starts>>

BrowserHears ==
    /\ browser \in {"running", "ending", "late"} /\ words < MicFrames
    /\ words' = words + 1
    /\ Emit(words')
    /\ UNCHANGED <<socketVars, preferred, status, active, mounted, refs, coroutines, browser, base,
                   starts>>

ServiceHears ==
    /\ active /\ Settled /\ recognizer = "server"
    /\ Frame
    /\ UNCHANGED <<preferred, status, active, mounted, refs, coroutines, browser, texts, starts>>

\* handleMessage and onclose
Deliver ==
    /\ sock = "open" /\ down # <<>>
    /\ down' = Tail(down)
    /\ LET m == Head(down) IN
       \/ /\ m.type \in {"partial", "final"}
          /\ lastTranscript' = m.frames /\ Emit(m.frames)
          /\ finalResolve' = (finalResolve /\ m.type = "partial")
          /\ UNCHANGED <<sock, active, status, refs>>
       \/ m.type = "error" /\ Fail /\ UNCHANGED <<sock, finalResolve, lastTranscript, current, shown>>
       \/ m.type = "close" /\ Closed
          /\ UNCHANGED <<lastTranscript, current, shown, active, status, refs>>
       \/ m.type = "ready"
          /\ UNCHANGED <<sock, finalResolve, lastTranscript, current, shown, active, status, refs>>
    /\ UNCHANGED <<up, server, sent, preferred, mounted, coroutines, browser, words, base, starts>>

ConnectionLost ==
    /\ sock = "open" /\ (Settled \/ "loss" \in Disturbances)
    /\ Closed /\ Fail
    /\ up' = Append(up, "disconnect") /\ down' = <<>>
    /\ UNCHANGED <<server, sent, lastTranscript, preferred, mounted, coroutines, browser, texts, starts>>

-----------------------------------------------------------------------------
(* stop, and leaving the page *)

Stop ==
    /\ mounted /\ active /\ status # "finalizing" /\ (Settled \/ "click" \in Disturbances)
    /\ active' = FALSE /\ status' = "finalizing" /\ stopping' = TRUE
    /\ IF recognizer = "server" /\ sock = "open" THEN AskFinal ELSE UNCHANGED socketVars
    /\ browser' = IF browser = "running" THEN "ending" ELSE browser
    /\ UNCHANGED <<preferred, mounted, refs, starting, swapping, texts, starts>>

\* onend, or after stop the guard of 1.5 s against it.
BrowserEnds ==
    /\ \/ browser = "running" /\ "restart" \in Disturbances /\ browser' = "off"
       \/ browser = "ending" /\ browser' \in {"off"} \cup ({"late"} \cap Disturbances)
       \/ browser = "late" /\ browser' = "off"
    /\ Emit(words)
    /\ UNCHANGED <<socketVars, preferred, status, active, mounted, refs, coroutines, words, base,
                   starts>>

Timeout ==
    /\ FinalTimeout
    /\ UNCHANGED <<preferred, status, active, mounted, refs, coroutines, browser, texts, starts>>

StopDone ==
    /\ stopping /\ browser # "ending" /\ ~finalResolve
    /\ stopping' = FALSE /\ status' = "idle"
    /\ base' = base + current /\ current' = 0
    /\ IF recognizer = "server" THEN Cleanup ELSE UNCHANGED <<up, sock>>
    /\ Teardown
    /\ UNCHANGED <<down, server, sent, finalResolve, lastTranscript, preferred, active, mounted,
                   starting, swapping, browser, words, shown, starts>>

Unmount ==
    /\ mounted /\ (Settled \/ "leave" \in Disturbances)
    /\ mounted' = FALSE /\ active' = FALSE
    /\ browser' = "off"
    /\ IF recognizer = "server" THEN Cleanup ELSE UNCHANGED <<up, sock>>
    /\ graph' = FALSE /\ mics' = IF graph THEN mics - 1 ELSE mics
    /\ UNCHANGED <<down, server, sent, finalResolve, lastTranscript, preferred, status, recognizer,
                   coroutines, texts, starts>>

Service ==
    /\ Accept \/ ServerNext
    /\ UNCHANGED <<preferred, status, active, mounted, refs, coroutines, browser, texts, starts>>

InputNext ==
    \/ Start \/ MicOpened \/ MicDenied \/ EngineReady \/ FirstFails \/ Probe \/ ServiceFails
    \/ BrowserFails \/ BrowserHears \/ ServiceHears \/ Deliver \/ ConnectionLost
    \/ Stop \/ BrowserEnds \/ Timeout \/ StopDone \/ Unmount \/ Service

InputFairness ==
    /\ WF_inputVars(Service) /\ WF_inputVars(Deliver)
    /\ WF_inputVars(BrowserEnds) /\ WF_inputVars(StopDone)

-----------------------------------------------------------------------------
(* Properties *)

\* The microphone is open only while a mounted component records, and a component
\* that says it listens has its microphone and an engine that is running
\* (useVoiceInput, every path of start, stop and handleEngineFailure).
MicFollowsStatus ==
    /\ ~mounted \/ status \in {"idle", "error"} => mics = 0
    /\ mounted /\ status = "listening" =>
          /\ active /\ mics = 1
          /\ \/ recognizer = "browser" /\ browser = "running"
             \/ recognizer = "server" /\ sock = "open"

\* useVoiceInput.ts:279: "Never leave the microphone open behind an unmounted
\* component", once start() and the failure handler have come to their end.
MicReleased == ~mounted /\ Settled => mics = 0

\* Whatever the engines of a recording recognised is shown once, across the
\* fallback, the final transcript and the end (sessionBaseRef, currentTextRef).
TextOnce == shown = words + lastTranscript

\* A final transcript covers every frame sent before the recording ended.
FinalHoldsAll ==
    \A m \in Range(down) : m.type = "final" => m.frames = Min({sent, MaxFrames})

\* main.py: "two coroutines must never write to the socket at the same time"
OneWriter == ~(decoder = "writing" /\ loop \in Writing)

\* stop() comes to its end without the timeout on the final transcript: the service
\* answers or closes.
StopAnswered == stopping ~> ~(stopping /\ mounted)
=============================================================================
