------------------------------ MODULE VoiceSocket ------------------------------
(***************************************************************************)
(* A recording streamed to the voice service: ws_transcribe with its       *)
(* receive loop and its decoder task, the two directions of the socket,    *)
(* and WhisperStreamRecognizer in the browser.  Audio is a number of       *)
(* frames; what StreamingSession makes of them is StreamingTranscript's    *)
(* subject, so a transcript is the number of frames it covers.  A send     *)
(* takes two steps, so that two senders could meet.                        *)
(***************************************************************************)
EXTENDS Naturals, SequencesExt

CONSTANTS
    ChunkFrames,           \* MIN_CHUNK_SECONDS, in frames
    MaxFrames,          \* MAX_SESSION_SECONDS, in frames
    MicFrames              \* bound: frames the microphone delivers

ASSUME SocketAssumption == ChunkFrames \in Nat \ {0} /\ {MaxFrames, MicFrames} \subseteq Nat

VARIABLES
    up, down,           \* messages under way to and from the service
    loop,               \* the step the receive loop is about to take
    decoder,            \* the step the decoder task is about to take
    stop,               \* the asyncio.Event
    queued, heard,      \* frames in the handler's list, and in the session
    decodeError,
    sock,               \* the recognizer's socket: "none", "opening", "open", "closed"
    sent,               \* frames the worklet has sent
    finalResolve,       \* stop() waits for the final transcript
    lastTranscript

server == <<loop, decoder, stop, queued, heard, decodeError>>
client == <<sock, sent, finalResolve, lastTranscript>>
socketVars == <<up, down, server, client>>

SocketInit ==
    /\ up = <<>> /\ down = <<>>
    /\ loop = "off" /\ decoder = "done" /\ stop = FALSE
    /\ queued = 0 /\ heard = 0 /\ decodeError = FALSE
    /\ sock = "none" /\ sent = 0 /\ finalResolve = FALSE /\ lastTranscript = 0

Message(type, n) == [type |-> type, frames |-> n]
Writing == {"greet", "write_length", "write_final", "write_error"}

-----------------------------------------------------------------------------
(* ws_transcribe *)

\* The connection is accepted and the decoder task starts.
Accept ==
    /\ sock = "opening" /\ loop = "off"
    /\ sock' = "open"
    /\ loop' = "greet" /\ decoder' = "wait"
    /\ UNCHANGED <<up, down, stop, queued, heard, decodeError, sent, finalResolve, lastTranscript>>

\* The finally clause: the decoder is cancelled and the socket closed.
Leave ==
    /\ loop' = "gone" /\ decoder' = "done" /\ stop' = TRUE

ReadDisconnect ==
    /\ loop = "receive" /\ up # <<>> /\ Head(up) = "disconnect"
    /\ Leave
    /\ up' = Tail(up)
    /\ UNCHANGED <<down, queued, heard, decodeError, client>>

\* Mutant of Read: a frame over the limit ends the recording without stop being set.
ReadUnquiesced ==
    /\ loop = "receive" /\ up # <<>> /\ Head(up) # "disconnect"
    /\ up' = Tail(up)
    /\ \/ Head(up) = "frame" /\ queued + heard < MaxFrames
          /\ queued' = queued + 1 /\ UNCHANGED <<loop, stop>>
       \/ Head(up) = "frame" /\ queued + heard >= MaxFrames
          /\ loop' = "write_length" /\ UNCHANGED <<queued, stop>>
       \/ Head(up) = "stop"
          /\ stop' = TRUE /\ loop' = "quiesce" /\ UNCHANGED queued
    /\ UNCHANGED <<down, decoder, heard, decodeError, client>>
\* A message of the client: after a decode error nothing more is read, a frame over
\* the limit or "stop" ends the recording.
Read ==
    /\ loop = "receive" /\ up # <<>> /\ Head(up) # "disconnect"
    /\ up' = Tail(up)
    /\ IF ~stop /\ Head(up) = "frame" /\ queued + heard < MaxFrames
       THEN queued' = queued + 1 /\ UNCHANGED <<loop, stop>>
       ELSE /\ stop' = TRUE
            /\ loop' = IF ~stop /\ Head(up) = "frame" THEN "length" ELSE "quiesce"
            /\ UNCHANGED queued
    /\ UNCHANGED <<down, decoder, heard, decodeError, client>>

\* await decoder
Quiesce ==
    /\ loop \in {"quiesce", "length"} /\ decoder = "done"
    /\ loop' = CASE loop = "length" -> "write_length"
                 [] decodeError     -> "write_error"
                 [] OTHER           -> "finalize"
    /\ UNCHANGED <<up, down, decoder, stop, queued, heard, decodeError, client>>

\* Mutant of Drain: only a full chunk is handed over.
DrainChunk ==
    /\ heard' = heard + ChunkFrames
    /\ queued' = queued - ChunkFrames
Drain ==
    /\ heard' = heard + queued
    /\ queued' = 0

\* drain_and_finalize on the executor; a failure is reported by the last handler.
Finalize ==
    /\ loop = "finalize"
    /\ Drain
    /\ loop' \in {"write_final", "write_error"}
    /\ UNCHANGED <<up, down, decoder, stop, decodeError, client>>

\* send_json of the receive loop; after the last message the socket is closed.
Write ==
    /\ loop \in Writing
    /\ down' = CASE loop = "greet"        -> Append(down, Message("ready", 0))
                 [] loop = "write_length" -> Append(down, Message("error", 0))
                 [] loop = "write_final"  -> down \o <<Message("final", heard), Message("close", 0)>>
                 [] loop = "write_error"  -> down \o <<Message("error", 0), Message("close", 0)>>
    /\ \/ loop = "greet" /\ loop' = "receive" /\ UNCHANGED <<decoder, stop>>
       \/ loop = "write_length" /\ loop' = "quiesce" /\ UNCHANGED <<decoder, stop>>
       \/ loop \in {"write_final", "write_error"} /\ Leave
    /\ UNCHANGED <<up, queued, heard, decodeError, client>>

\* decode_loop: a tick of 0.15 s, or stop.
DecoderStart ==
    /\ decoder = "wait"
    /\ \/ stop /\ decoder' = "done" /\ UNCHANGED <<queued, heard>>
       \/ ~stop /\ queued >= ChunkFrames /\ decoder' = "decoding" /\ Drain
    /\ UNCHANGED <<up, down, loop, stop, decodeError, client>>

DecoderEnd ==
    /\ decoder = "decoding"
    /\ \/ decoder' = (IF stop THEN "done" ELSE "writing") /\ UNCHANGED <<stop, decodeError>>
       \/ decoder' = "done" /\ stop' = TRUE /\ decodeError' = TRUE
    /\ UNCHANGED <<up, down, loop, queued, heard, client>>

DecoderWrite ==
    /\ decoder = "writing"
    /\ decoder' = "wait"
    /\ down' = Append(down, Message("partial", heard))
    /\ UNCHANGED <<up, loop, stop, queued, heard, decodeError, client>>

ServerNext ==
    \/ ReadDisconnect \/ Read \/ Quiesce \/ Finalize \/ Write
    \/ DecoderStart \/ DecoderEnd \/ DecoderWrite

-----------------------------------------------------------------------------
(* WhisperStreamRecognizer *)

\* openSocket, to a handler of its own.
OpenSocket ==
    /\ loop \in {"off", "gone"}
    /\ sock' = "opening"
    /\ up' = <<>> /\ down' = <<>>
    /\ loop' = "off" /\ decoder' = "done" /\ stop' = FALSE
    /\ queued' = 0 /\ heard' = 0 /\ decodeError' = FALSE
    /\ sent' = 0 /\ finalResolve' = FALSE /\ lastTranscript' = 0

\* cleanup: the handlers are taken off and the socket is closed.
Cleanup ==
    /\ sock' = "none"
    /\ up' = IF sock = "open" THEN Append(up, "disconnect") ELSE up

\* The worklet delivers a frame.
Frame ==
    /\ sock = "open" /\ sent < MicFrames
    /\ sent' = sent + 1
    /\ up' = Append(up, "frame")
    /\ UNCHANGED <<down, server, sock, finalResolve, lastTranscript>>

\* stop on an open socket: send "stop" and wait for the final transcript.
AskFinal ==
    /\ up' = Append(up, "stop")
    /\ finalResolve' = TRUE
    /\ UNCHANGED <<down, server, sock, sent, lastTranscript>>

\* FINALIZE_TIMEOUT_MS
FinalTimeout ==
    /\ finalResolve
    /\ finalResolve' = FALSE
    /\ UNCHANGED <<up, down, server, sock, sent, lastTranscript>>

\* Mutant of Closed: a close does not release stop().
ClosedSilently ==
    /\ sock' = "closed"
    /\ UNCHANGED finalResolve
\* onclose
Closed ==
    /\ sock' = "closed"
    /\ finalResolve' = FALSE
=============================================================================
