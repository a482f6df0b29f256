------------------------------- MODULE VoiceProofs -------------------------------
(***************************************************************************)
(* Recording.  For recordings of any length and any size of chunk: the two *)
(* coroutines of a recording never write to its socket at once, a final    *)
(* transcript leaves out no frame that was sent before the recording       *)
(* ended, what is shown is what was recognised, once, and the microphone   *)
(* is open exactly while the hook records.                                 *)
(* Transcribing.  For whatever is said, and any window, chunk, context and *)
(* backlog that the assumptions allow: what the session commits is what    *)
(* was said, as long as the hard cap does not cut its window.              *)
(***************************************************************************)
EXTENDS StreamingTranscript, VoiceInput, SequenceTheorems, WellFoundedInduction, TLAPS

InputSpec == InputInit /\ [][InputNext]_inputVars

\* Where the coroutines are, and what the handler counts.
HandlerOK ==
    /\ loop \in {"off", "greet", "receive", "quiesce", "length", "finalize",
                 "write_length", "write_final", "write_error", "gone"}
    /\ decoder \in {"wait", "decoding", "writing", "done"}
    /\ queued \in Nat /\ heard \in Nat

\* Until the handler has greeted nothing is queued, so the decoder has nothing to say;
\* from then on the receive loop writes only after it has awaited the decoder's end.
TakeTurns ==
    /\ loop \in {"off", "greet"} => queued = 0
    /\ loop = "greet" => decoder \in {"wait", "done"}
    /\ loop \in {"off", "finalize", "write_length", "write_final", "write_error"} =>
          decoder = "done"

WriterInv == HandlerOK /\ TakeTurns

-----------------------------------------------------------------------------
\* Only the service's own steps and the opening of a socket touch the handler.
LEMMA HandlerSteps ==
    ASSUME [InputNext]_inputVars
    PROVE  Accept \/ ServerNext \/ OpenSocket \/ UNCHANGED server
<1>1. CASE \/ Start \/ MicDenied \/ EngineReady \/ FirstFails \/ ServiceFails
           \/ BrowserHears \/ Deliver
  BY <1>1 DEF Start, MicDenied, EngineReady, FirstFails, ServiceFails, BrowserHears, Deliver,
              socketVars
<1>2. CASE MicOpened \/ Probe
  BY <1>2 DEF MicOpened, Probe, StartEngine, socketVars
<1>3. CASE BrowserFails
  BY <1>3 DEF BrowserFails, FallBack, StartEngine, socketVars
<1>4. CASE ServiceHears \/ Stop
  BY <1>4 DEF ServiceHears, Frame, Stop, AskFinal, socketVars
<1>5. CASE ConnectionLost \/ BrowserEnds \/ StopDone \/ Unmount
  BY <1>5 DEF ConnectionLost, BrowserEnds, StopDone, Unmount, socketVars
<1>6. CASE Timeout
  BY <1>6 DEF Timeout, FinalTimeout
<1>7. CASE Service
  BY <1>7 DEF Service
<1>8. CASE UNCHANGED inputVars
  BY <1>8 DEF inputVars, socketVars
<1> QED
  BY <1>1, <1>2, <1>3, <1>4, <1>5, <1>6, <1>7, <1>8 DEF InputNext

\* Every step of the handler's two coroutines keeps them taking turns.
LEMMA TurnsStep ==
    ASSUME WriterInv, Accept \/ ServerNext \/ OpenSocket \/ UNCHANGED server
    PROVE  WriterInv'
<1> USE DEF WriterInv, HandlerOK, TakeTurns
<1>1. CASE Accept
  BY <1>1 DEF Accept
<1>2. CASE ReadDisconnect
  BY <1>2 DEF ReadDisconnect, Leave
<1>3. CASE Read
  BY <1>3 DEF Read
<1>4. CASE Quiesce
  BY <1>4 DEF Quiesce
<1>5. CASE Finalize
  BY <1>5 DEF Finalize, Drain
<1>6. CASE Write
  BY <1>6 DEF Write, Writing, Leave
<1>7. CASE DecoderStart
  BY <1>7, SocketAssumption DEF DecoderStart, Drain
<1>8. CASE DecoderEnd
  BY <1>8 DEF DecoderEnd
<1>9. CASE DecoderWrite
  BY <1>9 DEF DecoderWrite
<1>10. CASE OpenSocket
  BY <1>10 DEF OpenSocket
<1>11. CASE UNCHANGED server
  BY <1>11 DEF server
<1> QED
  BY <1>1, <1>2, <1>3, <1>4, <1>5, <1>6, <1>7, <1>8, <1>9, <1>10, <1>11 DEF ServerNext

-----------------------------------------------------------------------------
\* ws_transcribe keeps the promise of its comment, "two coroutines must never write to
\* the socket at the same time", for recordings and chunks of any length, over any
\* sequence of recordings, fallbacks, losses and departures.
THEOREM VoiceOneWriter == InputSpec => []OneWriter
<1>1. InputInit => WriterInv
  BY DEF InputInit, SocketInit, WriterInv, HandlerOK, TakeTurns
<1>2. WriterInv /\ [InputNext]_inputVars => WriterInv'
  BY HandlerSteps, TurnsStep
<1>3. WriterInv => OneWriter
  BY DEF WriterInv, TakeTurns, OneWriter, Writing
<1> QED
  BY <1>1, <1>2, <1>3, PTL DEF InputSpec

-----------------------------------------------------------------------------
(* The final transcript: the invariant *)

Signals == {"frame", "stop", "disconnect"}
Answers == [type : {"ready", "partial", "final", "error", "close"}, frames : Nat]

\* Frames of the recording may still be sent: its socket is the one that was opened for it.
Speaking == active /\ starting # "mic" /\ recognizer = "server"

StreamOK == up \in Seq(Signals) /\ down \in Seq(Answers) /\ sent \in Nat

\* A transcript of n frames leaves out none that was sent, now and from now on.
Complete(n) == \/ n = MaxFrames /\ n <= sent
               \/ n = sent /\ n <= MaxFrames /\ ~Speaking

\* Until the recording ends, frames are under way, queued or heard; what ends it, the
\* stop or the disconnect, is under way behind all of them, and nothing is sent after it.
Underway ==
    /\ \E n \in 0..Len(up) :
          /\ \A i \in 1..Len(up) : (up[i] = "frame" <=> i <= n)
          /\ loop \in {"greet", "receive"} /\ ~decodeError =>
                queued + heard + n = sent /\ queued + heard <= MaxFrames
    /\ \A i \in 1..Len(up) : /\ up[i] = "stop" => ~Speaking
                             /\ up[i] = "disconnect" => sock # "open"

\* From there on the service holds all that there will be.
Ended ==
    /\ loop \in {"quiesce", "length", "write_length", "finalize", "write_final"} /\ ~decodeError =>
          Complete(queued + heard)
    /\ loop \in {"finalize", "write_final"} => ~decodeError
    /\ loop = "write_final" => queued = 0

Fresh ==
    /\ loop = "off" => up = <<>> /\ down = <<>> /\ sent = 0 /\ sock # "open" /\ heard = 0
    /\ loop = "off" => ~decodeError
    /\ loop \in {"off", "greet", "receive"} /\ ~decodeError => ~stop

FinalsComplete == \A i \in 1..Len(down) : down[i].type = "final" => Complete(down[i].frames)

StreamInv ==
    /\ StreamOK /\ Fresh /\ Ended /\ FinalsComplete
    /\ loop \notin {"off", "gone"} => Underway

-----------------------------------------------------------------------------
(* The final transcript: what the client does to the socket *)

\* Once it is given up, a recording is not taken up again: the next one opens a socket.
Quieter == Speaking' => Speaking

Rests == UNCHANGED <<up, down, server, sent>> /\ (sock' = "open" => sock = "open") /\ Quieter
Receives == down # <<>> /\ down' = Tail(down) /\ UNCHANGED <<up, server, sent>>
            /\ (sock' = "open" => sock = "open") /\ Quieter
Disconnects == /\ sock = "open" /\ up' = Append(up, "disconnect") /\ down' \in {down, <<>>}
               /\ UNCHANGED <<server, sent>> /\ sock' # "open" /\ Quieter

\* Whatever the hook does, and whatever becomes of its engines, it leaves the socket
\* alone, opens it, or sends or receives one message.
LEMMA SocketSteps ==
    ASSUME [InputNext]_inputVars
    PROVE  \/ Rests \/ Receives \/ Disconnects \/ OpenSocket
           \/ Frame /\ Speaking /\ Quieter
           \/ AskFinal /\ sock = "open" /\ ~Speaking'
           \/ (Accept \/ ServerNext) /\ UNCHANGED Speaking
<1> USE DEF Quieter, Speaking, refs, coroutines, Teardown
<1>1. CASE Start
  BY <1>1 DEF Start, Rests
<1>2. CASE MicDenied \/ EngineReady \/ FirstFails \/ ServiceFails \/ BrowserHears \/ BrowserEnds
  BY <1>2 DEF MicDenied, EngineReady, FirstFails, ServiceFails, BrowserHears, BrowserEnds,
              GiveUp, socketVars, client, Rests
<1>3. CASE MicOpened \/ Probe
  BY <1>3 DEF MicOpened, Probe, StartEngine, GiveUp, socketVars, client, Rests
<1>4. CASE BrowserFails
  BY <1>4 DEF BrowserFails, FallBack, StartEngine, Fail, GiveUp, socketVars, client, Rests
<1>5. CASE ServiceHears
  BY <1>5 DEF ServiceHears, Settled
<1>6. CASE Deliver
  BY <1>6 DEF Deliver, Closed, Fail, GiveUp, Receives
<1>7. CASE ConnectionLost
  BY <1>7 DEF ConnectionLost, Closed, Fail, GiveUp, Disconnects
<1>8. CASE Stop
  BY <1>8 DEF Stop, AskFinal, socketVars, client, Rests
<1>9. CASE StopDone
  BY <1>9 DEF StopDone, Cleanup, Disconnects, Rests
<1>10. CASE Unmount
  BY <1>10 DEF Unmount, Cleanup, Disconnects, Rests
<1>11. CASE Timeout
  BY <1>11 DEF Timeout, FinalTimeout, Rests
<1>12. CASE Service
  BY <1>12 DEF Service
<1>13. CASE UNCHANGED inputVars
  BY <1>13 DEF inputVars, socketVars, client, Rests
<1> QED
  BY <1>1, <1>2, <1>3, <1>4, <1>5, <1>6, <1>7, <1>8, <1>9, <1>10, <1>11, <1>12, <1>13 DEF InputNext

-----------------------------------------------------------------------------
(* The final transcript: the steps *)

\* A queue that a message is put on.
LEMMA PutOn ==
    ASSUME NEW S, NEW q \in Seq(S), NEW m \in S, NEW r, r = Append(q, m)
    PROVE  /\ r \in Seq(S) /\ Len(q) \in Nat /\ Len(r) = Len(q) + 1 /\ r[Len(q) + 1] = m
           /\ \A i \in 1..Len(q) : r[i] = q[i]
           /\ \A i \in 1..Len(r) : i \in 1..Len(q) \/ i = Len(q) + 1
BY AppendProperties

\* A queue that a message is taken from.
LEMMA TakenFrom ==
    ASSUME NEW S, NEW q \in Seq(S), q # <<>>, NEW r, r = Tail(q)
    PROVE  /\ r \in Seq(S) /\ Len(q) \in Nat /\ Len(r) = Len(q) - 1 /\ 1 \in 1..Len(q)
           /\ Head(q) = q[1] /\ Head(q) \in S
           /\ \A i \in 1..Len(r) : i + 1 \in 1..Len(q) /\ r[i] = q[i + 1]
<1>1. r \in Seq(S) /\ Len(r) = Len(q) - 1 /\ Head(q) \in S
      /\ \A i \in 1..Len(r) : r[i] = q[i + 1]
  BY HeadTailProperties
<1>2. Len(q) \in Nat \ {0}
  BY EmptySeq
<1> QED
  BY <1>1, <1>2

\* A transcript that is complete stays so unless the recording is taken up again.
LEMMA StaysComplete ==
    ASSUME sent' = sent, Speaking' => Speaking, NEW n, Complete(n)
    PROVE  Complete(n)'
BY DEF Complete

\* What is put on the way to the client is complete if it is a final transcript.
LEMMA AnswerPut ==
    ASSUME StreamInv, UNCHANGED <<sent, Speaking>>, NEW m \in Answers, down' = Append(down, m),
           m.type = "final" => Complete(m.frames)
    PROVE  down' \in Seq(Answers) /\ FinalsComplete'
<1>1. down \in Seq(Answers)
  BY DEF StreamInv, StreamOK
<1>2. /\ down' \in Seq(Answers) /\ Len(down) \in Nat /\ down'[Len(down) + 1] = m
      /\ \A i \in 1..Len(down) : down'[i] = down[i]
      /\ \A i \in 1..Len(down') : i \in 1..Len(down) \/ i = Len(down) + 1
  BY <1>1, PutOn
<1>3. FinalsComplete'
  <2>1. ASSUME NEW i \in 1..Len(down'), down'[i].type = "final", NEW n, n = down'[i].frames
        PROVE  Complete(n)
    BY <1>2, <2>1 DEF StreamInv, FinalsComplete
  <2> QED
    BY <2>1 DEF FinalsComplete, Complete
<1> QED
  BY <1>2, <1>3

\* Where the recording is does not change when the client leaves the socket alone, takes
\* an answer, or disconnects.
LEMMA ClientSteps ==
    ASSUME StreamInv, Rests \/ Receives \/ Disconnects
    PROVE  StreamInv'
<1> USE DEF StreamInv
<1>1. UNCHANGED <<server, sent>> /\ Quieter
  BY DEF Rests, Receives, Disconnects
<1>2. UNCHANGED <<loop, stop, queued, heard, decodeError, sent>>
  BY <1>1 DEF server
<1>3. down' \in Seq(Answers) /\ \A i \in 1..Len(down') : \E j \in 1..Len(down) : down'[i] = down[j]
  <2>1. CASE down' = down
    BY <2>1 DEF StreamOK
  <2>2. CASE down' = <<>>
    BY <2>2, EmptySeq
  <2>3. CASE down # <<>> /\ down' = Tail(down)
    BY <2>3, TakenFrom DEF StreamOK
  <2> QED
    BY <2>1, <2>2, <2>3 DEF Rests, Receives, Disconnects
<1>4. FinalsComplete'
  <2>1. ASSUME NEW i \in 1..Len(down'), down'[i].type = "final", NEW n, n = down'[i].frames
        PROVE  Complete(n)'
    <3>1. PICK j \in 1..Len(down) : down'[i] = down[j]
      BY <1>3
    <3>2. Complete(n)
      BY <2>1, <3>1 DEF FinalsComplete
    <3>3. down # <<>>
      BY <3>1, EmptySeq
    <3>4. Speaking' => Speaking
      BY <1>1, <3>3 DEF Quieter
    <3> QED
      BY <1>2, <3>2, <3>4, StaysComplete
  <2> QED
    BY <2>1 DEF FinalsComplete, Complete
<1>5. Ended'
  <2>1. loop \notin {"off", "gone"} => (Speaking' => Speaking)
    BY <1>1 DEF Quieter
  <2> QED
    BY <1>2, <2>1 DEF Ended, Complete
<1>6. CASE UNCHANGED up
  <2>1. sock' = "open" => sock = "open"
    BY <1>6 DEF Rests, Receives, Disconnects
  <2>2. StreamOK'
    BY <1>2, <1>3, <1>6 DEF StreamOK
  <2>3. Fresh'
    <3>1. down = <<>> => down' = <<>>
      <4> SUFFICES ASSUME down = <<>>, down' # <<>> PROVE FALSE
        OBVIOUS
      <4>1. Len(down') \in Nat \ {0} /\ Len(down) = 0
        BY <1>3, EmptySeq
      <4> QED
        BY <1>3, <4>1
    <3> QED
      BY <1>2, <1>6, <2>1, <3>1 DEF Fresh
  <2>4. loop' \notin {"off", "gone"} => Underway'
    BY <1>1, <1>2, <1>6, <2>1 DEF Underway, Quieter
  <2> QED
    BY <1>4, <1>5, <2>2, <2>3, <2>4
<1>7. CASE Disconnects /\ sock = "open"
  <2>1. up' = Append(up, "disconnect") /\ sock' # "open" /\ loop # "off"
    BY <1>7 DEF Disconnects, Fresh
  <2>2. /\ up' \in Seq(Signals) /\ Len(up) \in Nat /\ Len(up') = Len(up) + 1
        /\ up'[Len(up) + 1] = "disconnect"
        /\ \A i \in 1..Len(up) : up'[i] = up[i]
        /\ \A i \in 1..Len(up') : i \in 1..Len(up) \/ i = Len(up) + 1
    BY <2>1, PutOn DEF StreamOK, Signals
  <2>3. StreamOK' /\ Fresh'
    BY <1>2, <1>3, <2>1, <2>2 DEF StreamOK, Fresh
  <2>4. ASSUME loop \notin {"off", "gone"} PROVE Underway'
    <3>1. PICK n \in 0..Len(up) :
            /\ \A i \in 1..Len(up) : (up[i] = "frame" <=> i <= n)
            /\ loop \in {"greet", "receive"} /\ ~decodeError =>
                  queued + heard + n = sent /\ queued + heard <= MaxFrames
      BY <2>4 DEF Underway
    <3>2. n \in 0..Len(up') /\ \A i \in 1..Len(up') : (up'[i] = "frame" <=> i <= n)
      BY <2>2, <3>1
    <3>3. \A i \in 1..Len(up') : up'[i] = "stop" => ~Speaking'
      <4>1. Speaking' => Speaking
        BY <1>1, <2>4 DEF Quieter
      <4> QED
        BY <2>2, <2>4, <4>1 DEF Underway
    <3> QED
      BY <1>2, <2>1, <3>1, <3>2, <3>3 DEF Underway
  <2> QED
    BY <1>2, <1>4, <1>5, <2>3, <2>4
<1> QED
  BY <1>6, <1>7 DEF Rests, Receives, Disconnects

\* The microphone's frames go out ahead of what ends the recording.
LEMMA FrameStep ==
    ASSUME StreamInv, HandlerOK, Frame, Speaking, Quieter
    PROVE  StreamInv'
<1> USE DEF StreamInv
<1>1. /\ sock = "open" /\ loop # "off" /\ sent' = sent + 1 /\ sent \in Nat
      /\ up' = Append(up, "frame") /\ UNCHANGED <<down, sock>>
      /\ UNCHANGED <<loop, stop, queued, heard, decodeError>>
  BY DEF Frame, Fresh, StreamOK, server
<1>2. /\ up' \in Seq(Signals) /\ Len(up) \in Nat /\ Len(up') = Len(up) + 1
      /\ up'[Len(up) + 1] = "frame"
      /\ \A i \in 1..Len(up) : up'[i] = up[i] /\ up[i] \in Signals
      /\ \A i \in 1..Len(up') : i \in 1..Len(up) \/ i = Len(up) + 1
  BY <1>1, PutOn DEF StreamOK, Signals
<1>3. ASSUME NEW n, Complete(n) PROVE Complete(n)'
  <2>1. MaxFrames \in Nat /\ n = MaxFrames /\ n <= sent
    BY <1>3, SocketAssumption DEF Complete
  <2> QED
    BY <1>1, <2>1 DEF Complete
<1>4. StreamOK' /\ Fresh'
  BY <1>1, <1>2 DEF StreamOK, Fresh
<1>5. Ended'
  <2>1. PICK n : n = queued + heard
    OBVIOUS
  <2>2. Complete(n) => Complete(n)'
    BY <1>3
  <2> QED
    BY <1>1, <2>1, <2>2 DEF Ended, Complete
<1>6. FinalsComplete'
  <2>1. ASSUME NEW i \in 1..Len(down), down[i].type = "final", NEW n, n = down[i].frames
        PROVE  Complete(n)'
    BY <1>3, <2>1 DEF FinalsComplete
  <2> QED
    BY <1>1, <2>1 DEF FinalsComplete, Complete
<1>7. ASSUME loop \notin {"off", "gone"} PROVE Underway'
  <2>1. PICK n \in 0..Len(up) :
          /\ \A i \in 1..Len(up) : (up[i] = "frame" <=> i <= n)
          /\ loop \in {"greet", "receive"} /\ ~decodeError =>
                queued + heard + n = sent /\ queued + heard <= MaxFrames
    BY <1>7 DEF Underway
  <2>2. \A i \in 1..Len(up) : up[i] = "frame"
    BY <1>1, <1>2, <1>7 DEF Underway, Signals
  <2>3. n = Len(up)
    BY <1>2, <2>1, <2>2
  <2>4. \A i \in 1..Len(up') : up'[i] = "frame"
    BY <1>2, <2>2
  <2>5. \E k \in 0..Len(up') :
          /\ \A i \in 1..Len(up') : (up'[i] = "frame" <=> i <= k)
          /\ loop \in {"greet", "receive"} /\ ~decodeError =>
                queued + heard + k = sent' /\ queued + heard <= MaxFrames
    <3> WITNESS Len(up') \in 0..Len(up')
    <3>1. loop \in {"greet", "receive"} /\ ~decodeError =>
             queued + heard + Len(up') = sent' /\ queued + heard <= MaxFrames
      BY <1>1, <1>2, <2>1, <2>3 DEF HandlerOK
    <3> QED
      BY <1>2, <2>4, <3>1
  <2> QED
    BY <1>1, <2>4, <2>5 DEF Underway
<1> QED
  BY <1>1, <1>4, <1>5, <1>6, <1>7

\* A signal other than a frame goes out behind all of them.
LEMMA SignalPut ==
    ASSUME Underway, StreamOK, UNCHANGED <<server, sent>>, NEW m \in {"stop", "disconnect"},
           up' = Append(up, m), Speaking' => Speaking, m = "stop" => ~Speaking',
           sock' = "open" => sock = "open" /\ m # "disconnect"
    PROVE  up' \in Seq(Signals) /\ Underway'
<1>1. /\ up' \in Seq(Signals) /\ Len(up) \in Nat /\ Len(up') = Len(up) + 1
      /\ up'[Len(up) + 1] = m
      /\ \A i \in 1..Len(up) : up'[i] = up[i]
      /\ \A i \in 1..Len(up') : i \in 1..Len(up) \/ i = Len(up) + 1
  BY PutOn DEF StreamOK, Signals
<1>2. PICK n \in 0..Len(up) :
        /\ \A i \in 1..Len(up) : (up[i] = "frame" <=> i <= n)
        /\ loop \in {"greet", "receive"} /\ ~decodeError =>
              queued + heard + n = sent /\ queued + heard <= MaxFrames
  BY DEF Underway
<1>3. n \in 0..Len(up') /\ \A i \in 1..Len(up') : (up'[i] = "frame" <=> i <= n)
  BY <1>1, <1>2
<1>4. \A i \in 1..Len(up') : /\ up'[i] = "stop" => ~Speaking'
                             /\ up'[i] = "disconnect" => sock' # "open"
  BY <1>1 DEF Underway
<1> QED
  BY <1>1, <1>2, <1>3, <1>4 DEF Underway, server

\* stop() has given the recording up when it asks for the final transcript.
LEMMA AskFinalStep ==
    ASSUME StreamInv, AskFinal, sock = "open", ~Speaking'
    PROVE  StreamInv'
<1> USE DEF StreamInv
<1>1. /\ UNCHANGED <<server, sent, down, sock>> /\ up' = Append(up, "stop") /\ loop # "off"
      /\ UNCHANGED <<loop, stop, queued, heard, decodeError, sent>>
  BY DEF AskFinal, Fresh, server
<1>2. ASSUME NEW n, Complete(n) PROVE Complete(n)'
  BY <1>1, <1>2 DEF Complete
<1>3. StreamOK' /\ Fresh'
  BY <1>1, AppendProperties DEF StreamOK, Fresh, Signals
<1>4. Ended'
  BY <1>1 DEF Ended, Complete
<1>5. FinalsComplete'
  BY <1>1 DEF FinalsComplete, Complete
<1>6. ASSUME loop \notin {"off", "gone"} PROVE Underway'
  BY <1>1, <1>6, SignalPut
<1> QED
  BY <1>1, <1>3, <1>4, <1>5, <1>6

\* A socket is opened to a handler of its own, with nothing under way.
LEMMA OpenStep ==
    ASSUME OpenSocket
    PROVE  StreamInv'
BY EmptySeq DEF OpenSocket, StreamInv, StreamOK, Fresh, Ended, FinalsComplete

\* The service accepts a recording of which nothing has been sent.
LEMMA AcceptStep ==
    ASSUME StreamInv, WriterInv, Accept, UNCHANGED Speaking
    PROVE  StreamInv'
<1>1. /\ up = <<>> /\ down = <<>> /\ sent = 0 /\ queued = 0 /\ heard = 0 /\ ~decodeError /\ ~stop
      /\ UNCHANGED <<up, down, stop, queued, heard, decodeError, sent>> /\ loop' = "greet"
  BY DEF StreamInv, Accept, Fresh, WriterInv, TakeTurns
<1>2. StreamOK' /\ Fresh' /\ Ended' /\ FinalsComplete'
  BY <1>1, EmptySeq DEF StreamOK, Fresh, Ended, FinalsComplete
<1>3. Len(up') = 0
  BY <1>1, EmptySeq
<1>4. Underway'
  BY <1>1, <1>3, SocketAssumption DEF Underway
<1> QED
  BY <1>2, <1>4 DEF StreamInv

-----------------------------------------------------------------------------
(* The final transcript: what the handler does *)

\* A handler that reads nothing and says nothing new to the client keeps the rest.
LEMMA Unread ==
    ASSUME StreamInv, UNCHANGED <<up, down, client, Speaking>>,
           loop # "off", loop' # "off",
           loop' \in {"greet", "receive"} => loop = loop' /\ queued' + heard' = queued + heard,
           loop' \in {"greet", "receive"} /\ ~decodeError' => ~decodeError /\ (stop' => stop),
           loop' \notin {"off", "gone"} => loop # "gone",
           Ended'
    PROVE  StreamInv'
<1> USE DEF StreamInv
<1>1. UNCHANGED <<up, down, sock, sent, Speaking>>
  BY DEF client
<1>2. StreamOK' /\ FinalsComplete'
  BY <1>1 DEF StreamOK, FinalsComplete, Complete
<1>3. Fresh'
  BY DEF Fresh
<1>4. ASSUME loop' \notin {"off", "gone"} PROVE Underway'
  <2>1. PICK n \in 0..Len(up) :
          /\ \A i \in 1..Len(up) : (up[i] = "frame" <=> i <= n)
          /\ loop \in {"greet", "receive"} /\ ~decodeError =>
                queued + heard + n = sent /\ queued + heard <= MaxFrames
    BY <1>4 DEF Underway
  <2>2. loop' \in {"greet", "receive"} /\ ~decodeError' =>
           queued' + heard' + n = sent' /\ queued' + heard' <= MaxFrames
    BY <1>1, <2>1
  <2> QED
    BY <1>1, <1>4, <2>1, <2>2 DEF Underway
<1> QED
  BY <1>2, <1>3, <1>4

\* A message is read: a frame is counted, what is over the limit is not, and "stop"
\* is read when every frame has been.
LEMMA ReadStep ==
    ASSUME StreamInv, WriterInv, Read, UNCHANGED Speaking
    PROVE  StreamInv'
<1> USE DEF StreamInv
<1>1. /\ loop = "receive" /\ up # <<>> /\ up' = Tail(up) /\ Head(up) # "disconnect"
      /\ UNCHANGED <<down, heard, decodeError, sock, sent, Speaking>>
      /\ queued \in Nat /\ heard \in Nat
  BY DEF Read, client, WriterInv, HandlerOK
<1>2. /\ up' \in Seq(Signals) /\ Len(up) \in Nat /\ Len(up') = Len(up) - 1 /\ 1 \in 1..Len(up)
      /\ Head(up) = up[1] /\ Head(up) \in Signals
      /\ \A i \in 1..Len(up') : i + 1 \in 1..Len(up) /\ up'[i] = up[i + 1]
  BY <1>1, TakenFrom DEF StreamOK
<1>3. PICK n \in 0..Len(up) :
        /\ \A i \in 1..Len(up) : (up[i] = "frame" <=> i <= n)
        /\ loop \in {"greet", "receive"} /\ ~decodeError =>
              queued + heard + n = sent /\ queued + heard <= MaxFrames
  BY <1>1 DEF Underway
<1>4. \A i \in 1..Len(up') : /\ up'[i] = "stop" => ~Speaking'
                             /\ up'[i] = "disconnect" => sock' # "open"
  BY <1>1, <1>2 DEF Underway
<1>5. StreamOK' /\ FinalsComplete'
  BY <1>1, <1>2 DEF StreamOK, FinalsComplete, Complete
<1>6. PICK k \in 0..Len(up') :
        /\ \A i \in 1..Len(up') : (up'[i] = "frame" <=> i <= k)
        /\ k = IF n = 0 THEN 0 ELSE n - 1
  <2>1. CASE n = 0
    BY <1>2, <1>3, <2>1
  <2>2. CASE n # 0
    <3>1. n - 1 \in 0..Len(up') /\ \A i \in 1..Len(up') : (up'[i] = "frame" <=> i <= n - 1)
      BY <1>2, <1>3, <2>2
    <3> QED
      BY <2>2, <3>1
  <2> QED
    BY <2>1, <2>2
<1>7. CASE ~stop /\ Head(up) = "frame" /\ queued + heard < MaxFrames
  <2>1. queued' = queued + 1 /\ UNCHANGED <<loop, stop>>
    BY <1>7 DEF Read
  <2>2. n # 0 /\ k = n - 1
    BY <1>2, <1>3, <1>6, <1>7
  <2>3. ~decodeError' => queued' + heard' + k = sent' /\ queued' + heard' <= MaxFrames
    BY <1>1, <1>3, <1>7, <2>1, <2>2, SocketAssumption
  <2>4. Underway'
    BY <1>4, <1>6, <2>3 DEF Underway
  <2> QED
    BY <1>1, <1>5, <1>7, <2>1, <2>4 DEF Fresh, Ended
<1>8. CASE ~(~stop /\ Head(up) = "frame" /\ queued + heard < MaxFrames)
  <2>1. /\ loop' = IF ~stop /\ Head(up) = "frame" THEN "length" ELSE "quiesce"
        /\ stop' /\ UNCHANGED queued
    BY <1>8 DEF Read
  <2>2. loop' \in {"length", "quiesce"}
    BY <2>1
  <2>3. Underway'
    BY <1>4, <1>6, <2>2 DEF Underway
  <2>4. Ended'
    <3> SUFFICES ASSUME ~decodeError PROVE Complete(queued + heard)
      BY <1>1, <2>1, <2>2 DEF Ended, Complete
    <3>1. ~stop /\ queued + heard + n = sent /\ queued + heard <= MaxFrames
      BY <1>1, <1>3 DEF Fresh
    <3>2. CASE Head(up) = "frame"
      BY <1>1, <1>8, <3>1, <3>2, SocketAssumption DEF Complete
    <3>3. CASE Head(up) = "stop"
      <4>1. ~Speaking /\ n = 0
        BY <1>1, <1>2, <1>3, <3>3 DEF Underway
      <4> QED
        BY <1>1, <3>1, <4>1, SocketAssumption DEF Complete
    <3> QED
      BY <1>1, <1>2, <3>2, <3>3 DEF Signals
  <2> QED
    BY <1>5, <2>2, <2>3, <2>4 DEF Fresh
<1> QED
  BY <1>7, <1>8

\* A message put on the way to the client, with the handler where it may put it.
LEMMA Answered ==
    ASSUME StreamInv, UNCHANGED <<up, client, Speaking>>, loop # "off", loop' # "off",
           NEW m \in Answers, down' = Append(down, m), m.type = "final" => Complete(m.frames),
           loop' \in {"greet", "receive"} => loop \in {"greet", "receive"},
           loop' \notin {"off", "gone"} => loop # "gone",
           loop' \notin {"off", "gone"} => UNCHANGED <<stop, queued, heard, decodeError>>,
           Ended'
    PROVE  StreamInv'
<1> USE DEF StreamInv
<1>1. UNCHANGED <<up, sock, sent, Speaking>>
  BY DEF client
<1>2. down' \in Seq(Answers) /\ FinalsComplete'
  BY <1>1, AnswerPut
<1>3. StreamOK'
  BY <1>1, <1>2 DEF StreamOK
<1>4. Fresh'
  BY DEF Fresh
<1>5. ASSUME loop' \notin {"off", "gone"} PROVE Underway'
  BY <1>1, <1>5 DEF Underway
<1> QED
  BY <1>2, <1>3, <1>4, <1>5

\* The handler's messages: only the final transcript claims to be complete, and it is
\* written when nothing is queued and no decode has failed.
LEMMA WriteStep ==
    ASSUME StreamInv, WriterInv, Write, UNCHANGED Speaking
    PROVE  StreamInv'
<1> USE DEF StreamInv, Message, Answers
<1>1. /\ UNCHANGED <<up, queued, heard, decodeError, client, Speaking, sent>>
      /\ queued \in Nat /\ heard \in Nat
  BY DEF Write, client, WriterInv, HandlerOK
<1>2. CASE loop = "greet"
  <2>1. /\ down' = Append(down, Message("ready", 0)) /\ Message("ready", 0) \in Answers
        /\ loop' = "receive" /\ UNCHANGED stop
    BY <1>2 DEF Write
  <2> QED
    BY <1>1, <1>2, <2>1, Answered DEF Ended
<1>3. CASE loop = "write_length"
  <2>1. /\ down' = Append(down, Message("error", 0)) /\ Message("error", 0) \in Answers
        /\ loop' = "quiesce" /\ UNCHANGED stop
    BY <1>3 DEF Write
  <2> QED
    BY <1>1, <1>3, <2>1, Answered DEF Ended, Complete
<1>4. CASE loop \in {"write_final", "write_error"}
  <2>1. PICK m \in Answers :
          /\ down' = down \o <<m, Message("close", 0)>>
          /\ m.type = "final" => loop = "write_final" /\ m.frames = heard
    <3>1. Message("final", heard) \in Answers /\ Message("error", 0) \in Answers
      BY <1>1
    <3> QED
      BY <1>4, <3>1 DEF Write
  <2>2. m.type = "final" => Complete(m.frames)
    BY <1>1, <2>1 DEF Ended
  <2>3. loop' = "gone"
    BY <1>4 DEF Write, Leave
  <2>4. /\ down' \in Seq(Answers)
        /\ \A i \in 1..Len(down') : \/ i \in 1..Len(down) /\ down'[i] = down[i]
                                    \/ down'[i] \in {m, Message("close", 0)}
    <3>1. down \in Seq(Answers) /\ <<m, Message("close", 0)>> \in Seq(Answers)
      BY DEF StreamOK
    <3> QED
      BY <2>1, <3>1, ConcatProperties
  <2>5. ASSUME NEW i \in 1..Len(down'), down'[i].type = "final", NEW n, n = down'[i].frames
        PROVE  Complete(n)
    BY <2>2, <2>4, <2>5 DEF FinalsComplete
  <2>6. FinalsComplete'
    BY <1>1, <2>5 DEF FinalsComplete, Complete
  <2> QED
    BY <1>1, <2>3, <2>4, <2>6 DEF StreamOK, Fresh, Ended, client
<1> QED
  BY <1>2, <1>3, <1>4 DEF Write, Writing

\* A step of the handler's two coroutines.
LEMMA ServiceSteps ==
    ASSUME StreamInv, WriterInv, ServerNext, UNCHANGED Speaking
    PROVE  StreamInv'
<1>1. CASE ReadDisconnect
  <2>1. /\ loop' = "gone" /\ up' = Tail(up) /\ up # <<>>
        /\ UNCHANGED <<down, sent, Speaking>>
    BY <1>1 DEF ReadDisconnect, Leave, client
  <2>2. StreamOK' /\ FinalsComplete'
    BY <2>1, TakenFrom DEF StreamInv, StreamOK, FinalsComplete, Complete
  <2> QED
    BY <2>1, <2>2 DEF StreamInv, Fresh, Ended
<1>2. CASE Read
  BY <1>2, ReadStep
<1>3. CASE Quiesce
  <2>1. /\ loop \in {"quiesce", "length"} /\ loop' \in {"write_length", "write_error", "finalize"}
        /\ loop' = "finalize" => ~decodeError
        /\ UNCHANGED <<up, down, stop, queued, heard, decodeError, client, Speaking, sent>>
    BY <1>3 DEF Quiesce, client
  <2>2. Ended'
    BY <2>1 DEF StreamInv, Ended, Complete
  <2> QED
    BY <2>1, <2>2, Unread
<1>4. CASE Finalize
  <2>1. /\ loop = "finalize" /\ loop' \in {"write_final", "write_error"}
        /\ queued' = 0 /\ queued' + heard' = queued + heard
        /\ UNCHANGED <<up, down, stop, decodeError, client, Speaking, sent>>
    BY <1>4 DEF Finalize, Drain, client, WriterInv, HandlerOK
  <2>2. Ended'
    BY <2>1 DEF StreamInv, Ended, Complete
  <2> QED
    BY <2>1, <2>2, Unread
<1>5. CASE Write
  BY <1>5, WriteStep
<1>6. CASE DecoderStart
  <2>1. /\ loop \notin {"off", "finalize", "write_final"}
        /\ queued' + heard' = queued + heard
        /\ UNCHANGED <<up, down, loop, stop, decodeError, client, Speaking, sent>>
    BY <1>6 DEF DecoderStart, Drain, client, WriterInv, HandlerOK, TakeTurns
  <2>2. Ended'
    BY <2>1 DEF StreamInv, Ended, Complete
  <2> QED
    BY <2>1, <2>2, Unread
<1>7. CASE DecoderEnd
  <2>1. /\ loop \notin {"off", "finalize", "write_final"}
        /\ UNCHANGED <<up, down, loop, queued, heard, client, Speaking, sent>>
        /\ \/ UNCHANGED <<stop, decodeError>>
           \/ decodeError'
    BY <1>7 DEF DecoderEnd, client, WriterInv, TakeTurns
  <2>2. Ended'
    BY <2>1 DEF StreamInv, Ended, Complete
  <2> QED
    BY <2>1, <2>2, Unread
<1>8. CASE DecoderWrite
  <2>1. /\ loop # "off"
        /\ UNCHANGED <<up, loop, stop, queued, heard, decodeError, client, Speaking, sent>>
        /\ down' = Append(down, Message("partial", heard))
        /\ Message("partial", heard) \in Answers /\ Message("partial", heard).type # "final"
    BY <1>8 DEF DecoderWrite, client, WriterInv, HandlerOK, TakeTurns, Message, Answers
  <2>2. Ended'
    BY <2>1 DEF StreamInv, Ended, Complete
  <2>3. UNCHANGED <<up, client, Speaking>>
    BY <2>1
  <2> QED
    BY <2>1, <2>2, <2>3, Answered
<1> QED
  BY <1>1, <1>2, <1>3, <1>4, <1>5, <1>6, <1>7, <1>8 DEF ServerNext

\* A recording starts with nothing under way.
LEMMA StreamInit ==
    ASSUME InputInit
    PROVE  WriterInv /\ StreamInv
BY EmptySeq DEF InputInit, SocketInit, WriterInv, HandlerOK, TakeTurns, StreamInv, StreamOK, Fresh,
                Ended, FinalsComplete

\* Every step keeps the coroutines taking turns and the frames accounted for.
LEMMA StreamStep ==
    ASSUME WriterInv, StreamInv, [InputNext]_inputVars
    PROVE  WriterInv' /\ StreamInv'
<1>1. WriterInv'
  BY HandlerSteps, TurnsStep
<1>2. CASE Rests \/ Receives \/ Disconnects
  BY <1>1, <1>2, ClientSteps
<1>3. CASE OpenSocket
  BY <1>1, <1>3, OpenStep
<1>4. CASE Frame /\ Speaking /\ Quieter
  BY <1>1, <1>4, FrameStep DEF WriterInv
<1>5. CASE AskFinal /\ sock = "open" /\ ~Speaking'
  BY <1>1, <1>5, AskFinalStep
<1>6. CASE (Accept \/ ServerNext) /\ UNCHANGED Speaking
  BY <1>1, <1>6, AcceptStep, ServiceSteps
<1> QED
  BY <1>1, <1>2, <1>3, <1>4, <1>5, <1>6, SocketSteps

-----------------------------------------------------------------------------
\* main.py and useVoiceInput: every final transcript on its way to the client covers all
\* the frames sent, up to the length of a session: for recordings and chunks of any
\* length, with decodes that fail, connections that are lost, users who click and leave
\* at any moment and recognizers that deliver into the next recording.
THEOREM FinalTranscriptWhole == InputSpec => []FinalHoldsAll
<1>1. InputInit => WriterInv /\ StreamInv
  BY StreamInit
<1>2. WriterInv /\ StreamInv /\ [InputNext]_inputVars => (WriterInv /\ StreamInv)'
  BY StreamStep
<1>3. StreamInv => FinalHoldsAll
  <2> SUFFICES ASSUME StreamInv, NEW m \in Range(down), m.type = "final"
               PROVE  m.frames = Min({sent, MaxFrames})
    BY DEF FinalHoldsAll
  <2>1. down \in Seq(Answers) /\ sent \in Nat /\ MaxFrames \in Nat
    BY SocketAssumption DEF StreamInv, StreamOK
  <2>2. PICK i \in 1..Len(down) : m = down[i]
    BY <2>1 DEF Range
  <2>3. m.frames \in {sent, MaxFrames} /\ m.frames <= sent /\ m.frames <= MaxFrames
    BY <2>1, <2>2 DEF StreamInv, FinalsComplete, Complete
  <2> QED
    BY <2>1, <2>3 DEF Min
<1> QED
  BY <1>1, <1>2, <1>3, PTL DEF InputSpec

-----------------------------------------------------------------------------
(* The text shown: the invariant *)

\* Nothing can come from the service, and no socket is about to open.
Dead == sock \notin {"opening", "open"} \/ (loop = "gone" /\ down = <<>>)

\* A socket that is open has its handler, whose decoder does not outlive it.
HandlerThere ==
    /\ sock = "open" => loop # "off"
    /\ loop = "gone" => decoder = "done"
    /\ sock = "opening" => ~Settled /\ recognizer = "server" /\ loop = "off" /\ lastTranscript = 0

\* Either the browser's recognizer speaks, and nothing else has, or the service goes on
\* from where the browser's recognizer came to.
OneSpeaks ==
    /\ browser # "off" => base = 0 /\ current = words /\ lastTranscript = 0 /\ Dead
    /\ browser \in {"running", "ending"} => starting = "no"
    /\ browser = "starting" => starting = "first" /\ recognizer # "server"
    /\ ~Dead => base = words
    /\ recognizer = "browser" => Dead

\* start(), stop() and the failure handler do not overlap.
TakesItsTurn ==
    /\ starting # "no" => words = 0 /\ base = 0
    /\ starting \in {"mic", "probe"} => shown = 0 /\ lastTranscript = 0 /\ Dead
    /\ swapping => starting = "no" /\ (mounted => active)
    /\ active /\ Settled => recognizer # "none"
    /\ stopping => /\ Settled /\ ~active /\ status = "finalizing"
                   /\ browser \in {"off", "ending"}
                   /\ recognizer = "server" \/ Dead

\* Which engines there are.
EnginesOK ==
    /\ preferred \in {"browser", "server"} /\ recognizer \in {"none", "browser", "server"}
    /\ browser \in {"off", "starting", "running", "ending"}

TextInv == EnginesOK /\ words \in Nat /\ TextOnce /\ HandlerThere /\ OneSpeaks /\ TakesItsTurn

-----------------------------------------------------------------------------
(* The text shown: the steps and the theorem *)

\* Whichever engine speaks, whatever fails and whoever takes over, the text stays whole.
LEMMA TextStep ==
    ASSUME Disturbances \cap {"click", "late"} = {}, TextInv, [InputNext]_inputVars
    PROVE  TextInv'
<1> USE DEF TextInv, EnginesOK, TextOnce, HandlerThere, OneSpeaks, TakesItsTurn, Dead, Settled
<1>1. CASE Start
  BY <1>1 DEF Start, server, refs
<1>2. CASE MicOpened
  BY <1>2 DEF MicOpened, StartEngine, OpenSocket, socketVars, server, client, refs, coroutines,
              texts
<1>3. CASE MicDenied
  BY <1>3 DEF MicDenied, socketVars, server, client, refs, coroutines, texts
<1>4. CASE EngineReady
  BY <1>4 DEF EngineReady, socketVars, server, client, refs, coroutines, texts
<1>5. CASE FirstFails
  BY <1>5 DEF FirstFails, GiveUp, Teardown, socketVars, server, client, refs, coroutines, texts
<1>6. CASE Probe
  BY <1>6 DEF Probe, StartEngine, OpenSocket, GiveUp, Teardown, socketVars, server, client,
              refs, coroutines, texts
<1>7. CASE ServiceFails
  BY <1>7 DEF ServiceFails, GiveUp, Teardown, socketVars, server, client, refs, coroutines, texts
<1>8. CASE BrowserFails
  BY <1>8 DEF BrowserFails, FallBack, StartEngine, Promote, OpenSocket, Fail, GiveUp, Teardown,
              socketVars, server, client, refs, coroutines, texts
<1>9. CASE BrowserHears
  BY <1>9 DEF BrowserHears, Emit, socketVars, server, client, refs, coroutines, texts
<1>10. CASE ServiceHears
  BY <1>10 DEF ServiceHears, Frame, server, client, refs, coroutines, texts
<1>11. CASE Deliver
  BY <1>11 DEF Deliver, Emit, Fail, GiveUp, Teardown, Closed, server, client, refs, coroutines,
               texts
<1>12. CASE ConnectionLost
  BY <1>12 DEF ConnectionLost, Fail, GiveUp, Teardown, Closed, server, client, refs,
               coroutines, texts
<1>13. CASE Stop
  BY <1>13 DEF Stop, AskFinal, socketVars, server, client, refs, coroutines, texts
<1>14. CASE BrowserEnds
  BY <1>14 DEF BrowserEnds, Emit, socketVars, server, client, refs, coroutines, texts
<1>15. CASE Timeout
  BY <1>15 DEF Timeout, FinalTimeout, socketVars, server, client, refs, coroutines, texts
<1>16. CASE StopDone
  BY <1>16 DEF StopDone, Cleanup, Teardown, socketVars, server, client, refs, coroutines, texts
<1>17. CASE Unmount
  BY <1>17 DEF Unmount, Cleanup, Teardown, socketVars, server, client, refs, coroutines, texts
<1>18. CASE UNCHANGED inputVars
  BY <1>18 DEF inputVars, socketVars, server, client, refs, coroutines, texts
<1>19. CASE Service
  <2>1. UNCHANGED <<preferred, status, active, mounted, refs, coroutines, browser, texts>>
    BY <1>19 DEF Service
  <2>2. /\ HandlerThere' /\ (Dead => Dead') /\ UNCHANGED lastTranscript
        /\ sock' = "opening" => sock = "opening"
    <3>1. CASE Accept
      BY <2>1, <3>1 DEF Accept, server, client, refs, coroutines
    <3>2. CASE ServerNext
      BY <2>1, <3>2 DEF ServerNext, ReadDisconnect, Leave, Read, Quiesce, Finalize, Write,
         Writing, DecoderStart, DecoderEnd, DecoderWrite, server, client, refs, coroutines
    <3> QED
      BY <1>19, <3>1, <3>2 DEF Service
  <2> QED
    BY <2>1, <2>2 DEF refs, coroutines, texts
<1> QED
  BY <1>1, <1>2, <1>3, <1>4, <1>5, <1>6, <1>7, <1>8, <1>9, <1>10, <1>11, <1>12, <1>13, <1>14,
     <1>15, <1>16, <1>17, <1>18, <1>19 DEF InputNext

\* Nothing has been said before the first recording.
LEMMA TextInit ==
    ASSUME InputInit
    PROVE  TextInv
BY DEF InputInit, SocketInit, TextInv, EnginesOK, TextOnce, HandlerThere, OneSpeaks, TakesItsTurn,
       Dead, Settled

\* useVoiceInput for recordings of any length: unless the user clicks while an engine
\* starts, or a recognizer that was given up still delivers, what is shown is what was
\* recognised, once, across the fallback to the service, connections that are lost,
\* recognizers that cannot restart and users who leave.
THEOREM TextShownOnce ==
    ASSUME Disturbances \cap {"click", "late"} = {}
    PROVE  InputSpec => []TextOnce
<1>1. InputInit => TextInv
  BY TextInit
<1>2. TextInv /\ [InputNext]_inputVars => TextInv'
  BY TextStep
<1>3. TextInv => TextOnce
  BY DEF TextInv
<1> QED
  BY <1>1, <1>2, <1>3, PTL DEF InputSpec

-----------------------------------------------------------------------------
(* The microphone: the invariant *)

HasError(d) == \E i \in 1..Len(d) : d[i].type = "error"
ErrorsFirst(d) == \A i \in 1..Len(d) :
    d[i].type = "close" => \E j \in 1..(i - 1) : d[j].type = "error"

\* One graph at most is open, and none in the states in which nothing records.
GraphFollows ==
    /\ mics = IF graph THEN 1 ELSE 0
    /\ ~mounted \/ status \in {"idle", "error"} => ~graph /\ ~active /\ Settled
    /\ mounted /\ ~active => status \in {"idle", "error", "finalizing"}
    /\ status \in {"idle", "error"} \/ starting = "mic" => recognizer = "none"
    /\ starting \in {"no", "mic", "first", "probe", "second"}
    /\ starting \in {"first", "second"} \/ swapping => recognizer # "none"
    /\ ~Settled => /\ active /\ mounted /\ status \in {"requesting-mic", "connecting"}
                   /\ starting = "mic" => ~graph
                   /\ starting # "mic" => graph

Listens ==
    mounted /\ status = "listening" =>
        /\ active /\ graph
        /\ \/ recognizer = "browser" /\ browser = "running"
           \/ recognizer = "server" /\ sock = "open"

\* While it is awaited the service has been sent nothing, and it has only greeted.
Greets ==
    ~Settled /\ recognizer = "server" =>
        /\ sock \in {"opening", "open"} /\ loop \in {"off", "greet", "receive"}
        /\ up = <<>> /\ queued = 0 /\ ~decodeError /\ ~stop /\ decoder \in {"wait", "done"}
        /\ \A i \in 1..Len(down) : down[i].type = "ready"

\* The service does not close the socket of a recording without an error before.
Warns ==
    active /\ recognizer = "server" /\ sock = "open" =>
        /\ ErrorsFirst(down)
        /\ loop \in {"quiesce", "finalize", "write_final"} => decodeError \/ HasError(down)

MicInv == GraphFollows /\ Listens /\ Greets /\ Warns

-----------------------------------------------------------------------------
(* The microphone: the steps *)

\* What a message that is put on the way does to what is ahead of it.
LEMMA WarningPut ==
    ASSUME NEW d \in Seq(Answers), NEW m \in Answers, NEW r, r = Append(d, m)
    PROVE  /\ HasError(d) \/ m.type = "error" => HasError(r)
           /\ ErrorsFirst(d) /\ (m.type = "close" => HasError(d)) => ErrorsFirst(r)
<1>1. /\ Len(d) \in Nat /\ Len(r) = Len(d) + 1 /\ r[Len(d) + 1] = m
      /\ \A i \in 1..Len(d) : r[i] = d[i]
      /\ \A i \in 1..Len(r) : i \in 1..Len(d) \/ i = Len(d) + 1
  BY PutOn
<1>2. HasError(d) \/ m.type = "error" => HasError(r)
  BY <1>1 DEF HasError
<1>3. ASSUME ErrorsFirst(d), m.type = "close" => HasError(d) PROVE ErrorsFirst(r)
  <2> SUFFICES ASSUME NEW i \in 1..Len(r), r[i].type = "close"
               PROVE  \E j \in 1..(i - 1) : r[j].type = "error"
    BY DEF ErrorsFirst
  <2>1. PICK j \in 1..Len(d) : j <= i - 1 /\ d[j].type = "error"
    <3>1. CASE i \in 1..Len(d)
      <4>1. PICK j \in 1..(i - 1) : d[j].type = "error"
        BY <1>1, <1>3, <3>1 DEF ErrorsFirst
      <4> QED
        BY <1>1, <3>1, <4>1
    <3>2. CASE i = Len(d) + 1
      <4>1. PICK j \in 1..Len(d) : d[j].type = "error"
        BY <1>1, <1>3, <3>2 DEF HasError
      <4> QED
        BY <1>1, <3>2, <4>1
    <3> QED
      BY <1>1, <3>1, <3>2
  <2> QED
    BY <1>1, <2>1
<1> QED
  BY <1>2, <1>3

\* A message is taken: it closes nothing of which no error warned.
LEMMA WarningTaken ==
    ASSUME NEW d \in Seq(Answers), d # <<>>, ErrorsFirst(d)
    PROVE  /\ Head(d).type # "close"
           /\ Head(d).type # "error" =>
                 ErrorsFirst(Tail(d)) /\ (HasError(d) => HasError(Tail(d)))
<1>1. PICK r : r = Tail(d)
  OBVIOUS
<1>2. /\ Len(d) \in Nat /\ Len(r) = Len(d) - 1 /\ 1 \in 1..Len(d) /\ Head(d) = d[1]
      /\ \A i \in 1..Len(r) : i + 1 \in 1..Len(d) /\ r[i] = d[i + 1]
  BY <1>1, TakenFrom
<1>3. Head(d).type # "close"
  BY <1>2 DEF ErrorsFirst
<1>4. ASSUME Head(d).type # "error", NEW j \in 1..Len(d), d[j].type = "error"
      PROVE  j - 1 \in 1..Len(r) /\ r[j - 1].type = "error"
  BY <1>2, <1>4
<1>5. ASSUME Head(d).type # "error" PROVE ErrorsFirst(r)
  <2> SUFFICES ASSUME NEW i \in 1..Len(r), r[i].type = "close"
               PROVE  \E j \in 1..(i - 1) : r[j].type = "error"
    BY DEF ErrorsFirst
  <2>1. PICK j \in 1..i : d[j].type = "error"
    BY <1>2 DEF ErrorsFirst
  <2>2. j \in 1..Len(d)
    BY <1>2, <2>1
  <2>3. j - 1 \in 1..Len(r) /\ r[j - 1].type = "error"
    BY <1>4, <1>5, <2>1, <2>2
  <2> QED
    BY <2>1, <2>3
<1>6. Head(d).type # "error" /\ HasError(d) => HasError(r)
  BY <1>4 DEF HasError
<1> QED
  BY <1>1, <1>3, <1>5, <1>6

\* The hook's own steps, those of its recognizers and of the user.
LEMMA HookKeeps ==
    ASSUME Disturbances = {}, MicInv, TextInv, Fresh, InputNext, ~Deliver, ~Service
    PROVE  MicInv'
<1> USE DEF MicInv, GraphFollows, Listens, Greets, Warns, Settled
<1>1. CASE Start
  BY <1>1 DEF Start, server, refs
<1>2. CASE MicOpened
  BY <1>2, EmptySeq DEF MicOpened, StartEngine, OpenSocket, TextInv, TakesItsTurn, EnginesOK
<1>3. CASE MicDenied
  BY <1>3 DEF MicDenied, socketVars, server, client, refs, coroutines, TextInv, TakesItsTurn
<1>4. CASE EngineReady
  BY <1>4 DEF EngineReady, socketVars, server, client, refs, TextInv, TakesItsTurn, OneSpeaks
<1>5. CASE FirstFails
  <2>1. starting = "first" /\ ~swapping /\ UNCHANGED <<swapping, mounted>>
    BY <1>5 DEF FirstFails, TextInv, TakesItsTurn
  <2>2. CASE /\ starting' = "probe" /\ recognizer' = "none"
             /\ UNCHANGED <<active, status, graph, mics>>
    BY <2>1, <2>2
  <2>3. CASE starting' = "no" /\ GiveUp
    BY <2>1, <2>3 DEF GiveUp, Teardown
  <2> QED
    BY <1>5, <2>2, <2>3 DEF FirstFails
<1>6. CASE Probe
  <2>1. starting = "probe" /\ ~swapping /\ UNCHANGED <<swapping, mounted>>
    BY <1>6 DEF Probe, TextInv, TakesItsTurn
  <2>2. CASE /\ starting' = "second" /\ StartEngine("server")
             /\ UNCHANGED <<active, status, graph, mics>>
    BY <2>1, <2>2, EmptySeq DEF StartEngine, OpenSocket
  <2>3. CASE starting' = "no" /\ GiveUp
    BY <2>1, <2>3 DEF GiveUp, Teardown
  <2> QED
    BY <1>6, <2>2, <2>3 DEF Probe
<1>7. CASE ServiceFails
  BY <1>7 DEF ServiceFails, GiveUp, Teardown, server
<1>8. CASE BrowserFails
  BY <1>8, EmptySeq DEF BrowserFails, FallBack, StartEngine, Promote, OpenSocket, Fail, GiveUp,
                        Teardown, socketVars, server, client, refs, TextInv, TakesItsTurn, OneSpeaks
<1>9. CASE BrowserHears
  BY <1>9 DEF BrowserHears, socketVars, server, client, refs, coroutines
<1>10. CASE ServiceHears
  BY <1>10 DEF ServiceHears, Frame, server, refs, coroutines
<1>11. CASE ConnectionLost
  BY <1>11 DEF ConnectionLost, Fail, GiveUp, Teardown, Closed, server, refs, coroutines
<1>12. CASE Stop
  BY <1>12 DEF Stop, AskFinal, socketVars, server, client, refs
<1>13. CASE BrowserEnds
  BY <1>13 DEF BrowserEnds, socketVars, server, client, refs, coroutines, TextInv, EnginesOK
<1>14. CASE Timeout
  BY <1>14 DEF Timeout, FinalTimeout, server, refs, coroutines
<1>15. CASE StopDone
  BY <1>15 DEF StopDone, Cleanup, Teardown, server, TextInv, TakesItsTurn
<1>16. CASE Unmount
  BY <1>16 DEF Unmount, Cleanup, server, coroutines
<1> QED
  BY <1>1, <1>2, <1>3, <1>4, <1>5, <1>6, <1>7, <1>8, <1>9, <1>10, <1>11, <1>12, <1>13, <1>14, <1>15,
     <1>16 DEF InputNext

\* What the service has to say is heard: an error gives the recording up before a close
\* could take its socket away.
LEMMA DeliverKeeps ==
    ASSUME MicInv, TextInv, StreamOK, Deliver
    PROVE  MicInv'
<1> USE DEF MicInv
<1>1. PICK m \in Answers : m = Head(down)
  BY TakenFrom DEF StreamOK, Deliver
<1>2. /\ sock = "open" /\ down # <<>> /\ down' = Tail(down) /\ down \in Seq(Answers)
      /\ UNCHANGED <<up, loop, decoder, stop, queued, heard, decodeError, mounted, starting, swapping,
                     browser>>
  BY DEF Deliver, StreamOK, server, coroutines
<1>3. ~Settled => m.type = "ready"
  <2>1. ~Settled => recognizer = "server"
    BY <1>2 DEF TextInv, TakesItsTurn, OneSpeaks, EnginesOK, Dead, GraphFollows, Settled
  <2> QED
    BY <1>1, <1>2, <2>1, TakenFrom DEF Greets
<1>4. CASE m.type \notin {"error", "close"}
  <2>1. UNCHANGED <<sock, active, status, graph, mics, recognizer>>
    BY <1>1, <1>4 DEF Deliver, refs
  <2>2. GraphFollows' /\ Listens'
    BY <1>2, <2>1 DEF GraphFollows, Listens, Settled
  <2>3. Greets'
    <3>1. \A i \in 1..Len(down') : i + 1 \in 1..Len(down) /\ down'[i] = down[i + 1]
      BY <1>2, TakenFrom
    <3> QED
      BY <1>2, <2>1, <3>1 DEF Greets, Settled
  <2>4. ErrorsFirst(down) => ErrorsFirst(Tail(down)) /\ (HasError(down) => HasError(Tail(down)))
    BY <1>1, <1>2, <1>4, WarningTaken
  <2>5. Warns'
    BY <1>2, <2>1, <2>4 DEF Warns, HasError, ErrorsFirst
  <2> QED
    BY <2>2, <2>3, <2>5
<1>5. CASE m.type = "error"
  <2>1. Settled /\ Fail /\ UNCHANGED sock
    BY <1>1, <1>3, <1>5 DEF Deliver
  <2>2. CASE active
    <3>1. ~active' /\ status' = "error" /\ Teardown
      BY <2>1, <2>2 DEF Fail, GiveUp, Settled
    <3> QED
      BY <1>2, <2>1, <3>1 DEF Teardown, GraphFollows, Listens, Greets, Warns, Settled
  <2>3. CASE ~active
    <3>1. UNCHANGED <<sock, active, status, graph, mics, recognizer>>
      BY <2>1, <2>3 DEF Fail, refs
    <3> QED
      BY <1>2, <2>1, <2>3, <3>1 DEF GraphFollows, Listens, Greets, Warns, Settled
  <2> QED
    BY <2>2, <2>3
<1>6. CASE m.type = "close"
  <2>1. sock' = "closed" /\ UNCHANGED <<active, status, graph, mics, recognizer>> /\ Settled
    BY <1>1, <1>3, <1>6 DEF Deliver, Closed, refs
  <2>2. ~(active /\ recognizer = "server")
    BY <1>1, <1>2, <1>6, WarningTaken DEF Warns
  <2> QED
    BY <1>2, <2>1, <2>2 DEF GraphFollows, Listens, Greets, Warns, Settled
<1> QED
  BY <1>4, <1>5, <1>6

\* The handler's steps: before a close it has put an error on the way, unless the user
\* has stopped.
LEMMA ServiceKeeps ==
    ASSUME MicInv, WriterInv, StreamInv, Service
    PROVE  MicInv'
<1> USE DEF MicInv
<1>1. UNCHANGED <<status, active, mounted, graph, mics, recognizer, starting, swapping, browser>>
  BY DEF Service, refs, coroutines
<1>2. CASE Accept
  <2>1. /\ up = <<>> /\ down = <<>> /\ queued = 0 /\ ~decodeError /\ ~stop
        /\ UNCHANGED <<up, down, stop, queued, heard, decodeError>>
        /\ sock = "opening" /\ sock' = "open" /\ loop' = "greet" /\ decoder' = "wait"
    BY <1>2 DEF Accept, StreamInv, Fresh, WriterInv, TakeTurns
  <2>2. Len(down') = 0
    BY <2>1, EmptySeq
  <2> QED
    BY <1>1, <2>1, <2>2 DEF GraphFollows, Listens, Greets, Warns, Settled, ErrorsFirst
<1>3. ASSUME ServerNext, Greets', Warns' PROVE MicInv'
  <2>1. UNCHANGED sock
    BY <1>3 DEF ServerNext, ReadDisconnect, Read, Quiesce, Finalize, Write, DecoderStart, DecoderEnd,
                DecoderWrite, client
  <2> QED
    BY <1>1, <1>3, <2>1 DEF GraphFollows, Listens, Settled
<1>4. CASE ReadDisconnect
  <2>1. loop' = "gone" /\ loop = "receive" /\ up # <<>> /\ UNCHANGED <<down, sock>>
    BY <1>4 DEF ReadDisconnect, Leave, client
  <2>2. Greets' /\ Warns'
    BY <1>1, <2>1 DEF Greets, Warns, Settled
  <2> QED
    BY <1>3, <1>4, <2>2 DEF ServerNext
<1>5. CASE Read
  <2>1. up # <<>> /\ loop = "receive" /\ UNCHANGED <<down, sock, decodeError>>
    BY <1>5 DEF Read, client
  <2>2. Greets'
    BY <1>1, <2>1 DEF Greets, Settled
  <2>3. ASSUME loop' \in {"quiesce", "finalize", "write_final"}, Speaking
        PROVE  decodeError
    <3>1. loop = "receive" /\ (stop \/ Head(up) # "frame")
      BY <1>5, <2>3 DEF Read
    <3>2. Head(up) = up[1] /\ 1 \in 1..Len(up) /\ Head(up) \in Signals
      BY <2>1, TakenFrom DEF StreamInv, StreamOK
    <3>3. Head(up) # "stop" /\ Head(up) # "disconnect"
      BY <1>5, <2>1, <2>3, <3>2 DEF Read, StreamInv, Underway
    <3> QED
      BY <2>1, <3>1, <3>2, <3>3 DEF StreamInv, Fresh, Signals
  <2>4. Warns'
    BY <1>1, <2>1, <2>3 DEF Warns, ErrorsFirst, Speaking, GraphFollows
  <2> QED
    BY <1>3, <1>5, <2>2, <2>4 DEF ServerNext
<1>6. CASE Quiesce
  <2>1. /\ loop \in {"quiesce", "length"} /\ UNCHANGED <<up, down, sock, decodeError>>
        /\ loop' \in {"write_length", "write_error", "finalize"}
        /\ loop' = "finalize" => loop = "quiesce"
    BY <1>6 DEF Quiesce, client
  <2>2. Greets' /\ Warns'
    BY <1>1, <2>1 DEF Greets, Warns, Settled
  <2> QED
    BY <1>3, <1>6, <2>2 DEF ServerNext
<1>7. CASE Finalize
  <2>1. /\ loop = "finalize" /\ loop' \in {"write_final", "write_error"}
        /\ UNCHANGED <<up, down, sock, decodeError>>
    BY <1>7 DEF Finalize, client
  <2>2. Greets' /\ Warns'
    BY <1>1, <2>1 DEF Greets, Warns, Settled
  <2> QED
    BY <1>3, <1>7, <2>2 DEF ServerNext
<1>8. CASE DecoderStart \/ DecoderEnd
  <2>1. /\ UNCHANGED <<up, down, loop, sock>> /\ (decodeError => decodeError')
        /\ decoder \in {"wait", "decoding"}
    BY <1>8 DEF DecoderStart, DecoderEnd, client
  <2>2. Warns'
    BY <1>1, <2>1 DEF Warns
  <2>3. Greets'
    BY <1>1, <1>8, <2>1, SocketAssumption DEF Greets, Settled, DecoderStart, DecoderEnd
  <2> QED
    BY <1>3, <1>8, <2>2, <2>3 DEF ServerNext
<1>9. CASE DecoderWrite
  <2>1. /\ UNCHANGED <<loop, sock, decodeError>> /\ decoder = "writing"
        /\ down' = Append(down, Message("partial", heard))
    BY <1>9 DEF DecoderWrite, client
  <2>2. Message("partial", heard) \in Answers /\ Message("partial", heard).type = "partial"
    BY DEF Message, Answers, WriterInv, HandlerOK
  <2>3. /\ ErrorsFirst(down) => ErrorsFirst(down')
        /\ HasError(down) => HasError(down')
    BY <2>1, <2>2, WarningPut DEF StreamInv, StreamOK
  <2>4. Greets' /\ Warns'
    BY <1>1, <2>1, <2>3 DEF Greets, Warns, Settled, HasError, ErrorsFirst
  <2> QED
    BY <1>3, <1>9, <2>4 DEF ServerNext
<1>10. CASE Write /\ loop = "greet"
  <2>1. /\ UNCHANGED <<up, decoder, stop, queued, decodeError, sock>> /\ loop' = "receive"
        /\ down' = Append(down, Message("ready", 0))
    BY <1>10 DEF Write, client
  <2>2. Message("ready", 0) \in Answers /\ Message("ready", 0).type = "ready"
    BY DEF Message, Answers
  <2>3. ErrorsFirst(down) => ErrorsFirst(down')
    BY <2>1, <2>2, WarningPut DEF StreamInv, StreamOK
  <2>4. Warns'
    BY <1>1, <2>1, <2>3 DEF Warns, ErrorsFirst
  <2>5. Greets'
    <3>1. (\A i \in 1..Len(down) : down[i].type = "ready")
             => \A i \in 1..Len(down') : down'[i].type = "ready"
      BY <2>1, <2>2, PutOn DEF StreamInv, StreamOK
    <3> QED
      BY <1>1, <2>1, <3>1 DEF Greets, Settled
  <2> QED
    BY <1>3, <1>10, <2>4, <2>5 DEF ServerNext
<1>11. CASE Write /\ loop = "write_length"
  <2>1. /\ UNCHANGED sock /\ loop' = "quiesce"
        /\ down' = Append(down, Message("error", 0))
    BY <1>11 DEF Write, client
  <2>2. Message("error", 0) \in Answers /\ Message("error", 0).type = "error"
    BY DEF Message, Answers
  <2>3. HasError(down') /\ (ErrorsFirst(down) => ErrorsFirst(down'))
    BY <2>1, <2>2, WarningPut DEF StreamInv, StreamOK
  <2>4. Greets' /\ Warns'
    BY <1>1, <1>11, <2>1, <2>3 DEF Greets, Warns, Settled, HasError, ErrorsFirst
  <2> QED
    BY <1>3, <1>11, <2>4 DEF ServerNext
<1>12. CASE Write /\ loop \in {"write_final", "write_error"}
  <2>1. loop' = "gone" /\ UNCHANGED sock
    BY <1>12 DEF Write, Leave, client
  <2>2. Greets'
    BY <1>1, <1>12, <2>1 DEF Greets, Settled
  <2>3. ASSUME active, recognizer = "server", sock = "open" PROVE ErrorsFirst(down')
    <3>1. PICK m \in Answers : /\ down' = down \o <<m, Message("close", 0)>>
                               /\ m.type = "error" \/ (loop = "write_final" /\ m.type = "final")
      <4>1. Message("error", 0) \in Answers /\ Message("final", heard) \in Answers
        BY DEF Message, Answers, WriterInv, HandlerOK
      <4>2. CASE loop = "write_final"
        <5>1. down' = down \o <<Message("final", heard), Message("close", 0)>>
          BY <1>12, <4>2 DEF Write
        <5> QED
          BY <4>1, <4>2, <5>1 DEF Message
      <4>3. CASE loop = "write_error"
        <5>1. down' = down \o <<Message("error", 0), Message("close", 0)>>
          BY <1>12, <4>3 DEF Write
        <5>2. Message("error", 0).type = "error"
          BY DEF Message
        <5> QED
          BY <4>1, <5>1, <5>2
      <4> QED
        BY <1>12, <4>2, <4>3
    <3>2. Message("close", 0) \in Answers /\ Message("close", 0).type = "close"
      BY DEF Message, Answers
    <3>3. PICK d : d = Append(down, m)
      OBVIOUS
    <3>4. d \in Seq(Answers) /\ down' = Append(d, Message("close", 0))
      BY <3>1, <3>2, <3>3 DEF StreamInv, StreamOK
    <3>5. HasError(d)
      <4>1. HasError(down) \/ m.type = "error"
        BY <1>12, <2>3, <3>1 DEF Warns, StreamInv, Ended
      <4> QED
        BY <3>3, <4>1, WarningPut DEF StreamInv, StreamOK
    <3>6. ErrorsFirst(d)
      BY <2>3, <3>1, <3>3, WarningPut DEF Warns, StreamInv, StreamOK
    <3> QED
      BY <3>2, <3>4, <3>5, <3>6, WarningPut
  <2>4. Warns'
    BY <1>1, <2>1, <2>3 DEF Warns, ErrorsFirst
  <2> QED
    BY <1>3, <1>12, <2>2, <2>4 DEF ServerNext
<1> QED
  BY <1>2, <1>4, <1>5, <1>6, <1>7, <1>8, <1>9, <1>10, <1>11, <1>12
     DEF Service, ServerNext, Write, Writing

-----------------------------------------------------------------------------
\* useVoiceInput for recordings of any length and any sequence of them: while nobody
\* clicks or leaves as an engine starts, no connection is lost then, and recognizers end
\* and restart as they should, the microphone is open only for a mounted component that
\* records, and one that says it listens has its microphone and a running engine; also
\* across the fallback and whatever the service answers, fails or refuses.
THEOREM MicrophoneFollows ==
    ASSUME Disturbances = {}
    PROVE  InputSpec => []MicFollowsStatus
<1> DEFINE Inv == WriterInv /\ StreamInv /\ TextInv /\ MicInv
<1>1. InputInit => Inv
  <2> SUFFICES ASSUME InputInit PROVE MicInv
    BY StreamInit, TextInit
  <2> QED
    BY DEF InputInit, SocketInit, MicInv, GraphFollows, Listens, Greets, Warns, Settled
<1>2. Inv /\ [InputNext]_inputVars => Inv'
  <2> SUFFICES ASSUME Inv, [InputNext]_inputVars PROVE Inv'
    OBVIOUS
  <2>1. WriterInv' /\ StreamInv' /\ TextInv'
    BY StreamStep, TextStep
  <2>2. CASE Deliver
    BY <2>1, <2>2, DeliverKeeps DEF StreamInv
  <2>3. CASE Service
    BY <2>1, <2>3, ServiceKeeps
  <2>4. CASE InputNext /\ ~Deliver /\ ~Service
    BY <2>1, <2>4, HookKeeps DEF StreamInv
  <2>5. CASE UNCHANGED inputVars
    BY <2>1, <2>5 DEF inputVars, socketVars, server, client, refs, coroutines, MicInv, GraphFollows,
                      Listens, Greets, Warns, Settled, HasError, ErrorsFirst
  <2> QED
    BY <2>2, <2>3, <2>4, <2>5
<1>3. Inv => MicFollowsStatus
  BY DEF MicInv, GraphFollows, Listens, MicFollowsStatus
<1> QED
  BY <1>1, <1>2, <1>3, PTL DEF InputSpec

-----------------------------------------------------------------------------
(* Transcribing *)

\* A word as a hypothesis reports it.
HeardWord == [text : Vocabulary \cup {Garbled}, start : Nat, end : Nat]

\* The first J words have ended at time t, and no others.
EndedBy(J, t) ==
    /\ J \in 0 .. Len(speech)
    /\ \A n \in 1 .. Len(speech) : n <= J <=> speech[n].end <= t

\* ws are the words after the k-th up to the J-th as they were said, and after them
\* perhaps a reading of the next one, which the time t cuts.
Reports(ws, k, J, t) ==
    /\ ws \in Seq(HeardWord)
    /\ Len(ws) \in {J - k, J - k + 1}
    /\ \A i \in 1 .. J - k : ws[i] = speech[k + i]
    /\ Len(ws) > J - k =>
          /\ J < Len(speech)
          /\ speech[J + 1].start < t
          /\ ws[J - k + 1].text \in {speech[J + 1].text, Garbled}

\* A window that begins at the time from begins between two words, with the m-th.
BeginsAt(m, from) ==
    /\ m \in 1 .. Len(speech) + 1 /\ from \in Nat
    /\ \A n \in 1 .. Len(speech) : /\ m <= n => from <= speech[n].start
                                   /\ n < m => speech[n].end <= from

\* The first word of the window while the last of L committed words are its context.
FirstHeard(L) == IF L > ContextWords THEN L - ContextWords + 1 ELSE 1

\* What is committed is what was said, the window begins with the context, and the
\* tentative words are the rest of what the last decode heard.
Following ==
    LET L == Len(committed)
    IN  /\ L \in 0 .. Len(speech) /\ committed = SubSeq(speech, 1, L)
        /\ origin = IF L = 0 THEN 0 ELSE speech[FirstHeard(L)].start
        /\ \E J \in L .. Len(speech) : EndedBy(J, total) /\ Reports(pending, L, J, total)

TranscriptInv ==
    /\ speech \in Speeches /\ buffered \in Nat /\ total \in Nat
    /\ ~capped /\ ~closed => Following
    /\ ~capped => FinalTranscript

-----------------------------------------------------------------------------
\* The greatest and the least element of a set are the ones that bound it.
LEMMA MaxIs ==
    ASSUME NEW S \in SUBSET Int, NEW x \in S, \A y \in S : y <= x
    PROVE  Max(S) = x
<1> DEFINE P(y) == y \in S /\ \A z \in S : y >= z
<1>1. P(x)
  OBVIOUS
<1>2. \A y : P(y) => y = x
  OBVIOUS
<1> QED
  BY <1>1, <1>2 DEF Max

LEMMA MinIs ==
    ASSUME NEW S \in SUBSET Int, NEW x \in S, \A y \in S : x <= y
    PROVE  Min(S) = x
<1> DEFINE P(y) == y \in S /\ \A z \in S : y <= z
<1>1. P(x)
  OBVIOUS
<1>2. \A y : P(y) => y = x
  OBVIOUS
<1> QED
  BY <1>1, <1>2 DEF Min

\* The numbers up to the least of three are those up to each of them.
LEMMA UpToMin ==
    ASSUME NEW x \in Nat, NEW y \in Nat, NEW z \in Nat
    PROVE  /\ Min({x, y, z}) \in Nat
           /\ \A n \in Nat : n <= Min({x, y, z}) <=> n <= x /\ n <= y /\ n <= z
<1>1. PICK w \in {x, y, z} : \A v \in {x, y, z} : w <= v
  <2>1. CASE x <= y /\ x <= z
    BY <2>1
  <2>2. CASE y <= x /\ y <= z
    BY <2>2
  <2>3. CASE z <= x /\ z <= y
    BY <2>3
  <2> QED
    BY <2>1, <2>2, <2>3
<1>2. Min({x, y, z}) = w
  BY <1>1, MinIs
<1> QED
  BY <1>1, <1>2

LEMMA UpToMinOfTwo ==
    ASSUME NEW x \in Nat, NEW y \in Nat
    PROVE  /\ Min({x, y}) \in Nat
           /\ \A n \in Nat : n <= Min({x, y}) <=> n <= x /\ n <= y
<1>1. Min({x, y}) = IF x <= y THEN x ELSE y
  <2>1. CASE x <= y
    BY <2>1, MinIs
  <2>2. CASE ~(x <= y)
    BY <2>2, MinIs
  <2> QED
    BY <2>1, <2>2
<1> QED
  BY <1>1

\* A nonempty set of numbers has a least element, one that is bounded a greatest.
LEMMA LeastOf ==
    ASSUME NEW S \in SUBSET Nat, S # {}
    PROVE  \E m \in S : \A n \in S : m <= n
<1>1. PICK m \in S : \A n \in S : ~(<<n, m>> \in OpToRel(<, Nat))
  BY NatLessThanWellFounded, WFMin
<1>2. \A n \in S : m <= n
  <2> SUFFICES ASSUME NEW n \in S, n < m PROVE FALSE
    OBVIOUS
  <2>1. <<n, m>> \in Nat \X Nat
    OBVIOUS
  <2>2. <<n, m>> \in OpToRel(<, Nat)
    BY <2>1 DEF OpToRel
  <2> QED
    BY <1>1, <2>2
<1> QED
  BY <1>2

LEMMA GreatestOf ==
    ASSUME NEW S \in SUBSET Nat, S # {}, NEW b \in Nat, \A n \in S : n <= b
    PROVE  Max(S) \in S /\ \A n \in S : n <= Max(S)
<1> DEFINE T == {b - n : n \in S}
<1>1. T \in SUBSET Nat /\ T # {}
  <2>1. \A n \in S : b - n \in Nat
    OBVIOUS
  <2> QED
    BY <2>1
<1>2. PICK t \in T : \A u \in T : t <= u
  <2> HIDE DEF T
  <2> QED
    BY <1>1, LeastOf
<1>3. PICK m \in S : t = b - m
  OBVIOUS
<1>4. ASSUME NEW n \in S PROVE n <= m
  <2>1. b - n \in T /\ n \in Nat /\ m \in Nat
    OBVIOUS
  <2> QED
    BY <1>2, <1>3, <2>1
<1> QED
  BY <1>4, MaxIs

-----------------------------------------------------------------------------
\* A word that is said: its text is of the vocabulary, it ends after it begins and no
\* later than a decode is awaited, and the words before it have ended by then.
LEMMA SpeechWords ==
    ASSUME speech \in Speeches
    PROVE  /\ speech \in Seq(Spoken) /\ Len(speech) \in Nat /\ DOMAIN speech = 1 .. Len(speech)
           /\ \A n \in 1 .. Len(speech) :
                 /\ speech[n] \in Spoken /\ speech[n] \in HeardWord
                 /\ speech[n].text \in Vocabulary
                 /\ speech[n].start \in Nat /\ speech[n].end \in Nat
                 /\ speech[n].start < speech[n].end
                 /\ speech[n].end <= speech[n].start + MinChunk
           /\ \A m, n \in 1 .. Len(speech) : m < n => speech[m].end <= speech[n].start
<1>1. speech \in Seq(Spoken) /\ OneByOne(speech)
  BY SpeechAssumption
<1>2. DOMAIN speech = 1 .. Len(speech) /\ Len(speech) \in Nat
  BY <1>1
<1>3. \A n \in 1 .. Len(speech) : speech[n] \in Spoken
  BY <1>1, ElementOfSeq
<1>4. Spoken \subseteq HeardWord
  BY DEF Spoken, HeardWord
<1>5. \A w \in Spoken : w.text \in Vocabulary /\ w.start \in Nat /\ w.end \in Nat
  BY DEF Spoken
<1>6. \A n \in 1 .. Len(speech) : /\ speech[n].start < speech[n].end
                                  /\ speech[n].end <= speech[n].start + MinChunk
  BY <1>1, <1>2 DEF OneByOne
<1>7. \A m, n \in 1 .. Len(speech) : m < n => speech[m].end <= speech[n].start
  BY <1>1, <1>2 DEF OneByOne
<1> QED
  BY <1>1, <1>2, <1>3, <1>4, <1>5, <1>6, <1>7

\* At every time the words that have ended are the first ones.
LEMMA SomeEnded ==
    ASSUME speech \in Speeches, NEW t \in Int
    PROVE  \E J \in 0 .. Len(speech) : EndedBy(J, t)
<1> DEFINE Later == {n \in 1 .. Len(speech) : speech[n].end > t}
<1>1. CASE Later = {}
  <2>1. \A n \in 1 .. Len(speech) : n <= Len(speech) /\ speech[n].end <= t
    BY <1>1, SpeechWords
  <2>2. Len(speech) \in 0 .. Len(speech)
    BY SpeechWords
  <2> QED
    BY <2>1, <2>2 DEF EndedBy
<1>2. CASE Later # {}
  <2>1. Later \in SUBSET Nat
    OBVIOUS
  <2>2. PICK m \in Later : \A n \in Later : m <= n
    <3> HIDE DEF Later
    <3> QED
      BY <1>2, <2>1, LeastOf
  <2>3. ASSUME NEW n \in 1 .. Len(speech)
        PROVE  n <= m - 1 <=> speech[n].end <= t
    <3>1. CASE n < m
      BY <2>2, <3>1, SpeechWords
    <3>2. CASE n >= m
      <4>1. speech[m].end > t /\ m \in 1 .. Len(speech)
        OBVIOUS
      <4>2. n = m \/ (speech[m].end <= speech[n].start /\ speech[n].start < speech[n].end)
        BY <3>2, <4>1, SpeechWords
      <4> QED
        BY <3>2, <4>1, <4>2, SpeechWords
    <3> QED
      BY <2>2, <3>1, <3>2, SpeechWords
  <2>4. m - 1 \in 0 .. Len(speech)
    BY SpeechWords
  <2> QED
    BY <2>3, <2>4, SpeechWords DEF EndedBy
<1> QED
  BY <1>1, <1>2

\* What Whisper hears from the onset of the m-th word on: the words up to the last one
\* that has ended.
LEMMA HeardIs ==
    ASSUME speech \in Speeches, NEW from, NEW to, NEW m, NEW J,
           BeginsAt(m, from), EndedBy(J, to), m <= J + 1
    PROVE  Heard(from, to) = SubSeq(speech, m, J)
<1> DEFINE ns == {n \in DOMAIN speech : from <= speech[n].start /\ speech[n].end <= to}
<1>1. J \in 0 .. Len(speech) /\ m \in 1 .. Len(speech) + 1
  BY DEF EndedBy, BeginsAt
<1>2. ns = m .. J
  <2>1. ASSUME NEW n \in 1 .. Len(speech)
        PROVE  from <= speech[n].start <=> m <= n
    BY SpeechWords DEF BeginsAt
  <2> QED
    BY <1>1, <2>1, SpeechWords DEF EndedBy
<1>3. Heard(from, to) = IF ns = {} THEN <<>> ELSE SubSeq(speech, Min(ns), Max(ns))
  BY DEF Heard
<1> HIDE DEF ns
<1>4. CASE m <= J
  <2> DEFINE ks == m .. J
  <2>0. /\ ks \in SUBSET Int /\ m \in ks /\ J \in ks
        /\ \A n \in ks : m <= n /\ n <= J
    BY <1>1, <1>4
  <2> HIDE DEF ks
  <2>1. Min(ks) = m
    BY <2>0, MinIs
  <2>2. Max(ks) = J
    BY <2>0, MaxIs
  <2> USE DEF ks
  <2> QED
    BY <1>1, <1>2, <1>3, <1>4, <2>1, <2>2
<1>5. CASE m > J
  BY <1>1, <1>2, <1>3, <1>5, SubSeqEmpty
<1> QED
  BY <1>1, <1>4, <1>5

LEMMA MaxOfTwo ==
    ASSUME NEW x \in Int, NEW y \in Int
    PROVE  Max({x, y}) = IF x <= y THEN y ELSE x
<1>1. CASE x <= y
  BY <1>1, MaxIs
<1>2. CASE ~(x <= y)
  BY <1>2, MaxIs
<1> QED
  BY <1>1, <1>2

\* No word is cut where a window begins between two words.
LEMMA NoneCut ==
    ASSUME speech \in Speeches, NEW from, NEW to, NEW m, BeginsAt(m, from)
    PROVE  Readings(from, from, to) = {<<>>}
<1>1. {n \in DOMAIN speech : speech[n].start < from /\ from < speech[n].end} = {}
  <2> SUFFICES ASSUME NEW n \in 1 .. Len(speech), speech[n].start < from, from < speech[n].end
               PROVE  FALSE
    BY SpeechWords
  <2> QED
    BY SpeechWords DEF BeginsAt
<1> QED
  BY <1>1 DEF Readings

\* The word that the end of the audio cuts is the one after those that have ended.
LEMMA EndCut ==
    ASSUME speech \in Speeches, NEW from \in Nat, NEW to \in Nat, NEW J, EndedBy(J, to),
           NEW r \in Readings(to, from, to), r # <<>>
    PROVE  /\ J < Len(speech) /\ speech[J + 1].start < to
           /\ r \in Seq(HeardWord) /\ Len(r) = 1
           /\ r[1].text \in {speech[J + 1].text, Garbled}
<1>1. PICK n \in DOMAIN speech :
          /\ speech[n].start < to /\ to < speech[n].end
          /\ \E t \in {speech[n].text, Garbled} :
                r = <<[text |-> t, start |-> Max({from, speech[n].start}),
                       end |-> Min({to, speech[n].end})]>>
  BY DEF Readings
<1>2. n \in 1 .. Len(speech) /\ J \in 0 .. Len(speech)
  BY SpeechWords DEF EndedBy
<1>3. n = J + 1
  <2>1. ~(n <= J)
    BY <1>1, <1>2, SpeechWords DEF EndedBy
  <2>2. ASSUME n > J + 1 PROVE FALSE
    <3>1. J + 1 \in 1 .. Len(speech) /\ speech[J + 1].end <= speech[n].start
      BY <1>2, <2>2, SpeechWords
    <3>2. speech[J + 1].end <= to
      BY <1>1, <1>2, <3>1, SpeechWords
    <3> QED
      BY <1>2, <3>1, <3>2, SpeechWords DEF EndedBy
  <2> QED
    BY <1>2, <2>1, <2>2, SpeechWords
<1>4. PICK t \in {speech[n].text, Garbled} :
          r = <<[text |-> t, start |-> Max({from, speech[n].start}),
                 end |-> Min({to, speech[n].end})]>>
  BY <1>1
<1>5. /\ t \in Vocabulary \cup {Garbled}
      /\ Max({from, speech[n].start}) \in Nat /\ Min({to, speech[n].end}) \in Nat
  <2>1. /\ t \in Vocabulary \cup {Garbled}
        /\ speech[n].start \in Nat /\ speech[n].end \in Nat
    BY <1>2, SpeechWords
  <2>2. Max({from, speech[n].start}) \in Nat
    <3>1. PICK onset \in Nat : onset = speech[n].start
      BY <2>1
    <3>2. Max({from, onset}) = IF from <= onset THEN onset ELSE from
      BY MaxOfTwo
    <3> QED
      BY <3>1, <3>2
  <2>3. Min({to, speech[n].end}) \in Nat
    BY <2>1, UpToMinOfTwo
  <2> QED
    BY <2>1, <2>2, <2>3
<1>6. [text |-> t, start |-> Max({from, speech[n].start}),
       end |-> Min({to, speech[n].end})] \in HeardWord
  BY <1>5 DEF HeardWord
<1>7. r \in Seq(HeardWord) /\ Len(r) = 1 /\ r[1].text = t
  BY <1>4, <1>6
<1> QED
  BY <1>1, <1>2, <1>3, <1>4, <1>7, SpeechWords

\* A window that begins between two words is reported from its first word on.
LEMMA HypothesisIs ==
    ASSUME speech \in Speeches, NEW from, NEW to \in Nat, NEW m, NEW J,
           BeginsAt(m, from), EndedBy(J, to), m <= J + 1,
           NEW h \in Hypotheses(from, to)
    PROVE  Reports(h, m - 1, J, to)
<1>1. PICK r \in Readings(to, from, to) : h = (<<>> \o SubSeq(speech, m, J)) \o r
  <2>1. Readings(from, from, to) = {<<>>} /\ Heard(from, to) = SubSeq(speech, m, J)
    BY NoneCut, HeardIs
  <2>2. PICK l \in Readings(from, from, to), r \in Readings(to, from, to) :
            h = (l \o Heard(from, to)) \o r
    BY DEF Hypotheses
  <2> QED
    BY <2>1, <2>2
<1>2. J \in 0 .. Len(speech) /\ m \in 1 .. Len(speech) + 1 /\ from \in Nat
  BY DEF EndedBy, BeginsAt
<1> DEFINE w == SubSeq(speech, m, J)
<1>3. /\ w \in Seq(HeardWord) /\ Len(w) = J - m + 1
      /\ \A i \in 1 .. J - m + 1 : w[i] = speech[m + i - 1]
  <2>1. \A i \in m .. J : speech[i] \in HeardWord
    BY <1>2, SpeechWords
  <2>2. m \in Int /\ J \in Int
    BY <1>2, SpeechWords
  <2> QED
    BY <2>1, <2>2, SubSeqProperties
<1> HIDE DEF w
<1>4. h = w \o r
  BY <1>1, <1>3, ConcatEmptySeq DEF w
<1>5. CASE r = <<>>
  <2>1. h = w
    BY <1>3, <1>4, <1>5, ConcatEmptySeq
  <2> QED
    BY <1>2, <1>3, <2>1, SpeechWords DEF Reports
<1>6. CASE r # <<>>
  <2>1. /\ J < Len(speech) /\ speech[J + 1].start < to
        /\ r \in Seq(HeardWord) /\ Len(r) = 1
        /\ r[1].text \in {speech[J + 1].text, Garbled}
    BY <1>2, <1>6, EndCut
  <2>2. /\ h \in Seq(HeardWord) /\ Len(h) = J - m + 2
        /\ \A i \in 1 .. J - m + 1 : h[i] = w[i]
        /\ h[J - m + 2] = r[1]
    <3>1. /\ w \o r \in Seq(HeardWord) /\ Len(w \o r) = Len(w) + Len(r)
          /\ \A i \in 1 .. Len(w) + Len(r) : (w \o r)[i] =
                IF i <= Len(w) THEN w[i] ELSE r[i - Len(w)]
      BY <1>3, <2>1, ConcatProperties
    <3> QED
      BY <1>2, <1>3, <1>4, <2>1, <3>1, SpeechWords
  <2>3. /\ J - (m - 1) = J - m + 1 /\ J - (m - 1) + 1 = J - m + 2
        /\ \A i \in 1 .. J - (m - 1) : h[i] = speech[(m - 1) + i]
    <3>1. \A i \in 1 .. J - m + 1 : (m - 1) + i = m + i - 1
      BY <1>2, SpeechWords
    <3> QED
      BY <1>2, <1>3, <2>2, <3>1, SpeechWords
  <2> QED
    BY <2>1, <2>2, <2>3 DEF Reports
<1> QED
  BY <1>5, <1>6

-----------------------------------------------------------------------------
LEMMA TextsOf ==
    ASSUME NEW ws \in Seq(HeardWord)
    PROVE  /\ Texts(ws) \in Seq(Vocabulary \cup {Garbled}) /\ Len(Texts(ws)) = Len(ws)
           /\ \A i \in 1 .. Len(ws) : Texts(ws)[i] = ws[i].text
<1>1. DOMAIN ws = 1 .. Len(ws) /\ Len(ws) \in Nat
  OBVIOUS
<1>2. \A i \in 1 .. Len(ws) : ws[i].text \in Vocabulary \cup {Garbled}
  <2> SUFFICES ASSUME NEW i \in 1 .. Len(ws) PROVE ws[i].text \in Vocabulary \cup {Garbled}
    OBVIOUS
  <2>1. ws[i] \in HeardWord
    BY ElementOfSeq
  <2> QED
    BY <2>1 DEF HeardWord
<1>3. Texts(ws) = [i \in 1 .. Len(ws) |-> ws[i].text]
  BY <1>1 DEF Texts
<1> QED
  BY <1>1, <1>2, <1>3

\* Two stretches of words are the same if they have the same words.
LEMMA SameStretch ==
    ASSUME NEW S, NEW u \in Seq(S), NEW v \in Seq(S), NEW n \in Nat, NEW l \in Nat,
           n <= l, l <= Len(u), n <= Len(v)
    PROVE  SubSeq(u, l - n + 1, l) = SubSeq(v, 1, n) <=> \A i \in 1 .. n : u[l - n + i] = v[i]
<1> DEFINE x == SubSeq(u, l - n + 1, l)
           y == SubSeq(v, 1, n)
<1>1. x \in Seq(S) /\ Len(x) = n /\ \A i \in 1 .. n : x[i] = u[l - n + i]
  <2>1. \A i \in l - n + 1 .. l : u[i] \in S
    BY ElementOfSeq
  <2>2. /\ SubSeq(u, l - n + 1, l) \in Seq(S)
        /\ Len(SubSeq(u, l - n + 1, l)) =
              IF l - n + 1 <= l THEN l - (l - n + 1) + 1 ELSE 0
        /\ \A i \in 1 .. l - (l - n + 1) + 1 :
              SubSeq(u, l - n + 1, l)[i] = u[l - n + 1 + i - 1]
    <3>1. l - n + 1 \in Int
      OBVIOUS
    <3> QED
      BY <2>1, <3>1, SubSeqProperties
  <2>3. l - (l - n + 1) + 1 = n /\ \A i \in 1 .. n : l - n + 1 + i - 1 = l - n + i
    OBVIOUS
  <2>4. Len(x) = n
    BY <2>2, <2>3
  <2> QED
    BY <2>2, <2>3, <2>4
<1>2. y \in Seq(S) /\ Len(y) = n /\ \A i \in 1 .. n : y[i] = v[i]
  <2>1. \A i \in 1 .. n : v[i] \in S
    BY ElementOfSeq
  <2>2. /\ SubSeq(v, 1, n) \in Seq(S)
        /\ Len(SubSeq(v, 1, n)) = IF 1 <= n THEN n - 1 + 1 ELSE 0
        /\ \A i \in 1 .. n - 1 + 1 : SubSeq(v, 1, n)[i] = v[1 + i - 1]
    BY <2>1, SubSeqProperties
  <2> QED
    BY <2>2
<1> HIDE DEF x, y
<1>3. x = y <=> \A i \in 1 .. n : x[i] = y[i]
  BY <1>1, <1>2, SeqEqual
<1>4. x = y <=> \A i \in 1 .. n : u[l - n + i] = v[i]
  BY <1>1, <1>2, <1>3
<1> QED
  BY <1>4 DEF x, y

\* The first L words that are said, as they are committed.
LEMMA PrefixIs ==
    ASSUME speech \in Speeches, NEW L \in 0 .. Len(speech)
    PROVE  /\ SubSeq(speech, 1, L) \in Seq(HeardWord) /\ Len(SubSeq(speech, 1, L)) = L
           /\ \A i \in 1 .. L : SubSeq(speech, 1, L)[i] = speech[i]
<1>1. \A i \in 1 .. L : speech[i] \in HeardWord
  BY SpeechWords
<1>2. L \in Nat
  BY SpeechWords
<1>3. /\ SubSeq(speech, 1, L) \in Seq(HeardWord)
      /\ Len(SubSeq(speech, 1, L)) = IF 1 <= L THEN L - 1 + 1 ELSE 0
      /\ \A i \in 1 .. L - 1 + 1 : SubSeq(speech, 1, L)[i] = speech[1 + i - 1]
  BY <1>1, <1>2, SubSeqProperties
<1> QED
  BY <1>2, <1>3

\* What the scan compares: the last n committed words and the first n of h.
LEMMA RepeatsIf ==
    ASSUME speech \in Speeches, NEW L \in 0 .. Len(speech), committed = SubSeq(speech, 1, L),
           NEW h \in Seq(HeardWord), NEW n \in Nat, n <= L, n <= Len(h)
    PROVE  RepeatsLast(n, h) <=> \A i \in 1 .. n : speech[L - n + i].text = h[i].text
<1>1. /\ committed \in Seq(HeardWord) /\ Len(committed) = L /\ L \in Nat
      /\ \A i \in 1 .. L : committed[i] = speech[i]
  BY PrefixIs, SpeechWords
<1>2. /\ Texts(committed) \in Seq(Vocabulary \cup {Garbled}) /\ Len(Texts(committed)) = L
      /\ \A i \in 1 .. L : Texts(committed)[i] = committed[i].text
  BY <1>1, TextsOf
<1>3. /\ Texts(h) \in Seq(Vocabulary \cup {Garbled}) /\ Len(Texts(h)) = Len(h)
      /\ \A i \in 1 .. Len(h) : Texts(h)[i] = h[i].text
  BY TextsOf
<1> DEFINE u == Texts(committed)
           v == Texts(h)
<1>4. SubSeq(u, L - n + 1, L) = SubSeq(v, 1, n) <=> \A i \in 1 .. n : u[L - n + i] = v[i]
  <2> DEFINE S == Vocabulary \cup {Garbled}
  <2> HIDE DEF u, v
  <2>1. /\ u \in Seq(S) /\ v \in Seq(S) /\ L \in Nat /\ n \in Nat
        /\ n <= L /\ L <= Len(u) /\ n <= Len(v)
    BY <1>1, <1>2, <1>3 DEF u, v
  <2> HIDE DEF S
  <2> QED
    BY <2>1, SameStretch
<1>5. \A i \in 1 .. n : u[L - n + i] = speech[L - n + i].text /\ v[i] = h[i].text
  <2> SUFFICES ASSUME NEW i \in 1 .. n
               PROVE  u[L - n + i] = speech[L - n + i].text /\ v[i] = h[i].text
    OBVIOUS
  <2>1. L - n + i \in 1 .. L /\ i \in 1 .. Len(h)
    BY <1>1
  <2> QED
    BY <1>1, <1>2, <1>3, <2>1
<1>6. RepeatsLast(n, h) <=> SubSeq(u, L - n + 1, L) = SubSeq(v, 1, n)
  BY <1>1 DEF RepeatsLast
<1> HIDE DEF u, v
<1> QED
  BY <1>4, <1>5, <1>6

\* The overlap that the scan finds is the words of context: no shorter, since the scan
\* takes the longest match and the context fits into it; and no longer, since a longer
\* one would be a stretch of speech that repeats itself.
LEMMA OverlapIs ==
    ASSUME speech \in Speeches, NEW L \in 0 .. Len(speech), committed = SubSeq(speech, 1, L),
           NEW J, L <= J, J <= Len(speech), J \in Nat, NEW t, NEW h,
           Reports(h, FirstHeard(L) - 1, J, t)
    PROVE  Overlap(h) = L - FirstHeard(L) + 1
<1> DEFINE c == L - FirstHeard(L) + 1
           k == FirstHeard(L) - 1
           b == Min({Len(committed), Len(h), MaxOverlap})
           S == {0} \cup {n \in 1 .. b : RepeatsLast(n, h)}
<1>1. /\ L \in Nat /\ ContextWords \in Nat /\ ContextWords >= 1 /\ MaxOverlap \in Nat
      /\ ContextWords <= MaxOverlap /\ Len(speech) \in Nat
  BY SpeechWords, TranscriptAssumption
<1>2. /\ k \in Nat /\ c \in Nat /\ k + c = L
      /\ c = IF L > ContextWords THEN ContextWords ELSE L
  BY <1>1 DEF FirstHeard
<1>3. Len(committed) = L
  BY PrefixIs
<1>4. /\ h \in Seq(HeardWord) /\ Len(h) \in Nat /\ Len(h) \in {J - k, J - k + 1}
      /\ \A i \in 1 .. J - k : h[i] = speech[k + i]
      /\ Len(h) > J - k => /\ J < Len(speech)
                           /\ h[J - k + 1].text \in {speech[J + 1].text, Garbled}
  BY DEF Reports
<1>5. Overlap(h) = Max(S)
  BY DEF Overlap
<1> HIDE DEF k, c
<1>6. ASSUME NEW n \in 1 .. L, n <= Len(h)
      PROVE  RepeatsLast(n, h) <=> \A i \in 1 .. n : speech[L - n + i].text = h[i].text
  <2>1. n \in Nat /\ n <= L
    BY <1>1
  <2> QED
    BY <1>4, <1>6, <2>1, RepeatsIf
<1>7. b \in Nat /\ \A n \in Nat : n <= b <=> n <= L /\ n <= Len(h) /\ n <= MaxOverlap
  <2> DEFINE l == Len(h)
  <2>1. L \in Nat /\ l \in Nat /\ MaxOverlap \in Nat
    BY <1>1, <1>4
  <2> HIDE DEF l
  <2>2. /\ Min({L, l, MaxOverlap}) \in Nat
        /\ \A n \in Nat : n <= Min({L, l, MaxOverlap}) <=> n <= L /\ n <= l /\ n <= MaxOverlap
    BY <2>1, UpToMin
  <2> QED
    BY <1>3, <2>2 DEF l
<1> HIDE DEF b
<1>8. c \in S
  <2>1. CASE c = 0
    BY <2>1
  <2>2. CASE c > 0
    <3>1. c <= Len(h) /\ c <= L /\ c <= MaxOverlap
      BY <1>1, <1>2, <1>4
    <3>2. \A i \in 1 .. c : L - c + i = k + i /\ i \in 1 .. J - k
      BY <1>1, <1>2
    <3>3. \A i \in 1 .. c : speech[L - c + i].text = h[i].text
      BY <1>4, <3>2
    <3>4. c \in 1 .. L
      BY <1>1, <1>2, <2>2, <3>1
    <3>5. RepeatsLast(c, h)
      BY <1>6, <3>1, <3>3, <3>4
    <3>6. c \in 1 .. b
      BY <1>7, <3>1, <3>4
    <3> QED
      BY <3>5, <3>6
  <2> QED
    BY <1>2, <2>1, <2>2
<1>9. ASSUME NEW n \in S PROVE n <= c
  <2> SUFFICES ASSUME n > c PROVE FALSE
    BY <1>2, <1>1
  <2>1. n \in 1 .. L /\ n <= Len(h) /\ n <= MaxOverlap /\ RepeatsLast(n, h)
    BY <1>2, <1>7
  <2> DEFINE p == n - ContextWords
  <2>2. c = ContextWords /\ k = L - ContextWords /\ p \in 1 .. MaxOverlap - ContextWords
    BY <1>1, <1>2, <2>1
  <2>3. \A i \in 1 .. n : speech[L - n + i].text = h[i].text
    BY <1>6, <2>1
  <2>4. L + p <= Len(speech)
    BY <1>1, <1>4, <2>1, <2>2
  <2>5. ASSUME NEW i \in 1 .. n PROVE speech[L - n + i].text = speech[L - n + i + p].text
    <3>1. L - n + i \in 1 .. Len(speech) /\ L - n + i + p = k + i
      BY <1>1, <2>1, <2>2
    <3>2. speech[L - n + i].text \in Vocabulary /\ Garbled \notin Vocabulary
      BY <3>1, SpeechWords, SpeechAssumption
    <3>3. CASE i <= J - k
      <4>1. i \in 1 .. J - k
        BY <3>3, <1>2
      <4>2. h[i] = speech[k + i]
        BY <1>4, <4>1
      <4> QED
        BY <2>3, <3>1, <4>2
    <3>4. CASE i > J - k
      <4>1. i = J - k + 1 /\ Len(h) > J - k
        BY <1>1, <1>4, <2>1, <2>2, <3>4
      <4>2. h[i].text = speech[J + 1].text
        BY <1>4, <2>3, <3>2, <4>1
      <4>3. k + i = J + 1
        BY <1>1, <2>2, <4>1
      <4> QED
        BY <2>3, <3>1, <4>2, <4>3
    <3> QED
      BY <1>1, <2>2, <3>3, <3>4
  <2>6. NoStutter(speech) /\ DOMAIN speech = 1 .. Len(speech)
    BY SpeechWords, SpeechAssumption
  <2> DEFINE a == L - n + 1
  <2>7. a \in DOMAIN speech /\ a + ContextWords + 2 * p - 1 = L + p
    BY <1>1, <2>1, <2>6
  <2>8. PICK q \in a .. a + ContextWords + p - 1 : speech[q].text # speech[q + p].text
    <3> HIDE DEF a, p
    <3> QED
      BY <2>2, <2>4, <2>6, <2>7 DEF NoStutter
  <2>9. q - (L - n) \in 1 .. n /\ L - n + (q - (L - n)) = q
    BY <1>1, <2>1
  <2> QED
    BY <2>5, <2>8, <2>9
<1>10. S \in SUBSET Int
  BY <1>7
<1> HIDE DEF S
<1>11. Max(S) = c
  BY <1>8, <1>9, <1>10, MaxIs
<1> QED
  BY <1>5, <1>11 DEF c

-----------------------------------------------------------------------------
\* What is left of a report when its first n words are taken off.
LEMMA RestReported ==
    ASSUME speech \in Speeches, NEW k \in Nat, NEW J \in Nat, NEW t, NEW h, Reports(h, k, J, t),
           NEW n \in Nat, k + n <= J
    PROVE  Reports(SubSeq(h, n + 1, Len(h)), k + n, J, t)
<1> DEFINE r == SubSeq(h, n + 1, Len(h))
           l == Len(h)
<1>1. /\ h \in Seq(HeardWord) /\ l \in Nat /\ l \in {J - k, J - k + 1}
      /\ \A i \in 1 .. J - k : h[i] = speech[k + i]
      /\ l > J - k => /\ J < Len(speech)
                      /\ speech[J + 1].start < t
                      /\ h[J - k + 1].text \in {speech[J + 1].text, Garbled}
  BY DEF Reports
<1>2. r \in Seq(HeardWord) /\ Len(r) = l - n /\ \A i \in 1 .. l - n : r[i] = h[n + i]
  <2>1. \A i \in n + 1 .. l : h[i] \in HeardWord
    BY <1>1, ElementOfSeq
  <2>2. n + 1 \in Int /\ l \in Int
    BY <1>1
  <2>3. /\ r \in Seq(HeardWord)
        /\ Len(r) = IF n + 1 <= l THEN l - (n + 1) + 1 ELSE 0
        /\ \A i \in 1 .. l - (n + 1) + 1 : r[i] = h[n + 1 + i - 1]
    BY <2>1, <2>2, SubSeqProperties
  <2>4. l >= n /\ l - (n + 1) + 1 = l - n /\ \A i \in 1 .. l - n : n + 1 + i - 1 = n + i
    BY <1>1
  <2> HIDE DEF r, l
  <2> QED
    BY <1>1, <2>3, <2>4
<1> HIDE DEF r, l
<1>3. \A i \in 1 .. J - (k + n) : r[i] = speech[k + n + i]
  <2> SUFFICES ASSUME NEW i \in 1 .. J - (k + n) PROVE r[i] = speech[k + n + i]
    OBVIOUS
  <2>1. n + i \in 1 .. J - k /\ i \in 1 .. l - n /\ k + (n + i) = k + n + i
    BY <1>1
  <2> QED
    BY <1>1, <1>2, <2>1
<1>4. Len(r) \in {J - (k + n), J - (k + n) + 1}
  BY <1>1, <1>2
<1>5. ASSUME Len(r) > J - (k + n)
      PROVE  /\ l > J - k /\ r[J - (k + n) + 1] = h[J - k + 1]
  <2>1. l > J - k /\ J - (k + n) + 1 \in 1 .. l - n /\ n + (J - (k + n) + 1) = J - k + 1
    BY <1>1, <1>2, <1>5
  <2> QED
    BY <1>2, <2>1
<1>6. Reports(r, k + n, J, t)
  BY <1>1, <1>2, <1>3, <1>4, <1>5 DEF Reports
<1> QED
  BY <1>6 DEF r, l

\* The window that a decode is given begins between two words.
LEMMA WindowStart ==
    ASSUME speech \in Speeches, Following
    PROVE  BeginsAt(FirstHeard(Len(committed)), origin)
<1> DEFINE L == Len(committed)
           m == FirstHeard(L)
<1>1. L <= Len(speech) /\ L \in Nat /\ Len(speech) \in Nat /\ ContextWords \in Nat \ {0}
  BY SpeechWords, TranscriptAssumption DEF Following
<1>2. origin = IF L = 0 THEN 0 ELSE speech[m].start
  BY DEF Following
<1> HIDE DEF L
<1>3. m \in 1 .. Len(speech) + 1 /\ (L = 0 => m = 1) /\ (L # 0 => m <= L)
  BY <1>1 DEF FirstHeard
<1> HIDE DEF m
<1>4. ASSUME L = 0 PROVE BeginsAt(m, origin)
  <2>1. \A n \in 1 .. Len(speech) : 0 <= speech[n].start /\ ~(n < 1)
    BY SpeechWords
  <2> QED
    BY <1>2, <1>3, <1>4, <2>1 DEF BeginsAt
<1>5. ASSUME L # 0 PROVE BeginsAt(m, origin)
  <2>1. m \in 1 .. Len(speech)
    BY <1>1, <1>3, <1>5
  <2>2. ASSUME NEW n \in 1 .. Len(speech)
        PROVE  /\ m <= n => speech[m].start <= speech[n].start
               /\ n < m => speech[n].end <= speech[m].start
    <3>1. CASE n = m
      BY <2>1, <3>1, SpeechWords
    <3>2. CASE n < m
      BY <2>1, <3>2, SpeechWords
    <3>3. CASE m < n
      <4>1. speech[m].end <= speech[n].start /\ speech[m].start < speech[m].end
        BY <2>1, <3>3, SpeechWords
      <4> QED
        BY <2>1, <3>3, <4>1, SpeechWords
    <3> QED
      BY <1>3, <3>1, <3>2, <3>3
  <2>3. speech[m].start \in Nat
    BY <2>1, SpeechWords
  <2> QED
    BY <1>2, <1>3, <1>5, <2>2, <2>3 DEF BeginsAt
<1> QED
  BY <1>4, <1>5 DEF m, L

\* A decode of the audio up to the time t, without the words that are committed: the
\* words that follow them.
LEMMA FreshWords ==
    ASSUME speech \in Speeches, Following, total \in Nat, NEW t \in Nat, total <= t,
           NEW J, EndedBy(J, t), NEW h \in Hypotheses(origin, t)
    PROVE  /\ Len(committed) <= J
           /\ Reports(DropAlreadyCommitted(h), Len(committed), J, t)
<1> DEFINE L == Len(committed)
           m == FirstHeard(L)
<1>1. /\ L \in 0 .. Len(speech) /\ L \in Nat /\ committed = SubSeq(speech, 1, L)
      /\ J \in 0 .. Len(speech) /\ J \in Nat
  BY SpeechWords DEF Following, EndedBy
<1>2. L <= J
  <2>1. PICK K \in L .. Len(speech) : EndedBy(K, total)
    BY DEF Following
  <2>2. CASE L = 0
    BY <1>1, <2>2
  <2>3. CASE L # 0
    <3>1. L \in 1 .. Len(speech) /\ L <= K
      BY <1>1, <2>1, <2>3
    <3>2. speech[L].end <= total
      BY <2>1, <3>1 DEF EndedBy
    <3>3. speech[L].end <= t
      BY <3>1, <3>2, SpeechWords
    <3> QED
      BY <3>1, <3>3 DEF EndedBy
  <2> QED
    BY <2>2, <2>3
<1>3. m \in Nat /\ m >= 1 /\ m <= L + 1
  BY <1>1, TranscriptAssumption DEF FirstHeard
<1>4. Reports(h, m - 1, J, t)
  <2>1. BeginsAt(m, origin)
    BY WindowStart
  <2>2. m <= J + 1
    BY <1>1, <1>2, <1>3
  <2> HIDE DEF m
  <2> QED
    BY <2>1, <2>2, HypothesisIs
<1>5. Overlap(h) = L - m + 1
  <2> HIDE DEF L
  <2>1. J <= Len(speech)
    BY <1>1, SpeechWords
  <2> QED
    BY <1>1, <1>2, <1>4, <2>1, OverlapIs
<1>6. DropAlreadyCommitted(h) = SubSeq(h, Overlap(h) + 1, Len(h))
  <2>1. CASE L = 0
    <3>1. committed = <<>>
      BY <1>1, <2>1, SubSeqEmpty
    <3> QED
      BY <3>1 DEF DropAlreadyCommitted
  <2>2. CASE L # 0
    <3>1. m <= L
      BY <1>1, <2>2, TranscriptAssumption DEF FirstHeard
    <3>2. Overlap(h) > 0
      <4> HIDE DEF L, m
      <4> QED
        BY <1>1, <1>3, <1>5, <3>1
    <3> QED
      BY <3>2 DEF DropAlreadyCommitted
  <2> QED
    BY <2>1, <2>2
<1>7. Reports(SubSeq(h, (L - m + 1) + 1, Len(h)), L, J, t)
  <2> HIDE DEF L, m
  <2> DEFINE k == m - 1
             n == L - m + 1
  <2>1. k \in Nat /\ n \in Nat /\ k + n = L /\ k + n <= J
    BY <1>1, <1>2, <1>3
  <2>2. Reports(h, k, J, t)
    BY <1>4
  <2> HIDE DEF k, n
  <2>3. Reports(SubSeq(h, n + 1, Len(h)), k + n, J, t)
    BY <1>1, <2>1, <2>2, RestReported
  <2> QED
    BY <2>1, <2>3 DEF n
<1> QED
  BY <1>2, <1>5, <1>6, <1>7

\* What two hypotheses agree on has ended by the time of the second: the word that the
\* first one cut is whole in the second, for it is no longer than what a decode awaits.
LEMMA AgreedEnded ==
    ASSUME speech \in Speeches, total \in Nat, NEW t \in Nat, total + MinChunk <= t,
           NEW L \in Nat, NEW K, NEW J, EndedBy(K, total), EndedBy(J, t), L <= K, L <= J,
           Reports(pending, L, K, total), NEW d, Reports(d, L, J, t)
    PROVE  Agreed(d) \in Nat /\ L + Agreed(d) <= J
<1> DEFINE b == Min({Len(pending), Len(d)})
           T == {n \in 0 .. b : SubSeq(Texts(pending), 1, n) = SubSeq(Texts(d), 1, n)}
<1>1. J \in Nat /\ K \in Nat /\ J <= Len(speech) /\ K <= Len(speech) /\ Len(speech) \in Nat
      /\ MinChunk \in Nat
  BY SpeechWords, TranscriptAssumption DEF EndedBy
<1>2. /\ Len(pending) \in Nat /\ Len(d) \in Nat
      /\ Len(pending) <= K - L + 1 /\ Len(d) <= J - L + 1
      /\ Len(pending) > K - L => K < Len(speech) /\ speech[K + 1].start < total
  BY <1>1 DEF Reports
<1>3. b \in Nat /\ b <= Len(pending) /\ b <= Len(d)
  BY <1>2, UpToMinOfTwo
<1>4. Agreed(d) = Max(T)
  BY DEF Agreed
<1> HIDE DEF b
<1>5. T \in SUBSET Nat /\ T # {} /\ \A n \in T : n <= b
  <2>1. SubSeq(Texts(pending), 1, 0) = SubSeq(Texts(d), 1, 0)
    BY SubSeqEmpty
  <2>2. 0 \in T
    BY <1>3, <2>1
  <2>3. \A n \in T : n \in 0 .. b
    OBVIOUS
  <2> HIDE DEF T
  <2> QED
    BY <1>3, <2>2, <2>3
<1> HIDE DEF T
<1>6. Max(T) \in Nat /\ Max(T) <= b
  BY <1>3, <1>5, GreatestOf
<1>7. L + b <= J
  <2> SUFFICES ASSUME L + b > J PROVE FALSE
    BY <1>1, <1>3
  <2>1. K <= J
    <3>1. CASE K = 0
      BY <1>1, <3>1
    <3>2. CASE K # 0
      <4>1. K \in 1 .. Len(speech)
        BY <1>1, <3>2
      <4>2. speech[K].end <= total
        BY <1>1, <4>1 DEF EndedBy
      <4>3. speech[K].end <= t
        BY <1>1, <4>1, <4>2, SpeechWords
      <4> QED
        BY <4>1, <4>3 DEF EndedBy
    <3> QED
      BY <3>1, <3>2
  <2>2. K = J /\ Len(pending) > K - L
    BY <1>1, <1>2, <1>3, <2>1
  <2>3. J + 1 \in 1 .. Len(speech) /\ speech[J + 1].start < total
    BY <1>1, <1>2, <2>2
  <2>4. speech[J + 1].end <= t
    BY <1>1, <2>3, SpeechWords
  <2> QED
    BY <1>1, <2>3, <2>4 DEF EndedBy
<1> QED
  BY <1>1, <1>3, <1>4, <1>6, <1>7

\* Trimming: the hard cap cuts, or the window begins where the context does.
LEMMA TrimTo ==
    ASSUME NEW o \in Nat, NEW t \in Nat, NEW w \in Nat, NEW forced,
           forced = IF t - o > w THEN {t - w} ELSE {}
    PROVE  /\ o = 0 => Min({t, Max({o} \cup {} \cup forced)}) \in forced \cup {0}
           /\ \A c \in Nat : o <= c /\ c <= t =>
                 Min({t, Max({o} \cup {c} \cup forced)}) \in forced \cup {c}
<1> DEFINE S(context) == {o} \cup context \cup forced
           n(context) == Min({t, Max(S(context))})
<1>1. \A x \in Nat : x <= t => Min({t, x}) = x
  <2> SUFFICES ASSUME NEW x \in Nat, x <= t PROVE Min({t, x}) = x
    OBVIOUS
  <2> QED
    BY MinIs
<1>2. \A T \in SUBSET Int : \A x \in T : (\A y \in T : y <= x) => Max(T) = x
  BY MaxIs
<1>3. ASSUME o = 0 PROVE n({}) \in forced \cup {0}
  <2>1. CASE t > w
    <3>1. forced = {t - w} /\ t - w \in Nat /\ t - w <= t
      BY <1>3, <2>1
    <3>2. S({}) \in SUBSET Int /\ t - w \in S({}) /\ \A y \in S({}) : y <= t - w
      BY <1>3, <3>1
    <3>3. Max(S({})) = t - w
      BY <1>2, <3>2
    <3> QED
      BY <1>1, <3>1, <3>3
  <2>2. CASE ~(t > w)
    <3>1. forced = {}
      BY <1>3, <2>2
    <3>2. S({}) \in SUBSET Int /\ 0 \in S({}) /\ \A y \in S({}) : y <= 0
      BY <1>3, <3>1
    <3>3. Max(S({})) = 0
      BY <1>2, <3>2
    <3> QED
      BY <1>1, <3>3
  <2> QED
    BY <2>1, <2>2
<1>4. ASSUME NEW c \in Nat, o <= c, c <= t
      PROVE  n({c}) \in forced \cup {c}
  <2>1. CASE t - o > w /\ t - w > c
    <3>1. forced = {t - w} /\ t - w \in Nat /\ t - w <= t
      BY <2>1
    <3>2. S({c}) \in SUBSET Int /\ t - w \in S({c}) /\ \A y \in S({c}) : y <= t - w
      BY <1>4, <2>1, <3>1
    <3>3. Max(S({c})) = t - w
      BY <1>2, <3>2
    <3> QED
      BY <1>1, <3>1, <3>3
  <2>2. CASE ~(t - o > w /\ t - w > c)
    <3>1. S({c}) \in SUBSET Int /\ c \in S({c}) /\ \A y \in S({c}) : y <= c
      BY <1>4, <2>2
    <3>2. Max(S({c})) = c
      BY <1>2, <3>1
    <3> QED
      BY <1>1, <1>4, <3>2
  <2> QED
    BY <2>1, <2>2
<1> QED
  BY <1>3, <1>4

\* A sequence that begins with x and goes on with y.
LEMMA ConcatIs ==
    ASSUME NEW S, NEW x \in Seq(S), NEW y \in Seq(S), NEW z \in Seq(S),
           Len(z) = Len(x) + Len(y), \A i \in 1 .. Len(x) : z[i] = x[i],
           \A i \in 1 .. Len(y) : z[Len(x) + i] = y[i]
    PROVE  x \o y = z
<1>1. /\ x \o y \in Seq(S) /\ Len(x \o y) = Len(x) + Len(y)
      /\ \A i \in 1 .. Len(x) + Len(y) :
            (x \o y)[i] = IF i <= Len(x) THEN x[i] ELSE y[i - Len(x)]
  BY ConcatProperties
<1>2. ASSUME NEW j \in 1 .. Len(z) PROVE (x \o y)[j] = z[j]
  <2>1. j \in 1 .. Len(x) + Len(y) /\ Len(x) \in Nat /\ Len(y) \in Nat
    OBVIOUS
  <2>2. CASE j <= Len(x)
    <3>1. j \in 1 .. Len(x)
      BY <2>1, <2>2
    <3> QED
      BY <1>1, <2>1, <2>2, <3>1
  <2>3. CASE ~(j <= Len(x))
    <3>1. j - Len(x) \in 1 .. Len(y) /\ Len(x) + (j - Len(x)) = j
      BY <2>1, <2>3
    <3> QED
      BY <1>1, <2>1, <2>3, <3>1
  <2> QED
    BY <2>2, <2>3
<1> QED
  BY <1>1, <1>2, SeqEqual

\* Words committed after the first L words that are said, as they are said.
LEMMA CommittedOn ==
    ASSUME speech \in Speeches, NEW L \in Nat, NEW A \in Nat, L + A <= Len(speech),
           NEW d \in Seq(HeardWord), A <= Len(d), \A i \in 1 .. A : d[i] = speech[L + i]
    PROVE  SubSeq(speech, 1, L) \o SubSeq(d, 1, A) = SubSeq(speech, 1, L + A)
<1> DEFINE x == SubSeq(speech, 1, L)
           y == SubSeq(d, 1, A)
           z == SubSeq(speech, 1, L + A)
<1>1. /\ x \in Seq(HeardWord) /\ Len(x) = L /\ \A i \in 1 .. L : x[i] = speech[i]
      /\ z \in Seq(HeardWord) /\ Len(z) = L + A /\ \A i \in 1 .. L + A : z[i] = speech[i]
  <2>1. L \in 0 .. Len(speech) /\ L + A \in 0 .. Len(speech)
    BY SpeechWords
  <2> QED
    BY <2>1, PrefixIs
<1>2. y \in Seq(HeardWord) /\ Len(y) = A /\ \A i \in 1 .. A : y[i] = speech[L + i]
  <2>1. \A i \in 1 .. A : d[i] \in HeardWord
    BY ElementOfSeq
  <2>2. /\ y \in Seq(HeardWord) /\ Len(y) = IF 1 <= A THEN A - 1 + 1 ELSE 0
        /\ \A i \in 1 .. A - 1 + 1 : y[i] = d[1 + i - 1]
    BY <2>1, SubSeqProperties
  <2> QED
    BY <2>2
<1> HIDE DEF x, y, z
<1>3. \A i \in 1 .. L : z[i] = x[i]
  BY <1>1
<1>4. ASSUME NEW i \in 1 .. A PROVE z[L + i] = y[i]
  <2>1. L + i \in 1 .. L + A
    OBVIOUS
  <2> QED
    BY <1>1, <1>2, <2>1
<1>5. x \o y = z
  BY <1>1, <1>2, <1>3, <1>4, ConcatIs
<1> QED
  BY <1>5 DEF x, y, z

\* The window after a decode that the hard cap did not cut.
LEMMA TrimIs ==
    ASSUME speech \in Speeches, Following, NEW M \in 0 .. Len(speech), NEW t \in Nat,
           Len(committed) <= M, committed' = SubSeq(speech, 1, M), total' = t,
           \A n \in 1 .. M : speech[n].end <= t,
           TrimWindow, origin' \notin ForcedCut
    PROVE  origin' = IF M = 0 THEN 0 ELSE speech[FirstHeard(M)].start
<1> DEFINE L == Len(committed)
           c == speech[FirstHeard(M)].start
<1>1. /\ M \in Nat /\ L \in Nat /\ L <= M /\ M <= Len(speech) /\ Len(speech) \in Nat
      /\ Len(committed') = M /\ DOMAIN committed' = 1 .. M
      /\ \A i \in 1 .. M : committed'[i] = speech[i]
      /\ ContextWords \in Nat /\ ContextWords >= 1 /\ MaxWindow \in Nat
  <2>1. /\ committed' \in Seq(HeardWord) /\ Len(committed') = M
        /\ \A i \in 1 .. M : committed'[i] = speech[i]
    BY PrefixIs
  <2> QED
    BY <2>1, SpeechWords, TranscriptAssumption DEF Following
<1>2. origin \in Nat /\ origin = IF L = 0 THEN 0 ELSE speech[FirstHeard(L)].start
  BY WindowStart DEF BeginsAt, Following
<1> HIDE DEF L
<1>3. ContextOnset = IF M = 0 THEN {} ELSE {c}
  <2>1. CASE M = 0
    BY <1>1, <2>1 DEF ContextOnset
  <2>2. CASE M # 0
    <3>1. Max({1, Len(committed') - ContextWords + 1}) = FirstHeard(M)
      <4>1. M - ContextWords + 1 \in Int
        BY <1>1
      <4>2. Max({1, M - ContextWords + 1}) =
                IF 1 <= M - ContextWords + 1 THEN M - ContextWords + 1 ELSE 1
        BY <4>1, MaxOfTwo
      <4>3. Len(committed') = M
        BY <1>1
      <4>4. FirstHeard(M) = IF 1 <= M - ContextWords + 1 THEN M - ContextWords + 1 ELSE 1
        BY <1>1 DEF FirstHeard
      <4> QED
        BY <4>2, <4>3, <4>4
    <3>2. FirstHeard(M) \in 1 .. M /\ 1 \in DOMAIN committed'
      BY <1>1, <2>2 DEF FirstHeard
    <3>3. committed'[FirstHeard(M)].start = c
      BY <1>1, <3>2
    <3>4. ContextOnset = {committed'[FirstHeard(M)].start : i \in DOMAIN committed'}
      BY <3>1 DEF ContextOnset
    <3>5. ContextOnset = {committed'[FirstHeard(M)].start}
      BY <3>2, <3>4
    <3> QED
      BY <2>2, <3>3, <3>5
  <2> QED
    BY <2>1, <2>2
<1>4. \/ ContextOnset = {} /\ origin = 0
      \/ \E k \in Nat : ContextOnset = {k} /\ origin <= k /\ k <= t
  <2>1. CASE M = 0
    BY <1>1, <1>2, <1>3, <2>1
  <2>2. CASE M # 0
    <3> DEFINE m == FirstHeard(M)
    <3>1. m \in 1 .. M /\ m \in 1 .. Len(speech)
      BY <1>1, <2>2 DEF FirstHeard
    <3>2. c \in Nat /\ c <= t
      <4> HIDE DEF m
      <4>1. speech[m].start \in Nat /\ speech[m].start <= t
        BY <3>1, SpeechWords
      <4> QED
        BY <4>1 DEF m
    <3>3. origin <= c
      <4>1. CASE L = 0
        BY <1>2, <3>2, <4>1
      <4>2. CASE L # 0
        <5> DEFINE l == FirstHeard(L)
        <5>1. l \in 1 .. Len(speech) /\ l <= m
          BY <1>1, <4>2 DEF FirstHeard
        <5> HIDE DEF l, m
        <5>2. speech[l].start <= speech[m].start
          <6>1. CASE l = m
            BY <3>1, <6>1, SpeechWords
          <6>2. CASE l # m
            <7>1. l < m
              BY <3>1, <5>1, <6>2
            <7>2. speech[l].end <= speech[m].start /\ speech[l].start < speech[l].end
              BY <3>1, <5>1, <7>1, SpeechWords
            <7> QED
              BY <3>1, <5>1, <7>2, SpeechWords
          <6> QED
            BY <6>1, <6>2
        <5> QED
          BY <1>2, <4>2, <5>2 DEF l, m
      <4> QED
        BY <4>1, <4>2
    <3> QED
      BY <1>3, <2>2, <3>2, <3>3
  <2> QED
    BY <2>1, <2>2
<1>5. ForcedCut = IF t - origin > MaxWindow THEN {t - MaxWindow} ELSE {}
  BY DEF ForcedCut
<1>6. origin' = Min({t, Max({origin} \cup ContextOnset \cup ForcedCut)})
  BY DEF TrimWindow
<1>7. origin' \in ForcedCut \/ (ContextOnset = {} /\ origin' = 0) \/ ContextOnset = {origin'}
  <2>1. PICK o, w, forced : /\ o = origin /\ w = MaxWindow /\ forced = ForcedCut
                            /\ o \in Nat /\ w \in Nat
    BY <1>1, <1>2
  <2>2. forced = IF t - o > w THEN {t - w} ELSE {}
    BY <1>5, <2>1
  <2>3. /\ o = 0 => Min({t, Max({o} \cup {} \cup forced)}) \in forced \cup {0}
        /\ \A k \in Nat : o <= k /\ k <= t =>
              Min({t, Max({o} \cup {k} \cup forced)}) \in forced \cup {k}
    BY <2>1, <2>2, TrimTo
  <2>4. CASE ContextOnset = {} /\ origin = 0
    BY <1>6, <2>1, <2>3, <2>4
  <2>5. ASSUME NEW k \in Nat, ContextOnset = {k}, origin <= k, k <= t
        PROVE  origin' \in ForcedCut \/ ContextOnset = {origin'}
    <3>1. Min({t, Max({o} \cup {k} \cup forced)}) \in forced \cup {k}
      BY <2>1, <2>3, <2>5
    <3>2. origin' = Min({t, Max({o} \cup {k} \cup forced)})
      BY <1>6, <2>1, <2>5
    <3> QED
      BY <2>1, <2>5, <3>1, <3>2
  <2> QED
    BY <1>4, <2>4, <2>5
<1> QED
  BY <1>3, <1>7

-----------------------------------------------------------------------------
\* A decode: what it commits is the words that come next, and the window moves to the
\* context of the words committed now.
LEMMA DecodeKeeps ==
    ASSUME TranscriptInv, DrainAndDecode
    PROVE  TranscriptInv'
<1>1. PICK t \in Nat : t = total + buffered
  BY DEF TranscriptInv
<1>2. /\ speech \in Speeches /\ total \in Nat /\ ~closed
      /\ ~closed' /\ speech' = speech /\ buffered' = 0 /\ total' = t
      /\ total + MinChunk <= t /\ total <= t /\ TrimWindow
      /\ ~capped' => ~capped /\ origin' \notin ForcedCut
  <2>1. ~capped' => ~capped /\ origin' \notin ForcedCut
    BY Zenon DEF DrainAndDecode
  <2>2. total + MinChunk <= t /\ total <= t
    BY <1>1, TranscriptAssumption DEF TranscriptInv, DrainAndDecode
  <2> QED
    BY <1>1, <2>1, <2>2 DEF TranscriptInv, DrainAndDecode, AddPcm
<1>3. ASSUME ~capped' PROVE Following'
  <2>1. Following
    BY <1>2, <1>3 DEF TranscriptInv
  <2>2. PICK L \in 0 .. Len(speech) : L = Len(committed) /\ committed = SubSeq(speech, 1, L)
    BY <2>1 DEF Following
  <2>3. PICK h \in Hypotheses(origin, t) : CommitAgreedPrefix(DropAlreadyCommitted(h))
    BY <1>2 DEF DrainAndDecode
  <2>4. PICK d : d = DropAlreadyCommitted(h)
    OBVIOUS
  <2>5. PICK A : A = Agreed(d)
    OBVIOUS
  <2>6. PICK J \in 0 .. Len(speech) : EndedBy(J, t)
    BY <1>2, SomeEnded
  <2>7. L <= J /\ Reports(d, L, J, t)
    BY <1>2, <2>1, <2>2, <2>4, <2>6, FreshWords
  <2>8. PICK K \in L .. Len(speech) : EndedBy(K, total) /\ Reports(pending, L, K, total)
    BY <2>1, <2>2 DEF Following
  <2>9. L \in Nat /\ J \in Nat /\ L <= K /\ Len(speech) \in Nat /\ J <= Len(speech)
    BY <1>2, <2>8, SpeechWords
  <2>10. A \in Nat /\ L + A <= J
    BY <1>2, <2>5, <2>6, <2>7, <2>8, <2>9, AgreedEnded
  <2>11. /\ committed' = committed \o SubSeq(d, 1, A)
         /\ pending' = SubSeq(d, A + 1, Len(d))
    BY <2>3, <2>4, <2>5 DEF CommitAgreedPrefix
  <2>12. PICK M \in 0 .. Len(speech) : M = L + A /\ M \in Nat
    BY <2>9, <2>10
  <2>13. committed' = SubSeq(speech, 1, M)
    <3>1. d \in Seq(HeardWord) /\ A <= Len(d) /\ \A i \in 1 .. A : d[i] = speech[L + i]
      BY <2>7, <2>9, <2>10 DEF Reports
    <3>2. SubSeq(speech, 1, L) \o SubSeq(d, 1, A) = SubSeq(speech, 1, L + A)
      BY <1>2, <2>9, <2>10, <3>1, CommittedOn
    <3> QED
      BY <2>2, <2>11, <2>12, <3>2
  <2>14. Len(committed') = M
    BY <1>2, <2>13, PrefixIs
  <2>15. Reports(SubSeq(d, A + 1, Len(d)), M, J, t)
    BY <1>2, <2>7, <2>9, <2>10, <2>12, RestReported
  <2>16. \A n \in 1 .. M : speech[n].end <= t
    BY <2>6, <2>9, <2>10, <2>12 DEF EndedBy
  <2>17. origin' = IF M = 0 THEN 0 ELSE speech[FirstHeard(M)].start
    BY <1>2, <1>3, <2>1, <2>2, <2>9, <2>10, <2>12, <2>13, <2>16, TrimIs
  <2>18. EndedBy(J, total)' /\ Reports(pending, M, J, total)'
    BY <1>2, <2>6, <2>11, <2>15 DEF EndedBy, Reports
  <2>19. J \in M .. Len(speech)
    BY <2>9, <2>10, <2>12
  <2> QED
    BY <1>2, <2>12, <2>13, <2>14, <2>17, <2>18, <2>19 DEF Following
<1> QED
  BY <1>2, <1>3 DEF TranscriptInv, FinalTranscript, EverythingCommitted

\* A transcript of the first L words and of what was reported after them: it has every
\* word that has ended by a time x by which the report goes no further, and no others
\* than the next one, or a guess at it.
LEMMA EndingIs ==
    ASSUME speech \in Speeches, NEW L \in Nat, NEW J \in Nat, L <= J, J <= Len(speech), NEW t,
           NEW ws, Reports(ws, L, J, t), NEW x \in Int,
           \A n \in 1 .. Len(speech) : speech[n].end <= x => n <= J,
           NEW cm, cm = SubSeq(speech, 1, L) \o ws
    PROVE  /\ Embeds(Texts(Heard(0, x)), Texts(cm))
           /\ \E said \in Prefixes(Said) : Texts(cm) \in {said, Append(said, Garbled)}
<1> DEFINE V == Vocabulary \cup {Garbled}
           u == Texts(cm)
<1>1. /\ ws \in Seq(HeardWord) /\ Len(ws) \in {J - L, J - L + 1}
      /\ \A i \in 1 .. J - L : ws[i] = speech[L + i]
      /\ Len(ws) > J - L => /\ J < Len(speech)
                           /\ ws[J - L + 1].text \in {speech[J + 1].text, Garbled}
  BY DEF Reports
<1>2. /\ SubSeq(speech, 1, L) \in Seq(HeardWord) /\ Len(SubSeq(speech, 1, L)) = L
      /\ \A i \in 1 .. L : SubSeq(speech, 1, L)[i] = speech[i]
  <2>1. L \in 0 .. Len(speech)
    BY SpeechWords
  <2> QED
    BY <2>1, PrefixIs
<1>3. /\ cm \in Seq(HeardWord) /\ Len(cm) = L + Len(ws)
      /\ \A i \in 1 .. L + Len(ws) :
            cm[i] = IF i <= L THEN SubSeq(speech, 1, L)[i] ELSE ws[i - L]
  <2> DEFINE y == SubSeq(speech, 1, L)
  <2>1. y \in Seq(HeardWord) /\ Len(y) = L
    BY <1>2
  <2> HIDE DEF y
  <2>2. /\ y \o ws \in Seq(HeardWord) /\ Len(y \o ws) = Len(y) + Len(ws)
        /\ \A i \in 1 .. Len(y) + Len(ws) :
              (y \o ws)[i] = IF i <= Len(y) THEN y[i] ELSE ws[i - Len(y)]
    BY <1>1, <2>1, ConcatProperties
  <2>3. cm = y \o ws
    BY DEF y
  <2> QED
    BY <2>1, <2>2, <2>3 DEF y
<1>4. Len(cm) \in {J, J + 1} /\ Len(speech) \in Nat
  BY <1>1, <1>3, SpeechWords
<1>5. ASSUME NEW i \in 1 .. J PROVE cm[i] = speech[i]
  <2>1. CASE i <= L
    <3>1. i \in 1 .. L /\ i \in 1 .. L + Len(ws)
      BY <1>1, <2>1
    <3> QED
      BY <1>2, <1>3, <2>1, <3>1
  <2>2. CASE ~(i <= L)
    <3>1. i - L \in 1 .. J - L /\ L + (i - L) = i /\ i \in 1 .. L + Len(ws)
      BY <1>1, <2>2
    <3> QED
      BY <1>1, <1>3, <2>2, <3>1
  <2> QED
    BY <2>1, <2>2
<1>6. Len(cm) = J + 1 => /\ J + 1 \in 1 .. Len(speech)
                         /\ cm[J + 1].text \in {speech[J + 1].text, Garbled}
  <2> SUFFICES ASSUME Len(cm) = J + 1
               PROVE  /\ J + 1 \in 1 .. Len(speech)
                      /\ cm[J + 1].text \in {speech[J + 1].text, Garbled}
    OBVIOUS
  <2>1. Len(ws) = J - L + 1 /\ Len(ws) > J - L /\ J + 1 \in 1 .. L + Len(ws)
    BY <1>1, <1>3
  <2>2. cm[J + 1] = ws[J - L + 1]
    <3>1. ~(J + 1 <= L) /\ J + 1 - L = J - L + 1
      OBVIOUS
    <3> QED
      BY <1>3, <2>1, <3>1
  <2> QED
    BY <1>1, <1>4, <2>1, <2>2
<1>7. u \in Seq(V) /\ Len(u) = Len(cm) /\ \A i \in 1 .. Len(cm) : u[i] = cm[i].text
  BY <1>3, TextsOf
<1> HIDE DEF u
<1>8. Embeds(Texts(Heard(0, x)), u)
  <2>1. PICK K \in 0 .. Len(speech) : EndedBy(K, x)
    BY SomeEnded
  <2>2. K <= J /\ K \in Nat
    <3>1. K # 0 => K \in 1 .. Len(speech) /\ speech[K].end <= x
      BY <1>4, <2>1 DEF EndedBy
    <3> QED
      BY <1>4, <2>1, <3>1
  <2>3. Heard(0, x) = SubSeq(speech, 1, K)
    <3>1. BeginsAt(1, 0)
      BY SpeechWords DEF BeginsAt
    <3>2. 1 <= K + 1
      BY <2>2
    <3> QED
      BY <2>1, <3>1, <3>2, HeardIs
  <2> DEFINE y == SubSeq(speech, 1, K)
             s == Texts(y)
  <2>4. y \in Seq(HeardWord) /\ Len(y) = K /\ \A i \in 1 .. K : y[i] = speech[i]
    BY <2>1, PrefixIs
  <2>5. s \in Seq(V) /\ Len(s) = K /\ \A i \in 1 .. K : s[i] = speech[i].text
    BY <2>4, TextsOf
  <2> HIDE DEF s, V
  <2>6. DOMAIN s = 1 .. K /\ DOMAIN u = 1 .. Len(cm)
    BY <1>7, <2>5
  <2> DEFINE at == [i \in 1 .. K |-> i]
  <2>7. at \in [DOMAIN s -> DOMAIN u]
    BY <1>4, <2>2, <2>6
  <2>8. \A i, j \in DOMAIN s : i < j => at[i] < at[j]
    BY <2>6
  <2>9. \A i \in DOMAIN s : u[at[i]] = s[i]
    <3> SUFFICES ASSUME NEW i \in 1 .. K PROVE u[i] = s[i]
      BY <2>6
    <3>1. i \in 1 .. J /\ i \in 1 .. Len(cm)
      BY <1>4, <2>2
    <3> QED
      BY <1>5, <1>7, <2>5, <3>1
  <2>10. Embeds(s, u)
    <3> HIDE DEF at
    <3> QED
      BY <2>7, <2>8, <2>9 DEF Embeds
  <2> QED
    BY <2>3, <2>10 DEF s
<1>9. \E said \in Prefixes(Said) : u \in {said, Append(said, Garbled)}
  <2>1. speech \in Seq(HeardWord)
    <3>1. Spoken \subseteq HeardWord
      BY DEF Spoken, HeardWord
    <3> QED
      BY <3>1, SpeechWords, SeqMonotonic
  <2>2. Said \in Seq(V) /\ Len(Said) = Len(speech)
        /\ \A i \in 1 .. Len(speech) : Said[i] = speech[i].text
    BY <2>1, TextsOf DEF Said
  <2> DEFINE said(l) == SubSeq(Said, 1, l)
  <2> HIDE DEF V
  <2>3. ASSUME NEW l \in 0 .. Len(speech)
        PROVE  /\ said(l) \in Prefixes(Said) /\ said(l) \in Seq(V) /\ Len(said(l)) = l
               /\ \A i \in 1 .. l : said(l)[i] = speech[i].text
    <3>1. l \in Nat /\ \A i \in 1 .. l : Said[i] \in V /\ i \in 1 .. Len(speech)
      BY <1>4, <2>2, ElementOfSeq
    <3>2. /\ said(l) \in Seq(V) /\ Len(said(l)) = IF 1 <= l THEN l - 1 + 1 ELSE 0
          /\ \A i \in 1 .. l - 1 + 1 : said(l)[i] = Said[1 + i - 1]
      BY <3>1, SubSeqProperties
    <3>3. said(l) \in Prefixes(Said)
      BY <2>2 DEF Prefixes
    <3> QED
      BY <2>2, <3>1, <3>2, <3>3
  <2> HIDE DEF said
  <2>4. \A i \in 1 .. J : i \in 1 .. Len(cm) /\ u[i] = speech[i].text
    <3> SUFFICES ASSUME NEW i \in 1 .. J PROVE i \in 1 .. Len(cm) /\ u[i] = speech[i].text
      OBVIOUS
    <3>1. i \in 1 .. Len(cm)
      BY <1>4
    <3> QED
      BY <1>5, <1>7, <3>1
  <2>5. J \in 0 .. Len(speech)
    BY <1>4
  <2>6. CASE Len(cm) = J
    <3>1. u = said(J)
      BY <1>7, <2>3, <2>4, <2>5, <2>6, SeqEqual
    <3> QED
      BY <2>3, <2>5, <3>1
  <2>7. CASE Len(cm) = J + 1 /\ cm[J + 1].text = speech[J + 1].text
    <3>1. J + 1 \in 0 .. Len(speech) /\ Len(u) = J + 1
      BY <1>6, <1>7, <2>7
    <3>2. \A i \in 1 .. J + 1 : u[i] = speech[i].text
      <4>1. u[J + 1] = speech[J + 1].text
        BY <1>7, <2>7
      <4>2. \A i \in 1 .. J + 1 : i = J + 1 \/ i \in 1 .. J
        OBVIOUS
      <4> QED
        BY <2>4, <4>1, <4>2
    <3> DEFINE r == said(J + 1)
    <3>3. /\ r \in Prefixes(Said) /\ r \in Seq(V) /\ Len(r) = J + 1
          /\ \A i \in 1 .. J + 1 : r[i] = speech[i].text
      BY <2>3, <3>1
    <3> HIDE DEF r
    <3>4. u = r
      BY <1>7, <3>1, <3>2, <3>3, SeqEqual
    <3> QED
      BY <3>3, <3>4
  <2>8. CASE Len(cm) = J + 1 /\ cm[J + 1].text = Garbled
    <3>1. u[J + 1] = Garbled /\ Len(u) = J + 1 /\ Garbled \in V
      BY <1>7, <2>8 DEF V
    <3> DEFINE r == said(J)
               g == Append(r, Garbled)
    <3>2. r \in Seq(V) /\ Len(r) = J /\ \A i \in 1 .. J : r[i] = speech[i].text
      BY <2>3, <2>5
    <3> HIDE DEF r
    <3>3. /\ g \in Seq(V) /\ Len(g) = J + 1 /\ g[J + 1] = Garbled
          /\ \A i \in 1 .. J : g[i] = r[i]
      <4>1. r \in Seq(V) /\ Garbled \in V
        BY <3>1, <3>2
      <4>2. /\ Append(r, Garbled) \in Seq(V) /\ Len(Append(r, Garbled)) = Len(r) + 1
            /\ \A i \in 1 .. Len(r) : Append(r, Garbled)[i] = r[i]
            /\ Append(r, Garbled)[Len(r) + 1] = Garbled
        BY <4>1, AppendProperties
      <4> QED
        BY <3>2, <4>2
    <3> HIDE DEF g
    <3>4. \A i \in 1 .. J + 1 : u[i] = g[i]
      <4>1. \A i \in 1 .. J + 1 : i = J + 1 \/ i \in 1 .. J
        OBVIOUS
      <4> QED
        BY <2>4, <3>1, <3>2, <3>3, <4>1
    <3>5. u = g
      BY <1>7, <3>1, <3>3, <3>4, SeqEqual
    <3> QED
      BY <2>3, <2>5, <3>5 DEF g, r
  <2> QED
    BY <1>4, <1>6, <2>6, <2>7, <2>8
<1> QED
  BY <1>8, <1>9 DEF u

\* The end of a recording: a last decode, or the standing partial when less audio than a
\* decode is paid for is new.
LEMMA FinalizeKeeps ==
    ASSUME TranscriptInv, DrainAndFinalize
    PROVE  TranscriptInv'
<1>1. PICK t \in Nat : t = total + buffered
  BY DEF TranscriptInv
<1>2. /\ speech \in Speeches /\ total \in Nat /\ buffered \in Nat /\ ~closed
      /\ closed' /\ speech' = speech /\ buffered' = 0 /\ total' = t
      /\ total <= t /\ capped' = capped /\ Flush /\ FinalizeMin \in Nat
  <2>1. closed'
    BY DEF DrainAndFinalize
  <2> QED
    BY <1>1, <2>1, TranscriptAssumption DEF TranscriptInv, DrainAndFinalize, AddPcm
<1>3. ASSUME ~capped' PROVE FinalTranscript'
  <2>1. Following
    BY <1>2, <1>3 DEF TranscriptInv
  <2>2. PICK x \in Int : x = t + 1 - Max({1, FinalizeMin})
    BY <1>2, MaxOfTwo
  <2>3. x <= t /\ (FinalizeMin > 0 => x <= t + 1 - FinalizeMin)
    BY <1>2, <2>2, MaxOfTwo
  <2>4. PICK cm : cm = committed'
    OBVIOUS
  <2>5. PICK L \in 0 .. Len(speech) : L = Len(committed) /\ committed = SubSeq(speech, 1, L)
    BY <2>1 DEF Following
  <2>6. L \in Nat /\ Len(speech) \in Nat
    BY <1>2, SpeechWords
  <2>7. /\ Embeds(Texts(Heard(0, x)), Texts(cm))
        /\ \E said \in Prefixes(Said) : Texts(cm) \in {said, Append(said, Garbled)}
    <3>1. CASE buffered > 0 /\ buffered >= FinalizeMin
      <4>1. PICK h \in Hypotheses(origin, t) : committed' = committed \o DropAlreadyCommitted(h)
        BY <1>2, <3>1 DEF Flush
      <4>2. PICK J \in 0 .. Len(speech) : EndedBy(J, t)
        BY <1>2, SomeEnded
      <4>3. PICK d : d = DropAlreadyCommitted(h)
        OBVIOUS
      <4>4. L <= J /\ Reports(d, L, J, t)
        BY <1>2, <2>1, <2>5, <4>2, <4>3, FreshWords
      <4>5. cm = SubSeq(speech, 1, L) \o d
        BY <2>4, <2>5, <4>1, <4>3
      <4>6. ASSUME NEW n \in 1 .. Len(speech), speech[n].end <= x PROVE n <= J
        <5>1. speech[n].end <= t
          BY <1>2, <2>3, <4>6, SpeechWords
        <5> QED
          BY <4>2, <5>1 DEF EndedBy
      <4>7. J \in Nat /\ J <= Len(speech)
        BY <2>6
      <4> QED
        BY <1>2, <2>6, <4>4, <4>5, <4>6, <4>7, EndingIs
    <3>2. CASE ~(buffered > 0 /\ buffered >= FinalizeMin)
      <4>1. PICK K \in L .. Len(speech) : EndedBy(K, total) /\ Reports(pending, L, K, total)
        BY <2>1, <2>5 DEF Following
      <4>2. PICK d : d = pending
        OBVIOUS
      <4>3. cm = SubSeq(speech, 1, L) \o d
        BY <1>2, <2>4, <2>5, <3>2, <4>2 DEF Flush
      <4>4. x <= total
        BY <1>1, <1>2, <2>3, <3>2
      <4>5. ASSUME NEW n \in 1 .. Len(speech), speech[n].end <= x PROVE n <= K
        <5>1. speech[n].end <= total
          BY <1>2, <4>4, <4>5, SpeechWords
        <5> QED
          BY <4>1, <5>1 DEF EndedBy
      <4>6. K \in Nat /\ L <= K /\ K <= Len(speech) /\ Reports(d, L, K, total)
        BY <2>6, <4>1, <4>2
      <4> QED
        BY <1>2, <2>6, <4>3, <4>5, <4>6, EndingIs
    <3> QED
      BY <3>1, <3>2
  <2>8. Said' = Said /\ (total + 1 - Max({1, FinalizeMin}))' = x
    BY <1>2, <2>2 DEF Said
  <2>9. Heard(0, total + 1 - Max({1, FinalizeMin}))' = Heard(0, x)
    BY <1>2, <2>2 DEF Heard
  <2> QED
    BY <2>4, <2>7, <2>8, <2>9 DEF FinalTranscript, EverythingCommitted
<1> QED
  BY <1>2, <1>3 DEF TranscriptInv

\* Following holds before anything is said.
LEMMA TranscriptStarts ==
    ASSUME TranscriptInit
    PROVE  TranscriptInv
<1>1. /\ speech \in Speeches /\ buffered = 0 /\ total = 0 /\ origin = 0
      /\ committed = <<>> /\ pending = <<>> /\ ~closed
  BY DEF TranscriptInit
<1>2. EndedBy(0, 0)
  BY <1>1, SpeechWords DEF EndedBy
<1>3. Reports(<<>>, 0, 0, 0)
  BY DEF Reports
<1>4. committed = SubSeq(speech, 1, 0) /\ Len(committed) = 0 /\ Len(speech) \in Nat
  BY <1>1, SubSeqEmpty, SpeechWords
<1>5. Following
  BY <1>1, <1>2, <1>3, <1>4 DEF Following
<1> QED
  BY <1>1, <1>5 DEF TranscriptInv, FinalTranscript, EverythingCommitted

LEMMA TranscriptStep ==
    ASSUME TranscriptInv, [TranscriptNext]_transcriptVars
    PROVE  TranscriptInv'
<1>1. CASE Receive
  <2>1. /\ speech' = speech /\ origin' = origin /\ total' = total /\ committed' = committed
        /\ pending' = pending /\ closed' = closed /\ capped' = capped /\ ~closed
        /\ buffered' \in Nat
    BY <1>1 DEF Receive, TranscriptInv
  <2>2. Following => Following'
    BY <2>1 DEF Following, EndedBy, Reports
  <2> QED
    BY <2>1, <2>2 DEF TranscriptInv, FinalTranscript, EverythingCommitted
<1>2. CASE UNCHANGED transcriptVars
  BY <1>2 DEF transcriptVars, audio, TranscriptInv, Following, EndedBy, Reports, FinalTranscript,
              EverythingCommitted, Heard, Said
<1> QED
  BY <1>1, <1>2, DecodeKeeps, FinalizeKeeps DEF TranscriptNext

\* While the recording runs, the invariant is what LiveTranscript says.
LEMMA FollowingIsLive ==
    ASSUME speech \in Speeches, Following
    PROVE  /\ IsPrefix(Texts(committed), Said)
           /\ \A n \in DOMAIN Said : n > Len(committed) => origin <= speech[n].start
<1>1. PICK L \in 0 .. Len(speech) : L = Len(committed) /\ committed = SubSeq(speech, 1, L)
  BY DEF Following
<1>2. L \in Nat /\ Len(speech) \in Nat
  BY SpeechWords
<1> DEFINE V == Vocabulary \cup {Garbled}
<1>3. speech \in Seq(HeardWord)
  <2>1. Spoken \subseteq HeardWord
    BY DEF Spoken, HeardWord
  <2> QED
    BY <2>1, SpeechWords, SeqMonotonic
<1>4. Said \in Seq(V) /\ Len(Said) = Len(speech)
      /\ \A i \in 1 .. Len(speech) : Said[i] = speech[i].text
  BY <1>3, TextsOf DEF Said
<1>5. committed \in Seq(HeardWord) /\ \A i \in 1 .. L : committed[i] = speech[i]
  BY <1>1, PrefixIs
<1> DEFINE u == Texts(committed)
<1>6. u \in Seq(V) /\ Len(u) = L /\ \A i \in 1 .. L : u[i] = committed[i].text
  BY <1>1, <1>5, TextsOf
<1> HIDE DEF u, V
<1>7. \A i \in 1 .. L : u[i] = Said[i]
  BY <1>2, <1>4, <1>5, <1>6
<1>8. SubSeq(u, L - L + 1, L) = SubSeq(Said, 1, L)
  <2>1. L <= L /\ L <= Len(u) /\ L <= Len(Said)
    BY <1>2, <1>4, <1>6
  <2>2. SubSeq(u, L - L + 1, L) = SubSeq(Said, 1, L) <=> \A i \in 1 .. L : u[L - L + i] = Said[i]
    BY <1>2, <1>4, <1>6, <2>1, SameStretch
  <2> QED
    BY <1>2, <1>7, <2>2
<1>9. IsPrefix(u, Said)
  BY <1>2, <1>4, <1>6, <1>8 DEF IsPrefix
<1>10. ASSUME NEW n \in DOMAIN Said, n > Len(committed)
       PROVE  origin <= speech[n].start
  <2>1. n \in 1 .. Len(speech)
    BY <1>4
  <2>2. FirstHeard(L) <= n
    BY <1>1, <1>2, <1>10, <2>1, TranscriptAssumption DEF FirstHeard
  <2> QED
    BY <1>1, <2>1, <2>2, WindowStart DEF BeginsAt
<1> QED
  BY <1>9, <1>10 DEF u

-----------------------------------------------------------------------------
\* StreamingSession while it records, for whatever is said at whatever length, window,
\* chunk and backlog: until the hard cap cuts the window, what is committed is what was
\* said from its start on, and no audio is dropped before its words are committed.
THEOREM CommittedAsSaid == TranscriptSpec => []LiveTranscript
<1>1. TranscriptInv => LiveTranscript
  BY FollowingIsLive DEF TranscriptInv, LiveTranscript
<1> QED
  BY <1>1, TranscriptStarts, TranscriptStep, PTL DEF TranscriptSpec

\* And at its end: as long as the hard cap has not cut the window, the final transcript
\* has every word up to the sliver of audio that finalize does not decode, and nothing
\* else but the next word or a guess at it.
THEOREM TranscribedAsSaid == TranscriptSpec => [](~capped => TranscriptTrue)
<1>1. TranscriptInv => (~capped => TranscriptTrue)
  BY FollowingIsLive DEF TranscriptInv, LiveTranscript, TranscriptTrue
<1> QED
  BY <1>1, TranscriptStarts, TranscriptStep, PTL DEF TranscriptSpec
=============================================================================
